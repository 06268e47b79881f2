CONSTANTS
    h0 = h0
    h1 = h1
    NPROC = 2
    Hart = {h0, h1}
    ClockHart = h0
    Calls = {"fork", "exit", "wait", "kill", "sleep"}
    KillPids = {1, 2}
    MaxPid = 2
    TICKS = 2
    MaxNap = 1
SPECIFICATION FairBoth
PROPERTIES WaitReturns KilledExits LocksReleased

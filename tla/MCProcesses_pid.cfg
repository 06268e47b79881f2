CONSTANTS
    h0 = h0
    h1 = h1
    NPROC = 2
    Hart = {h0, h1}
    ClockHart = h0
    Calls = {"fork", "wait", "kill"}
    KillPids = {0}
    MaxPid = 2
    TICKS = 1
    MaxNap = 0
SPECIFICATION SpecBoth
INVARIANT KilledByPid

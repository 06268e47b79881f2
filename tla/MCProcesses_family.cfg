CONSTANTS
    h0 = h0
    h1 = h1
    NPROC = 3
    Hart = {h0, h1}
    ClockHart = h0
    Calls = {"fork", "exit", "wait", "kill", "fault", "sleep"}
    KillPids = {2, 3}
    MaxPid = 3
    TICKS = 2
    MaxNap = 1
SPECIFICATION SpecBoth
INVARIANTS OneHart NoLostWakeup FamilyTree KilledByPid

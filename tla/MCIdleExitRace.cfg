CONSTANTS
    Runs = {r1}
    Clients = {c1}
    IdleExit = 2
    Rescan = 0
SPECIFICATION Spec
PROPERTIES
    IdleExitKillsNoJob
CHECK_DEADLOCK FALSE

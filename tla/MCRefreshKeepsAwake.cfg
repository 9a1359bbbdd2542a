CONSTANTS
    Runs = {r1}
    Clients = {c1}
    IdleExit = 2
    Rescan = 2
SPECIFICATION FairSpec
PROPERTIES
    ExitsWhenUnused
CHECK_DEADLOCK FALSE

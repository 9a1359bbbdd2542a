CONSTANTS
    Runs = {r1, r2}
    Clients = {c1}
    IdleExit = 2
    Rescan = 3
    Keys = {k1, k2}
    Edited = {k1}
    MaxVersion = 1
    MaxMethod = 2
    MaxBoots = 2
    MaxFaults = 1
    MaxLate = 1
SPECIFICATION ServerFairSpec
INVARIANTS
    StatusHonest
PROPERTIES
    ExitsWhenUnused
    EveryRunEnds
    ImplementsResultStore
    EveryStaleRefreshed
CHECK_DEADLOCK FALSE

CONSTANTS
    Runs = {r1, r2}
    Analyses = {a1}
    Hooked = {r1}
    Exporting = {}
    Retries = 1
    AIRefresh = TRUE
SPECIFICATION FairSpec
PROPERTIES
    EveryRunSettles
    SlotComesFree
CHECK_DEADLOCK FALSE

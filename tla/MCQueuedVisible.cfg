CONSTANTS
    Runs = {r1, r2}
    Analyses = {}
    Hooked = {}
    Exporting = {}
    Retries = 0
    AIRefresh = FALSE
SPECIFICATION Spec
INVARIANTS
    QueuedVisible
CHECK_DEADLOCK FALSE

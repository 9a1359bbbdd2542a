SPECIFICATION EngineSpec
CONSTANTS
    N = 2
    Workers = {w1, w2}
    Programs <- MCLibraryUsers
    Files = {}
    Submissions = 2
    References = {}
    Patterns <- MCPatterns
    MinMatch = 2
INVARIANTS
    LibraryFound
CHECK_DEADLOCK FALSE

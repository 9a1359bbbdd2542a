SPECIFICATION EngineFairSpec
CONSTANTS
    N = 2
    Workers = {w1, w2}
    Programs <- MCPrograms
    Files <- MCFiles
    Submissions = 2
    References <- MCReferences
    Patterns <- MCPatterns
    MinMatch = 2
INVARIANTS
    EachGradedOnce
    CompiledIsBuilt
    TokensMatchedOnce
    CopiesMatchFully
    ScoresAreShares
PROPERTIES
    BarNeverBack
    PipelineEnds
CHECK_DEADLOCK FALSE

SPECIFICATION ExecutionFairSpec
CONSTANTS
    Plans <- MCPlans
    Reports <- MCReports
    MaxReports = 2
    Scenarios <- MCScenarios
INVARIANTS
    FreshFileOnly
    PassIsEarned
    BlameIsRight
    AllPassedEarned
    VerdictIsOwn
PROPERTIES
    ExecutionEnds
CHECK_DEADLOCK FALSE

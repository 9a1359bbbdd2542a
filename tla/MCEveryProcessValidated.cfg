SPECIFICATION ExecutionSpec
CONSTANTS
    Plans <- MCPlans
    Reports <- MCReports
    MaxReports = 2
    Scenarios = {}
INVARIANTS
    EveryProcessValidated
CHECK_DEADLOCK FALSE

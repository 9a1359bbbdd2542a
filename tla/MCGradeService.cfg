CONSTANTS
    Runs = {r1, r2}
    Analyses = {a1}
    Hooked = {r1}
    Exporting = {r2}
    Retries = 1
    AIRefresh = TRUE
    Legacy = {old}
    New = {new}
    Terms = {t1, t2}
    Grader = Grader
    NoRun = NoRun
    MaxBoots = 2
SPECIFICATION ServiceSpec
INVARIANTS
    TypeOK
    SlotExclusive
    ActivityCounted
    OutcomeHonest
    NoOrphanDir
    ReceiverSeesOutcome
    ShellWhole
    RefusedWithReason
PROPERTIES
    JustGradedKept
    CancelledByCaller
    SettledIsFinal
    ImplementsGradeQueue
CHECK_DEADLOCK FALSE

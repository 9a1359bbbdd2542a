CONSTANTS
    Runs = {r1}
    Analyses = {}
    Hooked = {r1}
    Exporting = {}
    Retries = 1
    AIRefresh = FALSE
    Legacy = {old}
    New = {new}
    Terms = {t1, t2}
    Grader = Grader
    NoRun = NoRun
    MaxBoots = 2
SPECIFICATION ServiceSpec
INVARIANT
    JustGradedKeepsTerminal
CHECK_DEADLOCK FALSE

CONSTANTS
    Ids = {a, b}
    Conns = {c1, c2}
    Sessions = {s1, s2}
    MaxSessions = 1
    MaxPanes = 1
    None = None
    Panes = {p1}
SPECIFICATION TerminalsFairSpec
INVARIANTS
    LimitsKept
    NothingStray
    LingerIffEmpty
    Attended
PROPERTIES
    JoinsAnswered
    ScratchReclaimed
    PanesLetGo
    PaneEnds
CHECK_DEADLOCK FALSE

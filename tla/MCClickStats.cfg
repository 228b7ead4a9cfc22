CONSTANTS
    Click = {k0, k1, k2}
    Link = {1, 2}
    Campaign = {c}
    Past = k0
    Utm <- MCUtm
    Inbound = {0}
    Reader = {r}
    MaxDay = 1
    Span = 1
    SourceCap = 2
    SeriesCap = 1
    Schedules <- MCSchedules
    Earlier <- MCEarlier
    Asked <- MCAsked
    None = None
SPECIFICATION Spec
SYMMETRY Symmetry
CHECK_DEADLOCK FALSE
INVARIANT ClicksInv
INVARIANT AnswerConsistent
INVARIANT WindowsSound
PROPERTY HistoryKept

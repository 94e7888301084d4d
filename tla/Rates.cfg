SPECIFICATION Spec
CONSTANTS
    Times = {1, 2, 3}
    Forever = 9
    Rates <- TwoRates
    Pollers = {p1}
    Historians = {h1, h2}
    Grace = 1
    MaxTasks = 4
INVARIANTS
    TypeOK
    HistoryTiles
    HistoryAnswers
    OrphanGuardSilent
    FreshIsLastReport
PROPERTIES
    FreshSettled
CHECK_DEADLOCK FALSE

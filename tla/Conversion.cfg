SPECIFICATION Spec
CONSTANTS
    mono = mono
    nbu = nbu
    none = none
    usd = usd
    eur = eur
    uah = uah
    gbp = gbp
    Sources = {mono, nbu}
    PolledSources = {mono}
    Configs <- Chains
    NoSource = none
    Menu <- SmallMenu
    Goals <- Tries
    Times = {1, 2, 3, 4}
    Grace = 1
    MaxAge = 1
    MaxDepth = 3
    MaxRows = 4
INVARIANTS
    TypeOK
    BestPathWhenQuiet
    WritesNeverWorsen
    NeverOverstates
CHECK_DEADLOCK FALSE

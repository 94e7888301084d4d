SPECIFICATION FairSpec
CONSTANTS
    fop = fop
    black = black
    white = white
    Accounts = {fop, black, white}
    NoIban = NoIban
    Stranger = Stranger
    Txs = {1, 2, 3}
    Statements <- AllStatements
    Replayed <- TwoExpenses
    Workers = {w1, w2}
    NoTx = NoTx
    MaxFaults = 1
    MaxJobs = 1
    MaxRestores = 1
INVARIANTS
    TypeOK
    PairsMutual
    UnpairedExplained
PROPERTIES
    StrongestPartner
    MatesFindEachOther
CHECK_DEADLOCK FALSE

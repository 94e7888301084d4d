SPECIFICATION Spec
CONSTANTS
    c1 = c1
    c2 = c2
    black = black
    white = white
    Clients <- TwoCustomers
    CardsOf <- OneCardEach
    Requests = {r1, r2}
    Roles = {"owner", "grosh_ingestion"}
    BackoffLimit = 1
    MaxOps = 4
    MaxFaults = 1
INVARIANTS
    TypeOK
    OneAccountPerCard
    OwnCustomerOnly
    ReportsArrive
    OverlapAtLastAttempt
CHECK_DEADLOCK FALSE

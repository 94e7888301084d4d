SPECIFICATION FairSpec
CONSTANTS
    u1 = u1
    u2 = u2
    Users = {u1, u2}
    Requests = {r1, r2}
    Nobody = Nobody
    Bodies <- SmallBodies
    MaxGhosts = 1
    MaxDeaths = 1
INVARIANTS
    TypeOK
    OneJobPerUser
PROPERTIES
    RateLimitHolds
    EveryRequestAnswered
CHECK_DEADLOCK FALSE

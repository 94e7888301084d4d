SPECIFICATION Spec
CONSTANTS
    u1 = u1
    r1 = r1
    r2 = r2
    r3 = r3
    Users = {u1}
    LoggedIn <- Devices
    Requests = {r1, r2, r3}
    AccessTTL = 1
    RefreshTTL = 1
    MaxTime = 2
    MaxRequests = 3
    MaxFaults = 1
SYMMETRY Connections
INVARIANTS
    TypeOK
    LogoutAllEndsSessions
    EndedAccessRefused
    SpentTokenRefused
    DeadlocksNeedBulkDelete
CHECK_DEADLOCK FALSE

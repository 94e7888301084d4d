SPECIFICATION Spec
CONSTANTS
    p1 = p1
    Pods = {p1}
    NoPod = NoPod
    Tx = {1, 2}
    MaxArrivals = 1
    MaxFailures = 0
    MaxDrops = 0
    MaxRollbacks = 0
    StrictRouting = TRUE
INVARIANT NoEventLost
CHECK_DEADLOCK FALSE

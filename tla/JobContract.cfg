SPECIFICATION FairSpec
CONSTANTS
    p1 = p1
    p2 = p2
    Pods = {p1, p2}
    NoPod = NoPod
    Tx = {1, 2}
    MaxArrivals = 1
    MaxFailures = 1
    MaxDrops = 1
    MaxRollbacks = 0
    StrictRouting = FALSE
INVARIANT StrandedKeepsLock
PROPERTIES
    RefinesContract
    JobReleasesLock
CHECK_DEADLOCK FALSE

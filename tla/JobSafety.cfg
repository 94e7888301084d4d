SPECIFICATION Spec
CONSTANTS
    p1 = p1
    p2 = p2
    Pods = {p1, p2}
    NoPod = NoPod
    Tx = {1, 2}
    MaxArrivals = 1
    MaxFailures = 1
    MaxDrops = 1
    MaxRollbacks = 1
    StrictRouting = FALSE
INVARIANTS
    TypeOK
    BackupHonoured
    ReplayConserved
SYMMETRY PodSymmetry
CHECK_DEADLOCK FALSE

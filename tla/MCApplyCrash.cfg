SPECIFICATION Spec
CONSTANTS
    k1 = k1
    r1 = r1
    r2 = r2
    Keys = {k1}
    Replicas = {r1, r2}
    Batches <- MCWrites
    Together = {}
    SnapCount = 3
    CatchUp = 0
    MaxLog = 3
    MaxCrashes = 1
INVARIANTS
    RecoveredByReplay
CHECK_DEADLOCK FALSE

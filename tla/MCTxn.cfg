CONSTANTS
    s1 = s1
    s2 = s2
    k1 = k1
    k2 = k2
    t1 = t1
    t2 = t2
    r1 = r1
    r2 = r2
    None = None
    Earlier = Earlier
    InitTs = 0
    Shards = {s1, s2}
    Keys = {k1, k2}
    ShardOf <- TwoShards
    Txns = {t1}
    Writes <- AllKeys
    Deletes <- NoKeys
    Transforms <- NoKeys
    Reads <- NoKeys
    Replicas = {r1, r2}
    MaxTs = 1
    Skew = FALSE
    Prompt = TRUE
    ReadBackFails = TRUE
SPECIFICATION Spec
INVARIANTS TypeOK Atomicity CommitPoint ClientTruth NoWriteLost SyncVisible
PROPERTIES DecisionFinal CleanupSafe ImplementsAtomicCommit
SYMMETRY Symmetry
CHECK_DEADLOCK FALSE

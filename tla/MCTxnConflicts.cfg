CONSTANTS
    s1 = s1
    s2 = s2
    k1 = k1
    k2 = k2
    t1 = t1
    t2 = t2
    r1 = r1
    r2 = r2
    None = None
    Earlier = Earlier
    InitTs = 2
    Shards = {s1}
    Keys = {k1}
    ShardOf <- OneShard
    Txns = {t1, t2}
    Writes <- AllKeys
    Deletes <- NoKeys
    Transforms <- NoKeys
    Reads <- AllKeys
    Replicas = {r1}
    MaxTs = 4
    Skew = TRUE
    Prompt = TRUE
    ReadBackFails = FALSE
SPECIFICATION Spec
SYMMETRY TxnSymmetry
INVARIANTS OneUpdatePerVersion AppliedVisible
PROPERTIES ReadsMatchAtCommit HigherTimestampWins
CHECK_DEADLOCK FALSE

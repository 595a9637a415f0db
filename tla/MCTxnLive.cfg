CONSTANTS
    s1 = s1
    s2 = s2
    k1 = k1
    k2 = k2
    t1 = t1
    t2 = t2
    r1 = r1
    r2 = r2
    None = None
    Earlier = Earlier
    InitTs = 0
    Shards = {s1, s2}
    Keys = {k1, k2}
    ShardOf <- TwoShards
    Txns = {t1}
    Writes <- FirstKey
    Deletes <- SecondKey
    Transforms <- NoKeys
    Reads <- NoKeys
    Replicas = {r1}
    MaxTs = 1
    Skew = FALSE
    Prompt = TRUE
    ReadBackFails = FALSE
SPECIFICATION FairSpec
PROPERTIES CommittedResolves PendingDecided
CHECK_DEADLOCK FALSE

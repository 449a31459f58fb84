\* Two keys that share three socket names, one of them warmed up, a pool of two.
CONSTANTS
    Key = {k1, k2}
    WarmKey = {k1}
    Ws = {w1, w2, w3}
    Task = {t1, t2}
    PoolSize = 2
    MaxAge = 1
    Pending = Pending
    Failed = Failed
    NoKey = NoKey
SPECIFICATION FairSpec
INVARIANTS TypeOK BucketBound ExclusiveOwner
PROPERTIES StaleSwept ImplementsStore RefillEnds

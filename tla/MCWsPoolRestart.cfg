\* The proxy is stopped and started again in the same process.
CONSTANTS
    Key = {k1}
    WarmKey = {k1}
    Ws = {w1, w2, w3}
    Task = {t1, t2, t3}
    PoolSize = 2
    MaxAge = 1
    Pending = Pending
    Failed = Failed
    NoKey = NoKey
SYMMETRY Symmetry
SPECIFICATION RestartSpec
INVARIANT BucketBound

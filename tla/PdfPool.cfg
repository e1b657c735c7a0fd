SPECIFICATION FairSpec
CONSTANTS
    Browsers = {b1, b2}
    Callers = {r1, r2, q}
    Queue = q
    Payloads = {p1, p2}
    CacheSize = 1
    None = None
INVARIANTS
    PoolConsistent
    OneRenderPerPayload
    NoUsableBrowserLost
PROPERTIES
    EveryCallerIsAnswered
CHECK_DEADLOCK FALSE

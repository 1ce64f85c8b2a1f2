CONSTANTS
    Threads = {t1, t2}
    Ttl = 3
    MaxTime = 7
SPECIFICATION CacheSpec
INVARIANT NoStorm
PROPERTY FreshHit
CHECK_DEADLOCK FALSE

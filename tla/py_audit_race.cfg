SPECIFICATION Spec
CONSTANTS
    Threads = {t1, t2}
    Ids = {k1}
    Canaries = {c1}
    Secrets = {s1, s2}
    None = None
    Limit = 1
    MaxCalls = 2
INVARIANT UntouchedLogVerifies
CHECK_DEADLOCK FALSE

SPECIFICATION Spec
CONSTANTS
    Threads = {t1, t2}
    Ids = {k1}
    Canaries = {c1}
    Secrets = {s1, s2, s3, s4}
    None = None
    Limit = 1
    MaxCalls = 3
SYMMETRY Symmetry
VIEW Seen
INVARIANTS ChainIntact PairsMatch RotatedKeysGone NoFalseBreach
PROPERTY LimitRotates
CHECK_DEADLOCK FALSE

SPECIFICATION FairSpec
CONSTANTS
    Threads = {t1, t2}
    A = A
    B = B
    Ids = {A, B}
    None = None
    NewIds <- MCNewIds
    MaxCalls = 4
INVARIANT AuditReplays
PROPERTIES RevocationHolds EveryCallReturns
CHECK_DEADLOCK FALSE

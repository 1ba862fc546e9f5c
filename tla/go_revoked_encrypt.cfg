SPECIFICATION EncryptAndRevoke
CONSTANTS
    Threads = {t1, t2}
    A = A
    B = B
    Ids = {A, B}
    None = None
    NewIds <- MCNewIds
    MaxCalls = 2
PROPERTY RevokedNeverEncrypts
CHECK_DEADLOCK FALSE

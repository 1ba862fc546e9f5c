\* two overlapping invocations, one passphrase, no fault
SPECIFICATION EncryptOnly
CONSTANTS
    Procs = {p1, p2}
    KeyIds = {k1, k2}
    Passphrases = {alice}
    Secrets = {s1, s2}
    NoSecret = NoSecret
    Sealless = Sealless
    Faults = {}
INVARIANT KemKeysKept
CHECK_DEADLOCK FALSE

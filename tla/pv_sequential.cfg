\* one invocation at a time, one passphrase, no fault
SPECIFICATION Spec
CONSTANTS
    Procs = {p1}
    KeyIds = {k1, k2}
    Passphrases = {alice}
    Secrets = {s1, s2, s3, s4}
    NoSecret = NoSecret
    Sealless = Sealless
    Faults = {}
INVARIANTS KemKeysKept NothingRefused
PROPERTY StoreImplemented
CHECK_DEADLOCK FALSE

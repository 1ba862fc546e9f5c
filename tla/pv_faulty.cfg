\* two overlapping invocations, two passphrases, every fault
SPECIFICATION Spec
CONSTANTS
    Procs = {p1, p2}
    KeyIds = {k1}
    Passphrases = {alice, bob}
    Secrets = {s1, s2, s3}
    NoSecret = NoSecret
    Sealless = Sealless
    Faults = {"crash", "create", "short"}
SYMMETRY Symmetry
INVARIANTS SealedUnderOwner DuplicatesCollapse
CHECK_DEADLOCK FALSE

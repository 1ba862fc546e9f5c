SPECIFICATION Spec
CONSTANTS
    Keys = {ka, kb, kc}
    Empty = Empty
    Owners = {alice, bob}
    Times = {1, 2}
    NoExpiry = 0
    MaxHeight = 3
    KeyIds = {k1, k2}
    Limits = {0, 1}
    MaxTime = 2
    MaxUses = 2
    MaxEntries = 3
    Events <- MCEvents
    AuthFailure <- MCFailure
    KeyRevoke <- MCRevoke
    KeyRotation <- MCRotation
    max_consecutive = 0
    max_ratio <- MCRatio
    MaxLog = 3
    MaxFaults = 2
INVARIANTS OneKeyOneEntity LatestRevocationFound FirstBreakFound EveryLongRunFlagged
PROPERTIES NeverRevived SameHeightSameAnswer DueUntilRegistered
CHECK_DEADLOCK FALSE

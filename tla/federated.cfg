SPECIFICATION Spec
CONSTANTS
    Nodes <- MCNodes
    Keys = {k1}
    Values = {v}
    Tombstone = Tombstone
    Nothing = Nothing
    MaxClock = 3
INVARIANTS ReplicaLatest Agree
PROPERTY StoreImplemented
CHECK_DEADLOCK FALSE
CONSTRAINT FewWrites

SPECIFICATION Spec
CONSTANTS
    Members = {m1, m2}
    Parties <- MCParties
    Shares <- MCShares
    None = None
    Nonces = {1, 2, 3}
    TotalParties = 2
    Threshold = 2
    MaxRounds = 2
    Order <- MCOrder
    Messages <- MCMessages
INVARIANTS SharesCommitted AgreedHeld NoReplay EarlyNotSpent
CONSTRAINT FewAggregates
CHECK_DEADLOCK FALSE

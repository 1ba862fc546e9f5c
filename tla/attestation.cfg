SPECIFICATION Spec
CONSTANTS
    Builds = {"simulator", "release"}
    Registers = {"pcr0", "pcr1", "pcr2"}
    Platforms <- MCPlatforms
    Policies <- MCPolicies
    Ids = {k1}
    Data = {d1, d2}
    Zeros = Zeros
    Unchecked = 0
    Refused = Refused
    MaxBlobs = 2
    MaxTries = 2
    QuoteMaxAge = 1
    RequireMarker = TRUE
    ReportMaxAge = 0
    Routing <- MCRouting
    MaxLead = 1
    MaxClock = 2
    MaxEvidence = 2
    MaxBatch = 2
INVARIANTS StorageAnswersByPolicy SealedComesBack AcceptedRecent RefusedForGood BatchAnswersAll

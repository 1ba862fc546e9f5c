SPECIFICATION Spec
CONSTANTS
    p1 = p1
    p2 = p2
    p3 = p3
    Passwords = {p1, p2, p3}
    Salts = {long, short}
    ShortSalts = {short}
    Lossy <- MCLossy
    Lengths = {0, 16, 32, 33, 65}
    KeyLength = 32
    MaxLength = 64
    capacity = 3
    P = 7
    MaxShares = 5
    CliMaxShares = 6
    ThresholdArgs = {1, 2, 3}
    ShareArgs = {2, 4, 6, 7}
    MaxJoin = 4
    Participants = {ann, ben}
    Bases = {b1, b2, EmptyShare}
    EmptyShare = EmptyShare
    Seeds = {seed}
    Thresholds = {2, 3}
    IndexModulus = 2
    LastEpoch = 3
    MaxSteps = 3
    Threads = {t1, t2}
    KeyIds = {k1, k2}
    MaxKeys = 3
    QubitCounts = {0, 4}
    SampleSizes = {0, 1, 2}
    MaxQbers <- MCRates
    Noisy = {TRUE, FALSE}
    MethodIds = {m1, m2, EmptyId}
    EmptyId = EmptyId
    Jwks = {j1, j2}
    MaxMethods = 3
    MaxRelations = 2
    Servers = {s1, s2}
    Clients = {c1}
    MaxPerWindow = 1
    Window = 2
    LastSecond = 4
    MaxPosts = 4
    Instances = {i1, i2}
    Nobody = Nobody
    KeyNames = {m1, m2}
    m1 = m1
    oldPair = oldPair
    Pairs = {pair}
    CanaryIds = {canary}
    CanaryPair = CanaryPair
    OldKeys <- MCOldKeys
    MaxStores = 2
    MaxSaves = 2
INVARIANTS CacheSound RateLimited LoadsLastSave ThresholdScheme PlanSharesNew SealedOpens KeyNotSampled ReferencesResolve
CHECK_DEADLOCK FALSE

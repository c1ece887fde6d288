\* Every endpoint, in production and outside it, with a store that may fail and a
\* process that stops and starts again; one key over two hours, with windows of 2 and 4
\* ticks; two sites that publish and withdraw their keys, a document that lives 2 ticks
\* and a backoff of 1; three threads and one target of the firewall.
SPECIFICATION ServiceSpec
CONSTANTS
    Contents = {c1, c2}
    Environments <- MCEnvironments
    Engines <- MCEngines
    MaxRequests = 3
    MaxBoots = 2
    Subjects = {"quotas", "keys"}
    MaxTime = 7
    Clients = {client}
    Unregistered = Unregistered
    PerMinute = 2
    PerHour = 3
    TokensPerMinute = 4
    Minute = 2
    Hour = 4
    TokenCounts = {1, 3, 5}
    i1 = i1
    u1 = u1
    u2 = u2
    plain = plain
    Keys <- MCKeys
    Rotating <- MCRotating
    Https = {u1, u2}
    Tokens <- MCTokens
    JwksConfigs <- MCConfigs
    Unset = Unset
    NoIssuer = NoIssuer
    ttl = 2
    Backoff = 1
    Slow = 1
    MaxChanges = 2
    Threads = {t1, t2, t3}
    Hosts = {h1}
    Default = default
    Threshold = 2
    RequireBound = FALSE
    MaxFailed = 3
SYMMETRY ContentSymmetry
CHECK_DEADLOCK FALSE
INVARIANTS
    AnswerIsRecorded
    StoredIsNamed
    ProductionRemembers
    AskedIsBound
    AtMostTwiceTheQuota
    RetryAfterIsRight
    AcceptedIsVouchedFor
    NewKeyIsSeen
    OpenStopsRequests
    EffectIsRecorded

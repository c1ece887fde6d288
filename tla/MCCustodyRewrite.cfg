\* Heads and policy commits of one tenant, sinks that work.
CONSTANTS
    Gates = {g1}
    Digests = {d1}
    NoDigest = NoDigest
    AnchorN = 2
    SinkFails = FALSE
    MaxRecords = 5
    MaxEpoch = 5
    MaxQueue = 3
    MaxGap = 2
    MaxRestarts = 0
SPECIFICATION Spec
PROPERTIES CommitsAreNeverRewritten

\* A failing sink, two policy sets or none, one gate thread and the loop, a restart.
CONSTANTS
    Gates = {g1}
    Digests = {d1, d2}
    NoDigest = NoDigest
    AnchorN = 1
    SinkFails = TRUE
    MaxRecords = 2
    MaxEpoch = 2
    MaxQueue = 2
    MaxGap = 1
    MaxRestarts = 1
SPECIFICATION FairSpec
INVARIANTS HonestIsNeverContradicted TamperingShows
PROPERTIES EveryCommitLands

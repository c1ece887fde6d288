\* A gate that may raise.
CONSTANTS
    Calls = {c1, c2, c3}
    PoolSize = 2
    TimeoutLimit = 2
    ShortTimeout = TRUE
    FaultModels <- MCRaisingGate
SPECIFICATION FairSpec
PROPERTIES ProbeReleases

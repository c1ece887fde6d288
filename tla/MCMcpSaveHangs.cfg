\* A save of the gate that may not return.
CONSTANTS
    Calls = {c1, c2}
    PoolSize = 1
    TimeoutLimit = 2
    ShortTimeout = TRUE
    FaultModels <- MCHangingSave
SPECIFICATION FairSpec
PROPERTIES ReconcileEnds

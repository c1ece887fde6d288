\* One process, its counters and the sum of SLO-1.
SPECIFICATION Spec
CONSTANTS
    Contents = {c1}
    Environments <- MCProduction
    Engines <- MCCitable
    MaxRequests = 3
    MaxBoots = 1
CHECK_DEADLOCK FALSE
INVARIANT SumCloses

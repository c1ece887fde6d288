\* Three calls on a gate of one thread, so that a probe may queue behind a hung job, under
\* two fault models.
CONSTANTS
    Calls = {c1, c2, c3}
    PoolSize = 1
    TimeoutLimit = 2
    ShortTimeout = TRUE
    FaultModels <- MCFaultModels
SPECIFICATION FairSpec
INVARIANTS EffectIsAuthorised LateAllowIsReconciled 
PROPERTIES HungProbeReleases

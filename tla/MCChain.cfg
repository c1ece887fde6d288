\* Two writers race to extend one tenant's chain beside another tenant's writer; a table
\* written by builds of several ages is altered once and exported; three workers
\* race to store and purge the same content, or one is served between restores.
SPECIFICATION ChainSpec
CONSTANTS
    None = None
    w1 = w1
    w2 = w2
    w3 = w3
    A = A
    B = B
    Writers <- MCWriters
    Tenants <- MCTenants
    Scope <- MCScope
    Requests <- MCRequests
    RequireBound = TRUE
    LegacyStores <- MCLegacyStores
    MaxRows = 2
    Bodies <- MCBodies
    Edits <- MCEdits
    MaxStored = 3
    MaxDamage = 1
    Workers = {k1, k2, k3}
    Contents = {c1, c2}
    NoContent = NoContent
    Sites <- MCSites
CHECK_DEADLOCK FALSE
INVARIANTS
    TypeOK
    MemoryIsStorePrefix
    StoreIsLinked
    AckedIsStored
    RunningChainsVerify
    VerifyIsExact
    OnlyEndsGoUnnoticed
    NoFalseAccusation
    SnapshotIsGenuine
    NoBodyMissing
    AttestationFollowsDeletion
    OneAttestor
    GreenMeansAgreement
    UnattestedIsReported
    PurgeIsFinal
PROPERTIES
    ForkIffBehind
    ImplementsLedger

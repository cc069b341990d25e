CONSTANTS
    BatchThreshold = 2
    StoreKind = "postgres"
    NoRevision = NoRevision
    Commands = {c1, c2}
    Reads = {r1}
    Declarable = {NoRevision, 1}
    MaxEvents = 1
    Peer = Peer
    MaxPeerWrites = 2
    OverlapWrites = TRUE
    SnapshotInterval = 2
    DeleteEventsOnSnapshot = FALSE
    DeleteSnapshotsOnSnapshot = TRUE
    EventsRetentionCount = 0
SPECIFICATION Spec
INVARIANTS
    
    ConfirmedIsCommitted
    DeclaredRevisionRespected
PROPERTIES
    NoneStranded

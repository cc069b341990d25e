CONSTANTS
    StoreKind = "postgres"
    NoRevision = NoRevision
    Commands = {c1, c2}
    Reads = {r1}
    Declarable = {0, 1}
    MaxEvents = 2
    Peer = Peer
    MaxPeerWrites = 1
    OverlapWrites = TRUE
    SnapshotInterval = 0
    DeleteEventsOnSnapshot = FALSE
    DeleteSnapshotsOnSnapshot = FALSE
    EventsRetentionCount = 0
SPECIFICATION Spec
INVARIANTS
    TypeOK
    
    OnlyCommittedIsSeen
PROPERTIES
    ImplementsLog
    NoneStranded

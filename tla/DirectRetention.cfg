CONSTANTS
    StoreKind = "memory"
    NoRevision = NoRevision
    Commands = {c1, c2, c3}
    Reads = {}
    Declarable = {NoRevision, 1}
    MaxEvents = 2
    Peer = Peer
    MaxPeerWrites = 0
    OverlapWrites = FALSE
    SnapshotInterval = 2
    DeleteEventsOnSnapshot = TRUE
    DeleteSnapshotsOnSnapshot = TRUE
    EventsRetentionCount = 1
SPECIFICATION Spec
SYMMETRY Symmetry
INVARIANTS
    RecoveryIsComplete

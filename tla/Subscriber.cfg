\* Two producers, three messages.
CONSTANTS
    Producers = {p1, p2}
    MaxMessages = 3
    MaxNodes = 4
    Nil = Nil
SPECIFICATION Spec
INVARIANTS
    InOrder
PROPERTIES
    QueuedIsDelivered
CHECK_DEADLOCK FALSE

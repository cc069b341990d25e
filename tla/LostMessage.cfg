\* Two producers that overlap.
CONSTANTS
    Producers = {p1, p2}
    MaxMessages = 3
    MaxNodes = 4
    Nil = Nil
SPECIFICATION Spec
INVARIANT EveryMessageDelivered
CHECK_DEADLOCK FALSE

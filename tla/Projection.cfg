\* Two shards, three events, read two at a time; a failing handler is called twice, then its event skipped.
CONSTANTS
    Shards = {s1, s2}
    Workers = {w1, w2}
    EventsStore = "postgres"
    Limit = 2
    Scale = 1000
    Settles = TRUE
    Unknown = Unknown
    StartOffset = 0
    Ordered = TRUE
    Policies = {"RetryAndSkip"}
    Retries = 2
    MaxEvents = 3
    MaxTime = 3
    MaxFaults = 1
    MaxStarts = 2
SPECIFICATION Spec
INVARIANTS
    OffsetCoversHandled
PROPERTIES
    StopEnds
    CatchesUp
CHECK_DEADLOCK FALSE

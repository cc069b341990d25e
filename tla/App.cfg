\* Every rule of Validate; two messages, one failure.
CONSTANTS
    e1 = e1
    e2 = e2
    s1 = s1
    x1 = x1
    c1 = c1
    c2 = c2
    None = None
    Subscribers = {e1, e2, s1, x1, c1}
    EventPublishers = {e1, e2, x1}
    StatePublishers = {s1}
    Clients = {c1}
    Extra = {x1}
    ExtraKind = "pulsar"
    Topics = {"events", "states"}
    Stoppers = {"app", "user"}
    Deployments <- MCDeployments
    MaxMessages = 2
    MaxFaults = 1
SPECIFICATION Spec
INVARIANTS
    OwnedAreClosedOnce
    NothingLeftRunning
    AcceptedSpecServes
    
PROPERTY EverythingEnds
CHECK_DEADLOCK FALSE

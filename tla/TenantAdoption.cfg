\* Two runs, one more write, one failure.
CONSTANTS
    Scopes = {0, 1, 2}
    Plans <- MCPlans
    None = None
    MaxWrites = 3
    MaxFaults = 1
SPECIFICATION Spec
INVARIANTS
    
    OutcomesHold
    RerunIsNoOp
PROPERTIES
    EveryRunEnds
CHECK_DEADLOCK FALSE

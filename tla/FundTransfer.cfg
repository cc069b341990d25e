\* Two debits, two failures, one restart.
CONSTANTS
    Entities = {Source, Destination}
    Source = Source
    Destination = Destination
    Owner = Owner
    Stranger = Stranger
    NoTenant = NoTenant
    None = None
    InitialState <- TransferInitial
    HandleEvent <- TransferHandleEvent
    HandleResult <- TransferHandleResult
    HandleError <- TransferHandleError
    ApplyEvent <- TransferApplyEvent
    Compensate <- TransferCompensate
    InitialEntity <- AccountInitial
    Execute <- AccountExecute
    Emitted <- AccountEmitted
    Funds = 2
    MaxDebits = 2
    MaxFaults = 2
    MaxRestarts = 1
SPECIFICATION Spec
INVARIANTS
    CreditedOnceIfOwed
    
    CallersSeeOneEnd
PROPERTIES
    SagaEnds
CHECK_DEADLOCK FALSE

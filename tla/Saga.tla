-------------------------------- MODULE Saga --------------------------------
(***************************************************************************)
(* A saga actor: it takes events from the event stream, records its own    *)
(* events, sends commands to entities one at a time and waits for each     *)
(* reply, and compensates when its behavior asks for it or time runs out.  *)
(*                                                                         *)
(* The behavior is a parameter.  An action it returns is a record of the   *)
(* events to record, the commands to send and the outcome, or NoAction.    *)
(* Any callback may fail instead.  Commands are sent from inside the       *)
(* handler of a message, and what the behavior makes of a reply is done    *)
(* before the next command is sent: the actions under way are a stack.     *)
(***************************************************************************)
EXTENDS Naturals, Sequences, FiniteSets, SequencesExt

CONSTANTS
    Entities,               \* the entities the saga commands
    Owner, Stranger,        \* the tenant the saga is spawned for; another one
    NoTenant,               \* no tenant
    None,                   \* no call
    InitialState, HandleEvent(_, _), HandleResult(_, _), HandleError(_, _),
    ApplyEvent(_, _), Compensate(_),            \* the saga's behavior
    InitialEntity, Execute(_, _), Emitted(_),   \* the entities' behavior
    MaxFaults,              \* bound on failures of stores, callbacks and calls
    MaxRestarts             \* bound on restarts

VARIABLES
    tenantAware,    \* is a tenant resolver configured?
    entities,       \* per entity: its state
    log,            \* the saga's own events, as stored
    stage,          \* "down", "recovered" (not subscribed yet) or "up"
    status, currentState, eventsCounter, boundTenant,
    stream,         \* events in the subscriber's queue
    mailbox,        \* events and the timeout message
    timer,          \* is the timeout scheduled?
    stack,          \* actions under way, the innermost last
    call,           \* the command whose reply is awaited
    inflight,       \* commands that entities have not processed
    sent,           \* how many commands were sent, and which for undoing
    seen,           \* per tenant: the statuses callers saw since the last start
    faults, restarts

memory == <<status, currentState, eventsCounter, boundTenant>>
inbox == <<stream, mailbox, timer>>
calls == <<stack, call, inflight, sent>>
bounds == <<faults, restarts>>
vars == <<tenantAware, entities, log, stage, memory, inbox, calls, seen, bounds>>

Final == {"Completed", "Failed"}
Tenants == {Owner, Stranger, NoTenant}

NoAction == [events |-> << >>, commands |-> << >>, outcome |-> "none"]

\* What is left to do of an action: undo marks the commands of a compensation.
Frame(action) == [commands |-> action.commands, outcome |-> action.outcome, undo |-> FALSE]
Undoing(commands) == [commands |-> commands, outcome |-> "none", undo |-> TRUE]

Init ==
    /\ tenantAware \in BOOLEAN
    /\ entities = [e \in Entities |-> InitialEntity]
    /\ log = << >>
    /\ stage = "down"
    /\ status = "Running"
    /\ currentState = InitialState
    /\ eventsCounter = 0
    /\ boundTenant = NoTenant
    /\ stream = << >>
    /\ mailbox = << >>
    /\ timer = FALSE
    /\ stack = << >>
    /\ call = None
    /\ inflight = {}
    /\ sent = << >>
    /\ seen = [t \in Tenants |-> {}]
    /\ faults = 0
    /\ restarts = 0

\* Something fails, or nothing does.
Fault == faults < MaxFaults /\ faults' = faults + 1
NoFault == UNCHANGED faults

-----------------------------------------------------------------------------
(***************************************************************************)
(* Start and stop.                                                         *)
(***************************************************************************)

\* The tenant a spawned saga belongs to: resolveScope seeds boundTenant with it.
Bound == IF tenantAware THEN Owner ELSE NoTenant

\* A bug: the tenant of an event, or of a caller, is not verified.
AdmitsAnyone(tenant) == TRUE

\* eventContext and bindOrVerify: in legacy mode there is nothing to verify.
Admits(tenant) == tenantAware => tenant = boundTenant

Replay == FoldLeft(LAMBDA state, record : ApplyEvent(record.event, state), InitialState, log)

\* recover, in PreStart: the status is not stored.
Recover ==
    /\ stage = "down"
    /\ \A i \in DOMAIN log : log[i].tenant = Bound
    /\ stage' = "recovered"
    /\ boundTenant' = Bound
    /\ currentState' = Replay
    /\ eventsCounter' = Len(log)
    /\ status' = "Running"
    /\ seen' = [t \in Tenants |-> {}]
    /\ UNCHANGED <<tenantAware, entities, log, inbox, calls, bounds>>

\* A bug: the timeout is scheduled by the first start only.
SchedulesOnce == restarts = 0

\* PostStart schedules the timeout, after a restart too.
Schedules == stage = "recovered"

\* Subscribe, and PostStart: events published before this are not delivered.
Subscribe ==
    /\ stage = "recovered"
    /\ stage' = "up"
    /\ timer' = Schedules
    /\ UNCHANGED <<tenantAware, entities, log, memory, stream, mailbox, calls, seen, bounds>>

\* PostStop, or a crash in the middle of a handler.  Commands already sent stay
\* with the entities.
Stop ==
    /\ stage # "down"
    /\ restarts < MaxRestarts
    /\ stage' = "down"
    /\ restarts' = restarts + 1
    /\ status' = "Running"
    /\ currentState' = InitialState
    /\ eventsCounter' = 0
    /\ boundTenant' = NoTenant
    /\ stream' = << >>
    /\ mailbox' = << >>
    /\ timer' = FALSE
    /\ stack' = << >>
    /\ call' = None
    /\ UNCHANGED <<tenantAware, entities, log, inflight, sent, seen, faults>>

-----------------------------------------------------------------------------
(***************************************************************************)
(* The event stream and the timer feed the mailbox.                        *)
(***************************************************************************)

\* An event of an entity reaches the subscriber when there is one.
Published(events) == stream' = IF stage = "up" THEN stream \o events ELSE stream

\* consumeEvents.
ConsumeEvents ==
    /\ stream # << >>
    /\ stream' = Tail(stream)
    /\ mailbox' = Append(mailbox, Head(stream))
    /\ UNCHANGED <<tenantAware, entities, log, stage, memory, timer, calls, seen, bounds>>

TimerFires ==
    /\ timer
    /\ timer' = FALSE
    /\ mailbox' = Append(mailbox, [kind |-> "timeout"])
    /\ UNCHANGED <<tenantAware, entities, log, stage, memory, stream, calls, seen, bounds>>

Receiving(kind) ==
    /\ stack = << >> /\ call = None
    /\ mailbox # << >> /\ Head(mailbox).kind = kind
    /\ mailbox' = Tail(mailbox)

-----------------------------------------------------------------------------
(***************************************************************************)
(* Actions of the behavior.                                                *)
(***************************************************************************)

\* Unconditional: a number that is taken keeps its event (ON CONFLICT DO NOTHING).
WriteEvents(events) ==
    LET records == [i \in DOMAIN events |-> [event |-> events[i], tenant |-> boundTenant]]
    IN  log' = log \o SubSeq(records, Len(log) - eventsCounter + 1, Len(records))

\* persistAndApplyEvents: the counter and the state move once the write succeeded.
PersistAndApplyEvents(events) ==
    /\ WriteEvents(events)
    /\ eventsCounter' = eventsCounter + Len(events)
    /\ currentState' = FoldLeft(LAMBDA state, event : ApplyEvent(event, state), currentState, events)

\* processAction: a write that fails, stored or not, ends the action.
ProcessAction(action, below) ==
    \/ /\ NoFault
       /\ PersistAndApplyEvents(action.events)
       /\ stack' = Append(below, Frame(action))
    \/ /\ Fault
       /\ action.events # << >>
       /\ WriteEvents(action.events) \/ UNCHANGED log
       /\ stack' = below
       /\ UNCHANGED <<currentState, eventsCounter>>

\* A callback returned an error: it is logged and the action is dropped.
CallbackFails(below) ==
    /\ Fault
    /\ stack' = below
    /\ UNCHANGED <<log, currentState, eventsCounter>>

Handles(event) == status = "Running" /\ Admits(event.tenant)

HandleStreamEvent ==
    /\ Receiving("event")
    /\ LET event == Head(mailbox)
           action == HandleEvent(event, currentState)
       IN  \/ /\ ~Handles(event) \/ action = NoAction
              /\ NoFault
              /\ UNCHANGED <<log, currentState, eventsCounter, stack>>
           \/ /\ Handles(event) /\ action # NoAction
              /\ ProcessAction(action, stack)
           \/ /\ Handles(event)
              /\ CallbackFails(stack)
    /\ UNCHANGED <<tenantAware, entities, stage, status, boundTenant, stream, timer, call, inflight,
                   sent, seen, restarts>>

Top == Last(stack)
Below == Front(stack)

\* SendSync, from sendCommand or compensate: the command travels, the actor waits.
SendCommand ==
    /\ stack # << >> /\ call = None
    /\ Top.commands # << >>
    /\ LET command == Head(Top.commands) @@ [number |-> Len(sent) + 1]
       IN  /\ call' = command @@ [reply |-> "awaited"]
           /\ inflight' = inflight \cup {command}
    /\ sent' = Append(sent, [to |-> Head(Top.commands).to, undo |-> Top.undo])
    /\ stack' = Append(Below, [Top EXCEPT !.commands = Tail(@)])
    /\ UNCHANGED <<tenantAware, entities, log, stage, memory, inbox, seen, bounds>>

-----------------------------------------------------------------------------
(***************************************************************************)
(* Entities, outside the saga: a command is processed in one step.         *)
(***************************************************************************)

Answered(command, reply) ==
    call' = IF call # None /\ call.number = command.number THEN [call EXCEPT !.reply = reply] ELSE call

Process(command) ==
    /\ inflight' = inflight \ {command}
    /\ \/ /\ NoFault
          /\ entities' = [entities EXCEPT ![command.to] = Execute(@, command)]
          /\ Answered(command, "state")
          /\ Published(<<[kind |-> "event", tenant |-> Bound, event |-> Emitted(command)]>>)
       \/ /\ Fault
          /\ Answered(command, "error")
          /\ UNCHANGED <<entities, stream>>
    /\ UNCHANGED <<tenantAware, log, stage, memory, mailbox, timer, stack, sent, seen, restarts>>

\* SendSync fails: the entity is not reached, or its answer comes too late.
CallFails ==
    /\ call # None /\ call.reply = "awaited"
    /\ Fault
    /\ \/ UNCHANGED inflight
       \/ inflight' = {c \in inflight : c.number # call.number}
    /\ call' = [call EXCEPT !.reply = "none"]
    /\ UNCHANGED <<tenantAware, entities, log, stage, memory, inbox, stack, sent, seen, restarts>>

-----------------------------------------------------------------------------
(***************************************************************************)
(* Replies and outcomes.                                                   *)
(***************************************************************************)

\* sendCommand: what the behavior makes of the reply is done at once.
HandleReply ==
    /\ call # None /\ call.reply # "awaited"
    /\ ~Top.undo
    /\ call' = None
    /\ LET action == IF call.reply = "state" THEN HandleResult(call.to, currentState)
                                             ELSE HandleError(call.to, currentState)
       IN  ProcessAction(action, stack) \/ CallbackFails(stack)
    /\ UNCHANGED <<tenantAware, entities, stage, status, boundTenant, inbox, inflight, sent, seen,
                   restarts>>

\* compensate: an error reply counts as done, a call that failed does not.
AfterUndo ==
    IF call.reply = "none" THEN status' = "Failed" /\ stack' = Below
                           ELSE UNCHANGED <<status, stack>>

HandleUndoReply ==
    /\ call # None /\ call.reply # "awaited"
    /\ Top.undo
    /\ call' = None
    /\ AfterUndo
    /\ UNCHANGED <<tenantAware, entities, log, stage, currentState, eventsCounter, boundTenant, inbox,
                   inflight, sent, seen, bounds>>

\* compensate, entered with the actions in below still under way.
StartCompensation(below) ==
    \/ /\ NoFault
       /\ status' = "Compensating"
       /\ stack' = Append(below, Undoing(Compensate(currentState)))
    \/ /\ Fault
       /\ status' = "Failed"
       /\ stack' = below

\* dispatchActionEffects, after the commands.
FinishAction ==
    /\ stack # << >> /\ call = None
    /\ Top.commands = << >>
    /\ \/ /\ Top.outcome = "compensate"
          /\ StartCompensation(Below)
       \/ /\ Top.outcome # "compensate"
          /\ status' = IF Top.outcome = "complete" \/ Top.undo THEN "Completed" ELSE status
          /\ stack' = Below
          /\ NoFault
    /\ UNCHANGED <<tenantAware, entities, log, stage, currentState, eventsCounter, boundTenant, inbox,
                   call, inflight, sent, seen, restarts>>

\* A bug: the timeout compensates a saga that has ended.
CompensatesAlways == stage = "up"

TimeoutCompensates == status = "Running"

HandleTimeout ==
    /\ Receiving("timeout")
    /\ \/ TimeoutCompensates /\ StartCompensation(<< >>)
       \/ ~TimeoutCompensates /\ NoFault /\ UNCHANGED <<status, stack>>
    /\ UNCHANGED <<tenantAware, entities, log, stage, currentState, eventsCounter, boundTenant, stream,
                   timer, call, inflight, sent, seen, restarts>>

\* GetStateCommand, answered between two messages: checkStateReadTenant, and
\* the status as SagaStatus reports it.
SagaStatus(tenant) ==
    /\ stage = "up" /\ stack = << >> /\ call = None
    /\ tenant = NoTenant <=> ~tenantAware
    /\ Admits(tenant)
    /\ seen' = [seen EXCEPT ![tenant] = @ \cup {status}]
    /\ UNCHANGED <<tenantAware, entities, log, stage, memory, inbox, calls, bounds>>

-----------------------------------------------------------------------------
Handler == SendCommand \/ HandleReply \/ HandleUndoReply \/ FinishAction

Step ==
    \/ Recover \/ Subscribe \/ Stop
    \/ ConsumeEvents \/ TimerFires
    \/ HandleStreamEvent \/ HandleTimeout \/ Handler
    \/ \E command \in inflight : Process(command)
    \/ CallFails
    \/ \E tenant \in Tenants : SagaStatus(tenant)

\* The runtime restarts the actor and delivers its messages, the scheduler fires
\* the timer, and a call ends with a reply or when its time is over.
Fairness ==
    /\ WF_vars(Recover \/ Subscribe)
    /\ WF_vars(ConsumeEvents)
    /\ WF_vars(TimerFires)
    /\ WF_vars(HandleStreamEvent \/ HandleTimeout)
    /\ WF_vars(Handler)
    /\ WF_vars(\E command \in inflight : Process(command))
=============================================================================

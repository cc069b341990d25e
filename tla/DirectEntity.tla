---------------------------- MODULE DirectEntity ----------------------------
(***************************************************************************)
(* The direct write path of an event-sourced entity (batchThreshold = 0).  *)
(* A command that makes events is stashed while they are written; the      *)
(* response unstashes it, and handling it again sends the reply.           *)
(***************************************************************************)
EXTENDS EventSourcedEntity

VARIABLE direct     \* directPendingState, -Counter, directErr, directShutdown

vars == <<baseVars, direct>>

NoDirect == [state |-> InitialState, counter |-> 0, err |-> Committed, shutdown |-> FALSE]

Init ==
    /\ BaseInit
    /\ direct = NoDirect

-----------------------------------------------------------------------------
(***************************************************************************)
(* processCommandAndReply.                                                 *)
(***************************************************************************)

Processing == Received("command") /\ phase = "processing"

\* A tenant or deadline gate, the handler, or building the envelopes fails.
RejectCommand ==
    /\ Processing
    /\ Answer(Head(mailbox).id, ErrorReply(Failed))
    /\ Consume
    /\ UNCHANGED <<durable, alive, phase, currentState, eventsCounter, writers, declared, made,
                   direct>>

\* The handler makes no event: the reply is the current state, and the
\* declared revision is not looked at.
AnswerWithoutEvents ==
    /\ Processing
    /\ Answer(Head(mailbox).id, StateReply(currentState, eventsCounter))
    /\ Consume
    /\ UNCHANGED <<durable, alive, phase, currentState, eventsCounter, writers, declared, made,
                   direct>>

PersistAsync(n) ==
    /\ Processing
    /\ LET c == Head(mailbox).id
           envelopes == BuildEnvelopes(c, n, eventsCounter)
       IN  /\ request' = {[events |-> envelopes, pre |-> declared[c]]}
           /\ direct' = [direct EXCEPT !.state = Apply(currentState, envelopes),
                                       !.counter = eventsCounter + n]
           /\ made' = [made EXCEPT ![c] = n]
    /\ Stash
    /\ phase' = "persisting"
    /\ UNCHANGED <<durable, alive, currentState, eventsCounter, abandoned, snapshotQueue,
                   retentionQueue, reply, declared>>

\* Receive: commands, and reads, wait for the write that is unsettled.
StashCommand ==
    /\ Received("command")
    /\ phase = "persisting"
    /\ Stash
    /\ UNCHANGED <<durable, alive, phase, currentState, eventsCounter, writers, callers, direct>>

HandleGetState ==
    /\ Received("getState")
    /\ IF phase \in {"persisting", "directReplying"}
       THEN Stash /\ UNCHANGED reply
       ELSE Consume /\ Answer(Head(mailbox).id, StateReply(currentState, eventsCounter))
    /\ UNCHANGED <<durable, alive, phase, currentState, eventsCounter, writers, declared, made,
                   direct>>

-----------------------------------------------------------------------------
(***************************************************************************)
(* handleDirectPersistResponse and replyDirect.                            *)
(***************************************************************************)

\* triggerSnapshotAndRetention.
SnapshotDue(counter) == SnapshotInterval > 0 /\ counter % SnapshotInterval = 0

\* A bug: the pending state is taken over although its write failed.
PersistFailedAdopting(outcome) ==
    /\ currentState' = direct.state
    /\ eventsCounter' = direct.counter
    /\ direct' = [direct EXCEPT !.err = outcome,
                                !.shutdown = ~ShouldStayAliveAfterConflict(outcome)]
    /\ UNCHANGED snapshotQueue

PersistFailed(outcome) ==
    /\ direct' = [direct EXCEPT !.err = outcome,
                                !.shutdown = ~ShouldStayAliveAfterConflict(outcome)]
    /\ UNCHANGED <<currentState, eventsCounter, snapshotQueue>>

PersistConfirmed ==
    /\ currentState' = direct.state
    /\ eventsCounter' = direct.counter
    /\ IF SnapshotDue(direct.counter) THEN SnapshotAndRetain(direct.state, direct.counter)
                                      ELSE UNCHANGED snapshotQueue
    /\ direct' = [direct EXCEPT !.err = Committed]

HandleDirectPersistResponse ==
    /\ Received("response")
    /\ LET outcome == Head(mailbox).outcome
       IN  IF phase # "persisting"
           THEN Consume /\ UNCHANGED <<phase, currentState, eventsCounter, snapshotQueue, direct>>
           ELSE /\ IF outcome.kind = "ok" THEN PersistConfirmed ELSE PersistFailed(outcome)
                /\ phase' = "directReplying"
                /\ UnstashAll
    /\ UNCHANGED <<durable, alive, request, abandoned, retentionQueue, callers>>

ReplyDirect ==
    /\ Received("command")
    /\ phase = "directReplying"
    /\ Answer(Head(mailbox).id, IF direct.err = Committed THEN StateReply(currentState, eventsCounter)
                                                          ELSE ErrorReply(direct.err))
    /\ direct' = NoDirect
    /\ IF direct.shutdown
       THEN Terminate
       ELSE /\ UnstashAll
            /\ phase' = "processing"
            /\ UNCHANGED <<alive, currentState, eventsCounter, writers>>
    /\ UNCHANGED <<durable, declared, made>>

-----------------------------------------------------------------------------
Caller ==
    /\ \/ \E c \in Commands, rev \in Declarable : SendCommand(c, rev)
       \/ \E r \in Reads : SendGetState(r)
    /\ UNCHANGED direct

Actor ==
    \/ RejectCommand
    \/ AnswerWithoutEvents
    \/ \E n \in 1..MaxEvents : PersistAsync(n)
    \/ StashCommand
    \/ HandleGetState
    \/ HandleDirectPersistResponse
    \/ ReplyDirect

Writer == (HandlePersistEvents \/ StoreFailure \/ AskTimeout) /\ UNCHANGED direct

Background ==
    /\ \/ AbandonedLands
       \/ AbandonedLost
       \/ HandlePersistSnapshot
       \/ HandleApplyRetention
       \/ PeerWrite
       \/ Spawn
    /\ UNCHANGED direct

StopDirect == Stop /\ direct' = NoDirect

Next == Caller \/ Actor \/ Writer \/ Background \/ StopDirect

\* The dispatcher runs an actor that has messages, and the ask of the writer
\* ends with an answer or at its timeout.  Nothing makes callers send, makes a
\* stopped entity start again or keeps it from stopping.
Fairness == WF_vars(Actor) /\ WF_vars(Writer)

Spec == Init /\ [][Next]_vars /\ Fairness

-----------------------------------------------------------------------------
(***************************************************************************)
(* Properties.                                                             *)
(***************************************************************************)

(* Every variable stays in its range. *)
TypeOK ==
    /\ BaseTypeOK
    /\ phase \in {"processing", "persisting", "directReplying"}
    /\ direct \in [state : States, counter : Nat, err : Outcomes, shutdown : BOOLEAN]

=============================================================================

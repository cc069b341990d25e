---------------------------- MODULE BatchedEntity ----------------------------
(***************************************************************************)
(* The batched write path of an event-sourced entity (batchThreshold > 0). *)
(* Commands are handled against the state that the open batch has reached, *)
(* and stashed with a reply computed in advance.  One write carries the    *)
(* events of the whole batch; when it is settled the stashed commands come *)
(* back in order and each takes the next reply.                            *)
(***************************************************************************)
EXTENDS EventSourcedEntity

CONSTANT BatchThreshold     \* batchThreshold

ASSUME BatchAssumption == BatchThreshold \in Nat \ {0}

VARIABLES
    batch,      \* the batch fields of the actor
    timer,      \* entity.flushTimer: "nil", "armed", or "fired" and not yet handled
    ticks       \* expired or unreferenced timers that have yet to send their tick

vars == <<baseVars, batch, timer, ticks>>

\* resetBatch.  The number of buffered events is batchNumEvents.
NoBatch ==
    [entries |-> << >>, buffer |-> {}, state |-> InitialState, counter |-> 0, numEvents |-> 0,
     remaining |-> 0, shutdown |-> FALSE, base |-> 0, hasPrecondition |-> FALSE]

Init ==
    /\ BaseInit
    /\ batch = NoBatch
    /\ timer = "nil"
    /\ ticks = 0

-----------------------------------------------------------------------------
(***************************************************************************)
(* The open batch.                                                         *)
(***************************************************************************)

Open == batch.entries # << >>
LatestState == IF Open THEN batch.state ELSE currentState
LatestCounter == IF Open THEN batch.counter ELSE eventsCounter

\* A bug: only the founding command's revision counts.
AdmittedForgetting(c) == batch

\* The batch cycle owes a real precondition once any command admitted to the
\* open batch declared a revision, whether or not it goes on to make events.
Admitted(c) ==
    [batch EXCEPT !.hasPrecondition = @ \/ (Open /\ declared[c] # NoRevision)]

\* The founding command fixes the base; the events of c follow the latest.
Appended(c, n) ==
    LET envelopes == BuildEnvelopes(c, n, LatestCounter)
        pending == Apply(LatestState, envelopes)
        founds == ~Open
    IN  [Admitted(c) EXCEPT
            !.entries = Append(@, StateReply(pending, LatestCounter + n)),
            !.buffer = @ \cup envelopes,
            !.state = pending,
            !.counter = LatestCounter + n,
            !.numEvents = @ + n,
            !.hasPrecondition = IF founds THEN declared[c] # NoRevision ELSE @,
            !.base = IF ~founds THEN @
                     ELSE IF declared[c] # NoRevision THEN declared[c] ELSE LatestCounter]

ResolveBatchPrecondition(b) == IF b.hasPrecondition THEN b.base ELSE NoRevision

\* A bug: the timer is stopped and the field that holds it is not cleared.
FlushBatchKeepingTimer(b) ==
    /\ request' = {[events |-> b.buffer, pre |-> ResolveBatchPrecondition(b)]}
    /\ phase' = "flushing"
    /\ timer' = IF timer = "armed" THEN "fired" ELSE timer

\* Stopping the timer does not recall a tick that is on its way.
FlushBatch(b) ==
    /\ request' = {[events |-> b.buffer, pre |-> ResolveBatchPrecondition(b)]}
    /\ phase' = "flushing"
    /\ timer' = "nil"

StartFlushTimer == timer' = IF timer = "nil" THEN "armed" ELSE timer

-----------------------------------------------------------------------------
(***************************************************************************)
(* processAndBatch.                                                        *)
(***************************************************************************)

Processing == Received("command") /\ phase = "processing"

\* A tenant gate or the first deadline gate fails.
RejectCommand ==
    /\ Processing
    /\ Answer(Head(mailbox).id, ErrorReply(Failed))
    /\ Consume
    /\ UNCHANGED <<durable, alive, phase, currentState, eventsCounter, writers, declared, made,
                   batch, timer, ticks>>

\* The command declares a revision that the open batch is not at.
Admissible(c) == ~Open \/ declared[c] = NoRevision \/ declared[c] = LatestCounter

FlushBeforeCommand ==
    /\ Processing
    /\ ~Admissible(Head(mailbox).id)
    /\ FlushBatch(batch)
    /\ Stash
    /\ UNCHANGED <<durable, alive, currentState, eventsCounter, abandoned, snapshotQueue,
                   retentionQueue, callers, batch, ticks>>

\* The handler, building the envelopes or the second deadline gate fails.
RejectAdmitted ==
    /\ Processing
    /\ Admissible(Head(mailbox).id)
    /\ batch' = Admitted(Head(mailbox).id)
    /\ Answer(Head(mailbox).id, ErrorReply(Failed))
    /\ Consume
    /\ UNCHANGED <<durable, alive, phase, currentState, eventsCounter, writers, declared, made,
                   timer, ticks>>

\* The handler makes no event: the reply is the state the batch has reached.
AnswerWithoutEvents ==
    /\ Processing
    /\ Admissible(Head(mailbox).id)
    /\ batch' = Admitted(Head(mailbox).id)
    /\ Answer(Head(mailbox).id, StateReply(LatestState, LatestCounter))
    /\ Consume
    /\ UNCHANGED <<durable, alive, phase, currentState, eventsCounter, writers, declared, made,
                   timer, ticks>>

AppendToBatch(n) ==
    /\ Processing
    /\ LET c == Head(mailbox).id
       IN  /\ Admissible(c)
           /\ batch' = Appended(c, n)
           /\ made' = [made EXCEPT ![c] = n]
    /\ Stash
    /\ IF batch'.numEvents >= BatchThreshold
       THEN FlushBatch(batch')
       ELSE StartFlushTimer /\ UNCHANGED <<phase, request>>
    /\ UNCHANGED <<durable, alive, currentState, eventsCounter, abandoned, snapshotQueue,
                   retentionQueue, reply, declared, ticks>>

-----------------------------------------------------------------------------
(***************************************************************************)
(* The other messages.                                                     *)
(***************************************************************************)

StashCommand ==
    /\ Received("command")
    /\ phase = "flushing"
    /\ Stash
    /\ UNCHANGED <<durable, alive, phase, currentState, eventsCounter, writers, callers,
                   batch, timer, ticks>>

\* Reads get the last confirmed state, whatever the phase.
HandleGetState ==
    /\ Received("getState")
    /\ Answer(Head(mailbox).id, StateReply(currentState, eventsCounter))
    /\ Consume
    /\ UNCHANGED <<durable, alive, phase, currentState, eventsCounter, writers, declared, made,
                   batch, timer, ticks>>

\* The tick clears flushTimer; a timer that was armed since still runs.
HandleBatchFlushTick ==
    /\ Received("tick")
    /\ Consume
    /\ ticks' = IF timer = "armed" THEN ticks + 1 ELSE ticks
    /\ IF phase = "processing" /\ Open
       THEN FlushBatch(batch)
       ELSE timer' = "nil" /\ UNCHANGED <<request, phase>>
    /\ UNCHANGED <<durable, alive, currentState, eventsCounter, abandoned, snapshotQueue,
                   retentionQueue, callers, batch>>

-----------------------------------------------------------------------------
(***************************************************************************)
(* handleBatchPersistResponse and replyFromBatch.                          *)
(***************************************************************************)

CrossedSnapshotBoundary(previous, counter) ==
    SnapshotInterval > 0 /\ counter \div SnapshotInterval > previous \div SnapshotInterval

\* A bug: the pending state is taken over although its write failed.
FlushFailedAdopting(outcome) ==
    /\ currentState' = batch.state
    /\ eventsCounter' = batch.counter
    /\ batch' = [batch EXCEPT !.entries = [i \in DOMAIN @ |-> ErrorReply(outcome)],
                              !.remaining = Len(batch.entries),
                              !.shutdown = ~ShouldStayAliveAfterConflict(outcome)]
    /\ UNCHANGED snapshotQueue

FlushFailed(outcome) ==
    /\ batch' = [batch EXCEPT !.entries = [i \in DOMAIN @ |-> ErrorReply(outcome)],
                              !.remaining = Len(batch.entries),
                              !.shutdown = ~ShouldStayAliveAfterConflict(outcome)]
    /\ UNCHANGED <<currentState, eventsCounter, snapshotQueue>>

FlushConfirmed ==
    /\ currentState' = batch.state
    /\ eventsCounter' = batch.counter
    /\ IF CrossedSnapshotBoundary(eventsCounter, batch.counter)
       THEN SnapshotAndRetain(batch.state, batch.counter)
       ELSE UNCHANGED snapshotQueue
    /\ batch' = [batch EXCEPT !.remaining = Len(batch.entries)]

HandleBatchPersistResponse ==
    /\ Received("response")
    /\ LET outcome == Head(mailbox).outcome
       IN  IF phase # "flushing"
           THEN Consume /\ UNCHANGED <<phase, currentState, eventsCounter, snapshotQueue, batch>>
           ELSE /\ IF outcome.kind = "ok" THEN FlushConfirmed ELSE FlushFailed(outcome)
                /\ phase' = "replying"
                /\ UnstashAll
    /\ UNCHANGED <<durable, alive, request, abandoned, retentionQueue, callers, timer, ticks>>

\* A flushed batch has entries, so a reply remains whenever the phase is
\* "replying": see BatchIsPaired.
NextReply == batch.entries[Len(batch.entries) - batch.remaining + 1]

ReplyFromBatch ==
    /\ Received("command")
    /\ phase = "replying"
    /\ batch.remaining > 0
    /\ Answer(Head(mailbox).id, NextReply)
    /\ IF batch.remaining > 1
       THEN /\ batch' = [batch EXCEPT !.remaining = @ - 1]
            /\ Consume
            /\ UNCHANGED <<alive, phase, currentState, eventsCounter, writers, timer, ticks>>
       ELSE /\ batch' = NoBatch
            /\ IF batch.shutdown
               THEN Terminate /\ timer' = "nil" /\ ticks' = 0
               ELSE /\ Consume
                    /\ phase' = "processing"
                    /\ UNCHANGED <<alive, currentState, eventsCounter, writers, timer, ticks>>
    /\ UNCHANGED <<durable, declared, made>>

-----------------------------------------------------------------------------
(***************************************************************************)
(* The flush timer.  Its goroutine sends the tick some time after it       *)
(* expired.                                                                *)
(***************************************************************************)

TimerExpires ==
    /\ timer = "armed"
    /\ timer' = "fired"
    /\ ticks' = ticks + 1
    /\ UNCHANGED <<baseVars, batch>>

SendTick ==
    /\ alive
    /\ ticks > 0
    /\ ticks' = ticks - 1
    /\ mailbox' = Append(mailbox, TickMsg)
    /\ UNCHANGED <<durable, alive, phase, currentState, eventsCounter, stash, writers, callers,
                   batch, timer>>

-----------------------------------------------------------------------------
Caller ==
    /\ \/ \E c \in Commands, rev \in Declarable : SendCommand(c, rev)
       \/ \E r \in Reads : SendGetState(r)
    /\ UNCHANGED <<batch, timer, ticks>>

Actor ==
    \/ RejectCommand
    \/ FlushBeforeCommand
    \/ RejectAdmitted
    \/ AnswerWithoutEvents
    \/ \E n \in 1..MaxEvents : AppendToBatch(n)
    \/ StashCommand
    \/ HandleGetState
    \/ HandleBatchFlushTick
    \/ HandleBatchPersistResponse
    \/ ReplyFromBatch

Writer ==
    (HandlePersistEvents \/ StoreFailure \/ AskTimeout) /\ UNCHANGED <<batch, timer, ticks>>

Timer == TimerExpires \/ SendTick

Background ==
    /\ \/ AbandonedLands
       \/ AbandonedLost
       \/ HandlePersistSnapshot
       \/ HandleApplyRetention
       \/ PeerWrite
       \/ Spawn
    /\ UNCHANGED <<batch, timer, ticks>>

StopBatched == Stop /\ batch' = NoBatch /\ timer' = "nil" /\ ticks' = 0

Next == Caller \/ Actor \/ Writer \/ Timer \/ Background \/ StopBatched

\* As in DirectEntity; and timers expire and send their ticks.
Fairness == WF_vars(Actor) /\ WF_vars(Writer) /\ WF_vars(Timer)

Spec == Init /\ [][Next]_vars /\ Fairness

-----------------------------------------------------------------------------
(***************************************************************************)
(* Properties.                                                             *)
(***************************************************************************)

(* The replies of a batch and the commands they belong to stay in step: while
   the batch is gathered and written its commands are the first of the stash;
   once it is settled, those not yet answered are the first of the mailbox.  The
   code keeps no link between the two (batchEntries and the stash). *)
BatchIsPaired ==
    LET n == Len(batch.entries)
    IN  CASE phase = "processing" -> Len(stash) = n
          [] phase = "flushing" -> n > 0 /\ Len(stash) >= n
          [] phase = "replying" ->
                /\ batch.remaining \in 1..n
                /\ stash = << >>
                /\ Len(mailbox) >= batch.remaining
                /\ \A i \in 1..batch.remaining : mailbox[i].type = "command"

(* As long as every command that made events declared a revision, the confirmed
   state, and every state that a read or such a command is given, is a committed
   state at the revision it names, although replies are computed before the
   write (handleBatchPersistResponse). *)
ConfirmedIsCommitted ==
    (\A c \in Commands : made[c] > 0 => declared[c] # NoRevision) =>
        /\ StateIsCommitted
        /\ \A id \in Commands \cup Reads :
              (reply[id].kind = "state" /\ (id \in Commands => made[id] > 0)) =>
                  CommittedPrefix(reply[id].state, reply[id].rev)
=============================================================================

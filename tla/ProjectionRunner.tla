-------------------------- MODULE ProjectionRunner --------------------------
(***************************************************************************)
(* A projection: the loop that pulls, the pool of workers that process     *)
(* shards, the offsets they commit, and the actor that starts and stops    *)
(* them.  A pull may start whenever the loop is idle: the timer, a nudge   *)
(* from the event stream and the re-pull after a full buffer differ only   *)
(* in when it happens.                                                     *)
(*                                                                         *)
(* An event is its shard and its timestamp, and the offset of a shard is   *)
(* the timestamp of the last event processed.  Ordered says whether      *)
(* events of a shard become visible in the order of distinct timestamps:   *)
(* the entity stamps an event before it is written, and gives the events   *)
(* of one command the same stamp.                                          *)
(***************************************************************************)
EXTENDS Integers, Sequences, FiniteSets, FiniteSetsExt

CONSTANTS
    Shards, Workers,
    EventsStore,        \* "memory" or "postgres"
    Limit,              \* maxBufferSize
    Scale,              \* nanoseconds in a millisecond
    StartOffset,        \* the option, 0 when it is not set
    Policies,           \* recovery policies a projection may be registered with
    Retries,            \* of the policy, 0 for the default
    Ordered,            \* are events visible in the order of their timestamps?
    Settles,            \* are offset writes under way over before a rebuild?
    Unknown,            \* no offset cached
    MaxEvents,          \* bound on events
    MaxTime,            \* bound on timestamps
    MaxFaults,          \* bound on failed round trips to the stores
    MaxStarts           \* bound on starts of the projection

ASSUME ProjectionAssumption ==
    /\ EventsStore \in {"memory", "postgres"}
    /\ Limit \in Nat \ {0}
    /\ Scale \in Nat \ {0}
    /\ Policies \subseteq {"Fail", "RetryAndFail", "Skip", "RetryAndSkip"}
    /\ Ordered \in BOOLEAN /\ Settles \in BOOLEAN
    /\ Unknown \notin Nat
    /\ {StartOffset, Retries, MaxEvents, MaxTime, MaxFaults, MaxStarts} \subseteq Nat

VARIABLES
    journal,        \* events: [shard, nth, ts]
    offsets,        \* the offset store
    disposed,       \* events handled, or skipped as the policy says, since the last rebuild
    policy,         \* the projection's recovery policy
    stage,          \* "running", "stopping" (stopSignal sent) or "cancelled"
    loop,           \* where processingLoop is
    toDispatch,     \* shards of the pass not yet dispatched
    workCh, wg,     \* shards dispatched and not yet taken; the WaitGroup
    worker,         \* per worker: its place, shard and batch
    cache,          \* committedOffsets
    errs,           \* workerErrCh
    late,           \* offset writes of stopped runners
    faults, starts

runner == <<stage, loop, toDispatch, workCh, wg, worker, cache, errs>>
vars == <<journal, offsets, disposed, policy, runner, late, faults, starts>>

Exited == [at |-> "exited"]
Idle == [at |-> "idle"]

Init ==
    /\ journal = {}
    /\ offsets = [s \in Shards |-> 0]
    /\ disposed = {}
    /\ policy \in Policies
    /\ stage = "cancelled"
    /\ loop = "ended"
    /\ toDispatch = {}
    /\ workCh = {}
    /\ wg = 0
    /\ worker = [w \in Workers |-> Exited]
    /\ cache = [s \in Shards |-> Unknown]
    /\ errs = << >>
    /\ late = {}
    /\ faults = 0
    /\ starts = 0

-----------------------------------------------------------------------------
(***************************************************************************)
(* The events store.                                                       *)
(***************************************************************************)

EventsOf(s) == {e \in journal : e.shard = s}
Stamps(events) == {e.ts : e \in events}

\* Of ordered timestamps only the order matters: the nth event has timestamp n.
Persist(s, ts) ==
    /\ Cardinality(journal) < MaxEvents
    /\ Ordered => ts = Cardinality(EventsOf(s)) + 1
    /\ journal' = journal \cup {[shard |-> s, nth |-> Cardinality(EventsOf(s)) + 1, ts |-> ts]}
    /\ UNCHANGED <<offsets, disposed, policy, runner, late, faults, starts>>

\* The events a read may return: PostgreSQL sorts before it cuts, the in-memory
\* store cuts first, one event later, in the order it meets the entities.
GetShardEvents(s, offset) ==
    LET newer == {e \in EventsOf(s) : e.ts > offset}
        limit == IF EventsStore = "memory" THEN Limit + 1 ELSE Limit
    IN  {batch \in SUBSET newer :
            /\ Cardinality(batch) = Min({limit, Cardinality(newer)})
            /\ EventsStore = "postgres" =>
                   \A e \in batch, f \in newer \ batch : e.ts <= f.ts}

NextOffset(s, batch) == Max(Stamps(batch))

-----------------------------------------------------------------------------
(***************************************************************************)
(* Start, Stop and failures.                                               *)
(***************************************************************************)

Millis(ts) == ts \div Scale

\* Writes that an earlier runner has under way.
UnderWay == {[shard |-> worker[w].shard, value |-> worker[w].next] :
                w \in {w \in Workers : worker[w].at = "commit"}}

\* No worker of the earlier runner is busy, but for a write under way.
Stopped ==
    /\ stage = "cancelled"
    /\ \A w \in Workers : worker[w].at \in {"idle", "exited", "commit"}

\* PreStart and PostStart: a new runner, when the stores answer.
StartRunner ==
    /\ stage' = "running"
    /\ loop' = "select"
    /\ toDispatch' = {}
    /\ workCh' = {}
    /\ wg' = 0
    /\ worker' = [w \in Workers |-> Idle]
    /\ cache' = [s \in Shards |-> Unknown]
    /\ errs' = << >>
    /\ late' = late \cup UnderWay
    /\ starts' = starts + 1

Start ==
    /\ Stopped
    /\ starts < MaxStarts
    /\ StartRunner
    /\ UNCHANGED <<journal, policy, offsets, disposed, faults>>

\* RebuildProjection, or a ResetOffset option: offsets go back to ts, in
\* milliseconds, and what was processed has to be processed again.
Rebuild(ts) ==
    /\ Stopped
    /\ starts < MaxStarts
    /\ Settles => late \cup UnderWay = {}
    /\ offsets' = [s \in Shards |-> IF offsets[s] = 0 THEN 0 ELSE Millis(ts)]
    /\ disposed' = {}
    /\ StartRunner
    /\ UNCHANGED <<journal, policy, faults>>

\* Stop, called by PostStop.
Stop ==
    /\ stage = "running"
    /\ stage' = "stopping"
    /\ UNCHANGED <<journal, policy, offsets, disposed, loop, toDispatch, workCh, wg, worker,
                   cache, errs, late, faults, starts>>

Cancel ==
    /\ stage = "stopping"
    /\ stage' = "cancelled"
    /\ UNCHANGED <<journal, policy, offsets, disposed, loop, toDispatch, workCh, wg, worker,
                   cache, errs, late, faults, starts>>

Crash ==
    /\ stage # "cancelled"
    /\ stage' = "cancelled"
    /\ loop' = "ended"
    /\ toDispatch' = {}
    /\ workCh' = {}
    /\ wg' = 0
    /\ worker' = [w \in Workers |-> Exited]
    /\ errs' = << >>
    /\ cache' = [s \in Shards |-> Unknown]
    /\ late' = late \cup UnderWay
    /\ UNCHANGED <<journal, policy, offsets, disposed, faults, starts>>

WriteOffset(s, value) == offsets' = [offsets EXCEPT ![s] = value]

\* A write of an earlier runner lands.
LateWrite ==
    \E o \in late :
        /\ late' = late \ {o}
        /\ WriteOffset(o.shard, o.value)
        /\ UNCHANGED <<journal, policy, disposed, runner, faults, starts>>

-----------------------------------------------------------------------------
(***************************************************************************)
(* processingLoop and runPass.                                             *)
(***************************************************************************)

\* A bug: a shard that is one event behind does not count.
PendingOneBehind ==
    {s \in Shards : EventsOf(s) # {} /\ (cache[s] = Unknown \/ Max(Stamps(EventsOf(s))) > cache[s] + 1)}

\* A configured start overrides what was committed, on every pull.
PendingShards ==
    {s \in Shards : /\ EventsOf(s) # {}
                    /\ IF StartOffset > 0 THEN Max(Stamps(EventsOf(s))) > Millis(StartOffset)
                       ELSE cache[s] = Unknown \/ Max(Stamps(EventsOf(s))) > cache[s]}

\* The tick finds nothing to do, unless some shard is behind.
Pull ==
    /\ loop = "select"
    /\ stage = "running"
    /\ PendingShards # {}
    /\ toDispatch' = PendingShards
    /\ wg' = Cardinality(PendingShards)
    /\ loop' = "dispatch"
    /\ UNCHANGED <<journal, policy, offsets, disposed, stage, workCh, worker, cache, errs, late,
                   faults, starts>>

\* A round trip to a store fails: the store is down, or the context is cancelled.
Fault ==
    \/ faults < MaxFaults /\ faults' = faults + 1
    \/ stage = "cancelled" /\ UNCHANGED faults

PullFails ==
    /\ loop = "select"
    /\ stage = "running"
    /\ Fault
    /\ loop' = "backoff"
    /\ UNCHANGED <<journal, policy, offsets, disposed, stage, toDispatch, workCh, wg, worker,
                   cache, errs, late, starts>>

Dispatch ==
    /\ loop = "dispatch"
    /\ \E s \in toDispatch :
        /\ workCh' = workCh \cup {s}
        /\ toDispatch' = toDispatch \ {s}
        /\ loop' = IF toDispatch = {s} THEN "wait" ELSE "dispatch"
    /\ UNCHANGED <<journal, policy, offsets, disposed, stage, wg, worker, cache, errs, late,
                   faults, starts>>

\* A bug: the shards that were not dispatched stay counted.
UndispatchedNone == {}

\* The shards that nobody will report done.
Undispatched == toDispatch

DispatchCancelled ==
    /\ loop = "dispatch"
    /\ stage = "cancelled"
    /\ wg' = wg - Cardinality(Undispatched)
    /\ toDispatch' = {}
    /\ loop' = "abort"
    /\ UNCHANGED <<journal, policy, offsets, disposed, stage, workCh, worker, cache, errs, late,
                   faults, starts>>

\* wg.Wait().
BatchDone == wg = 0

AbortPass ==
    /\ loop = "abort"
    /\ BatchDone
    /\ loop' = "ended"
    /\ UNCHANGED <<journal, policy, offsets, disposed, stage, toDispatch, workCh, wg, worker,
                   cache, errs, late, faults, starts>>

Reported == {errs[i] : i \in DOMAIN errs}

\* An event that cannot be processed stops the projection; it outranks the
\* failure of a store, which is retried.
PassDone ==
    /\ loop = "wait"
    /\ BatchDone
    /\ errs' = << >>
    /\ IF "event" \in Reported
       THEN /\ loop' = "ended"
            /\ stage' = IF stage = "running" THEN "cancelled" ELSE stage
       ELSE /\ loop' = IF "store" \in Reported THEN "backoff" ELSE "select"
            /\ UNCHANGED stage
    /\ UNCHANGED <<journal, policy, offsets, disposed, toDispatch, workCh, wg, worker, cache,
                   late, faults, starts>>

RetryAfterStoreFailure ==
    /\ loop = "backoff"
    /\ loop' = "select"
    /\ UNCHANGED <<journal, policy, offsets, disposed, stage, toDispatch, workCh, wg, worker,
                   cache, errs, late, faults, starts>>

LoopEnds ==
    /\ loop \in {"select", "backoff"}
    /\ stage # "running"
    /\ loop' = "ended"
    /\ UNCHANGED <<journal, policy, offsets, disposed, stage, toDispatch, workCh, wg, worker,
                   cache, errs, late, faults, starts>>

-----------------------------------------------------------------------------
(***************************************************************************)
(* The workers.                                                            *)
(***************************************************************************)

Work(w, place) == worker' = [worker EXCEPT ![w].at = place]

\* item.wg.Done().
Finish(w) ==
    /\ worker' = [worker EXCEPT ![w] = Idle]
    /\ wg' = wg - 1

\* The error goes to the channel, unless it is full or the pool was cancelled.
Fail(w, kind) ==
    /\ errs' = IF stage # "cancelled" /\ Len(errs) < Cardinality(Workers)
               THEN Append(errs, kind) ELSE errs
    /\ Finish(w)

\* Nothing is done for a runner that stopped.
TakeItem(w) ==
    /\ worker[w] = Idle
    /\ \E s \in workCh :
        /\ workCh' = workCh \ {s}
        /\ IF stage = "running"
           THEN /\ worker' = [worker EXCEPT ![w] =
                        [at |-> "offset", shard |-> s, batch |-> {}, next |-> 0, tries |-> 0]]
                /\ UNCHANGED wg
           ELSE Finish(w)
    /\ UNCHANGED <<journal, policy, offsets, disposed, stage, loop, toDispatch, cache, errs,
                   late, faults, starts>>

\* A worker leaves, although items may be waiting.
WorkerExits(w) ==
    /\ worker[w] = Idle
    /\ stage = "cancelled"
    /\ worker' = [worker EXCEPT ![w] = Exited]
    /\ UNCHANGED <<journal, policy, offsets, disposed, stage, loop, toDispatch, workCh, wg, cache,
                   errs, late, faults, starts>>

CurrentOffset(w) ==
    LET s == worker[w].shard
    IN  /\ worker[w].at = "offset"
        /\ cache' = [cache EXCEPT ![s] = IF @ = Unknown THEN offsets[s] ELSE @]
        /\ Work(w, "read")
        /\ UNCHANGED <<journal, policy, offsets, disposed, stage, loop, toDispatch, workCh, wg,
                       errs, late, faults, starts>>

ReadEvents(w) ==
    LET s == worker[w].shard
        offset == IF StartOffset > 0 THEN Millis(StartOffset) ELSE cache[s]
    IN  /\ worker[w].at = "read"
        /\ \E batch \in GetShardEvents(s, offset) :
              IF batch = {} THEN Finish(w)
              ELSE /\ worker' = [worker EXCEPT ![w] =
                          [@ EXCEPT !.at = "handle", !.batch = batch, !.next = NextOffset(s, batch)]]
                   /\ UNCHANGED wg
        /\ UNCHANGED <<journal, policy, offsets, disposed, stage, loop, toDispatch, workCh, cache,
                       errs, late, faults, starts>>

ReadFails(w) ==
    /\ worker[w].at \in {"offset", "read"}
    /\ Fault
    /\ Fail(w, "store")
    /\ UNCHANGED <<journal, policy, offsets, disposed, stage, loop, toDispatch, workCh, cache,
                   late, starts>>

\* The next event of the batch is done with.
Dispose(w) ==
    \E e \in worker[w].batch :
        /\ \A f \in worker[w].batch : e.ts <= f.ts
        /\ disposed' = disposed \cup {e}
        /\ worker' = [worker EXCEPT ![w].batch = @ \ {e}, ![w].tries = 0,
                                    ![w].at = IF worker[w].batch = {e} THEN "commit" ELSE "handle"]

HandleEvent(w) ==
    /\ worker[w].at = "handle"
    /\ Dispose(w)
    /\ UNCHANGED <<journal, policy, offsets, stage, loop, toDispatch, workCh, wg, cache, errs,
                   late, faults, starts>>

\* A bug: the offset of the batch is committed although an event failed.
FailCommitting(w) ==
    /\ WriteOffset(worker[w].shard, worker[w].next)
    /\ Fail(w, "event")

\* A failure in the middle of a batch commits nothing.
FailBatch(w) ==
    /\ Fail(w, "event")
    /\ UNCHANGED offsets

\* retryOn: the calls of the handler an event gets, the first one included.
Attempts ==
    IF policy \in {"Fail", "Skip"} THEN 1 ELSE IF Retries = 0 THEN 5 ELSE Retries

\* The handler fails or panics: the policy says whether it is called again, and
\* whether the event is then discarded, with or without a dead letter.
HandleFails(w) ==
    /\ worker[w].at = "handle"
    /\ IF worker[w].tries + 1 < Attempts
       THEN /\ worker' = [worker EXCEPT ![w].tries = @ + 1]
            /\ UNCHANGED <<offsets, disposed, wg, errs>>
       ELSE IF policy \in {"Skip", "RetryAndSkip"}
       THEN Dispose(w) /\ UNCHANGED <<offsets, wg, errs>>
       ELSE FailBatch(w) /\ UNCHANGED disposed
    /\ UNCHANGED <<journal, policy, stage, loop, toDispatch, workCh, cache, late, faults, starts>>

\* The event cannot be decrypted or adapted, whatever the policy.
Unprocessable(w) ==
    /\ worker[w].at = "handle" /\ worker[w].tries = 0
    /\ FailBatch(w)
    /\ UNCHANGED <<journal, policy, disposed, stage, loop, toDispatch, workCh, cache, late, faults,
                   starts>>

CommitOffset(w) ==
    /\ worker[w].at = "commit"
    /\ WriteOffset(worker[w].shard, worker[w].next)
    /\ cache' = [cache EXCEPT ![worker[w].shard] = worker[w].next]
    /\ Finish(w)
    /\ UNCHANGED <<journal, policy, disposed, stage, loop, toDispatch, workCh, errs, late, faults,
                   starts>>

\* The store, or a cancelled context, says no; the offset is written or not.
CommitFails(w) ==
    /\ worker[w].at = "commit"
    /\ Fault
    /\ WriteOffset(worker[w].shard, worker[w].next) \/ UNCHANGED offsets
    /\ Fail(w, "store")
    /\ UNCHANGED <<journal, policy, disposed, stage, loop, toDispatch, workCh, cache, late, starts>>

-----------------------------------------------------------------------------
\* What the engine reports of the projection.
IsProjectionRunning == stage = "running"

ProjectionLag(s) ==
    IF EventsOf(s) = {} THEN 0 ELSE Max({0, Max(Stamps(EventsOf(s))) - offsets[s]})

-----------------------------------------------------------------------------
Loop == \/ Pull \/ PullFails \/ Dispatch \/ DispatchCancelled \/ AbortPass \/ PassDone
        \/ RetryAfterStoreFailure \/ LoopEnds

WorkerStep(w) == \/ TakeItem(w) \/ WorkerExits(w) \/ CurrentOffset(w) \/ ReadEvents(w) \/ ReadFails(w)
                 \/ HandleEvent(w) \/ HandleFails(w) \/ Unprocessable(w) \/ CommitOffset(w) \/ CommitFails(w)

Next ==
    \/ \E s \in Shards, ts \in 1..MaxTime : Persist(s, ts)
    \/ Start \/ Stop \/ Cancel \/ Crash \/ LateWrite
    \/ \E ts \in 1..MaxTime : Rebuild(ts)
    \/ Loop
    \/ \E w \in Workers : WorkerStep(w)

\* The loop and the workers run when they can, and Stop finishes what it began.
\* Nothing makes events appear, or starts or stops the projection.
Fairness == WF_vars(Loop) /\ WF_vars(Cancel) /\ \A w \in Workers : WF_vars(WorkerStep(w))

Spec == Init /\ [][Next]_vars /\ Fairness

-----------------------------------------------------------------------------
(***************************************************************************)
(* Properties.                                                             *)
(***************************************************************************)

Covered(offset) == \A e \in journal : e.ts <= offset[e.shard] => e \in disposed

(* The offset of a shard never passes an event that was not handled, or skipped
   as the policy says, since the last rebuild: not when a worker fails in the
   middle of a batch, a store fails, a write of an earlier runner arrives late,
   the runner stops or crashes anywhere, or the buffer cuts a batch off
   (processEvents: "A failure mid-batch commits nothing, so the whole batch is
   re-pulled on the next pass (at-least-once delivery)").  Nor does the cached
   offset of a runner, by which it takes a shard for caught up: a write that failed
   leaves it alone (commitOffset, currentOffset). *)
OffsetCoversHandled ==
    /\ Covered(offsets)
    /\ stage = "running" => Covered([s \in Shards |-> IF cache[s] = Unknown THEN 0 ELSE cache[s]])

\* Every worker left, and items are waiting.
Deserted == workCh # {} /\ \A w \in Workers : worker[w] = Exited

(* A stopped runner's loop ends, or is started anew, unless all workers left items
   behind (DispatchCancelled accounts for the shards that were not dispatched). *)
StopEnds == (stage = "cancelled") ~> (loop = "ended" \/ Deserted \/ stage = "running")

(* A projection that runs catches up with the journal again and again, unless a
   StartOffset is configured: failed round trips are retried, and no shard and no
   event is forgotten (runPass, pendingShards), and the lag reported for every shard
   is then 0, if no earlier runner's write set its offset back (Engine.ProjectionLag). *)
CatchesUp ==
    StartOffset = 0 =>
        []<>(IsProjectionRunning =>
                /\ disposed = journal
                /\ starts = 1 => \A s \in Shards : ProjectionLag(s) = 0)
=============================================================================

---------------------------- MODULE DurableState ----------------------------
(***************************************************************************)
(* A durable state entity: its actor, which keeps the latest state and     *)
(* version in memory, and the state store, which keeps one record.         *)
(*                                                                         *)
(* A command is handled in one turn of the actor, write included, so the   *)
(* steps of a turn interleave only with other incarnations of the entity   *)
(* and with failures.  A turn is: gates, handler and the store's read      *)
(* (ProcessCommand); the store's compare-and-swap and what follows it      *)
(* (CommitState, StoreFault); after an error, the corrective read and the  *)
(* reply (RecoverFromConflictIfNeeded).                                    *)
(*                                                                         *)
(* The entity state is the sequence of the commands that made it: the      *)
(* handler appends its command.  The store is the sequence of all records  *)
(* ever written; the last one is the record it holds, and a place in the   *)
(* sequence is what the store's compare-and-swap compares, a pointer.      *)
(***************************************************************************)
EXTENDS Naturals, Sequences

CONSTANTS
    Nodes,          \* where incarnations of the entity run
    Commands,       \* commands, each sent at most once
    Reads,          \* GetStateCommand requests, each sent at most once
    Declarable,     \* the ExpectedRevision values callers declare
    NoRevision,     \* no ExpectedRevision: an unconditional write
    MaxSpawns       \* bound on incarnations

ASSUME DurableAssumption ==
    /\ Commands \cap Reads = {}
    /\ NoRevision \notin Nat
    /\ Declarable \subseteq Nat \cup {NoRevision}
    /\ MaxSpawns \in Nat

VARIABLES
    tenantAware,        \* is a tenant resolver configured?
    legacy,             \* did a legacy installation flush an initial state?
    overlapping,        \* may two incarnations run at once?
    faulty,             \* may the store fail before or after it writes?
    records,            \* every record the store ever held, in order
    published,          \* what the states topic carried
    alive,              \* per node: does the actor run?
    currentState, currentVersion,
    cachedStateAny,     \* per node: the cached encoding, {} for nil
    writing,            \* per node: the write of the turn, if any
    failed,             \* per node: the failed write to recover from, if any
    reply, declared,    \* per caller: the answer, the ExpectedRevision
    spawns

deployment == <<tenantAware, legacy, overlapping, faulty>>
memory == <<alive, currentState, currentVersion, cachedStateAny>>
vars == <<deployment, records, published, memory, writing, failed, reply, declared, spawns>>

-----------------------------------------------------------------------------
(***************************************************************************)
(* Records, outcomes and replies.                                          *)
(***************************************************************************)

InitialState == << >>

Record(version, state) == [version |-> version, state |-> state]

Committed == [kind |-> "ok", actual |-> NoRevision]
Failed == [kind |-> "error", actual |-> NoRevision]
Conflict(actual) == [kind |-> "conflict", actual |-> actual]

Unsent == [kind |-> "unsent", state |-> InitialState, version |-> 0]
Waiting == [Unsent EXCEPT !.kind = "waiting"]
StateReply(state, version) == [kind |-> "state", state |-> state, version |-> version]

ErrorReply(outcome) ==
    [Unsent EXCEPT !.kind = outcome.kind,
                   !.version = IF outcome.actual = NoRevision THEN 0 ELSE outcome.actual]

Answer(id, answer) == reply' = [reply EXCEPT ![id] = answer]

Init ==
    /\ tenantAware \in BOOLEAN
    /\ legacy \in BOOLEAN
    /\ overlapping \in BOOLEAN
    /\ faulty \in BOOLEAN
    /\ records = IF legacy THEN <<Record(0, InitialState)>> ELSE << >>
    /\ published = {}
    /\ alive = [n \in Nodes |-> FALSE]
    /\ currentState = [n \in Nodes |-> InitialState]
    /\ currentVersion = [n \in Nodes |-> 0]
    /\ cachedStateAny = [n \in Nodes |-> {}]
    /\ writing = [n \in Nodes |-> {}]
    /\ failed = [n \in Nodes |-> {}]
    /\ reply = [id \in Commands \cup Reads |-> Unsent]
    /\ declared = [c \in Commands |-> NoRevision]
    /\ spawns = 0

-----------------------------------------------------------------------------
(***************************************************************************)
(* The state store.  w is a write: the record, its precondition and the    *)
(* place of the record that was read first.                                *)
(***************************************************************************)

VersionAt(i) == records[i].version

\* A bug: the revision is checked, and then the record is simply stored.
AdmittedWhenRead(w) ==
    \/ w.pre = NoRevision
    \/ w.pre = 0 /\ w.seen = 0
    \/ w.pre > 0 /\ w.seen > 0 /\ VersionAt(w.seen) = w.pre

\* A genesis write needs no record (LoadOrStore); an exact one needs the record
\* it read to have that version and to be there still (CompareAndSwap).
Admitted(w) ==
    \/ w.pre = NoRevision
    \/ w.pre = 0 /\ records = << >>
    \/ w.pre > 0 /\ w.seen > 0 /\ VersionAt(w.seen) = w.pre /\ w.seen = Len(records)

\* The version a conflict names: that of the record read, when it already decides;
\* else that of the record which came in between; none when there was no record.
Met(w) ==
    IF w.seen > 0 /\ (w.pre = 0 \/ VersionAt(w.seen) # w.pre) THEN VersionAt(w.seen)
    ELSE IF w.seen > 0 \/ w.pre = 0 THEN VersionAt(Len(records))
    ELSE NoRevision

WriteState(w) == IF Admitted(w) THEN Committed ELSE Conflict(Met(w))

Store(record) == records' = Append(records, record)

-----------------------------------------------------------------------------
(***************************************************************************)
(* Recovery.                                                               *)
(***************************************************************************)

Stored == records[Len(records)]

\* No record, or in tenant-aware mode one at version 0.
Blank == records = << >> \/ (tenantAware /\ Stored.version = 0)

\* A bug: the record's version is not taken over.
RecoverFromStoreStateOnly(n) ==
    /\ currentState' = [currentState EXCEPT ![n] = IF Blank THEN InitialState ELSE Stored.state]
    /\ UNCHANGED currentVersion

\* recoverFromStore leaves the version alone when there is nothing to recover,
\* and the cached encoding always.
RecoverFromStore(n) ==
    /\ currentState' = [currentState EXCEPT ![n] = IF Blank THEN InitialState ELSE Stored.state]
    /\ currentVersion' = [currentVersion EXCEPT ![n] = IF Blank THEN @ ELSE Stored.version]

Idle(n) == alive[n] /\ writing[n] = {} /\ failed[n] = {}

\* PreStart.  When the read fails the actor does not start.
Spawn(n) ==
    /\ ~alive[n]
    /\ overlapping \/ \A m \in Nodes : ~alive[m]
    /\ spawns < MaxSpawns
    /\ spawns' = spawns + 1
    /\ alive' = [alive EXCEPT ![n] = TRUE]
    /\ RecoverFromStore(n)
    /\ UNCHANGED <<deployment, records, published, cachedStateAny, writing, failed, reply, declared>>

-----------------------------------------------------------------------------
(***************************************************************************)
(* Receive.                                                                *)
(***************************************************************************)

\* currentStateAny: the cached encoding, made from the state when there is none.
CurrentStateAny(n) ==
    IF cachedStateAny[n] = {} THEN currentState[n]
                              ELSE CHOOSE s \in cachedStateAny[n] : TRUE

GetStateAndReply(n, r) ==
    /\ Idle(n)
    /\ reply[r] = Unsent
    /\ Answer(r, StateReply(CurrentStateAny(n), currentVersion[n]))
    /\ cachedStateAny' = [cachedStateAny EXCEPT ![n] = {CurrentStateAny(n)}]
    /\ UNCHANGED <<deployment, records, published, alive, currentState, currentVersion, writing,
                   failed, declared, spawns>>

\* A tenant or deadline gate, the handler, or checkPreconditions says no: the
\* new version must be the current one plus one.
RejectCommand(n, c) ==
    /\ Idle(n)
    /\ reply[c] = Unsent
    /\ Answer(c, ErrorReply(Failed))
    /\ UNCHANGED <<deployment, records, published, memory, writing, failed, declared, spawns>>

\* processCommand up to the write, with the read that opens it.
ProcessCommand(n, c, rev) ==
    /\ Idle(n)
    /\ reply[c] = Unsent
    /\ Answer(c, Waiting)
    /\ declared' = [declared EXCEPT ![c] = rev]
    /\ writing' = [writing EXCEPT ![n] =
            {[cmd |-> c,
              record |-> Record(currentVersion[n] + 1, Append(currentState[n], c)),
              pre |-> rev,
              seen |-> Len(records)]}]
    /\ UNCHANGED <<deployment, records, published, memory, failed, spawns>>

\* A bug: the encoding of an earlier state stays in the cache.
AdoptKeepingCache(n, record) ==
    /\ currentState' = [currentState EXCEPT ![n] = record.state]
    /\ currentVersion' = [currentVersion EXCEPT ![n] = record.version]
    /\ UNCHANGED cachedStateAny

Adopt(n, record) ==
    /\ currentState' = [currentState EXCEPT ![n] = record.state]
    /\ cachedStateAny' = [cachedStateAny EXCEPT ![n] = {record.state}]
    /\ currentVersion' = [currentVersion EXCEPT ![n] = record.version]

Fail(n, w, outcome) == failed' = [failed EXCEPT ![n] = {[cmd |-> w.cmd, outcome |-> outcome]}]

\* A bug: the new state was taken over before the store answered.
RefusedAdopting(n, w, outcome) ==
    /\ Fail(n, w, outcome)
    /\ Adopt(n, w.record)
    /\ UNCHANGED <<alive, published, reply>>

\* The write failed: memory is as it was, and recovery is next.
Refused(n, w, outcome) ==
    /\ Fail(n, w, outcome)
    /\ UNCHANGED <<memory, published, reply>>

\* commitState and the reply.
CommitState(n) ==
    \E w \in writing[n] :
        /\ writing' = [writing EXCEPT ![n] = {}]
        /\ IF WriteState(w) = Committed
           THEN /\ Store(w.record)
                /\ Adopt(n, w.record)
                /\ published' = published \cup {w.record}
                /\ Answer(w.cmd, StateReply(w.record.state, w.record.version))
                /\ UNCHANGED <<alive, failed>>
           ELSE /\ Refused(n, w, WriteState(w))
                /\ UNCHANGED records
        /\ UNCHANGED <<deployment, declared, spawns>>

\* The store fails before it writes, or after.
StoreFault(n) ==
    /\ faulty
    /\ \E w \in writing[n] :
        /\ writing' = [writing EXCEPT ![n] = {}]
        /\ \/ WriteState(w) = Committed /\ Store(w.record)
           \/ UNCHANGED records
        /\ Refused(n, w, Failed)
        /\ UNCHANGED <<deployment, declared, spawns>>

ProvablyInSyncAfterConflict(n, outcome) ==
    outcome.kind = "conflict" /\ outcome.actual = currentVersion[n]

\* Recovery is best effort: a failed read is swallowed.  The reply comes last.
RecoverFromConflictIfNeeded(n) ==
    \E f \in failed[n] :
        /\ failed' = [failed EXCEPT ![n] = {}]
        /\ \/ /\ ProvablyInSyncAfterConflict(n, f.outcome) \/ faulty
              /\ UNCHANGED <<currentState, currentVersion>>
           \/ /\ ~ProvablyInSyncAfterConflict(n, f.outcome)
              /\ RecoverFromStore(n)
        /\ Answer(f.cmd, ErrorReply(f.outcome))
        /\ UNCHANGED <<deployment, records, published, alive, cachedStateAny, writing, declared,
                       spawns>>

-----------------------------------------------------------------------------
(***************************************************************************)
(* Stopping.                                                               *)
(***************************************************************************)

\* The incarnation's memory is gone.
Forget(n) ==
    /\ alive' = [alive EXCEPT ![n] = FALSE]
    /\ currentState' = [currentState EXCEPT ![n] = InitialState]
    /\ currentVersion' = [currentVersion EXCEPT ![n] = 0]
    /\ cachedStateAny' = [cachedStateAny EXCEPT ![n] = {}]

\* A bug: the flush is gated in no mode.
AlwaysFlushes(n) == TRUE

\* In tenant-aware mode an entity that never committed is not flushed.
Flushes(n) == ~tenantAware \/ currentVersion[n] > 0

PersistStateAndPublish(n) ==
    LET record == Record(currentVersion[n], CurrentStateAny(n))
    IN  Store(record) /\ published' = published \cup {record}

\* PostStop: the state in memory is written again, whatever the store holds.
PostStop(n) ==
    /\ Idle(n)
    /\ \/ Flushes(n) /\ PersistStateAndPublish(n)
       \/ (~Flushes(n) \/ faulty) /\ UNCHANGED <<records, published>>
    /\ Forget(n)
    /\ UNCHANGED <<deployment, writing, failed, reply, declared, spawns>>

\* The node dies; the write it sent is done or not.
Crash(n) ==
    /\ alive[n]
    /\ \/ \E w \in writing[n] : WriteState(w) = Committed /\ Store(w.record)
       \/ UNCHANGED records
    /\ Forget(n)
    /\ writing' = [writing EXCEPT ![n] = {}]
    /\ failed' = [failed EXCEPT ![n] = {}]
    /\ UNCHANGED <<deployment, published, reply, declared, spawns>>

-----------------------------------------------------------------------------
Turn(n) == CommitState(n) \/ StoreFault(n) \/ RecoverFromConflictIfNeeded(n)

Next ==
    \E n \in Nodes :
        \/ Spawn(n)
        \/ \E r \in Reads : GetStateAndReply(n, r)
        \/ \E c \in Commands : RejectCommand(n, c)
        \/ \E c \in Commands, rev \in Declarable : ProcessCommand(n, c, rev)
        \/ Turn(n)
        \/ PostStop(n)
        \/ Crash(n)

Spec == Init /\ [][Next]_vars

-----------------------------------------------------------------------------
(***************************************************************************)
(* Properties.                                                             *)
(***************************************************************************)

StoredState == IF records = << >> THEN InitialState ELSE Stored.state
StoredVersion == IF records = << >> THEN 0 ELSE Stored.version

Includes(state, c) == \E i \in DOMAIN state : state[i] = c
WasStored(state) == state = InitialState \/ \E i \in DOMAIN records : records[i].state = state

(* A command that was answered with success is in the record for good, as long as
   incarnations do not overlap: neither a flush on stop, which overwrites the
   record unconditionally, nor a crash, nor a store that fails before or after it
   writes, nor a recovery that fails, loses it (commitState, PostStop). *)
AcknowledgedIsStored ==
    ~overlapping =>
        \A c \in Commands : reply[c].kind = "state" => Includes(StoredState, c)

(* With one incarnation at a time and a store that answers, what an idle actor has
   in memory, the cached encoding included, is the record: a refused command
   left nothing behind (commitState, recoverFromConflictIfNeeded). *)
SoleWriterIsInSync ==
    (~overlapping /\ ~faulty) =>
        \A n \in Nodes : Idle(n) =>
            /\ currentState[n] = StoredState
            /\ CurrentStateAny(n) = StoredState
            /\ currentVersion[n] = StoredVersion
            /\ Len(StoredState) = StoredVersion

(* Callers and subscribers of the states topic never see a state that the store
   did not hold at some time: memory changes, and a record is published, only
   after the write.  A command that is told of a conflict is in no record, then or
   later (commitState, sendStateReply, WriteState). *)
AnswersAreTrue ==
    /\ \A id \in Commands \cup Reads : reply[id].kind = "state" => WasStored(reply[id].state)
    /\ \A r \in published : \E i \in DOMAIN records : records[i] = r
    /\ \A c \in Commands : reply[c].kind = "conflict" =>
          \A i \in DOMAIN records : ~Includes(records[i].state, c)

(* A declared revision is that of the record which the write replaces, although
   the store reads first and swaps later and others write in between
   (WriteState). *)
DeclaredRevisionRespected ==
    [][\A c \in Commands :
          (reply[c] = Waiting /\ reply'[c].kind = "state" /\ declared[c] # NoRevision) =>
              IF declared[c] = 0 THEN records = << >> ELSE StoredVersion = declared[c]]_vars

\* No conflict at the revision that was declared, when nobody else writes.
NotRefusedAtOwnRevision ==
    (~overlapping /\ ~faulty) =>
        \A c \in Commands : reply[c].kind = "conflict" => reply[c].version # declared[c]

(* "Commit only if the aggregate is still at revision N": a command that declares
   the revision a tenant-aware entity is at is not refused, because such an entity
   flushes no record at version 0 (PostStop). *)
CurrentRevisionIsAdmitted == (tenantAware /\ ~legacy) => NotRefusedAtOwnRevision

=============================================================================

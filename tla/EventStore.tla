----------------------------- MODULE EventStore -----------------------------
(***************************************************************************)
(* The events store of one entity: what persistence.EventsStore promises,  *)
(* as its two implementations in the repository provide it.                *)
(*                                                                         *)
(*   "memory"    testkit/eventstore.go: an immutable log per entity that   *)
(*               is replaced by compare-and-swap;                          *)
(*   "postgres"  persistence/postgres/event_store.go: rows keyed by the    *)
(*               sequence number and a revision row that every writer      *)
(*               locks first.                                              *)
(*                                                                         *)
(* A log is a set of events, each with the sequence number it is stored    *)
(* under.  A store is a record with the events that can be replayed and    *)
(* the storage revision, which outlives them.  Both implementations commit *)
(* a write atomically, so a write is an operator from a store to an        *)
(* outcome and a store.                                                    *)
(*                                                                         *)
(* A write precondition is the revision a command declared: NoRevision is  *)
(* Unconditional(), 0 is ExpectGenesis(), N > 0 is ExpectRevision(N).      *)
(***************************************************************************)
EXTENDS Naturals, FiniteSetsExt

CONSTANTS StoreKind, NoRevision

ASSUME StoreAssumption ==
    /\ StoreKind \in {"memory", "postgres"}
    /\ NoRevision \notin Nat

Preconditions == Nat \cup {NoRevision}

EmptyStore == [rev |-> 0, events |-> {}]

\* A record exists once an event was committed for it; sequence numbers start
\* at 1 and deleting events keeps the revision, so "exists" is rev > 0.
Exists(st) == st.rev > 0

Numbers(evs) == {e.seq : e \in evs}

-----------------------------------------------------------------------------
(***************************************************************************)
(* Write outcomes.  A ConflictError carries the actual revision when the   *)
(* record exists; any other error carries nothing.                         *)
(***************************************************************************)

Committed == [kind |-> "ok", actual |-> NoRevision]
Failed    == [kind |-> "error", actual |-> NoRevision]

Outcomes == {Committed, Failed} \cup [kind : {"conflict"}, actual : Preconditions]

NewConflictError(st) ==
    [kind |-> "conflict", actual |-> IF Exists(st) THEN st.rev ELSE NoRevision]

-----------------------------------------------------------------------------
(***************************************************************************)
(* Writes.  evs is a non-empty set of events with consecutive numbers.     *)
(***************************************************************************)

PreconditionHolds(st, pre) ==
    \/ pre = NoRevision
    \/ pre = 0 /\ ~Exists(st)
    \/ pre > 0 /\ Exists(st) /\ st.rev = pre

\* The revision never decreases.
Advance(st, evs) == Max({st.rev, Max(Numbers(evs))})

\* The events of log, but for those whose number evs also uses.
Without(log, evs) == {e \in log : e.seq \notin Numbers(evs)}

\* newEventLog: a new event replaces the one that has its sequence number.
MemoryMerge(st, evs) ==
    [rev |-> Advance(st, evs), events |-> Without(st.events, evs) \cup evs]

\* INSERT ... ON CONFLICT DO NOTHING: the row that is there stays.
PostgresMerge(st, evs) ==
    [rev |-> Advance(st, evs), events |-> st.events \cup Without(evs, st.events)]

\* A plain INSERT fails the transaction on a primary-key clash.
Clashes(st, evs) == Numbers(st.events) \cap Numbers(evs) # {}

MemoryWrite(st, evs, pre) ==
    IF PreconditionHolds(st, pre)
    THEN [outcome |-> Committed, store |-> MemoryMerge(st, evs)]
    ELSE [outcome |-> NewConflictError(st), store |-> st]

\* A bug: an upsert where the rows must be new.
PostgresUpsert(st, evs, pre) ==
    IF PreconditionHolds(st, pre)
    THEN [outcome |-> Committed, store |-> MemoryMerge(st, evs)]
    ELSE [outcome |-> NewConflictError(st), store |-> st]

PostgresWrite(st, evs, pre) ==
    IF ~PreconditionHolds(st, pre)
    THEN [outcome |-> NewConflictError(st), store |-> st]
    ELSE IF pre # NoRevision /\ Clashes(st, evs)
         THEN [outcome |-> Failed, store |-> st]
         ELSE [outcome |-> Committed, store |-> PostgresMerge(st, evs)]

WriteEvents(st, evs, pre) ==
    IF StoreKind = "memory" THEN MemoryWrite(st, evs, pre)
                            ELSE PostgresWrite(st, evs, pre)

-----------------------------------------------------------------------------
(***************************************************************************)
(* Retention and reads.                                                    *)
(***************************************************************************)

\* Only events go; the storage revision stays.
DeleteEvents(st, upTo) == [st EXCEPT !.events = {e \in st.events : e.seq > upTo}]

\* The sequence number of GetLatestEvent: that of the event no other event
\* follows, 0 when it returns nil.
LatestSequence(st) ==
    IF \E m \in Numbers(st.events) : \A n \in Numbers(st.events) : n <= m
    THEN Max(Numbers(st.events))
    ELSE 0

\* A reader folds the events it gets in sequence order.
ReplayEvents(st, from, to) == {e \in st.events : from <= e.seq /\ e.seq <= to}
=============================================================================

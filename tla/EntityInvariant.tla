-------------------------- MODULE EntityInvariant ---------------------------
(***************************************************************************)
(* The inductive invariant of what both write paths share.                 *)
(***************************************************************************)
EXTENDS EventSourcedEntity

\* The deployment the theorems are about: the postgres store, a declared
\* revision in every command, and no retention of events.
DeclaredPostgres ==
    /\ StoreKind = "postgres"
    /\ NoRevision \notin Declarable
    /\ ~DeleteEventsOnSnapshot

-----------------------------------------------------------------------------
(***************************************************************************)
(* The log.  When every command declares a revision, the postgres store    *)
(* keeps a log without gaps to which writes append.                        *)
(***************************************************************************)

Unambiguous(evs) == \A d, e \in evs : d.seq = e.seq => d = e

\* The numbers of evs are the ones after b.
Follows(evs, b) ==
    /\ evs # {}
    /\ Unambiguous(evs)
    /\ Numbers(evs) = b + 1..b + Cardinality(evs)

\* A state that was committed at n, and will stay so.
Recorded(log, last, state, n) == n \in 0..last /\ FoldOf(log, state, n)

LogInv ==
    /\ store.events = journal
    /\ Numbers(journal) = 1..store.rev
    /\ Unambiguous(journal)
    /\ published \subseteq journal

\* A write, however late, was numbered from a revision the store has reached.
RequestsInv ==
    \A r \in request \cup abandoned :
        r.pre # NoRevision /\ \E b \in 0..store.rev : Follows(r.events, b)

SnapshotsInv ==
    /\ \A s \in snapshots : Recorded(journal, store.rev, s.state, s.seq)
    /\ \A i \in DOMAIN snapshotQueue :
          Recorded(journal, store.rev, snapshotQueue[i].state, snapshotQueue[i].seq)

ActorInv == alive => Recorded(journal, store.rev, currentState, eventsCounter)

\* Commands that wait declared a revision, and no response is stashed.
MessagesInv ==
    /\ \A i \in DOMAIN mailbox :
          mailbox[i].type = "command" => declared[mailbox[i].id] # NoRevision
    /\ \A i \in DOMAIN stash :
          /\ stash[i].type # "response"
          /\ stash[i].type = "command" => declared[stash[i].id] # NoRevision

RepliesInv ==
    \A id \in Commands \cup Reads :
        reply[id].kind = "state" => Recorded(journal, store.rev, reply[id].state, reply[id].rev)

BaseInv ==
    /\ LogInv
    /\ RequestsInv
    /\ SnapshotsInv
    /\ ActorInv
    /\ MessagesInv
    /\ RepliesInv

-----------------------------------------------------------------------------
(***************************************************************************)
(* A step under which the log grows at its end, or not at all.             *)
(***************************************************************************)

Grows ==
    /\ LogInv'
    /\ store.rev \in Nat /\ store'.rev \in Nat /\ store.rev <= store'.rev
    /\ journal' \subseteq Event
    /\ journal \subseteq journal'
    /\ \A e \in journal' \ journal : e.seq > store.rev
=============================================================================

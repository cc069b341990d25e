------------------------------ MODULE EntityLog ------------------------------
(***************************************************************************)
(* What an event-sourced entity promises its callers, without actors,      *)
(* mailboxes, writers or stores: one log that only grows, to which the     *)
(* events of a command are appended all at once and at most once, and      *)
(* answers that are prefixes of it.                                        *)
(*                                                                         *)
(* An answer may be lost, and an error says nothing about the log.  A      *)
(* success says that the command's events are in the log, a conflict that  *)
(* they are not and never will be.  No answer shows less than an earlier   *)
(* one did.                                                                *)
(***************************************************************************)
EXTENDS Naturals, FiniteSets

CONSTANTS Commands, Reads, Peer, MaxEvents, NoRevision, Declarable

VARIABLES
    log,        \* the events, [seq, cmd, nth], numbered from 1
    expects,    \* the revision each command declared
    decided,    \* how many events the handler made from each command
    answer      \* [kind, seen, rev] for each caller

logVars == <<log, expects, decided, answer>>

Callers == Commands \cup Reads

Unasked == [kind |-> "unsent", seen |-> {}, rev |-> 0]

LogInit ==
    /\ log = {}
    /\ expects = [c \in Commands |-> NoRevision]
    /\ decided = [c \in Commands |-> 0]
    /\ answer = [id \in Callers |-> Unasked]

Revision == Cardinality(log)

Prefix(rev) == {e \in log : e.seq <= rev}

EventsOf(c) == {e \in log : e.cmd = c}

Pending(id) == answer[id].kind = "waiting"

Tell(id, kind, seen, rev) ==
    answer' = [answer EXCEPT ![id] = [kind |-> kind, seen |-> seen, rev |-> rev]]

-----------------------------------------------------------------------------
AskCommand(c, rev) ==
    /\ answer[c] = Unasked
    /\ Tell(c, "waiting", {}, 0)
    /\ expects' = [expects EXCEPT ![c] = rev]
    /\ UNCHANGED <<log, decided>>

AskState(r) ==
    /\ answer[r] = Unasked
    /\ Tell(r, "waiting", {}, 0)
    /\ UNCHANGED <<log, expects, decided>>

Decide(c, n) ==
    /\ Pending(c)
    /\ decided[c] = 0
    /\ decided' = [decided EXCEPT ![c] = n]
    /\ UNCHANGED <<log, expects, answer>>

\* All the events of c, or none; after an error still, after a success or a
\* conflict never.
AppendEvents(c) ==
    /\ answer[c].kind \in {"waiting", "error"}
    /\ decided[c] > 0
    /\ EventsOf(c) = {}
    /\ expects[c] \in {NoRevision, Revision}
    /\ log' = log \cup {[seq |-> Revision + i, cmd |-> c, nth |-> i] : i \in 1..decided[c]}
    /\ UNCHANGED <<expects, decided, answer>>

\* Another writer of the entity.
AppendOther ==
    /\ log' = log \cup {[seq |-> Revision + 1, cmd |-> Peer,
                         nth |-> Cardinality(EventsOf(Peer)) + 1]}
    /\ UNCHANGED <<expects, decided, answer>>

Succeed(id, rev) ==
    /\ Pending(id)
    /\ \A other \in Callers : answer[other].rev <= rev
    /\ id \in Commands =>
          /\ Cardinality(EventsOf(id)) = decided[id]
          /\ EventsOf(id) \subseteq Prefix(rev)
    /\ Tell(id, "state", Prefix(rev), rev)
    /\ UNCHANGED <<log, expects, decided>>

Conflict(c, rev) ==
    /\ Pending(c)
    /\ EventsOf(c) = {}
    /\ expects[c] \notin {NoRevision, rev}
    /\ Tell(c, "conflict", {}, rev)
    /\ UNCHANGED <<log, expects, decided>>

Fail(c) ==
    /\ Pending(c)
    /\ Tell(c, "error", {}, 0)
    /\ UNCHANGED <<log, expects, decided>>

LogNext ==
    \/ \E c \in Commands, rev \in Declarable : AskCommand(c, rev)
    \/ \E r \in Reads : AskState(r)
    \/ \E c \in Commands, n \in 1..MaxEvents : Decide(c, n)
    \/ \E c \in Commands : AppendEvents(c) \/ Fail(c)
    \/ AppendOther
    \/ \E id \in Callers, rev \in 0..Revision : Succeed(id, rev)
    \/ \E c \in Commands, rev \in 0..Revision : Conflict(c, rev)

LogSpec == LogInit /\ [][LogNext]_logVars
=============================================================================

-------------------------- MODULE DirectInvariant ---------------------------
(***************************************************************************)
(* The inductive invariants of the direct write path: the one that its     *)
(* safety rests on, and the one that its refinement of EntityLog adds.     *)
(***************************************************************************)
EXTENDS DirectEntity, EntityInvariant

Directs == [state : States, counter : Nat, err : Outcomes, shutdown : BOOLEAN]

\* While a write is out, the pending state extends the confirmed one by its
\* events; the one response that may wait tells the truth about it.
WriteInv ==
    /\ request # {} =>
          /\ alive
          /\ phase = "persisting"
          /\ \A i \in DOMAIN mailbox : mailbox[i].type # "response"
    /\ \A r \in request :
          /\ Follows(r.events, eventsCounter)
          /\ direct.state = Apply(currentState, r.events)
          /\ direct.counter = eventsCounter + Cardinality(r.events)
    /\ \A i \in DOMAIN mailbox :
          mailbox[i].type = "response" =>
              /\ phase = "persisting"
              /\ mailbox[i].outcome = Committed =>
                    Recorded(journal, store.rev, direct.state, direct.counter)
    /\ \A i, j \in DOMAIN mailbox :
          (mailbox[i].type = "response" /\ mailbox[j].type = "response") => i = j

IInv == TypeOK /\ BaseInv /\ WriteInv

-----------------------------------------------------------------------------
(***************************************************************************)
(* The refinement.                                                         *)
(***************************************************************************)

LogOf(c) == {e \in journal : e.cmd = c}

In(m, q) == \E i \in DOMAIN q : q[i] = m

\* Commands and reads, for which somebody waits.
Asks(m) == m.type \in {"command", "getState"}

Once(q) == \A i, j \in DOMAIN q : (q[i] = q[j] /\ Asks(q[i])) => i = j

\* A request that is held is held once.
OnceInv ==
    /\ Once(mailbox) /\ Once(stash)
    /\ \A m \in Messages : Asks(m) => ~(In(m, mailbox) /\ In(m, stash))

\* The caller of a request that is held waits for the answer.
WaitingInv == \A m \in Messages : (Asks(m) /\ Held(m)) => reply[m.id] = Waiting

\* The command whose events are written waits at the head of the stash, and
\* then at the head of the mailbox.
Turn(c) ==
    \/ phase = "persisting" /\ stash[1] = CommandMsg(c)
    \/ phase = "directReplying" /\ mailbox[1] = CommandMsg(c)

TurnInv ==
    /\ phase = "processing" => stash = << >>
    /\ phase = "persisting" => alive /\ stash # << >> /\ stash[1].type = "command"
    /\ phase = "directReplying" =>
          alive /\ stash = << >> /\ mailbox # << >> /\ mailbox[1].type = "command"
    /\ ~alive => mailbox = << >>

QueuesInv == OnceInv /\ WaitingInv /\ TurnInv

\* A write of the events of c.
WriteOf(r, c) ==
    \E b \in Nat : r = [events |-> BuildEnvelopes(c, made[c], b), pre |-> declared[c]]

\* Nothing of c was written, and nothing will be.
Untouched(c) == LogOf(c) = {} /\ \A r \in request \cup abandoned : ~WriteOf(r, c)

\* Events are made of a command in its turn.
MadeInv ==
    /\ \A c \in Commands : reply[c] = Unsent => made[c] = 0
    /\ \A c \in Commands : (Held(CommandMsg(c)) /\ ~Turn(c)) => made[c] = 0
    /\ \A c \in Commands : made[c] = 0 => Untouched(c)

\* The write of c may land, since c was told of neither a success nor a conflict.
MayLand(c) == made[c] > 0 /\ LogOf(c) = {} /\ reply[c].kind \in {"waiting", "error"}

\* A command has one write at most.
OneWriteInv ==
    /\ request \cap abandoned = {}
    /\ \A r \in request : \E c \in Commands : Turn(c) /\ WriteOf(r, c)
    /\ \A r \in request \cup abandoned : \E c \in Commands : WriteOf(r, c) /\ MayLand(c)
    /\ \A c \in Commands : \A r, q \in request \cup abandoned :
          (WriteOf(r, c) /\ WriteOf(q, c)) => r = q

\* The revision that a conflict names.
Named(outcome) == IF outcome.actual = NoRevision THEN 0 ELSE outcome.actual

\* What the outcome of the write of c says is so.
Settled(c, outcome, counter) ==
    /\ outcome = Committed =>
          Cardinality(LogOf(c)) = made[c] /\ \A e \in LogOf(c) : e.seq <= counter
    /\ outcome.kind = "conflict" =>
          Untouched(c) /\ declared[c] # Named(outcome) /\ Named(outcome) <= store.rev

SettledInv ==
    /\ \A c \in Commands, i \in DOMAIN mailbox :
          (Turn(c) /\ mailbox[i].type = "response") => Settled(c, mailbox[i].outcome, direct.counter)
    /\ phase = "persisting" => eventsCounter <= direct.counter
    /\ phase = "directReplying" =>
          /\ \A c \in Commands : Turn(c) => Settled(c, direct.err, eventsCounter)
          /\ (direct.err.kind = "conflict" /\ ~direct.shutdown) => direct.err.actual = eventsCounter

\* No caller was told of a revision that the store, or the actor, is behind.
ToldInv ==
    \A id \in Commands \cup Reads :
        reply[id].rev <= store.rev /\ (alive => reply[id].rev <= eventsCounter)

PeerInv == Cardinality(LogOf(Peer)) = peerWrites

RInv == QueuesInv /\ MadeInv /\ OneWriteInv /\ SettledInv /\ ToldInv /\ PeerInv
=============================================================================

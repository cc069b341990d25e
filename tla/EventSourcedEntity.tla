------------------------- MODULE EventSourcedEntity -------------------------
(***************************************************************************)
(* What the two write paths of an event-sourced entity share: the entity   *)
(* actor's mailbox, stash, confirmed state and life cycle; its children,   *)
(* the events writer, the snapshots writer and the events janitor; the     *)
(* stores; the event stream; and the callers.                              *)
(*                                                                         *)
(* DirectEntity adds the path that writes the events of one command at a   *)
(* time, BatchedEntity the path that gathers those of several.             *)
(*                                                                         *)
(* An event is [seq, cmd, nth]: its sequence number, and which of the      *)
(* events made from which command it is.  The entity state is what folding *)
(* events does to it: which events were folded in, and how many times      *)
(* HandleEvent ran.                                                        *)
(***************************************************************************)
EXTENDS EventStore, Sequences

CONSTANTS
    Commands,           \* commands, each sent at most once
    Reads,              \* GetStateCommand requests, each sent at most once
    Declarable,         \* the ExpectedRevision values callers declare
    MaxEvents,          \* most events the handler makes from one command
    Peer,               \* names the events that another writer committed
    MaxPeerWrites,      \* bound on such writes
    OverlapWrites,      \* may an abandoned write outlive its incarnation?
    SnapshotInterval,   \* 0 disables snapshots
    DeleteEventsOnSnapshot,
    DeleteSnapshotsOnSnapshot,
    EventsRetentionCount

ASSUME EntityAssumption ==
    /\ Commands \cap Reads = {}
    /\ Declarable \subseteq Preconditions
    /\ MaxEvents \in Nat
    /\ Peer \notin Commands
    /\ MaxPeerWrites \in Nat
    /\ OverlapWrites \in BOOLEAN
    /\ SnapshotInterval \in Nat
    /\ DeleteEventsOnSnapshot \in BOOLEAN
    /\ DeleteSnapshotsOnSnapshot \in BOOLEAN
    /\ EventsRetentionCount \in Nat

VARIABLES
    store, snapshots,           \* the two stores
    journal,                    \* history: the first event committed at each number
    published,                  \* what the event stream carried
    alive,                      \* is the entity actor running?
    phase,                      \* entity.phase
    currentState, eventsCounter,
    mailbox, stash,
    request,                    \* the write the actor waits for, if any
    abandoned,                  \* writes nobody waits for any more
    snapshotQueue, retentionQueue,
    reply, declared, made,      \* per caller: answer, ExpectedRevision, events made
    peerWrites

durable == <<store, snapshots, journal, published, peerWrites>>
actor   == <<alive, phase, currentState, eventsCounter, mailbox, stash>>
writers == <<request, abandoned, snapshotQueue, retentionQueue>>
callers == <<reply, declared, made>>

baseVars == <<durable, actor, writers, callers>>

-----------------------------------------------------------------------------
(***************************************************************************)
(* Events, states and messages.                                            *)
(***************************************************************************)

Event == [seq : Nat \ {0}, cmd : Commands \cup {Peer}, nth : Nat \ {0}]

InitialState == [seen |-> {}, folds |-> 0]

\* HandleEvent, once for each of the events, in sequence order.
Apply(state, evs) ==
    [seen |-> state.seen \cup evs, folds |-> state.folds + Cardinality(evs)]

\* A bug: the first event takes the number of the last confirmed one.
BuildEnvelopesOneEarly(c, n, counter) ==
    {[seq |-> counter + i - 1, cmd |-> c, nth |-> i] : i \in 1..n}

\* The n events that the handler made from c, numbered after counter.
BuildEnvelopes(c, n, counter) ==
    {[seq |-> counter + i, cmd |-> c, nth |-> i] : i \in 1..n}

CommandMsg(c) == [type |-> "command", id |-> c]
GetStateMsg(r) == [type |-> "getState", id |-> r]
ResponseMsg(outcome) == [type |-> "response", outcome |-> outcome]
TickMsg == [type |-> "tick"]

Unsent == [kind |-> "unsent", state |-> InitialState, rev |-> 0]
Waiting == [Unsent EXCEPT !.kind = "waiting"]
StateReply(state, rev) == [kind |-> "state", state |-> state, rev |-> rev]

\* A conflict and any other error differ for the caller: only the first says
\* that nothing was written.  It names the revision of the store, if known.
ErrorReply(outcome) ==
    [Unsent EXCEPT !.kind = outcome.kind,
                   !.rev = IF outcome.actual = NoRevision THEN 0 ELSE outcome.actual]

BaseInit ==
    /\ store = EmptyStore
    /\ snapshots = {}
    /\ journal = {}
    /\ published = {}
    /\ peerWrites = 0
    /\ alive = FALSE
    /\ phase = "processing"
    /\ currentState = InitialState
    /\ eventsCounter = 0
    /\ mailbox = << >>
    /\ stash = << >>
    /\ request = {}
    /\ abandoned = {}
    /\ snapshotQueue = << >>
    /\ retentionQueue = << >>
    /\ reply = [id \in Commands \cup Reads |-> Unsent]
    /\ declared = [c \in Commands |-> NoRevision]
    /\ made = [c \in Commands |-> 0]

-----------------------------------------------------------------------------
(***************************************************************************)
(* Recovery: PreStart rebuilds the state from the newest snapshot and the  *)
(* events after it.  A snapshot is [seq, state].                           *)
(***************************************************************************)

LatestSnapshot ==
    IF \E s \in snapshots : \A t \in snapshots : t.seq <= s.seq
    THEN CHOOSE s \in snapshots : \A t \in snapshots : t.seq <= s.seq
    ELSE [seq |-> 0, state |-> InitialState]

Recovered ==
    LET snap == LatestSnapshot
        latest == LatestSequence(store)
    IN  IF snap.seq + 1 <= latest
        THEN [state |-> Apply(snap.state, ReplayEvents(store, snap.seq + 1, latest)),
              counter |-> latest]
        ELSE [state |-> snap.state, counter |-> snap.seq]

Spawn ==
    /\ ~alive
    /\ OverlapWrites \/ abandoned = {}
    /\ alive' = TRUE
    /\ currentState' = Recovered.state
    /\ eventsCounter' = Recovered.counter
    /\ UNCHANGED <<durable, phase, mailbox, stash, writers, callers>>

-----------------------------------------------------------------------------
(***************************************************************************)
(* Stopping: by ctx.Shutdown, by passivation, or because the handler       *)
(* panicked or the node died.  Messages in the mailbox and in the stash    *)
(* are lost.  The write in flight goes on without anyone to answer; so may *)
(* the work queued at the other children.                                  *)
(***************************************************************************)

Terminate ==
    /\ alive' = FALSE
    /\ phase' = "processing"
    /\ currentState' = InitialState
    /\ eventsCounter' = 0
    /\ mailbox' = << >>
    /\ stash' = << >>
    /\ request' = {}
    /\ abandoned' = abandoned \cup request
    /\ \/ /\ snapshotQueue' = << >>
          /\ retentionQueue' = << >>
       \/ /\ OverlapWrites
          /\ UNCHANGED <<snapshotQueue, retentionQueue>>

Stop ==
    /\ alive
    /\ Terminate
    /\ UNCHANGED <<durable, callers>>

-----------------------------------------------------------------------------
(***************************************************************************)
(* Callers.  A message to an actor that does not run is refused at once.   *)
(***************************************************************************)

SendCommand(c, rev) ==
    /\ alive
    /\ reply[c] = Unsent
    /\ reply' = [reply EXCEPT ![c] = Waiting]
    /\ declared' = [declared EXCEPT ![c] = rev]
    /\ mailbox' = Append(mailbox, CommandMsg(c))
    /\ UNCHANGED <<durable, alive, phase, currentState, eventsCounter, stash, writers, made>>

SendGetState(r) ==
    /\ alive
    /\ reply[r] = Unsent
    /\ reply' = [reply EXCEPT ![r] = Waiting]
    /\ mailbox' = Append(mailbox, GetStateMsg(r))
    /\ UNCHANGED <<durable, alive, phase, currentState, eventsCounter, stash, writers,
                   declared, made>>

-----------------------------------------------------------------------------
(***************************************************************************)
(* Handler steps of the entity actor.                                      *)
(***************************************************************************)

Received(type) == alive /\ mailbox # << >> /\ Head(mailbox).type = type

Consume == mailbox' = Tail(mailbox) /\ UNCHANGED stash

\* ctx.Stash puts the message being handled at the end of the stash.
Stash == mailbox' = Tail(mailbox) /\ stash' = Append(stash, Head(mailbox))

\* A bug: stashed messages go behind the ones that wait.
UnstashAllLast == mailbox' = Tail(mailbox) \o stash /\ stash' = << >>

\* A bug: one message is unstashed.
UnstashOne ==
    IF stash = << >> THEN Consume
                     ELSE mailbox' = <<Head(stash)>> \o Tail(mailbox) /\ stash' = Tail(stash)

\* ctx.UnstashAll puts the stashed messages, in the order they were received,
\* before the messages that wait in the mailbox.
UnstashAll == mailbox' = stash \o Tail(mailbox) /\ stash' = << >>

Answer(id, answer) == reply' = [reply EXCEPT ![id] = answer]

\* A bug: every conflict is taken as proof that the actor is up to date.
StayAliveAfterAnyConflict(outcome) == outcome.kind = "conflict"

\* Only a conflict at the actor's own revision proves that it is up to date.
ShouldStayAliveAfterConflict(outcome) ==
    outcome.kind = "conflict" /\ outcome.actual = eventsCounter

\* snapshotAndRetain: the request carries the confirmed state.
SnapshotAndRetain(state, counter) ==
    snapshotQueue' = Append(snapshotQueue, [seq |-> counter, state |-> state])

-----------------------------------------------------------------------------
(***************************************************************************)
(* The events writer.  It writes, publishes and responds.  The actor asks  *)
(* it with a timeout that does not cancel the write.                       *)
(***************************************************************************)

Outcome(r) == WriteEvents(store, r.events, r.pre).outcome

Commit(r, announced) ==
    LET committed == Outcome(r) = Committed
    IN  /\ store' = WriteEvents(store, r.events, r.pre).store
        /\ journal' = IF committed THEN journal \cup Without(r.events, journal) ELSE journal
        /\ published' = IF committed /\ announced THEN published \cup r.events ELSE published

Respond(outcome) == mailbox' = Append(mailbox, ResponseMsg(outcome))

HandlePersistEvents ==
    \E r \in request :
        /\ Commit(r, TRUE)
        /\ Respond(Outcome(r))
        /\ request' = {}
        /\ UNCHANGED <<snapshots, peerWrites, alive, phase, currentState, eventsCounter, stash,
                       abandoned, snapshotQueue, retentionQueue, callers>>

\* The connection to the database breaks before or after the commit.
StoreFailure ==
    /\ StoreKind = "postgres"
    /\ \E r \in request :
        /\ Commit(r, FALSE) \/ UNCHANGED <<store, journal, published>>
        /\ Respond(Failed)
        /\ request' = {}
        /\ UNCHANGED <<snapshots, peerWrites, alive, phase, currentState, eventsCounter, stash,
                       abandoned, snapshotQueue, retentionQueue, callers>>

\* The ask times out while the write is still on its way.
AskTimeout ==
    /\ request # {}
    /\ Respond(Failed)
    /\ abandoned' = abandoned \cup request
    /\ request' = {}
    /\ UNCHANGED <<durable, alive, phase, currentState, eventsCounter, stash,
                   snapshotQueue, retentionQueue, callers>>

\* An abandoned write lands; the writer may stop before it publishes.
AbandonedLands ==
    \E r \in abandoned :
        /\ \E announced \in BOOLEAN : Commit(r, announced)
        /\ abandoned' = abandoned \ {r}
        /\ UNCHANGED <<snapshots, peerWrites, actor, request, snapshotQueue, retentionQueue,
                       callers>>

AbandonedLost ==
    \E r \in abandoned :
        /\ abandoned' = abandoned \ {r}
        /\ UNCHANGED <<durable, actor, request, snapshotQueue, retentionQueue, callers>>

\* Another writer of the same entity, up to date, commits an event.
PeerWrite ==
    /\ peerWrites < MaxPeerWrites
    /\ LET event == [seq |-> store.rev + 1, cmd |-> Peer, nth |-> peerWrites + 1]
       IN  Commit([events |-> {event}, pre |-> store.rev], TRUE)
    /\ peerWrites' = peerWrites + 1
    /\ UNCHANGED <<snapshots, actor, writers, callers>>

-----------------------------------------------------------------------------
(***************************************************************************)
(* The snapshots writer and the events janitor.  Either may give up after  *)
(* its retries; the failure is only logged.                                *)
(***************************************************************************)

RetentionPolicy == DeleteEventsOnSnapshot \/ DeleteSnapshotsOnSnapshot

WriteSnapshot(snap) == {s \in snapshots : s.seq # snap.seq} \cup {snap}

\* A bug: the retention request goes out whether or not the write succeeded.
RetainAnyway(written) == RetentionPolicy

\* Retention is forwarded to the janitor only after the snapshot was written.
ForwardRetention(written) == written /\ RetentionPolicy

HandlePersistSnapshot ==
    /\ snapshotQueue # << >>
    /\ \E written \in BOOLEAN :
        /\ snapshots' = IF written THEN WriteSnapshot(Head(snapshotQueue)) ELSE snapshots
        /\ retentionQueue' = IF ForwardRetention(written)
                             THEN Append(retentionQueue, Head(snapshotQueue).seq)
                             ELSE retentionQueue
    /\ snapshotQueue' = Tail(snapshotQueue)
    /\ UNCHANGED <<store, journal, published, peerWrites, actor, request, abandoned, callers>>

\* deleteUpTo: all but the newest EventsRetentionCount events.
DeleteUpTo(counter) == counter - Min({counter, EventsRetentionCount})

HandleApplyRetention ==
    /\ retentionQueue # << >>
    /\ LET counter == Head(retentionQueue)
       IN  /\ \/ UNCHANGED store
              \/ /\ DeleteEventsOnSnapshot
                 /\ DeleteUpTo(counter) > 0
                 /\ store' = DeleteEvents(store, DeleteUpTo(counter))
           /\ \/ UNCHANGED snapshots
              \/ /\ DeleteSnapshotsOnSnapshot
                 /\ counter > SnapshotInterval
                 /\ snapshots' = {s \in snapshots : s.seq > counter - SnapshotInterval}
    /\ retentionQueue' = Tail(retentionQueue)
    /\ UNCHANGED <<journal, published, peerWrites, actor, request, abandoned, snapshotQueue,
                   callers>>

-----------------------------------------------------------------------------
(***************************************************************************)
(* Types.                                                                  *)
(***************************************************************************)

States == [seen : SUBSET Event, folds : Nat]
Requests == [events : SUBSET Event, pre : Preconditions]
Replies == [kind : {"unsent", "waiting", "state", "conflict", "error"},
            state : States, rev : Nat]
Messages == [type : {"command"}, id : Commands]
            \cup [type : {"getState"}, id : Reads]
            \cup [type : {"response"}, outcome : Outcomes]
            \cup [type : {"tick"}]
Snapshots == [seq : Nat, state : States]

\* A write holds finitely many events and one of them is the last.
WellFormed(r) ==
    /\ IsFiniteSet(r.events)
    /\ \E n \in Numbers(r.events) : \A m \in Numbers(r.events) : m <= n

BaseTypeOK ==
    /\ store \in [rev : Nat, events : SUBSET Event]
    /\ IsFiniteSet(store.events)
    /\ snapshots \subseteq Snapshots
    /\ journal \subseteq Event
    /\ published \subseteq Event
    /\ peerWrites \in 0..MaxPeerWrites
    /\ alive \in BOOLEAN
    /\ currentState \in States
    /\ eventsCounter \in Nat
    /\ mailbox \in Seq(Messages)
    /\ stash \in Seq(Messages)
    /\ request \subseteq Requests
    /\ abandoned \subseteq Requests
    /\ \A r \in request \cup abandoned : WellFormed(r)
    /\ snapshotQueue \in Seq(Snapshots)
    /\ retentionQueue \in Seq(Nat)
    /\ reply \in [Commands \cup Reads -> Replies]
    /\ declared \in [Commands -> Preconditions]
    /\ made \in [Commands -> Nat]

-----------------------------------------------------------------------------
(***************************************************************************)
(* Properties that both write paths share.                                 *)
(***************************************************************************)

\* The state is the fold of the first rev events of a log, each once.
FoldOf(log, state, rev) ==
    /\ state.seen = {e \in log : e.seq <= rev}
    /\ Numbers(state.seen) = 1..rev
    /\ state.folds = rev

CommittedPrefix(state, rev) == FoldOf(journal, state, rev)

(* An event of the store is the event that was first committed under its
   sequence number: no write replaces one, and none takes the place of one that
   retention deleted (newEventLog and the INSERT statements). *)
EventsAreOriginal == store.events \subseteq journal

(* Whatever snapshots were written or lost and whatever retention deleted, a
   recovery started now rebuilds every committed event, each folded once, and
   the counter it ends with is the storage revision (recover). *)
RecoveryIsComplete ==
    /\ CommittedPrefix(Recovered.state, Recovered.counter)
    /\ Recovered.counter = store.rev

(* "The actor state always matches what is stored": the state the running actor
   works on is a fold of committed events only, up to its counter. *)
StateIsCommitted == alive => CommittedPrefix(currentState, eventsCounter)

(* Every state handed to a caller, by a command or by a read, is a committed
   state at the revision that the reply names (sendStateReply). *)
RepliesAreCommitted ==
    \A id \in Commands \cup Reads :
        reply[id].kind = "state" => CommittedPrefix(reply[id].state, reply[id].rev)

(* "Downstream consumers never observe events that failed to persist": what the
   stream carried is what was committed under that sequence number. *)
PublishedArePersisted == published \subseteq journal

(* The three together: what the actor works on, what it tells callers and what it
   publishes is committed, at the revision it goes by. *)
OnlyCommittedIsSeen == StateIsCommitted /\ RepliesAreCommitted /\ PublishedArePersisted

(* A command that declared ExpectedRevision = E and succeeded has its events at
   E + 1, E + 2, ...: nothing was committed between what the caller saw and what
   it wrote.  One that is told of a conflict left no event behind, then or later,
   although the write of an earlier incarnation may land at any time. *)
DeclaredRevisionRespected ==
    \A c \in Commands :
        /\ (reply[c].kind = "state" /\ declared[c] # NoRevision) =>
              BuildEnvelopes(c, made[c], declared[c]) \subseteq journal
        /\ reply[c].kind = "conflict" => \A e \in journal : e.cmd # c

Held(m) == \/ \E i \in DOMAIN mailbox : mailbox[i] = m
           \/ \E i \in DOMAIN stash : stash[i] = m

(* No message is stranded: a command or a read in the mailbox or in the stash is
   answered, or lost with the actor, and is never left in the stash for good, nor
   in a batch that does not fill up. *)
NoneStranded ==
    /\ \A c \in Commands : Held(CommandMsg(c)) ~> ~Held(CommandMsg(c))
    /\ \A r \in Reads : Held(GetStateMsg(r)) ~> ~Held(GetStateMsg(r))
=============================================================================

---------------------- MODULE EventSourcedEntityProofs ----------------------
(***************************************************************************)
(* Lemmas about what the two write paths of an event-sourced entity share: *)
(* that every shared step preserves types, and what it does to the log.    *)
(***************************************************************************)
EXTENDS EventSourcedEntity, EventLogProofs

(* Sequence numbers of events are natural numbers. *)
LEMMA EventsAreNumbered == Numbered(Event)
BY DEF Numbered, Event

(* What the handler makes is a write: finitely many events, one of them last. *)
LEMMA EnvelopesType ==
    ASSUME NEW c \in Commands, NEW n \in Nat \ {0}, NEW counter \in Nat
    PROVE  IsWrite(BuildEnvelopes(c, n, counter), Event)
<1> DEFINE evs == BuildEnvelopes(c, n, counter)
           f == [e \in evs |-> e.nth]
<1>1. evs \in SUBSET Event
  BY DEF BuildEnvelopes, Event
<1>2. f \in Injection(evs, 1..n)
  <2>1. f \in [evs -> 1..n]
    BY DEF BuildEnvelopes
  <2>2. \A a, b \in evs : a.nth = b.nth => a = b
    BY DEF BuildEnvelopes
  <2> QED
    BY <2>1, <2>2 DEF Injection, IsInjective
<1>3. IsFiniteSet(evs)
  <2>1. IsFiniteSet(1..n)
    BY FS_Interval
  <2> HIDE DEF f, evs
  <2> QED
    BY <1>2, <2>1, FS_Injection
<1>4. \E k \in Numbers(evs) : \A m \in Numbers(evs) : m <= k
  <2>1. [seq |-> counter + n, cmd |-> c, nth |-> n] \in evs
    BY DEF BuildEnvelopes
  <2>2. counter + n \in Numbers(evs)
    <3> HIDE DEF evs
    <3> QED BY <2>1 DEF Numbers
  <2>3. \A e \in evs : e.seq <= counter + n
    BY DEF BuildEnvelopes
  <2>4. \A m \in Numbers(evs) : m <= counter + n
    <3> HIDE DEF evs
    <3> QED BY <2>3 DEF Numbers
  <2> QED
    BY <2>2, <2>4
<1> QED
  BY <1>1, <1>3, <1>4 DEF IsWrite

(* Folding finitely many events into a state gives a state. *)
LEMMA ApplyType ==
    ASSUME NEW state \in States, NEW evs \in SUBSET Event, IsFiniteSet(evs)
    PROVE  Apply(state, evs) \in States
BY FS_CardinalityType DEF Apply, States

LEMMA MessageTypes ==
    /\ \A c \in Commands : CommandMsg(c) \in Messages
    /\ \A r \in Reads : GetStateMsg(r) \in Messages
    /\ \A o \in Outcomes : ResponseMsg(o) \in Messages
    /\ TickMsg \in Messages
    /\ \A m \in Messages : m.type = "command" => m.id \in Commands
    /\ \A m \in Messages : m.type = "getState" => m.id \in Reads
    /\ \A m \in Messages : m.type = "response" => m.outcome \in Outcomes
BY DEF CommandMsg, GetStateMsg, ResponseMsg, TickMsg, Messages

(* The commands in a queue of messages are commands. *)
LEMMA CommandIds ==
    ASSUME NEW q \in Seq(Messages)
    PROVE  \A i \in DOMAIN q : q[i].type = "command" => q[i].id \in Commands
<1>1. \A i \in DOMAIN q : q[i] \in Messages
  OBVIOUS
<1> QED
  BY <1>1, MessageTypes

(* What recovery rebuilds is a state and a counter. *)
LEMMA RecoveredType ==
    ASSUME BaseTypeOK
    PROVE  Recovered.state \in States /\ Recovered.counter \in Nat
<1>1. LatestSnapshot.seq \in Nat /\ LatestSnapshot.state \in States
  BY InitialStateType DEF BaseTypeOK, LatestSnapshot, Snapshots
<1>2. LatestSequence(store) \in Nat
  <2>1. Numbers(store.events) \in SUBSET Nat
    BY DEF BaseTypeOK, Numbers, Event
  <2> QED
    BY <2>1, MaxProperty DEF LatestSequence
<1> DEFINE evs == ReplayEvents(store, LatestSnapshot.seq + 1, LatestSequence(store))
<1>3. evs \in SUBSET store.events
  BY DEF ReplayEvents
<1>4. evs \in SUBSET Event /\ IsFiniteSet(evs)
  BY <1>3, FS_Subset DEF BaseTypeOK
<1>5. Apply(LatestSnapshot.state, evs) \in States
  BY <1>1, <1>4, ApplyType
<1> QED
  BY <1>1, <1>2, <1>5 DEF Recovered

-----------------------------------------------------------------------------
(***************************************************************************)
(* Types: one lemma per shared step.                                       *)
(***************************************************************************)

LEMMA EmptyQueues ==
    << >> \in Seq(Messages) /\ << >> \in Seq(Snapshots) /\ << >> \in Seq(Nat)
OBVIOUS

LEMMA BaseInitType == BaseInit => BaseTypeOK
<1> SUFFICES ASSUME BaseInit PROVE BaseTypeOK
  OBVIOUS
<1>1. IsFiniteSet({})
  BY FS_EmptySet
<1>2. EmptyStore \in [rev : Nat, events : SUBSET Event] /\ EmptyStore.events = {}
  BY DEF EmptyStore
<1>3. /\ reply \in [Commands \cup Reads -> Replies]
      /\ declared \in [Commands -> Preconditions]
      /\ made \in [Commands -> Nat]
  BY ReplyTypes DEF BaseInit, Preconditions
<1>4. peerWrites \in 0..MaxPeerWrites
  BY EntityAssumption DEF BaseInit
<1> QED
  BY <1>1, <1>2, <1>3, <1>4, InitialStateType, EmptyQueues, Zenon DEF BaseInit, BaseTypeOK

(* Committing a well-formed write keeps the store, the journal and the stream
   in their types. *)
LEMMA CommitType ==
    ASSUME BaseTypeOK, NEW r \in Requests, WellFormed(r), NEW announced, Commit(r, announced)
    PROVE  /\ Outcome(r) \in Outcomes
           /\ store' \in [rev : Nat, events : SUBSET Event]
           /\ IsFiniteSet(store'.events)
           /\ journal' \subseteq Event
           /\ published' \subseteq Event
<1>1. IsStore(store, Event)
  BY DEF BaseTypeOK, IsStore
<1>2. IsWrite(r.events, Event) /\ r.pre \in Preconditions
  BY DEF IsWrite, WellFormed, Requests
<1>3. Outcome(r) \in Outcomes /\ IsStore(store', Event)
  BY <1>1, <1>2, WriteEventsType, EventsAreNumbered DEF Commit, Outcome
<1>4. Without(r.events, journal) \subseteq Event /\ r.events \subseteq Event
  BY DEF Without, Requests
<1> QED
  BY <1>3, <1>4 DEF Commit, IsStore, BaseTypeOK

LEMMA SpawnType ==
    ASSUME BaseTypeOK, Spawn
    PROVE  BaseTypeOK'
BY RecoveredType DEF Spawn, BaseTypeOK, WellFormed, durable, writers, callers

LEMMA TerminateType ==
    ASSUME BaseTypeOK, Terminate, UNCHANGED <<durable, declared, made>>,
           reply' \in [Commands \cup Reads -> Replies]
    PROVE  BaseTypeOK'
<1>1. \A r \in abandoned' : r \in Requests /\ WellFormed(r)
  BY DEF BaseTypeOK, Terminate
<1> QED
  BY <1>1, InitialStateType, EmptyQueues, Zenon DEF Terminate, BaseTypeOK, WellFormed, durable

LEMMA StopType ==
    ASSUME BaseTypeOK, Stop
    PROVE  BaseTypeOK'
<1>1. reply' \in [Commands \cup Reads -> Replies]
  BY DEF BaseTypeOK, Stop, callers
<1> QED
  BY <1>1, TerminateType DEF Stop, callers

LEMMA SendCommandType ==
    ASSUME BaseTypeOK, NEW c \in Commands, NEW rev \in Declarable, SendCommand(c, rev)
    PROVE  BaseTypeOK'
<1>1. reply' \in [Commands \cup Reads -> Replies]
  BY ReplyTypes DEF BaseTypeOK, SendCommand
<1>2. declared' \in [Commands -> Preconditions]
  BY EntityAssumption DEF BaseTypeOK, SendCommand
<1>3. mailbox' \in Seq(Messages)
  BY MessageTypes DEF BaseTypeOK, SendCommand
<1> QED
  BY <1>1, <1>2, <1>3 DEF SendCommand, BaseTypeOK, WellFormed, durable, writers

LEMMA SendGetStateType ==
    ASSUME BaseTypeOK, NEW r \in Reads, SendGetState(r)
    PROVE  BaseTypeOK'
<1>1. reply' \in [Commands \cup Reads -> Replies]
  BY ReplyTypes DEF BaseTypeOK, SendGetState
<1>2. mailbox' \in Seq(Messages)
  BY MessageTypes DEF BaseTypeOK, SendGetState
<1> QED
  BY <1>1, <1>2, Zenon DEF SendGetState, BaseTypeOK, WellFormed, durable, writers

LEMMA HandlePersistEventsType ==
    ASSUME BaseTypeOK, HandlePersistEvents
    PROVE  BaseTypeOK'
<1> PICK r \in request :
        /\ Commit(r, TRUE)
        /\ Respond(Outcome(r))
        /\ request' = {}
        /\ UNCHANGED <<snapshots, peerWrites, alive, phase, currentState, eventsCounter, stash,
                       abandoned, snapshotQueue, retentionQueue, callers>>
  BY Zenon DEF HandlePersistEvents
<1>1. r \in Requests /\ WellFormed(r)
  BY DEF BaseTypeOK
<1>2. ResponseMsg(Outcome(r)) \in Messages
  BY <1>1, CommitType, MessageTypes, Zenon
<1>3. mailbox' \in Seq(Messages)
  BY <1>2 DEF BaseTypeOK, Respond
<1> QED
  BY <1>1, <1>3, CommitType, Zenon DEF BaseTypeOK, WellFormed, callers

LEMMA StoreFailureType ==
    ASSUME BaseTypeOK, StoreFailure
    PROVE  BaseTypeOK'
<1> PICK r \in request :
        /\ Commit(r, FALSE) \/ UNCHANGED <<store, journal, published>>
        /\ Respond(Failed)
        /\ request' = {}
        /\ UNCHANGED <<snapshots, peerWrites, alive, phase, currentState, eventsCounter, stash,
                       abandoned, snapshotQueue, retentionQueue, callers>>
  BY ZenonT(30) DEF StoreFailure
<1>1. r \in Requests /\ WellFormed(r)
  BY DEF BaseTypeOK
<1>2. mailbox' \in Seq(Messages)
  BY ReplyTypes, MessageTypes DEF BaseTypeOK, Respond
<1>3. /\ store' \in [rev : Nat, events : SUBSET Event]
      /\ IsFiniteSet(store'.events)
      /\ journal' \subseteq Event
      /\ published' \subseteq Event
  BY <1>1, CommitType, Zenon DEF BaseTypeOK
<1> QED
  BY <1>2, <1>3, Zenon DEF BaseTypeOK, WellFormed, callers

LEMMA AskTimeoutType ==
    ASSUME BaseTypeOK, AskTimeout
    PROVE  BaseTypeOK'
<1>1. mailbox' \in Seq(Messages)
  <2>1. mailbox \in Seq(Messages) /\ mailbox' = Append(mailbox, ResponseMsg(Failed))
    BY DEF BaseTypeOK, Respond, AskTimeout
  <2>2. ResponseMsg(Failed) \in Messages
    BY ReplyTypes, MessageTypes
  <2> QED
    BY <2>1, <2>2
<1>2. \A r \in request' \cup abandoned' : r \in Requests /\ WellFormed(r)
  BY DEF BaseTypeOK, AskTimeout
<1> QED
  BY <1>1, <1>2 DEF AskTimeout, BaseTypeOK, WellFormed, durable, callers

LEMMA AbandonedLandsType ==
    ASSUME BaseTypeOK, AbandonedLands
    PROVE  BaseTypeOK'
<1> PICK r \in abandoned :
        /\ \E announced \in BOOLEAN : Commit(r, announced)
        /\ abandoned' = abandoned \ {r}
        /\ UNCHANGED <<snapshots, peerWrites, actor, request, snapshotQueue, retentionQueue,
                       callers>>
  BY DEF AbandonedLands
<1>1. r \in Requests /\ WellFormed(r)
  BY DEF BaseTypeOK
<1>2. /\ store' \in [rev : Nat, events : SUBSET Event]
      /\ IsFiniteSet(store'.events)
      /\ journal' \subseteq Event
      /\ published' \subseteq Event
  BY <1>1, CommitType
<1>3. \A q \in request' \cup abandoned' : q \in Requests /\ WellFormed(q)
  BY DEF BaseTypeOK
<1> QED
  BY <1>2, <1>3, Zenon DEF BaseTypeOK, WellFormed, actor, callers

LEMMA AbandonedLostType ==
    ASSUME BaseTypeOK, AbandonedLost
    PROVE  BaseTypeOK'
<1>1. \A q \in request' \cup abandoned' : q \in Requests /\ WellFormed(q)
  BY DEF BaseTypeOK, AbandonedLost
<1> QED
  BY <1>1, Zenon DEF AbandonedLost, BaseTypeOK, WellFormed, durable, actor, callers

LEMMA PeerWriteType ==
    ASSUME BaseTypeOK, PeerWrite
    PROVE  BaseTypeOK'
<1> DEFINE event == [seq |-> store.rev + 1, cmd |-> Peer, nth |-> peerWrites + 1]
           r == [events |-> {event}, pre |-> store.rev]
<1>1. store.rev \in Nat /\ peerWrites \in Nat
  BY EntityAssumption DEF BaseTypeOK
<1>2. event \in Event
  BY <1>1 DEF Event
<1>3. r \in Requests /\ WellFormed(r)
  <2>1. r \in Requests
    BY <1>1, <1>2 DEF Requests, Preconditions
  <2>2. IsFiniteSet({event})
    BY FS_Singleton, Zenon
  <2>3. Numbers({event}) = {store.rev + 1}
    BY DEF Numbers
  <2> QED
    BY <1>1, <2>1, <2>2, <2>3 DEF WellFormed
<1>4. Commit(r, TRUE)
  BY Zenon DEF PeerWrite
<1>5. /\ store' \in [rev : Nat, events : SUBSET Event]
      /\ IsFiniteSet(store'.events)
      /\ journal' \subseteq Event
      /\ published' \subseteq Event
  <2> HIDE DEF r
  <2> QED BY <1>3, <1>4, CommitType, Zenon
<1>6. peerWrites' \in 0..MaxPeerWrites
  BY <1>1, EntityAssumption DEF PeerWrite, BaseTypeOK
<1> QED
  BY <1>5, <1>6 DEF PeerWrite, BaseTypeOK, WellFormed, actor, writers, callers

LEMMA HandlePersistSnapshotType ==
    ASSUME BaseTypeOK, HandlePersistSnapshot
    PROVE  BaseTypeOK'
<1>1. /\ Head(snapshotQueue) \in Snapshots
      /\ Tail(snapshotQueue) \in Seq(Snapshots)
  BY HeadTailProperties DEF BaseTypeOK, HandlePersistSnapshot
<1>2. snapshots' \subseteq Snapshots
  BY <1>1 DEF BaseTypeOK, HandlePersistSnapshot, WriteSnapshot
<1>3. retentionQueue' \in Seq(Nat)
  <2>1. Head(snapshotQueue).seq \in Nat
    BY <1>1 DEF Snapshots
  <2> QED
    BY <2>1 DEF BaseTypeOK, HandlePersistSnapshot
<1> QED
  BY <1>1, <1>2, <1>3 DEF HandlePersistSnapshot, BaseTypeOK, WellFormed, actor, callers

LEMMA HandleApplyRetentionType ==
    ASSUME BaseTypeOK, HandleApplyRetention
    PROVE  BaseTypeOK'
<1>1. Tail(retentionQueue) \in Seq(Nat)
  BY HeadTailProperties DEF BaseTypeOK, HandleApplyRetention
<1>2. snapshots' \subseteq Snapshots
  BY DEF BaseTypeOK, HandleApplyRetention
<1>3. \/ store' = store
      \/ \E upTo : store' = DeleteEvents(store, upTo)
  BY DEF HandleApplyRetention
<1>4. /\ store' \in [rev : Nat, events : SUBSET Event]
      /\ store'.events \in SUBSET store.events
  BY <1>3 DEF DeleteEvents, BaseTypeOK
<1>5. IsFiniteSet(store'.events)
  BY <1>4, FS_Subset DEF BaseTypeOK
<1> QED
  BY <1>1, <1>2, <1>4, <1>5 DEF HandleApplyRetention, BaseTypeOK, WellFormed, actor, callers

LEMMA BaseUnchangedType ==
    ASSUME BaseTypeOK, UNCHANGED baseVars
    PROVE  BaseTypeOK'
BY DEF BaseTypeOK, WellFormed, baseVars, durable, actor, writers, callers

(* Whatever a handler does with the message it handles, the mailbox and the
   stash stay queues of messages. *)
LEMMA QueueTypes ==
    ASSUME BaseTypeOK, NEW type, Received(type), Consume \/ Stash \/ UnstashAll
    PROVE  mailbox' \in Seq(Messages) /\ stash' \in Seq(Messages)
<1>1. mailbox \in Seq(Messages) /\ mailbox # << >> /\ stash \in Seq(Messages)
  BY DEF BaseTypeOK, Received
<1>2. Head(mailbox) \in Messages /\ Tail(mailbox) \in Seq(Messages)
  BY <1>1, HeadTailProperties
<1>3. /\ Append(stash, Head(mailbox)) \in Seq(Messages)
      /\ stash \o Tail(mailbox) \in Seq(Messages)
  BY <1>1, <1>2
<1> QED
  BY <1>1, <1>2, <1>3, EmptyQueues, Zenon DEF Consume, Stash, UnstashAll

LEMMA ReceivedTypes ==
    ASSUME BaseTypeOK
    PROVE  /\ Received("command") => Head(mailbox).id \in Commands
           /\ Received("getState") => Head(mailbox).id \in Reads
           /\ Received("response") => Head(mailbox).outcome \in Outcomes
<1>1. mailbox # << >> => Head(mailbox) \in Messages
  BY HeadTailProperties DEF BaseTypeOK
<1> QED
  BY <1>1, MessageTypes DEF Received

-----------------------------------------------------------------------------
(***************************************************************************)
(* The log.  When every command declares a revision, the postgres store    *)
(* keeps a log without gaps to which writes append.  This is the inductive *)
(* invariant of what both write paths share.                               *)
(***************************************************************************)

(* A recorded state stays recorded while the log only grows at its end. *)
LEMMA RecordedStays ==
    ASSUME NEW log, NEW log2 \in SUBSET Event, NEW last \in Nat, NEW last2 \in Nat,
           last <= last2, log \subseteq log2, \A e \in log2 \ log : e.seq > last,
           NEW state, NEW n, Recorded(log, last, state, n)
    PROVE  Recorded(log2, last2, state, n)
<1>1. n \in Nat /\ n <= last
  BY DEF Recorded
<1>2. {e \in log2 : e.seq <= n} = {e \in log : e.seq <= n}
  BY <1>1 DEF Event
<1> QED
  BY <1>1, <1>2 DEF Recorded, FoldOf

(* Folding the events that follow a log into its state records their union. *)
LEMMA RecordedExtends ==
    ASSUME NEW log \in SUBSET Event, NEW evs \in SUBSET Event, IsFiniteSet(evs), NEW b \in Nat,
           Numbers(log) = 1..b, Follows(evs, b), NEW state, Recorded(log, b, state, b)
    PROVE  LET n == b + Cardinality(evs)
           IN  Recorded(log \cup evs, n, Apply(state, evs), n)
<1> DEFINE n == b + Cardinality(evs)
           after == Apply(state, evs)
<1>1. Cardinality(evs) \in Nat
  BY FS_CardinalityType
<1>2. /\ \A e \in log : e.seq \in 1..b
      /\ \A e \in evs : e.seq \in b + 1..n
  BY DEF Numbers, Follows
<1>3. state.seen = log
  BY <1>2 DEF Recorded, FoldOf
<1>4. after.seen = log \cup evs /\ after.folds = n
  BY <1>3 DEF Apply, Recorded, FoldOf
<1>5. log \cup evs = {e \in log \cup evs : e.seq <= n}
  BY <1>1, <1>2
<1>6. Numbers(log \cup evs) = 1..n
  <2>1. Numbers(log \cup evs) = Numbers(log) \cup Numbers(evs)
    BY NumbersOfUnion
  <2>2. 1..b \cup b + 1..n = 1..n
    BY <1>1
  <2> QED
    BY <2>1, <2>2, ZenonT(30) DEF Follows
<1>7. n \in 0..n
  BY <1>1
<1> QED
  BY <1>4, <1>5, <1>6, <1>7 DEF Recorded, FoldOf

(* On postgres, a write that declared a revision either leaves the log as it is
   or appends to its end, and then it was numbered from the store's revision. *)
LEMMA CommitAppends ==
    ASSUME StoreKind = "postgres", BaseTypeOK, LogInv,
           NEW r \in Requests, WellFormed(r), r.pre # NoRevision,
           NEW b \in 0..store.rev, Follows(r.events, b),
           NEW announced \in BOOLEAN, Commit(r, announced)
    PROVE  /\ LogInv'
           /\ store'.rev >= store.rev
           /\ journal \subseteq journal'
           /\ \A e \in journal' \ journal : e.seq > store.rev
           /\ Outcome(r) = Committed =>
                 /\ store.rev = b
                 /\ journal' = journal \cup r.events
                 /\ store'.rev = b + Cardinality(r.events)
<1>1. CASE Outcome(r) # Committed
  <2>1. UNCHANGED <<store, journal, published>>
    BY <1>1, FailureWritesNothing DEF Commit, Outcome
  <2> QED
    BY <1>1, <2>1 DEF LogInv, BaseTypeOK
<1>2. CASE Outcome(r) = Committed
  <2> DEFINE n == Cardinality(r.events)
             evs == r.events
  <2>1. IsStore(store, Event) /\ IsWrite(evs, Event) /\ store.rev \in Nat /\ b \in Nat
    BY DEF IsStore, IsWrite, BaseTypeOK, WellFormed, Requests
  <2>2. /\ Without(evs, store.events) = evs
        /\ Numbers(store.events) \cap Numbers(evs) = {}
        /\ store'.events = store.events \cup evs
        /\ store'.rev = Advance(store, evs)
    BY <1>2, DeclaredWriteIsWhole DEF Commit, Outcome
  <2>3. n \in Nat \ {0}
    BY <2>1, FS_CardinalityType, FS_EmptySet, ZenonT(30) DEF Follows, IsWrite
  <2>4. Numbers(evs) = b + 1..b + n /\ Unambiguous(evs)
    BY DEF Follows
  <2>5. store.rev = b
    <3>1. b + 1 \in Numbers(evs)
      BY <2>1, <2>3, <2>4
    <3>2. b + 1 \notin 1..store.rev
      BY <2>2, <3>1 DEF LogInv
    <3> QED
      BY <2>1, <3>2
  <2>6. store'.rev = b + n
    <3>1. /\ Advance(store, evs) \in Nat
          /\ Advance(store, evs) \in {store.rev} \cup Numbers(evs)
          /\ \A m \in Numbers(evs) : m <= Advance(store, evs)
      BY <2>1, AdvanceProperty, EventsAreNumbered
    <3>2. b + n \in Numbers(evs)
      BY <2>1, <2>3, <2>4
    <3> QED
      BY <2>1, <2>2, <2>3, <2>4, <2>5, <3>1, <3>2
  <2>7. journal' = journal \cup evs /\ published' \subseteq journal'
    BY <1>2, <2>2 DEF Commit, LogInv
  <2>8. Numbers(journal') = 1..store'.rev
    <3>1. Numbers(journal \cup evs) = Numbers(journal) \cup Numbers(evs)
      BY NumbersOfUnion
    <3>2. Numbers(journal \cup evs) = 1..b \cup b + 1..b + n
      <4>1. Numbers(journal) = 1..b
        BY <2>5 DEF LogInv
      <4> HIDE DEF n, evs
      <4> QED BY <2>4, <3>1, <4>1, ZenonT(30)
    <3>3. 1..b \cup b + 1..b + n = 1..b + n
      BY <2>1, <2>3
    <3> QED
      BY <2>6, <2>7, <3>2, <3>3, Zenon
  <2>9. Unambiguous(journal')
    <3>1. \A d \in journal, e \in evs : d.seq # e.seq
      <4>1. Numbers(journal) \cap Numbers(evs) = {}
        BY <2>2 DEF LogInv
      <4> HIDE DEF evs
      <4> QED BY <4>1 DEF Numbers
    <3>2. Unambiguous(journal)
      BY DEF LogInv
    <3> HIDE DEF evs
    <3> QED BY <2>4, <2>7, <3>1, <3>2 DEF Unambiguous
  <2>10. \A e \in evs : e.seq > store.rev
    <3>1. \A e \in evs : e.seq \in b + 1..b + n
      BY <2>4 DEF Numbers
    <3> QED
      BY <2>1, <2>3, <2>5, <3>1
  <2> QED
    BY <2>1, <2>2, <2>3, <2>5, <2>6, <2>7, <2>8, <2>9, <2>10 DEF LogInv
<1> QED
  BY <1>1, <1>2

(* Recovery rebuilds the last committed state, whichever snapshots exist. *)
LEMMA RecoveredRecorded ==
    ASSUME BaseTypeOK, LogInv, SnapshotsInv
    PROVE  /\ Recorded(journal, store.rev, Recovered.state, Recovered.counter)
           /\ Recovered.counter = store.rev
<1> DEFINE snap == LatestSnapshot
           k == snap.seq
           rev == store.rev
           evs == ReplayEvents(store, k + 1, rev)
<1>1. rev \in Nat /\ store.events = journal /\ journal \in SUBSET Event
  BY DEF BaseTypeOK, LogInv
<1>2. \A e \in journal : e.seq \in 1..rev
  BY DEF LogInv, Numbers
<1>3. Recorded(journal, rev, snap.state, k)
  <2>1. CASE snap \in snapshots
    BY <2>1 DEF SnapshotsInv
  <2>2. CASE snap = [seq |-> 0, state |-> InitialState]
    <3>1. {e \in journal : e.seq <= 0} = {}
      BY <1>1, <1>2
    <3>2. Numbers({}) = 1..0
      BY DEF Numbers
    <3>3. k = 0 /\ snap.state.seen = {} /\ snap.state.folds = 0
      BY <2>2 DEF InitialState
    <3> HIDE DEF snap, k
    <3> QED
      BY <1>1, <3>1, <3>2, <3>3 DEF Recorded, FoldOf
  <2> QED
    BY <2>1, <2>2 DEF LatestSnapshot
<1>4. k \in 0..rev
  BY <1>3 DEF Recorded
<1>5. LatestSequence(store) = rev
  <2>1. Numbers(store.events) = 1..rev
    BY <1>1 DEF LogInv
  <2>2. CASE rev = 0
    BY <2>1, <2>2 DEF LatestSequence
  <2>3. CASE rev > 0
    <3>1. 1..rev \in SUBSET Nat /\ rev \in 1..rev /\ \A m \in 1..rev : m <= rev
      BY <1>1, <2>3
    <3>2. Max(1..rev) \in 1..rev /\ \A m \in 1..rev : m <= Max(1..rev)
      BY <3>1, MaxProperty
    <3>3. Max(1..rev) = rev
      BY <1>1, <3>1, <3>2
    <3> QED
      BY <2>1, <3>1, <3>3 DEF LatestSequence
  <2> QED
    BY <1>1, <2>2, <2>3
<1>6. CASE k = rev
  <2>1. ~(k + 1 <= rev)
    BY <1>1, <1>6
  <2>2. Recovered = [state |-> snap.state, counter |-> k]
    BY <1>5, <2>1 DEF Recovered
  <2> HIDE DEF snap, k
  <2> QED
    BY <1>3, <1>6, <2>2
<1>7. CASE k < rev
  <2>1. k + 1 <= rev /\ k \in Nat
    BY <1>1, <1>4, <1>7
  <2>2. evs = {e \in journal : k + 1 <= e.seq /\ e.seq <= rev}
    BY <1>1 DEF ReplayEvents
  <2>3. evs \in SUBSET Event /\ Unambiguous(evs)
    BY <1>1, <2>2 DEF LogInv, Unambiguous
  <2>4. Numbers(evs) = k + 1..rev
    <3>1. \A n \in k + 1..rev : \E e \in journal : e.seq = n
      <4>1. \A n \in 1..rev : \E e \in journal : e.seq = n
        BY DEF LogInv, Numbers
      <4> QED
        BY <1>1, <2>1, <4>1
    <3>2. \A n \in k + 1..rev : \E e \in evs : e.seq = n
      BY <1>1, <2>1, <2>2, <3>1
    <3>3. \A e \in evs : e.seq \in k + 1..rev
      BY <1>1, <1>2, <2>1, <2>2
    <3> HIDE DEF evs, k
    <3> QED
      BY <3>2, <3>3 DEF Numbers
  <2>5. Cardinality(evs) = rev - k
    <3> HIDE DEF evs, k, rev
    <3> QED BY <1>1, <1>7, <2>1, <2>3, <2>4, CountOfRange
  <2>6. Recovered = [state |-> Apply(snap.state, evs), counter |-> rev]
    BY <1>5, <2>1 DEF Recovered
  <2>7. snap.state.seen = {e \in journal : e.seq <= k} /\ snap.state.folds = k
    BY <1>3 DEF Recorded, FoldOf
  <2>8. Apply(snap.state, evs).seen = {e \in journal : e.seq <= rev}
    <3>1. snap.state.seen \cup evs = {e \in journal : e.seq <= rev}
      <4> HIDE DEF evs, snap, k
      <4> QED BY <1>1, <1>2, <2>1, <2>2, <2>7
    <3> QED
      BY <3>1 DEF Apply
  <2>9. Apply(snap.state, evs).folds = rev
    <3> HIDE DEF evs, snap, k
    <3> QED BY <1>1, <2>1, <2>5, <2>7 DEF Apply
  <2>10. Numbers(Apply(snap.state, evs).seen) = 1..rev
    <3>1. {e \in journal : e.seq <= rev} = journal
      BY <1>1, <1>2
    <3> QED
      BY <2>8, <3>1, ZenonT(30) DEF LogInv
  <2> DEFINE st == Apply(snap.state, evs)
  <2>11. Recorded(journal, rev, st, rev)
    <3>1. /\ st.seen = {e \in journal : e.seq <= rev}
          /\ Numbers(st.seen) = 1..rev
          /\ st.folds = rev
      BY <2>8, <2>9, <2>10
    <3>2. rev \in 0..rev
      BY <1>1
    <3> HIDE DEF st, rev
    <3> QED BY <3>1, <3>2 DEF Recorded, FoldOf
  <2> HIDE DEF evs, snap, k
  <2> QED
    BY <2>6, <2>11
<1> QED
  BY <1>1, <1>4, <1>6, <1>7

-----------------------------------------------------------------------------
(***************************************************************************)
(* How the parts of the invariant survive a step under which the log grows *)
(* at its end, or not at all.                                              *)
(***************************************************************************)

LEMMA RecordedKept ==
    ASSUME Grows, NEW state, NEW n, Recorded(journal, store.rev, state, n)
    PROVE  Recorded(journal', store'.rev, state, n)
BY RecordedStays DEF Grows

LEMMA RequestsKept ==
    ASSUME Grows, RequestsInv, request' \cup abandoned' \subseteq request \cup abandoned
    PROVE  RequestsInv'
<1>1. 0..store.rev \subseteq 0..store'.rev
  BY DEF Grows
<1> QED
  BY <1>1 DEF RequestsInv

LEMMA SnapshotsKept ==
    ASSUME Grows, SnapshotsInv, snapshots' \subseteq snapshots,
           snapshotQueue' = snapshotQueue \/ snapshotQueue' = << >>
    PROVE  SnapshotsInv'
<1>1. \A s \in snapshots' : Recorded(journal', store'.rev, s.state, s.seq)
  BY RecordedKept DEF SnapshotsInv
<1>2. \A i \in DOMAIN snapshotQueue' :
         Recorded(journal', store'.rev, snapshotQueue'[i].state, snapshotQueue'[i].seq)
  BY RecordedKept DEF SnapshotsInv
<1> QED
  BY <1>1, <1>2 DEF SnapshotsInv

LEMMA ActorKept ==
    ASSUME Grows, ActorInv, UNCHANGED <<alive, currentState, eventsCounter>>
    PROVE  ActorInv'
BY RecordedKept DEF ActorInv

LEMMA RepliesKept ==
    ASSUME Grows, RepliesInv,
           \A id \in Commands \cup Reads :
              reply'[id].kind = "state" =>
                 \/ reply'[id] = reply[id]
                 \/ Recorded(journal, store.rev, reply'[id].state, reply'[id].rev)
    PROVE  RepliesInv'
BY RecordedKept DEF RepliesInv

LEMMA MessagesKept ==
    ASSUME BaseTypeOK, MessagesInv, NEW type, Received(type), UNCHANGED declared,
           Consume \/ UnstashAll \/ (type # "response" /\ Stash)
    PROVE  MessagesInv'
<1>1. /\ mailbox \in Seq(Messages) /\ mailbox # << >>
      /\ stash \in Seq(Messages)
      /\ Head(mailbox).type = type
  BY DEF BaseTypeOK, Received
<1>2. /\ Tail(mailbox) \in Seq(Messages)
      /\ \A i \in DOMAIN Tail(mailbox) : i + 1 \in DOMAIN mailbox /\ Tail(mailbox)[i] = mailbox[i + 1]
  BY <1>1, HeadTailProperties, LenProperties
<1>3. \A i \in DOMAIN Tail(mailbox) :
         Tail(mailbox)[i].type = "command" => declared[Tail(mailbox)[i].id] # NoRevision
  BY <1>2 DEF MessagesInv
<1>4. CASE Consume
  BY <1>3, <1>4 DEF Consume, MessagesInv
<1>5. CASE UnstashAll
  <2> DEFINE q == stash \o Tail(mailbox)
  <2>1. \A i \in DOMAIN q : \/ i \in DOMAIN stash /\ q[i] = stash[i]
                            \/ \E j \in DOMAIN Tail(mailbox) : q[i] = Tail(mailbox)[j]
    BY <1>1, <1>2, ConcatElements
  <2>2. mailbox' = q /\ stash' = << >>
    BY <1>5 DEF UnstashAll
  <2>3. \A i \in DOMAIN q : q[i].type = "command" => declared[q[i].id] # NoRevision
    <3> HIDE DEF q
    <3> QED BY <1>3, <2>1 DEF MessagesInv
  <2> HIDE DEF q
  <2> QED
    BY <2>2, <2>3 DEF MessagesInv
<1>6. CASE type # "response" /\ Stash
  <2>1. \A i \in DOMAIN stash' : \/ i \in DOMAIN stash /\ stash'[i] = stash[i]
                                 \/ stash'[i] = Head(mailbox)
    BY <1>1, <1>6 DEF Stash
  <2>2. Head(mailbox) = mailbox[1] /\ 1 \in DOMAIN mailbox
    BY <1>1
  <2>3. \A i \in DOMAIN stash' :
           /\ stash'[i].type # "response"
           /\ stash'[i].type = "command" => declared[stash'[i].id] # NoRevision
    BY <1>1, <1>6, <2>1, <2>2 DEF MessagesInv
  <2> QED
    BY <1>3, <1>6, <2>3 DEF MessagesInv, Stash
<1> QED
  BY <1>4, <1>5, <1>6

-----------------------------------------------------------------------------
(***************************************************************************)
(* The shared steps.                                                       *)
(***************************************************************************)

LEMMA CommitGrows ==
    ASSUME DeclaredPostgres, BaseTypeOK, BaseInv, NEW r \in request \cup abandoned,
           NEW announced \in BOOLEAN, Commit(r, announced)
    PROVE  Grows
<1>1. r \in Requests /\ WellFormed(r)
  BY DEF BaseTypeOK
<1>2. r.pre # NoRevision /\ \E b \in 0..store.rev : Follows(r.events, b)
  BY DEF BaseInv, RequestsInv
<1>3. /\ LogInv'
      /\ store'.rev >= store.rev
      /\ journal \subseteq journal'
      /\ \A e \in journal' \ journal : e.seq > store.rev
  BY <1>1, <1>2, CommitAppends, ZenonT(30) DEF DeclaredPostgres, BaseInv
<1>4. store'.rev \in Nat /\ journal' \subseteq Event
  BY <1>1, CommitType
<1> QED
  BY <1>3, <1>4 DEF Grows, BaseTypeOK

LEMMA SameMessages ==
    ASSUME MessagesInv, UNCHANGED <<mailbox, stash, declared>>
    PROVE  MessagesInv'
BY DEF MessagesInv

LEMMA RespondMessages ==
    ASSUME BaseTypeOK, MessagesInv, NEW outcome, Respond(outcome), UNCHANGED <<stash, declared>>
    PROVE  MessagesInv'
<1>1. mailbox \in Seq(Messages)
  BY DEF BaseTypeOK
<1>2. \A i \in DOMAIN mailbox' : \/ i \in DOMAIN mailbox /\ mailbox'[i] = mailbox[i]
                                 \/ mailbox'[i] = ResponseMsg(outcome)
  BY <1>1 DEF Respond
<1>3. ResponseMsg(outcome).type = "response"
  BY DEF ResponseMsg
<1> QED
  BY <1>2, <1>3 DEF MessagesInv

LEMMA SameReplies ==
    ASSUME Grows, RepliesInv, UNCHANGED reply
    PROVE  RepliesInv'
BY RepliesKept

LEMMA SpawnInv ==
    ASSUME BaseTypeOK, BaseInv, Spawn
    PROVE  BaseInv' /\ Grows
<1>1. Grows
  BY UnwrittenGrows DEF Spawn, durable, BaseInv
<1>2. RequestsInv' /\ SnapshotsInv' /\ RepliesInv' /\ MessagesInv'
  BY <1>1, RequestsKept, SnapshotsKept, SameReplies, SameMessages
     DEF Spawn, durable, writers, callers, BaseInv
<1>3. ActorInv'
  <2>1. Recorded(journal, store.rev, Recovered.state, Recovered.counter)
    BY RecoveredRecorded DEF BaseInv
  <2> QED
    BY <2>1 DEF ActorInv, Spawn, durable
<1> QED
  BY <1>1, <1>2, <1>3 DEF BaseInv, Grows

LEMMA TerminateInv ==
    ASSUME BaseTypeOK, BaseInv, Terminate, UNCHANGED <<durable, declared>>, RepliesInv'
    PROVE  BaseInv' /\ Grows
<1>1. Grows
  BY UnwrittenGrows DEF durable, BaseInv
<1>2. RequestsInv' /\ SnapshotsInv'
  BY <1>1, RequestsKept, SnapshotsKept DEF Terminate, durable, BaseInv
<1>3. ActorInv' /\ MessagesInv'
  BY DEF Terminate, ActorInv, MessagesInv
<1> QED
  BY <1>1, <1>2, <1>3 DEF BaseInv, Grows

LEMMA SendCommandInv ==
    ASSUME DeclaredPostgres, BaseTypeOK, BaseInv, NEW c \in Commands, NEW rev \in Declarable,
           SendCommand(c, rev)
    PROVE  BaseInv' /\ Grows
<1>1. Grows
  BY UnwrittenGrows DEF SendCommand, durable, BaseInv
<1>2. RequestsInv' /\ SnapshotsInv' /\ ActorInv'
  BY <1>1, RequestsKept, SnapshotsKept, ActorKept DEF SendCommand, durable, writers, BaseInv
<1>3. RepliesInv'
  <2>1. \A id \in Commands \cup Reads : reply'[id] = reply[id] \/ reply'[id].kind = "waiting"
    BY DEF SendCommand, Waiting, Unsent, BaseTypeOK
  <2> QED
    BY <1>1, <2>1, RepliesKept DEF BaseInv
<1>4. MessagesInv'
  <2>1. mailbox \in Seq(Messages) /\ stash \in Seq(Messages)
    BY DEF BaseTypeOK
  <2>2. \A d \in Commands : declared'[d] = declared[d] \/ declared'[d] # NoRevision
    BY DEF SendCommand, BaseTypeOK, DeclaredPostgres
  <2>3. declared'[c] # NoRevision
    BY DEF SendCommand, BaseTypeOK, DeclaredPostgres
  <2>4. \A i \in DOMAIN mailbox' : \/ i \in DOMAIN mailbox /\ mailbox'[i] = mailbox[i]
                                   \/ mailbox'[i] = CommandMsg(c)
    <3>1. mailbox' = Append(mailbox, CommandMsg(c))
      BY DEF SendCommand
    <3> QED
      BY <2>1, <3>1
  <2>5. CommandMsg(c).id = c
    BY DEF CommandMsg
  <2>6. /\ \A i \in DOMAIN mailbox : mailbox[i].type = "command" => mailbox[i].id \in Commands
        /\ \A i \in DOMAIN stash : stash[i].type = "command" => stash[i].id \in Commands
    BY <2>1, CommandIds
  <2>7. \A i \in DOMAIN mailbox' :
           mailbox'[i].type = "command" => declared'[mailbox'[i].id] # NoRevision
    BY <2>2, <2>3, <2>4, <2>5, <2>6, ZenonT(30) DEF BaseInv, MessagesInv
  <2>8. stash' = stash
    BY DEF SendCommand
  <2> QED
    BY <2>2, <2>6, <2>7, <2>8 DEF BaseInv, MessagesInv
<1> QED
  BY <1>1, <1>2, <1>3, <1>4 DEF BaseInv, Grows

LEMMA SendGetStateInv ==
    ASSUME BaseTypeOK, BaseInv, NEW r \in Reads, SendGetState(r)
    PROVE  BaseInv' /\ Grows
<1>1. Grows
  BY UnwrittenGrows DEF SendGetState, durable, BaseInv
<1>2. RequestsInv' /\ SnapshotsInv' /\ ActorInv'
  BY <1>1, RequestsKept, SnapshotsKept, ActorKept DEF SendGetState, durable, writers, BaseInv
<1>3. RepliesInv'
  <2>1. \A id \in Commands \cup Reads : reply'[id] = reply[id] \/ reply'[id].kind = "waiting"
    BY DEF SendGetState, Waiting, Unsent, BaseTypeOK
  <2> QED
    BY <1>1, <2>1, RepliesKept DEF BaseInv
<1>4. MessagesInv'
  <2>1. \A i \in DOMAIN mailbox' : \/ i \in DOMAIN mailbox /\ mailbox'[i] = mailbox[i]
                                   \/ mailbox'[i] = GetStateMsg(r)
    <3>1. mailbox \in Seq(Messages)
      BY DEF BaseTypeOK
    <3> QED
      BY <3>1 DEF SendGetState
  <2>2. GetStateMsg(r).type = "getState"
    BY DEF GetStateMsg
  <2> QED
    BY <2>1, <2>2 DEF SendGetState, BaseInv, MessagesInv
<1> QED
  BY <1>1, <1>2, <1>3, <1>4 DEF BaseInv, Grows

LEMMA HandlePersistEventsInv ==
    ASSUME DeclaredPostgres, BaseTypeOK, BaseInv, HandlePersistEvents
    PROVE  BaseInv' /\ Grows
<1> PICK r \in request :
        /\ Commit(r, TRUE)
        /\ Respond(Outcome(r))
        /\ request' = {}
        /\ UNCHANGED <<snapshots, peerWrites, alive, phase, currentState, eventsCounter, stash,
                       abandoned, snapshotQueue, retentionQueue, callers>>
  BY Zenon DEF HandlePersistEvents
<1>1. Grows
  BY CommitGrows, ZenonT(30)
<1>2. RequestsInv' /\ SnapshotsInv' /\ ActorInv' /\ RepliesInv'
  BY <1>1, RequestsKept, SnapshotsKept, ActorKept, SameReplies DEF callers, BaseInv
<1>3. MessagesInv'
  BY RespondMessages DEF callers, BaseInv
<1> QED
  BY <1>1, <1>2, <1>3 DEF BaseInv, Grows

LEMMA StoreFailureInv ==
    ASSUME DeclaredPostgres, BaseTypeOK, BaseInv, StoreFailure
    PROVE  BaseInv' /\ Grows
<1> PICK r \in request :
        /\ Commit(r, FALSE) \/ UNCHANGED <<store, journal, published>>
        /\ Respond(Failed)
        /\ request' = {}
        /\ UNCHANGED <<snapshots, peerWrites, alive, phase, currentState, eventsCounter, stash,
                       abandoned, snapshotQueue, retentionQueue, callers>>
  BY Zenon DEF StoreFailure
<1>1. Grows
  BY CommitGrows, UnwrittenGrows, ZenonT(30) DEF BaseInv
<1>2. RequestsInv' /\ SnapshotsInv' /\ ActorInv' /\ RepliesInv'
  BY <1>1, RequestsKept, SnapshotsKept, ActorKept, SameReplies DEF callers, BaseInv
<1>3. MessagesInv'
  BY RespondMessages DEF callers, BaseInv
<1> QED
  BY <1>1, <1>2, <1>3 DEF BaseInv, Grows

LEMMA AskTimeoutInv ==
    ASSUME BaseTypeOK, BaseInv, AskTimeout
    PROVE  BaseInv' /\ Grows
<1>1. Grows
  BY UnwrittenGrows DEF AskTimeout, durable, BaseInv
<1>2. RequestsInv' /\ SnapshotsInv' /\ ActorInv' /\ RepliesInv'
  BY <1>1, RequestsKept, SnapshotsKept, ActorKept, SameReplies
     DEF AskTimeout, durable, callers, BaseInv
<1>3. MessagesInv'
  BY RespondMessages DEF AskTimeout, callers, BaseInv
<1> QED
  BY <1>1, <1>2, <1>3 DEF BaseInv, Grows

LEMMA AbandonedInv ==
    ASSUME DeclaredPostgres, BaseTypeOK, BaseInv, AbandonedLands \/ AbandonedLost
    PROVE  BaseInv' /\ Grows
<1>1. PICK r \in abandoned :
        /\ \/ \E announced \in BOOLEAN : Commit(r, announced)
           \/ UNCHANGED <<store, journal, published>>
        /\ abandoned' = abandoned \ {r}
        /\ UNCHANGED <<snapshots, actor, request, snapshotQueue, callers>>
  BY DEF AbandonedLands, AbandonedLost, durable
<1>2. Grows
  BY <1>1, CommitGrows, UnwrittenGrows DEF BaseInv
<1>3. RequestsInv' /\ SnapshotsInv' /\ ActorInv' /\ RepliesInv' /\ MessagesInv'
  BY <1>1, <1>2, RequestsKept, SnapshotsKept, ActorKept, SameReplies, SameMessages
     DEF actor, callers, BaseInv
<1> QED
  BY <1>2, <1>3 DEF BaseInv, Grows

LEMMA PeerWriteInv ==
    ASSUME DeclaredPostgres, BaseTypeOK, BaseInv, PeerWrite
    PROVE  BaseInv' /\ Grows
<1> DEFINE event == [seq |-> store.rev + 1, cmd |-> Peer, nth |-> peerWrites + 1]
           r == [events |-> {event}, pre |-> store.rev]
<1>1. store.rev \in Nat /\ peerWrites \in Nat
  BY EntityAssumption DEF BaseTypeOK
<1>2. event \in Event /\ IsFiniteSet({event}) /\ Cardinality({event}) = 1
  <2>1. event \in Event
    BY <1>1 DEF Event
  <2>2. IsFiniteSet({event}) /\ Cardinality({event}) = 1
    BY FS_Singleton, ZenonT(30)
  <2> QED
    BY <2>1, <2>2
<1>3. Numbers({event}) = {store.rev + 1}
  BY DEF Numbers
<1>4. r \in Requests /\ WellFormed(r) /\ r.pre # NoRevision
  <2>1. r \in Requests
    BY <1>1, <1>2 DEF Requests, Preconditions
  <2>2. WellFormed(r)
    BY <1>1, <1>2, <1>3 DEF WellFormed
  <2> QED
    BY <1>1, <2>1, <2>2, StoreAssumption
<1>5. Follows(r.events, store.rev) /\ store.rev \in 0..store.rev
  <2>1. store.rev + 1..store.rev + 1 = {store.rev + 1}
    BY <1>1
  <2>2. Numbers({event}) = store.rev + 1..store.rev + Cardinality({event})
    <3> HIDE DEF event
    <3> QED BY <1>2, <1>3, <2>1
  <2>3. Unambiguous({event})
    BY DEF Unambiguous
  <2> HIDE DEF event
  <2> QED
    BY <1>1, <2>2, <2>3 DEF Follows
<1>6. Commit(r, TRUE)
  BY ZenonT(30) DEF PeerWrite
<1>7. Grows
  <2> HIDE DEF r
  <2>1. /\ LogInv'
        /\ store'.rev >= store.rev
        /\ journal \subseteq journal'
        /\ \A e \in journal' \ journal : e.seq > store.rev
    BY <1>4, <1>5, <1>6, CommitAppends, Zenon DEF DeclaredPostgres, BaseInv
  <2>2. store'.rev \in Nat /\ journal' \subseteq Event
    BY <1>4, <1>6, CommitType, ZenonT(30)
  <2> QED
    BY <1>1, <2>1, <2>2 DEF Grows
<1>8. RequestsInv' /\ SnapshotsInv' /\ ActorInv' /\ RepliesInv' /\ MessagesInv'
  BY <1>7, RequestsKept, SnapshotsKept, ActorKept, SameReplies, SameMessages
     DEF PeerWrite, writers, actor, callers, BaseInv
<1> QED
  BY <1>7, <1>8 DEF BaseInv, Grows

LEMMA HandlePersistSnapshotInv ==
    ASSUME BaseTypeOK, BaseInv, HandlePersistSnapshot
    PROVE  BaseInv' /\ Grows
<1>1. Grows
  BY UnwrittenGrows DEF HandlePersistSnapshot, BaseInv
<1>2. RequestsInv' /\ ActorInv' /\ RepliesInv' /\ MessagesInv'
  BY <1>1, RequestsKept, ActorKept, SameReplies, SameMessages
     DEF HandlePersistSnapshot, actor, callers, BaseInv
<1>3. SnapshotsInv'
  <2>1. snapshotQueue \in Seq(Snapshots) /\ snapshotQueue # << >>
    BY DEF BaseTypeOK, HandlePersistSnapshot
  <2>2. Head(snapshotQueue) = snapshotQueue[1] /\ 1 \in DOMAIN snapshotQueue
    BY <2>1
  <2>3. \A s \in snapshots' : s \in snapshots \/ s = Head(snapshotQueue)
    BY DEF HandlePersistSnapshot, WriteSnapshot
  <2>4. \A i \in DOMAIN snapshotQueue' :
           i + 1 \in DOMAIN snapshotQueue /\ snapshotQueue'[i] = snapshotQueue[i + 1]
    BY <2>1, HeadTailProperties, LenProperties DEF HandlePersistSnapshot
  <2>5. \A s \in snapshots' : Recorded(journal, store.rev, s.state, s.seq)
    BY <2>2, <2>3 DEF BaseInv, SnapshotsInv
  <2>6. \A i \in DOMAIN snapshotQueue' :
           Recorded(journal, store.rev, snapshotQueue'[i].state, snapshotQueue'[i].seq)
    BY <2>4 DEF BaseInv, SnapshotsInv
  <2> QED
    BY <2>5, <2>6 DEF SnapshotsInv, HandlePersistSnapshot
<1> QED
  BY <1>1, <1>2, <1>3 DEF BaseInv, Grows

LEMMA HandleApplyRetentionInv ==
    ASSUME DeclaredPostgres, BaseTypeOK, BaseInv, HandleApplyRetention
    PROVE  BaseInv' /\ Grows
<1>1. Grows
  BY UnwrittenGrows DEF HandleApplyRetention, DeclaredPostgres, BaseInv
<1>2. RequestsInv' /\ SnapshotsInv' /\ ActorInv' /\ RepliesInv' /\ MessagesInv'
  BY <1>1, RequestsKept, SnapshotsKept, ActorKept, SameReplies, SameMessages
     DEF HandleApplyRetention, actor, callers, BaseInv
<1> QED
  BY <1>1, <1>2 DEF BaseInv, Grows

LEMMA BaseInitInv == BaseInit => BaseInv
<1> SUFFICES ASSUME BaseInit PROVE BaseInv
  OBVIOUS
<1>1. LogInv
  <2>1. Numbers({}) = 1..0
    BY DEF Numbers
  <2> QED
    BY <2>1 DEF BaseInit, LogInv, EmptyStore, Unambiguous
<1>2. RequestsInv /\ SnapshotsInv
  BY DEF BaseInit, RequestsInv, SnapshotsInv
<1>3. ActorInv /\ MessagesInv
  BY DEF BaseInit, ActorInv, MessagesInv
<1>4. RepliesInv
  BY DEF BaseInit, RepliesInv, Unsent
<1> QED
  BY <1>1, <1>2, <1>3, <1>4 DEF BaseInv

LEMMA SameBase ==
    ASSUME BaseTypeOK, BaseInv, UNCHANGED baseVars
    PROVE  BaseInv' /\ Grows
<1>1. Grows
  BY UnwrittenGrows DEF baseVars, durable, BaseInv
<1>2. RequestsInv' /\ SnapshotsInv' /\ ActorInv' /\ RepliesInv' /\ MessagesInv'
  BY <1>1, RequestsKept, SnapshotsKept, ActorKept, SameReplies, SameMessages
     DEF baseVars, durable, actor, writers, callers, BaseInv
<1> QED
  BY <1>1, <1>2 DEF BaseInv, Grows
=============================================================================

----------------------- MODULE DirectEntityRefinement -----------------------
(***************************************************************************)
(* The invariant that the refinement of EntityLog needs is kept by the     *)
(* writer and by what runs in the background: it is inductive.             *)
(***************************************************************************)
EXTENDS DirectRefinementLemmas, DirectEntityProofs

(* A write that lands appends the events of its command at the revision that the
   command declared; one that does not changes nothing. *)
LEMMA CommitEffect ==
    ASSUME DeclaredPostgres, BaseTypeOK, BaseInv, NEW r \in request \cup abandoned,
           NEW c \in Commands, WriteOf(r, c), LogOf(c) = {},
           NEW announced \in BOOLEAN, Commit(r, announced)
    PROVE  /\ Grows
           /\ Outcome(r) = Committed =>
                 /\ declared[c] = store.rev
                 /\ r.events = BuildEnvelopes(c, made[c], store.rev)
                 /\ journal' = journal \cup r.events
                 /\ store'.rev = store.rev + made[c]
                 /\ LogOf(c)' = r.events
           /\ Outcome(r) # Committed => UNCHANGED <<store, journal>>
           /\ Outcome(r).kind = "conflict" =>
                 /\ Outcome(r) # Committed
                 /\ declared[c] # Named(Outcome(r)) /\ Named(Outcome(r)) <= store.rev
           /\ \A d : d # c => LogOf(d)' = LogOf(d)
           /\ Outcome(r) \in Outcomes
<1>1. /\ \A e \in r.events : e.cmd = c
      /\ r.pre = declared[c] /\ r.pre # NoRevision /\ Cardinality(r.events) = made[c]
      /\ r \in Requests /\ WellFormed(r)
  BY WriteOwner, ZenonT(40) DEF BaseInv, BaseTypeOK
<1>2. PICK b \in 0..store.rev : r.events = BuildEnvelopes(c, made[c], b)
  BY WriteOwner, Zenon DEF BaseInv
<1>3. store.rev \in Nat /\ made[c] \in Nat \ {0} /\ b \in Nat /\ declared[c] \in Preconditions
  <2>1. made[c] > 0
    BY WriteOwner, Zenon DEF BaseInv
  <2> QED
    BY <2>1, SMTT(30) DEF BaseTypeOK
<1>4. Follows(r.events, b)
  BY <1>2, <1>3, EnvelopesFollow, SMTT(30)
<1>5. Outcome(r) = Committed =>
         store.rev = b /\ journal' = journal \cup r.events /\ store'.rev = b + made[c]
  BY <1>1, <1>4, CommitAppends, ZenonT(40) DEF DeclaredPostgres, BaseInv
<1>6. Outcome(r) # Committed => UNCHANGED <<store, journal>>
  BY FailureWritesNothing, ZenonT(40) DEF Commit, Outcome
<1>7. /\ Outcome(r) = Committed => PreconditionHolds(store, r.pre)
      /\ Outcome(r).kind = "conflict" =>
            ~PreconditionHolds(store, r.pre) /\ Outcome(r) = NewConflictError(store)
  BY StoreAssumption, SMTT(30) DEF Outcome, WriteEvents, PostgresWrite, DeclaredPostgres, Committed, Failed, NewConflictError
<1>8. PreconditionHolds(store, r.pre) <=> declared[c] = store.rev
  BY <1>1, <1>3, SMTT(30) DEF PreconditionHolds, Exists, Preconditions
<1>9. Named(NewConflictError(store)) = store.rev
  BY <1>3, StoreAssumption, SMTT(30) DEF Named, NewConflictError, Exists
<1>10. Outcome(r).kind = "conflict" =>
          /\ Outcome(r) # Committed
          /\ declared[c] # Named(Outcome(r)) /\ Named(Outcome(r)) <= store.rev
  BY <1>3, <1>7, <1>8, <1>9, SMTT(30)
<1>11. \A d : d # c => LogOf(d)' = LogOf(d)
  BY <1>1, <1>5, <1>6, ZenonT(40) DEF LogOf
<1>12. Outcome(r) = Committed => LogOf(c)' = r.events
  BY <1>1, <1>5, ZenonT(40) DEF LogOf
<1>13. Grows /\ Outcome(r) \in Outcomes
  BY <1>1, CommitGrows, CommitType, ZenonT(40)
<1> QED
  BY <1>2, <1>5, <1>6, <1>7, <1>8, <1>10, <1>11, <1>12, <1>13, ZenonT(40)

(* The write that the actor waits for is the one write of the command in turn. *)
LEMMA RequestOwner ==
    ASSUME BaseTypeOK, QueuesInv, OneWriteInv, RequestsInv, NEW r \in request
    PROVE  \E c \in Commands :
              /\ Turn(c) /\ WriteOf(r, c) /\ MayLand(c) /\ request = {r}
              /\ \A q \in abandoned : ~WriteOf(q, c)
<1>1. PICK c \in Commands : Turn(c) /\ WriteOf(r, c)
  BY Zenon DEF OneWriteInv
<1>2. PICK d \in Commands : WriteOf(r, d) /\ MayLand(d)
  BY Zenon DEF OneWriteInv
<1>3. d = c
  BY <1>1, <1>2, WriteOwner, ZenonT(40)
<1>4. ASSUME NEW q \in request
      PROVE  q = r
  <2>1. PICK k \in Commands : Turn(k) /\ WriteOf(q, k)
    BY Zenon DEF OneWriteInv
  <2>2. k = c
    BY <1>1, <2>1, TurnHeld, ZenonT(40)
  <2> QED
    BY <1>1, <2>1, <2>2, ZenonT(40) DEF OneWriteInv
<1>5. \A q \in abandoned : ~WriteOf(q, c)
  BY <1>1, Zenon DEF OneWriteInv
<1>6. request = {r}
  BY <1>4, Zenon
<1> QED
  BY <1>1, <1>2, <1>3, <1>5, <1>6, ZenonT(40)

(* The writer, or the timeout of the ask, responds. *)
LEMMA RespondedRefinement ==
    ASSUME IInv, IInv', RInv, Grows, NEW r \in request, NEW c \in Commands,
           Turn(c), WriteOf(r, c), request = {r}, \A q \in abandoned : ~WriteOf(q, c),
           NEW outcome \in Outcomes, Respond(outcome), request' = {},
           \/ abandoned' = abandoned
           \/ abandoned' = abandoned \cup request /\ outcome = Failed /\ LogOf(c)' = LogOf(c),
           \A d : d # c => LogOf(d)' = LogOf(d),
           outcome = Committed =>
              Cardinality(LogOf(c)') = made[c] /\ \A e \in LogOf(c)' : e.seq <= direct.counter,
           outcome.kind = "conflict" =>
              LogOf(c)' = {} /\ declared[c] # Named(outcome) /\ Named(outcome) <= store'.rev,
           UNCHANGED <<peerWrites, alive, phase, eventsCounter, stash, callers, direct>>
    PROVE  RInv'
<1>1. /\ BaseTypeOK /\ BaseTypeOK' /\ TypeOK /\ RequestsInv /\ WriteInv
      /\ mailbox \in Seq(Messages) /\ eventsCounter \in Nat
  BY ZenonT(40) DEF IInv, BaseInv, TypeOK, BaseTypeOK
<1>2. QueuesInv /\ MadeInv /\ OneWriteInv /\ SettledInv /\ ToldInv /\ PeerInv
  BY Zenon DEF RInv
<1>3. UNCHANGED <<reply, declared, made>>
  BY Zenon DEF callers
<1>4. PICK m : m = ResponseMsg(outcome)
  BY Zenon
<1>5. m \in Messages /\ ~Asks(m) /\ m.outcome = outcome /\ \A d : m # CommandMsg(d)
  BY <1>4, SMTT(30) DEF ResponseMsg, Messages, Asks, CommandMsg
<1>6. mailbox' = Append(mailbox, m) /\ alive /\ phase = "persisting"
  BY <1>1, <1>4, ZenonT(40) DEF Respond, WriteInv
<1>7. QueuesInv' /\ (\A x : Held(x)' => Held(x) \/ x = m) /\ \A d : Turn(d)' <=> Turn(d)
  BY <1>1, <1>2, <1>3, <1>5, <1>6, ArrivedQueues, ZenonT(40)
<1>8. MadeInv' /\ OneWriteInv'
  <2>1. made[c] > 0
    BY <1>1, WriteOwner, ZenonT(40)
  <2>2. \A d \in Commands :
           \/ LogOf(d)' = LogOf(d)
           \/ made[d] > 0 /\ \A q \in request' \cup abandoned' : ~WriteOf(q, d)
    BY <2>1, Zenon
  <2>3. \A d \in Commands : (Held(CommandMsg(d))' /\ ~Turn(d)') => (Held(CommandMsg(d)) /\ ~Turn(d))
    BY <1>5, <1>7, ZenonT(40)
  <2>4. /\ request' \cup abandoned' \subseteq request \cup abandoned
        /\ request' \cap abandoned' = {} /\ request' \subseteq request
    BY Zenon
  <2> QED
    BY <1>1, <1>2, <1>3, <2>2, <2>3, <2>4, WritesKept, ZenonT(40)
<1>9. SettledInv'
  <2>1. \A i \in DOMAIN mailbox : mailbox[i].type # "response"
    BY <1>1, ZenonT(40) DEF WriteInv
  <2>2. \A i \in DOMAIN mailbox' : mailbox'[i] = m \/ (i \in DOMAIN mailbox /\ mailbox'[i] = mailbox[i])
    BY <1>1, <1>5, <1>6, SMTT(30)
  <2>3. \A i \in DOMAIN mailbox' : mailbox'[i].type = "response" => mailbox'[i].outcome = outcome
    BY <1>5, <2>1, <2>2, ZenonT(40)
  <2>4. \A d \in Commands : Turn(d)' => d = c
    BY <1>1, <1>2, <1>7, TurnHeld, ZenonT(40)
  <2>5. outcome.kind = "conflict" => Untouched(c)'
    <3>1. Failed.kind # "conflict"
      BY DEF Failed
    <3>2. \A q : WriteOf(q, c)' <=> WriteOf(q, c)
      BY <1>3, ZenonT(40) DEF WriteOf
    <3> QED
      BY <3>1, <3>2, ZenonT(40) DEF Untouched
  <2>6. Settled(c, outcome, direct.counter)'
    BY <1>3, <2>5, ZenonT(40) DEF Settled
  <2>7. phase' # "directReplying" /\ (phase' = "persisting" => eventsCounter' <= direct'.counter)
    <3>1. "persisting" # "directReplying" /\ phase' = "persisting"
      BY <1>6, Zenon
    <3> QED
      BY <1>2, <3>1, Zenon DEF SettledInv
  <2>8. ASSUME NEW d \in Commands, NEW i \in DOMAIN mailbox', Turn(d)', mailbox'[i].type = "response"
        PROVE  Settled(d, mailbox[i].outcome, direct.counter)'
    <3>1. d = c /\ mailbox'[i].outcome = outcome
      BY <2>3, <2>4, <2>8, ZenonT(40)
    <3> QED
      BY <2>6, <3>1, Zenon DEF Settled
  <2> QED
    BY <2>7, <2>8, ZenonT(40) DEF SettledInv
<1>10. ToldInv'
  BY <1>1, <1>2, <1>3, <1>6, ToldKept, ZenonT(40)
<1>11. PeerInv'
  BY <1>2, EntityAssumption, ZenonT(40) DEF PeerInv
<1> QED
  BY <1>7, <1>8, <1>9, <1>10, <1>11, ZenonT(40) DEF RInv

(* A step that the actor and the callers do not take part in. *)
LEMMA QuietRefinement ==
    ASSUME IInv, IInv', RInv, Grows, PeerInv', abandoned' \subseteq abandoned,
           \A c \in Commands :
              \/ LogOf(c)' = LogOf(c)
              \/ MayLand(c) /\ \E r \in abandoned \ abandoned' : WriteOf(r, c),
           UNCHANGED <<actor, request, callers, direct>>
    PROVE  RInv'
<1>1. /\ BaseTypeOK /\ BaseTypeOK' /\ TypeOK /\ RequestsInv /\ mailbox \in Seq(Messages)
      /\ eventsCounter \in Nat /\ alive \in BOOLEAN
  BY ZenonT(40) DEF IInv, BaseInv, TypeOK, BaseTypeOK
<1>2. QueuesInv /\ MadeInv /\ OneWriteInv /\ SettledInv /\ ToldInv /\ PeerInv
  BY Zenon DEF RInv
<1>3. UNCHANGED <<alive, phase, eventsCounter, mailbox, stash, reply, declared, made>>
  BY Zenon DEF actor, callers
<1>4. QueuesInv' /\ (\A x : Held(x)' <=> Held(x)) /\ \A c : Turn(c)' <=> Turn(c)
  BY <1>2, <1>3, SameQueues, ZenonT(40)
<1>5. /\ request' \cup abandoned' \subseteq request \cup abandoned
      /\ request' \cap abandoned' = {}
  BY <1>2, Zenon DEF OneWriteInv
<1>6. MadeInv' /\ OneWriteInv'
  <2>1. \A c \in Commands :
           \/ LogOf(c)' = LogOf(c)
           \/ made[c] > 0 /\ \A q \in request' \cup abandoned' : ~WriteOf(q, c)
    <3> SUFFICES ASSUME NEW c \in Commands, LogOf(c)' # LogOf(c)
                 PROVE  made[c] > 0 /\ \A q \in request' \cup abandoned' : ~WriteOf(q, c)
      BY ZenonT(40)
    <3>1. PICK r \in abandoned \ abandoned' : WriteOf(r, c)
      BY Zenon
    <3>2. r \notin request' \cup abandoned'
      BY <1>2, <3>1, ZenonT(40) DEF OneWriteInv
    <3>3. \A q \in request' \cup abandoned' : ~WriteOf(q, c)
      BY <1>2, <1>5, <3>1, <3>2, ZenonT(40) DEF OneWriteInv
    <3> QED
      BY <3>3, ZenonT(40) DEF MayLand
  <2> QED
    BY <1>1, <1>2, <1>3, <1>4, <1>5, <2>1, WritesKept, ZenonT(40)
<1>7. SettledInv'
  <2>1. \A i \in DOMAIN mailbox' : In(mailbox'[i], mailbox)
    BY <1>3, ZenonT(40) DEF In
  <2> QED
    BY <1>1, <1>2, <1>3, <1>4, <1>5, <2>1, SettlementKept, ZenonT(40)
<1>8. ToldInv'
  BY <1>1, <1>2, <1>3, ToldKept, ZenonT(40)
<1> QED
  BY <1>4, <1>6, <1>7, <1>8, ZenonT(40) DEF RInv

LEMMA StopRefinement ==
    ASSUME IInv, IInv', RInv, StopDirect
    PROVE  RInv'
<1>1. BaseTypeOK /\ BaseTypeOK' /\ LogInv /\ RequestsInv
  BY Zenon DEF IInv, BaseInv, TypeOK
<1>2. QueuesInv /\ MadeInv /\ OneWriteInv /\ ToldInv /\ PeerInv
  BY ZenonT(40) DEF RInv
<1>3. /\ UNCHANGED <<store, journal, published, peerWrites, reply, declared, made>>
      /\ mailbox' = << >> /\ stash' = << >> /\ phase' = "processing" /\ alive' = FALSE
      /\ request' = {} /\ abandoned' = abandoned \cup request
  BY ZenonT(40) DEF StopDirect, Stop, Terminate, durable, callers
<1>4. Grows
  BY <1>1, <1>3, UnwrittenGrows, ZenonT(40)
<1>5. QueuesInv' /\ (\A x : ~Held(x)') /\ \A c : ~Turn(c)'
  BY <1>3, ClearedQueues, ZenonT(40)
<1>6. \A c : LogOf(c)' = LogOf(c)
  BY <1>3, ZenonT(40) DEF LogOf
<1>7. MadeInv' /\ OneWriteInv'
  <2>1. /\ request' \cup abandoned' \subseteq request \cup abandoned
        /\ request' \cap abandoned' = {} /\ request' \subseteq request
    BY <1>3, Zenon
  <2> QED
    BY <1>1, <1>2, <1>3, <1>5, <1>6, <2>1, WritesKept, ZenonT(40)
<1>8. SettledInv'
  BY <1>3, SettlementOver, ZenonT(40)
<1>9. ToldInv'
  BY <1>1, <1>2, <1>3, <1>4, ToldKept, ZenonT(40)
<1>10. PeerInv'
  BY <1>2, <1>3, <1>6, ZenonT(40) DEF PeerInv
<1> QED
  BY <1>5, <1>7, <1>8, <1>9, <1>10, ZenonT(40) DEF RInv

LEMMA WriterRefinement ==
    ASSUME DeclaredPostgres, IInv, IInv', RInv, Writer
    PROVE  RInv'
<1>1. BaseTypeOK /\ BaseInv /\ LogInv /\ RequestsInv /\ WriteInv /\ QueuesInv /\ OneWriteInv
  BY ZenonT(40) DEF IInv, BaseInv, TypeOK, RInv
<1>2. Failed \in Outcomes /\ Failed # Committed /\ Failed.kind # "conflict"
  BY SMTT(30) DEF Failed, Outcomes, Committed
<1>3. UNCHANGED direct
  BY Zenon DEF Writer
<1>4. CASE HandlePersistEvents
  <2>1. PICK r \in request :
           /\ Commit(r, TRUE) /\ Respond(Outcome(r)) /\ request' = {}
           /\ UNCHANGED <<peerWrites, alive, phase, eventsCounter, stash, abandoned, callers>>
    BY <1>4, ZenonT(40) DEF HandlePersistEvents
  <2>2. PICK c \in Commands : /\ Turn(c) /\ WriteOf(r, c) /\ MayLand(c) /\ request = {r}
                              /\ \A q \in abandoned : ~WriteOf(q, c)
    BY <1>1, RequestOwner, Zenon
  <2>3. LogOf(c) = {} /\ r \in request \cup abandoned /\ TRUE \in BOOLEAN
    BY <2>2, Zenon DEF MayLand
  <2>4. /\ Grows
        /\ Outcome(r) = Committed => LogOf(c)' = r.events
        /\ Outcome(r) # Committed => UNCHANGED <<store, journal>>
        /\ Outcome(r).kind = "conflict" =>
              /\ Outcome(r) # Committed
              /\ declared[c] # Named(Outcome(r)) /\ Named(Outcome(r)) <= store.rev
        /\ \A d : d # c => LogOf(d)' = LogOf(d)
        /\ Outcome(r) \in Outcomes
    BY <1>1, <2>1, <2>2, <2>3, CommitEffect, ZenonT(40)
  <2>5. Cardinality(r.events) = made[c] /\ \A e \in r.events : e.seq <= direct.counter
    <3>1. Cardinality(r.events) = made[c]
      BY <1>1, <2>2, <2>3, WriteOwner, ZenonT(40)
    <3>2. Follows(r.events, eventsCounter) /\ direct.counter = eventsCounter + Cardinality(r.events)
      BY <1>1, Zenon DEF WriteInv
    <3>3. \A e \in r.events : e.seq \in eventsCounter + 1..direct.counter
      BY <3>2, Zenon DEF Follows, Numbers
    <3> QED
      BY <3>1, <3>3, SMTT(30)
  <2>6. PICK outcome \in Outcomes : outcome = Outcome(r)
    BY <2>4, Zenon
  <2>7. outcome = Committed =>
           Cardinality(LogOf(c)') = made[c] /\ \A e \in LogOf(c)' : e.seq <= direct.counter
    BY <2>4, <2>5, <2>6, ZenonT(40)
  <2>8. outcome.kind = "conflict" =>
           LogOf(c)' = {} /\ declared[c] # Named(outcome) /\ Named(outcome) <= store'.rev
    <3>1. UNCHANGED journal => LogOf(c)' = LogOf(c)
      BY Zenon DEF LogOf
    <3> QED
      BY <2>3, <2>4, <2>6, <3>1, ZenonT(40)
  <2> QED
    BY <1>3, <2>1, <2>2, <2>4, <2>6, <2>7, <2>8, RespondedRefinement, ZenonT(40)
<1>5. CASE StoreFailure
  <2>1. PICK r \in request :
           /\ Commit(r, FALSE) \/ UNCHANGED <<store, journal, published>>
           /\ Respond(Failed) /\ request' = {}
           /\ UNCHANGED <<peerWrites, alive, phase, eventsCounter, stash, abandoned, callers>>
    BY <1>5, ZenonT(40) DEF StoreFailure
  <2>2. PICK c \in Commands : /\ Turn(c) /\ WriteOf(r, c) /\ MayLand(c) /\ request = {r}
                              /\ \A q \in abandoned : ~WriteOf(q, c)
    BY <1>1, RequestOwner, Zenon
  <2>3. LogOf(c) = {} /\ r \in request \cup abandoned /\ FALSE \in BOOLEAN
    BY <2>2, Zenon DEF MayLand
  <2>4. Grows /\ \A d : d # c => LogOf(d)' = LogOf(d)
    <3>1. CASE Commit(r, FALSE)
      BY <1>1, <2>2, <2>3, <3>1, CommitEffect, ZenonT(40)
    <3>2. CASE UNCHANGED <<store, journal, published>>
      <4>1. \A d : LogOf(d)' = LogOf(d)
        BY <3>2, ZenonT(40) DEF LogOf
      <4> QED
        BY <1>1, <3>2, <4>1, UnwrittenGrows, ZenonT(40)
    <3> QED
      BY <2>1, <3>1, <3>2, ZenonT(40)
  <2> QED
    BY <1>2, <1>3, <2>1, <2>2, <2>4, RespondedRefinement, ZenonT(40)
<1>6. CASE AskTimeout
  <2>1. PICK r \in request : TRUE
    BY <1>6, Zenon DEF AskTimeout
  <2>2. PICK c \in Commands : /\ Turn(c) /\ WriteOf(r, c) /\ MayLand(c) /\ request = {r}
                              /\ \A q \in abandoned : ~WriteOf(q, c)
    BY <1>1, <2>1, RequestOwner, ZenonT(40)
  <2>3. UNCHANGED <<store, journal, published, peerWrites>>
    BY <1>6, Zenon DEF AskTimeout, durable
  <2>4. Grows /\ \A d : LogOf(d)' = LogOf(d)
    <3>1. \A d : LogOf(d)' = LogOf(d)
      BY <2>3, Zenon DEF LogOf
    <3> QED
      BY <1>1, <2>3, <3>1, UnwrittenGrows, ZenonT(40)
  <2> QED
    BY <1>2, <1>3, <1>6, <2>1, <2>2, <2>3, <2>4, RespondedRefinement, ZenonT(40) DEF AskTimeout
<1> QED
  BY <1>4, <1>5, <1>6, ZenonT(40) DEF Writer

(* Another writer appends its next event. *)
LEMMA PeerEffect ==
    ASSUME DeclaredPostgres, BaseTypeOK, BaseInv, PeerWrite
    PROVE  /\ Grows
           /\ journal' = journal \cup {[seq |-> store.rev + 1, cmd |-> Peer, nth |-> peerWrites + 1]}
           /\ \A c \in Commands : LogOf(c)' = LogOf(c)
           /\ PeerInv => PeerInv'
<1>1. store.rev \in Nat /\ peerWrites \in Nat /\ IsFiniteSet(journal) /\ journal \subseteq Event
  BY EntityAssumption, SMTT(30) DEF BaseTypeOK, BaseInv, LogInv
<1>2. PICK event : event = [seq |-> store.rev + 1, cmd |-> Peer, nth |-> peerWrites + 1]
  BY Zenon
<1>3. PICK r : r = [events |-> {event}, pre |-> store.rev]
  BY Zenon
<1>4. Commit(r, TRUE) /\ peerWrites' = peerWrites + 1 /\ TRUE \in BOOLEAN
  BY <1>2, <1>3, ZenonT(40) DEF PeerWrite
<1>5. event \in Event /\ event.seq = store.rev + 1 /\ event.cmd = Peer
  BY <1>1, <1>2, SMTT(30) DEF Event
<1>6. r.events = {event} /\ r.pre = store.rev /\ Numbers(r.events) = {store.rev + 1}
  BY <1>3, <1>5, SMTT(30) DEF Numbers
<1>7. event \notin journal /\ Without(r.events, journal) = {event}
  <2>1. Numbers(journal) = 1..store.rev
    BY Zenon DEF BaseInv, LogInv
  <2>2. store.rev + 1 \notin Numbers(journal)
    BY <1>1, <2>1, SMTT(30)
  <2>3. event \notin journal
    BY <1>5, <2>2, SMTT(30) DEF Numbers
  <2> QED
    BY <1>5, <1>6, <2>2, <2>3, SMTT(30) DEF Without
<1>8. Outcome(r) = Committed
  <2>1. PreconditionHolds(store, r.pre)
    BY <1>1, <1>6, SMTT(30) DEF PreconditionHolds, Exists
  <2>2. ~Clashes(store, r.events)
    <3>1. Numbers(store.events) = 1..store.rev
      BY Zenon DEF BaseInv, LogInv
    <3>2. store.rev + 1 \notin Numbers(store.events)
      BY <1>1, <3>1, SMTT(30)
    <3> QED
      BY <1>6, <3>2, ZenonT(40) DEF Clashes
  <2> QED
    BY <2>1, <2>2, SMTT(30) DEF Outcome, WriteEvents, PostgresWrite, DeclaredPostgres
<1>9. journal' = journal \cup {event}
  BY <1>4, <1>7, <1>8, ZenonT(40) DEF Commit
<1>10. Peer \notin Commands
  BY EntityAssumption, ZenonT(40)
<1>11. (\A c \in Commands : LogOf(c)' = LogOf(c)) /\ LogOf(Peer)' = LogOf(Peer) \cup {event}
  BY <1>5, <1>9, <1>10, ZenonT(40) DEF LogOf
<1>12. PeerInv => PeerInv'
  <2>1. IsFiniteSet(LogOf(Peer)) /\ event \notin LogOf(Peer)
    BY <1>1, <1>7, FS_Subset, ZenonT(40) DEF LogOf
  <2>2. Cardinality(LogOf(Peer) \cup {event}) = Cardinality(LogOf(Peer)) + 1
    BY <2>1, FS_AddElement, ZenonT(40)
  <2> QED
    BY <1>4, <1>11, <2>2, ZenonT(40) DEF PeerInv
<1>13. Grows
  BY PeerWriteInv, Zenon
<1> QED
  BY <1>2, <1>9, <1>11, <1>12, <1>13, ZenonT(40)

LEMMA SpawnRefinement ==
    ASSUME IInv, IInv', RInv, Spawn, UNCHANGED direct
    PROVE  RInv'
<1>1. BaseTypeOK /\ BaseTypeOK' /\ TypeOK /\ LogInv /\ RequestsInv /\ SnapshotsInv
  BY ZenonT(40) DEF IInv, BaseInv, TypeOK
<1>2. QueuesInv /\ MadeInv /\ OneWriteInv /\ ToldInv /\ PeerInv
  BY Zenon DEF RInv
<1>3. /\ UNCHANGED <<store, journal, published, peerWrites, request, abandoned, phase, mailbox,
                     stash, reply, declared, made>>
      /\ ~alive /\ alive' /\ eventsCounter' = Recovered.counter
  BY Zenon DEF Spawn, durable, writers, callers
<1>4. QueuesInv' /\ (\A x : Held(x)' <=> Held(x)) /\ \A c : Turn(c)' <=> Turn(c)
  BY <1>2, <1>3, SameQueues, ZenonT(40)
<1>5. \A c : LogOf(c)' = LogOf(c)
  BY <1>3, ZenonT(40) DEF LogOf
<1>6. MadeInv' /\ OneWriteInv'
  <2>1. request' \cap abandoned' = {}
    BY <1>2, <1>3, ZenonT(40) DEF OneWriteInv
  <2> QED
    BY <1>1, <1>2, <1>3, <1>4, <1>5, <2>1, WritesKept, ZenonT(40)
<1>7. SettledInv'
  <2>1. phase' = "processing"
    BY <1>2, <1>3, SMTT(30) DEF QueuesInv, TurnInv, IInv, TypeOK
  <2> QED
    BY <2>1, SettlementOver, ZenonT(40)
<1>8. ToldInv'
  <2>1. eventsCounter' = store.rev
    BY <1>1, <1>3, RecoveredRecorded, ZenonT(40)
  <2> QED
    BY <1>2, <1>3, <2>1, ZenonT(40) DEF ToldInv
<1>9. PeerInv'
  BY <1>2, <1>3, <1>5, ZenonT(40) DEF PeerInv
<1> QED
  BY <1>4, <1>6, <1>7, <1>8, <1>9, ZenonT(40) DEF RInv

LEMMA BackgroundRefinement ==
    ASSUME DeclaredPostgres, IInv, IInv', RInv, Background
    PROVE  RInv'
<1>1. /\ BaseTypeOK /\ BaseInv /\ LogInv /\ RequestsInv /\ OneWriteInv /\ PeerInv
      /\ UNCHANGED direct
  BY Zenon DEF IInv, BaseInv, TypeOK, RInv, Background
<1>2. ASSUME UNCHANGED <<store, journal, published, peerWrites>>
      PROVE  Grows /\ PeerInv' /\ \A c : LogOf(c)' = LogOf(c)
  <2>1. \A c : LogOf(c)' = LogOf(c)
    BY <1>2, Zenon DEF LogOf
  <2> QED
    BY <1>1, <1>2, <2>1, UnwrittenGrows, ZenonT(40) DEF PeerInv
<1>3. CASE AbandonedLands
  <2>1. PICK r \in abandoned :
           /\ \E announced \in BOOLEAN : Commit(r, announced)
           /\ abandoned' = abandoned \ {r}
           /\ UNCHANGED <<peerWrites, actor, request, callers>>
    BY <1>3, ZenonT(40) DEF AbandonedLands
  <2>2. PICK announced \in BOOLEAN : Commit(r, announced)
    BY <2>1, ZenonT(40)
  <2>3. PICK c \in Commands : WriteOf(r, c) /\ MayLand(c)
    BY <1>1, ZenonT(40) DEF OneWriteInv
  <2>4. Grows /\ \A d : d # c => LogOf(d)' = LogOf(d)
    <3>1. LogOf(c) = {} /\ r \in request \cup abandoned
      BY <2>3, ZenonT(40) DEF MayLand
    <3> QED
      BY <1>1, <2>2, <2>3, <3>1, CommitEffect, ZenonT(40)
  <2>5. PeerInv'
    BY <1>1, <2>1, <2>4, EntityAssumption, ZenonT(40) DEF PeerInv
  <2>6. r \in abandoned \ abandoned' /\ abandoned' \subseteq abandoned
    BY <2>1, ZenonT(40)
  <2> QED
    BY <1>1, <2>1, <2>3, <2>4, <2>5, <2>6, QuietRefinement, ZenonT(40)
<1>4. CASE AbandonedLost
  <2>1. abandoned' \subseteq abandoned /\ UNCHANGED <<durable, actor, request, callers>>
    BY <1>4, ZenonT(40) DEF AbandonedLost
  <2>2. Grows /\ PeerInv' /\ \A c : LogOf(c)' = LogOf(c)
    BY <1>2, <2>1, ZenonT(40) DEF durable
  <2> QED
    BY <1>1, <2>1, <2>2, QuietRefinement, ZenonT(40)
<1>5. CASE HandlePersistSnapshot
  <2>1. /\ UNCHANGED <<store, journal, published, peerWrites, actor, request, abandoned, callers>>
        /\ abandoned' \subseteq abandoned
    BY <1>5, ZenonT(40) DEF HandlePersistSnapshot
  <2> QED
    BY <1>1, <1>2, <2>1, QuietRefinement, ZenonT(40)
<1>6. CASE HandleApplyRetention
  <2>1. /\ UNCHANGED <<store, journal, published, peerWrites, actor, request, abandoned, callers>>
        /\ abandoned' \subseteq abandoned
    BY <1>6, ZenonT(40) DEF HandleApplyRetention, DeclaredPostgres
  <2> QED
    BY <1>1, <1>2, <2>1, QuietRefinement, Zenon
<1>7. CASE PeerWrite
  <2>1. UNCHANGED <<actor, request, abandoned, callers>> /\ abandoned' \subseteq abandoned
    BY <1>7, ZenonT(40) DEF PeerWrite, writers
  <2>2. Grows /\ PeerInv' /\ \A c \in Commands : LogOf(c)' = LogOf(c)
    BY <1>1, <1>7, PeerEffect, ZenonT(40)
  <2> QED
    BY <1>1, <2>1, <2>2, QuietRefinement, ZenonT(40)
<1>8. CASE Spawn
  BY <1>1, <1>8, SpawnRefinement, ZenonT(40)
<1> QED
  BY <1>3, <1>4, <1>5, <1>6, <1>7, <1>8, ZenonT(40) DEF Background

LEMMA RefinementStep ==
    ASSUME DeclaredPostgres, IInv, IInv', RInv, [Next]_vars
    PROVE  RInv'
<1>1. CASE UNCHANGED vars
  <2>1. /\ UNCHANGED <<store, journal, published, peerWrites, actor, request, abandoned, callers, direct>>
        /\ abandoned' \subseteq abandoned
    BY <1>1, ZenonT(40) DEF vars, baseVars, durable, writers
  <2>2. \A c : LogOf(c)' = LogOf(c)
    BY <2>1, ZenonT(40) DEF LogOf
  <2>3. Grows
    BY <2>1, UnwrittenGrows, ZenonT(40) DEF IInv, TypeOK, BaseInv
  <2>4. PeerInv'
    BY <2>1, <2>2, ZenonT(40) DEF RInv, PeerInv
  <2> QED
    BY <2>1, <2>2, <2>3, <2>4, QuietRefinement, ZenonT(40)
<1> QED
  BY <1>1, CallerRefinement, ActorRefinement, WriterRefinement, BackgroundRefinement, StopRefinement,
     Zenon DEF Next
=============================================================================

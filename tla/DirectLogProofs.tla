-------------------------- MODULE DirectLogProofs --------------------------
(***************************************************************************)
(* The direct write path implements EntityLog: the step of the log that    *)
(* each action is.                                                         *)
(***************************************************************************)
EXTENDS DirectEntityRefinement, DirectLog

(* The log counts its events the way the entity does. *)
LEMMA LogCardinality == \A S : Log!Cardinality(S) = Cardinality(S)
BY Zenon DEF Log!Cardinality, Cardinality

(* What the log of EntityLog and its answers are here. *)
LEMMA LogTerms ==
    ASSUME BaseTypeOK, LogInv
    PROVE  /\ Log!Revision = store.rev
           /\ \A c : Log!EventsOf(c) = LogOf(c)
           /\ \A id \in Commands \cup Reads : reply[id] = Waiting => Log!Pending(id)
           /\ \A id \in Commands \cup Reads :
                 /\ Answered[id] = [kind |-> reply[id].kind, seen |-> reply[id].state.seen,
                                    rev |-> reply[id].rev]
                 /\ Answered[id].kind = reply[id].kind /\ Answered[id].rev = reply[id].rev
<1>1. Log!Revision = store.rev
  <2>1. journal \in SUBSET Event /\ Numbers(journal) = 0 + 1..store.rev /\ store.rev \in Nat
    BY DEF LogInv, BaseTypeOK
  <2>2. 0 \in Nat /\ 0 <= store.rev /\ store.rev - 0 = store.rev
    BY <2>1
  <2>3. Cardinality(journal) = store.rev
    BY <2>1, <2>2, CountOfRange, Zenon DEF LogInv
  <2> QED
    BY <2>3, LogCardinality, Zenon DEF Log!Revision
<1>2. \A c : Log!EventsOf(c) = LogOf(c)
  BY Zenon DEF Log!EventsOf, LogOf
<1>3. \A id \in Commands \cup Reads :
         Answered[id] = [kind |-> reply[id].kind, seen |-> reply[id].state.seen, rev |-> reply[id].rev]
  BY Zenon DEF Answered
<1>4. ASSUME NEW id \in Commands \cup Reads
      PROVE  Answered[id].kind = reply[id].kind /\ Answered[id].rev = reply[id].rev
  <2>1. Answered[id] = [kind |-> reply[id].kind, seen |-> reply[id].state.seen, rev |-> reply[id].rev]
    BY <1>3, Zenon
  <2> QED
    BY <2>1
<1>5. \A id \in Commands \cup Reads : reply[id] = Waiting => Log!Pending(id)
  BY <1>4, WaitingUnsent, Zenon DEF Log!Pending
<1> QED
  BY <1>1, <1>2, <1>3, <1>4, <1>5, Zenon

LEMMA TellEffect ==
    ASSUME BaseTypeOK, NEW id \in Commands \cup Reads, NEW r \in Replies, Answer(id, r)
    PROVE  Log!Tell(id, r.kind, r.state.seen, r.rev)
<1>1. reply' = [reply EXCEPT ![id] = r] /\ reply \in [Commands \cup Reads -> Replies]
  BY Zenon DEF Answer, BaseTypeOK
<1> QED
  BY <1>1, Zenon DEF Log!Tell, Answered

(* What callers cannot see. *)
LEMMA StutterStep ==
    ASSUME UNCHANGED <<journal, reply, declared, made>>
    PROVE  UNCHANGED Log!logVars
BY Zenon DEF Log!logVars, Answered

LEMMA AskStep ==
    ASSUME BaseTypeOK, LogInv, Caller
    PROVE  Log!LogNext
<1>1. /\ Waiting \in Replies /\ Waiting.kind = "waiting" /\ Waiting.state.seen = {} /\ Waiting.rev = 0
      /\ [kind |-> Unsent.kind, seen |-> Unsent.state.seen, rev |-> Unsent.rev] = Log!Unasked
  BY ReplyTypes DEF Waiting, Unsent, InitialState, Log!Unasked
<1>2. CASE \E c \in Commands, rev \in Declarable : SendCommand(c, rev)
  <2>1. PICK c \in Commands, rev \in Declarable : SendCommand(c, rev)
    BY <1>2, Zenon
  <2>2. c \in Commands \cup Reads /\ Answer(c, Waiting) /\ reply[c] = Unsent
    BY <2>1, Zenon DEF SendCommand, Answer
  <2>3. Log!Tell(c, "waiting", {}, 0)
    BY <1>1, <2>2, TellEffect, Zenon
  <2>4. Answered[c] = Log!Unasked
    BY <1>1, <2>2, LogTerms, Zenon
  <2>5. Log!AskCommand(c, rev)
    BY <2>1, <2>3, <2>4, Zenon DEF Log!AskCommand, SendCommand, durable
  <2> QED
    BY <2>5, Zenon DEF Log!LogNext
<1>3. CASE \E r \in Reads : SendGetState(r)
  <2>1. PICK r \in Reads : SendGetState(r)
    BY <1>3, Zenon
  <2>2. r \in Commands \cup Reads /\ Answer(r, Waiting) /\ reply[r] = Unsent
    BY <2>1, Zenon DEF SendGetState, Answer
  <2>3. Log!Tell(r, "waiting", {}, 0)
    BY <1>1, <2>2, TellEffect, Zenon
  <2>4. Answered[r] = Log!Unasked
    BY <1>1, <2>2, LogTerms, Zenon
  <2>5. Log!AskState(r)
    BY <2>1, <2>3, <2>4, Zenon DEF Log!AskState, SendGetState, durable
  <2> QED
    BY <2>5, Zenon DEF Log!LogNext
<1> QED
  BY <1>2, <1>3, Zenon DEF Caller

LEMMA SucceedStep ==
    ASSUME BaseTypeOK, LogInv, ActorInv, ToldInv, alive, NEW id \in Commands \cup Reads,
           reply[id] = Waiting, Answer(id, StateReply(currentState, eventsCounter)),
           id \in Commands =>
              Cardinality(LogOf(id)) = made[id] /\ \A e \in LogOf(id) : e.seq <= eventsCounter,
           UNCHANGED <<journal, declared, made>>
    PROVE  Log!LogNext
<1>1. currentState \in States /\ eventsCounter \in Nat /\ store.rev \in Nat
  BY Zenon DEF BaseTypeOK
<1>2. /\ StateReply(currentState, eventsCounter) \in Replies
      /\ StateReply(currentState, eventsCounter).kind = "state"
      /\ StateReply(currentState, eventsCounter).state = currentState
      /\ StateReply(currentState, eventsCounter).rev = eventsCounter
  <2>1. StateReply(currentState, eventsCounter) \in Replies
    BY <1>1, ReplyTypes, Zenon
  <2> QED
    BY <2>1, Zenon DEF StateReply
<1>3. eventsCounter \in 0..Log!Revision /\ Log!Prefix(eventsCounter) = currentState.seen
  <2>1. eventsCounter \in 0..store.rev /\ currentState.seen = {e \in journal : e.seq <= eventsCounter}
    BY Zenon DEF ActorInv, Recorded, FoldOf
  <2> QED
    BY <2>1, LogTerms, Zenon DEF Log!Prefix
<1>4. Log!Tell(id, "state", Log!Prefix(eventsCounter), eventsCounter)
  BY <1>2, <1>3, TellEffect, Zenon
<1>5. Log!Pending(id)
  BY LogTerms, Zenon
<1>6. \A other \in Commands \cup Reads : Answered[other].rev <= eventsCounter
  BY LogTerms, Zenon DEF ToldInv
<1>7. id \in Commands => /\ Cardinality(Log!EventsOf(id)) = made[id]
                         /\ Log!EventsOf(id) \subseteq Log!Prefix(eventsCounter)
  <2>1. LogOf(id) \subseteq journal
    BY Zenon DEF LogOf
  <2> QED
    BY <2>1, LogTerms, Zenon DEF Log!Prefix
<1>8. Log!Succeed(id, eventsCounter)
  BY <1>4, <1>5, <1>6, <1>7, LogCardinality, Zenon DEF Log!Succeed, Log!Callers
<1> QED
  BY <1>3, <1>8, Zenon DEF Log!LogNext, Log!Callers

(* The caller is told of an error, which says nothing of the log, or of a conflict,
   which says that the events of the command are not in it. *)
LEMMA ErrorStep ==
    ASSUME BaseTypeOK, LogInv, NEW c \in Commands, reply[c] = Waiting,
           NEW outcome \in Outcomes, outcome # Committed, Answer(c, ErrorReply(outcome)),
           outcome.kind = "conflict" =>
              /\ LogOf(c) = {} /\ declared[c] # NoRevision
              /\ declared[c] # Named(outcome) /\ Named(outcome) <= store.rev,
           UNCHANGED <<journal, declared, made>>
    PROVE  Log!LogNext
<1>1. InitialState.seen = {} /\ Named(outcome) \in Nat /\ store.rev \in Nat
  BY DEF InitialState, Named, Outcomes, Committed, Failed, Preconditions, BaseTypeOK
<1>2. c \in Commands \cup Reads
  BY Zenon
<1>3. Log!Tell(c, outcome.kind, {}, Named(outcome))
  BY <1>1, <1>2, ErrorReplyRev, TellEffect, Zenon
<1>4. Log!Pending(c)
  BY <1>2, LogTerms, Zenon
<1>5. CASE outcome.kind = "error"
  <2>1. Log!Fail(c)
    BY <1>3, <1>4, <1>5, ErrorReplyRev, Zenon DEF Log!Fail
  <2> QED
    BY <2>1, Zenon DEF Log!LogNext
<1>6. CASE outcome.kind = "conflict"
  <2>1. Log!Conflict(c, Named(outcome))
    BY <1>3, <1>4, <1>6, LogTerms, Zenon DEF Log!Conflict
  <2>2. Named(outcome) \in 0..store.rev
    BY <1>1, <1>6
  <2>3. Named(outcome) \in 0..Log!Revision
    BY <2>2, LogTerms, Zenon
  <2> QED
    BY <2>1, <2>3, Zenon DEF Log!LogNext
<1> QED
  BY <1>5, <1>6, ErrorReplyRev, Zenon

(* A write that lands is the step that appends the events of its command; one that
   does not is a step that nobody sees. *)
LEMMA AppendStep ==
    ASSUME DeclaredPostgres, BaseTypeOK, BaseInv, NEW r \in request \cup abandoned,
           NEW c \in Commands, WriteOf(r, c), MayLand(c),
           NEW announced \in BOOLEAN, Commit(r, announced), UNCHANGED <<reply, declared, made>>
    PROVE  Log!LogNext \/ UNCHANGED Log!logVars
<1>1. LogOf(c) = {} /\ made[c] > 0 /\ reply[c].kind \in {"waiting", "error"} /\ LogInv
  BY Zenon DEF MayLand, BaseInv
<1>2. /\ Outcome(r) = Committed =>
            /\ declared[c] = store.rev
            /\ r.events = BuildEnvelopes(c, made[c], store.rev)
            /\ journal' = journal \cup r.events
      /\ Outcome(r) # Committed => UNCHANGED journal
  BY <1>1, CommitEffect, Zenon
<1>3. CASE Outcome(r) = Committed
  <2>1. c \in Commands \cup Reads
    BY Zenon
  <2>2. Answered[c].kind \in {"waiting", "error"} /\ Log!EventsOf(c) = {} /\ declared[c] = Log!Revision
    BY <1>1, <1>2, <1>3, <2>1, LogTerms, Zenon
  <2>3. BuildEnvelopes(c, made[c], Log!Revision)
           = {[seq |-> Log!Revision + i, cmd |-> c, nth |-> i] : i \in 1..made[c]}
    BY Zenon DEF BuildEnvelopes
  <2>4. journal' = journal \cup BuildEnvelopes(c, made[c], Log!Revision)
    BY <1>1, <1>2, <1>3, LogTerms, Zenon
  <2>5. UNCHANGED <<declared, made, Answered>>
    BY Zenon DEF Answered
  <2>6. Log!AppendEvents(c)
    BY <1>1, <2>2, <2>3, <2>4, <2>5, Zenon DEF Log!AppendEvents
  <2> QED
    BY <2>6, Zenon DEF Log!LogNext
<1>4. CASE Outcome(r) # Committed
  BY <1>2, <1>4, StutterStep, Zenon
<1> QED
  BY <1>3, <1>4, Zenon

LEMMA ActorStep ==
    ASSUME IInv, IInv', RInv, Actor
    PROVE  Log!LogNext \/ UNCHANGED Log!logVars
<1>1. /\ BaseTypeOK /\ LogInv /\ ActorInv /\ MessagesInv /\ ToldInv /\ QueuesInv /\ MadeInv
      /\ SettledInv /\ eventsCounter \in Nat /\ currentState \in States
      /\ mailbox \in Seq(Messages) /\ direct.err \in Outcomes
  BY Zenon DEF IInv, BaseInv, RInv, TypeOK, BaseTypeOK
<1>2. "command" \in {"command", "getState"} /\ "getState" \in {"command", "getState"}
  OBVIOUS
<1>3. Received("command") => Head(mailbox).id \in Commands /\ alive
  BY <1>1, ReceivedTypes, Zenon DEF Received
<1>4. CASE RejectCommand
  <2>1. /\ ErrorReply(Failed) \in Replies /\ ErrorReply(Failed).rev = 0 /\ ErrorReply(Failed) # Unsent
        /\ Failed \in Outcomes /\ Failed # Committed /\ Failed.kind # "conflict"
    <3>1. Failed # Committed /\ Failed.kind = "error"
      BY Zenon DEF Failed, Committed
    <3>2. ErrorReply(Failed).kind = "error" /\ Unsent.kind = "unsent"
      BY Zenon DEF ErrorReply, Failed, Unsent
    <3>3. "error" # "unsent" /\ "error" # "conflict"
      OBVIOUS
    <3> QED
      BY <3>1, <3>2, <3>3, ErrorReplyRev, ReplyTypes, Zenon
  <2>2. reply[Head(mailbox).id] = Waiting /\ Head(mailbox).id \in Commands
    BY <1>2, <1>3, <1>4, <2>1, AnsweredRefinement, Zenon DEF RejectCommand, Processing
  <2>3. Answer(Head(mailbox).id, ErrorReply(Failed)) /\ UNCHANGED <<journal, declared, made>>
    BY <1>4, Zenon DEF RejectCommand, durable
  <2> QED
    BY <1>1, <2>1, <2>2, <2>3, ErrorStep, Zenon
<1>5. /\ StateReply(currentState, eventsCounter) \in Replies
      /\ StateReply(currentState, eventsCounter).rev = eventsCounter
      /\ StateReply(currentState, eventsCounter) # Unsent
  BY <1>1, ReplyTypes DEF StateReply, Unsent
<1>6. CASE AnswerWithoutEvents
  <2>1. /\ reply[Head(mailbox).id] = Waiting /\ Head(mailbox).id \in Commands
        /\ made[Head(mailbox).id] = 0 /\ alive
    BY <1>2, <1>3, <1>5, <1>6, AnsweredRefinement, Zenon DEF AnswerWithoutEvents, Processing
  <2>2. LogOf(Head(mailbox).id) = {}
    BY <1>1, <2>1, Zenon DEF MadeInv, Untouched
  <2>3. Cardinality({}) = 0
    BY FS_EmptySet, Zenon
  <2>4. /\ Answer(Head(mailbox).id, StateReply(currentState, eventsCounter))
        /\ UNCHANGED <<journal, declared, made>> /\ Head(mailbox).id \in Commands \cup Reads
    BY <1>6, <2>1, Zenon DEF AnswerWithoutEvents, durable
  <2> QED
    BY <1>1, <2>1, <2>2, <2>3, <2>4, SucceedStep, Zenon
<1>7. CASE \E n \in 1..MaxEvents : PersistAsync(n)
  <2>1. PICK n \in 1..MaxEvents : PersistAsync(n)
    BY <1>7, Zenon
  <2>2. PICK c : c = Head(mailbox).id
    BY Zenon
  <2>3. c \in Commands /\ made[c] = 0 /\ reply[c] = Waiting /\ c \in Commands \cup Reads
    BY <2>1, <2>2, PersistAsyncRefinement, Zenon
  <2>4. made' = [made EXCEPT ![c] = n] /\ UNCHANGED <<journal, reply, declared>>
    BY <2>1, <2>2, Zenon DEF PersistAsync, durable
  <2>5. UNCHANGED Answered
    BY <2>4, Zenon DEF Answered
  <2>6. Log!Decide(c, n)
    BY <1>1, <2>3, <2>4, <2>5, LogTerms, Zenon DEF Log!Decide
  <2> QED
    BY <2>3, <2>6, Zenon DEF Log!LogNext
<1>8. CASE StashCommand
  BY <1>8, StutterStep, Zenon DEF StashCommand, durable, callers
<1>9. CASE HandleGetState
  <2>1. CASE phase \in {"persisting", "directReplying"}
    BY <1>9, <2>1, StutterStep, Zenon DEF HandleGetState, durable
  <2>2. CASE phase \notin {"persisting", "directReplying"}
    <3>1. /\ Consume /\ Answer(Head(mailbox).id, StateReply(currentState, eventsCounter))
          /\ Received("getState") /\ alive
          /\ UNCHANGED <<durable, alive, phase, eventsCounter, writers, declared, made>>
      BY <1>9, <2>2, Zenon DEF HandleGetState, Received
    <3>2. phase = "processing"
      BY <2>2 DEF IInv, TypeOK
    <3>3. reply[Head(mailbox).id] = Waiting
      BY <1>2, <1>5, <3>1, <3>2, AnsweredRefinement, Zenon
    <3>4. Head(mailbox).id \in Commands \cup Reads /\ Head(mailbox).id \notin Commands
      BY <1>1, <3>1, ReceivedTypes, EntityAssumption, Zenon
    <3>5. UNCHANGED <<journal, declared, made>>
      BY <3>1, Zenon DEF durable
    <3> QED
      BY <1>1, <3>1, <3>3, <3>4, <3>5, SucceedStep, Zenon
  <2> QED
    BY <2>1, <2>2, Zenon
<1>10. CASE HandleDirectPersistResponse
  BY <1>10, StutterStep, Zenon DEF HandleDirectPersistResponse, durable, callers
<1>11. CASE ReplyDirect
  <2>1. PICK c : c = Head(mailbox).id
    BY Zenon
  <2>2. c \in Commands /\ Turn(c) /\ reply[c] = Waiting /\ c \in Commands \cup Reads
    BY <1>11, <2>1, ReplyDirectRefinement, Zenon
  <2>3. /\ Answer(c, IF direct.err = Committed THEN StateReply(currentState, eventsCounter)
                                               ELSE ErrorReply(direct.err))
        /\ phase = "directReplying" /\ alive /\ Received("command")
        /\ UNCHANGED <<journal, declared, made>>
    BY <1>11, <2>1, Zenon DEF ReplyDirect, Received, durable
  <2>4. Settled(c, direct.err, eventsCounter)
    BY <1>1, <2>2, <2>3, Zenon DEF SettledInv
  <2>5. CASE direct.err = Committed
    BY <1>1, <2>2, <2>3, <2>4, <2>5, SucceedStep, Zenon DEF Settled
  <2>6. CASE direct.err # Committed
    <3>1. declared[c] # NoRevision
      <4>1. mailbox # << >> /\ Head(mailbox).type = "command"
        BY <2>3, Zenon DEF Received
      <4>2. 1 \in DOMAIN mailbox /\ mailbox[1] = Head(mailbox)
        BY <1>1, <4>1
      <4> QED
        BY <1>1, <2>1, <4>1, <4>2, Zenon DEF MessagesInv
    <3>2. PICK outcome \in Outcomes : outcome = direct.err
      BY <1>1, Zenon
    <3>3. outcome.kind = "conflict" =>
             /\ LogOf(c) = {} /\ declared[c] # NoRevision
             /\ declared[c] # Named(outcome) /\ Named(outcome) <= store.rev
      BY <2>4, <3>1, <3>2, Zenon DEF Settled, Untouched
    <3> QED
      BY <1>1, <2>2, <2>3, <2>6, <3>2, <3>3, ErrorStep, Zenon
  <2> QED
    BY <2>5, <2>6, Zenon
<1> QED
  BY <1>4, <1>6, <1>7, <1>8, <1>9, <1>10, <1>11, Zenon DEF Actor

LEMMA WriterStep ==
    ASSUME DeclaredPostgres, IInv, RInv, Writer
    PROVE  Log!LogNext \/ UNCHANGED Log!logVars
<1>1. BaseTypeOK /\ BaseInv /\ RequestsInv /\ QueuesInv /\ OneWriteInv
  BY Zenon DEF IInv, BaseInv, TypeOK, RInv
<1>2. ASSUME NEW r \in request, NEW announced \in BOOLEAN, Commit(r, announced), UNCHANGED callers
      PROVE  Log!LogNext \/ UNCHANGED Log!logVars
  <2>1. PICK c \in Commands : WriteOf(r, c) /\ MayLand(c)
    BY <1>1, RequestOwner, Zenon
  <2>2. UNCHANGED <<reply, declared, made>> /\ r \in request \cup abandoned
    BY <1>2, Zenon DEF callers
  <2> QED
    BY <1>1, <1>2, <2>1, <2>2, AppendStep, Zenon
<1>3. ASSUME UNCHANGED <<journal, callers>>
      PROVE  UNCHANGED Log!logVars
  BY <1>3, StutterStep, Zenon DEF callers
<1>4. TRUE \in BOOLEAN /\ FALSE \in BOOLEAN
  OBVIOUS
<1>5. CASE HandlePersistEvents
  BY <1>2, <1>4, <1>5, Zenon DEF HandlePersistEvents
<1>6. CASE StoreFailure
  BY <1>2, <1>3, <1>4, <1>6, Zenon DEF StoreFailure
<1>7. CASE AskTimeout
  BY <1>3, <1>7, Zenon DEF AskTimeout, durable
<1> QED
  BY <1>5, <1>6, <1>7, Zenon DEF Writer

LEMMA BackgroundStep ==
    ASSUME DeclaredPostgres, IInv, RInv, Background
    PROVE  Log!LogNext \/ UNCHANGED Log!logVars
<1>1. BaseTypeOK /\ BaseInv /\ LogInv /\ OneWriteInv /\ PeerInv
  BY Zenon DEF IInv, BaseInv, TypeOK, RInv
<1>2. ASSUME UNCHANGED <<journal, callers>>
      PROVE  UNCHANGED Log!logVars
  BY <1>2, StutterStep, Zenon DEF callers
<1>3. CASE AbandonedLands
  <2>1. PICK r \in abandoned : (\E announced \in BOOLEAN : Commit(r, announced)) /\ UNCHANGED callers
    BY <1>3, Zenon DEF AbandonedLands
  <2>2. PICK announced \in BOOLEAN : Commit(r, announced)
    BY <2>1, Zenon
  <2>3. PICK c \in Commands : WriteOf(r, c) /\ MayLand(c)
    BY <1>1, Zenon DEF OneWriteInv
  <2>4. UNCHANGED <<reply, declared, made>> /\ r \in request \cup abandoned
    BY <2>1, Zenon DEF callers
  <2> QED
    BY <1>1, <2>2, <2>3, <2>4, AppendStep, Zenon
<1>4. CASE AbandonedLost
  BY <1>2, <1>4, Zenon DEF AbandonedLost, durable
<1>5. CASE HandlePersistSnapshot
  BY <1>2, <1>5, Zenon DEF HandlePersistSnapshot
<1>6. CASE HandleApplyRetention
  BY <1>2, <1>6, Zenon DEF HandleApplyRetention
<1>7. CASE PeerWrite
  <2>1. journal' = journal \cup {[seq |-> store.rev + 1, cmd |-> Peer, nth |-> peerWrites + 1]}
    BY <1>1, <1>7, PeerEffect, Zenon
  <2>2. Log!Revision = store.rev /\ Cardinality(Log!EventsOf(Peer)) = peerWrites
    BY <1>1, LogTerms, Zenon DEF PeerInv
  <2>3. UNCHANGED <<declared, made, Answered>>
    BY <1>7, Zenon DEF PeerWrite, callers, Answered
  <2>4. Log!AppendOther
    BY <2>1, <2>2, <2>3, LogCardinality, Zenon DEF Log!AppendOther
  <2> QED
    BY <2>4, Zenon DEF Log!LogNext
<1>8. CASE Spawn
  BY <1>2, <1>8, Zenon DEF Spawn, durable
<1> QED
  BY <1>3, <1>4, <1>5, <1>6, <1>7, <1>8, Zenon DEF Background

LEMMA LogStep ==
    ASSUME DeclaredPostgres, IInv, IInv', RInv, [Next]_vars
    PROVE  [Log!LogNext]_Log!logVars
<1>1. CASE UNCHANGED vars
  BY <1>1, StutterStep, Zenon DEF vars, baseVars, durable, callers
<1>2. CASE StopDirect
  BY <1>2, StutterStep, Zenon DEF StopDirect, Stop, durable, callers
<1>3. BaseTypeOK /\ LogInv
  BY Zenon DEF IInv, TypeOK, BaseInv
<1> QED
  BY <1>1, <1>2, <1>3, AskStep, ActorStep, WriterStep, BackgroundStep, Zenon DEF Next

LEMMA LogStart ==
    ASSUME Init
    PROVE  Log!LogInit
<1>1. [kind |-> Unsent.kind, seen |-> Unsent.state.seen, rev |-> Unsent.rev] = Log!Unasked
  BY DEF Unsent, InitialState, Log!Unasked
<1>2. \A id \in Commands \cup Reads : reply[id] = Unsent
  BY Zenon DEF Init, BaseInit
<1>3. Answered = [id \in Commands \cup Reads |-> Log!Unasked]
  BY <1>1, <1>2, Zenon DEF Answered
<1> QED
  BY <1>3, Zenon DEF Init, BaseInit, Log!LogInit, Log!Callers

(* Callers of the direct write path see an atomic log, for any number of commands,
   reads, events per command and other writers: with the postgres store, declared
   revisions and no retention of events, whatever order the actor, its writer,
   time-outs, late writes, stops and recoveries run in (processCommandAndReply,
   persistAsync, handleDirectPersistResponse, replyDirect). *)
THEOREM RefinesLog ==
    ASSUME DeclaredPostgres
    PROVE  Spec => ImplementsLog
<1>1. Spec => []IInv
  BY Inductive
<1>2. Init => RInv
  BY InitRefinement
<1>3. IInv /\ IInv' /\ RInv /\ [Next]_vars => RInv'
  BY RefinementStep
<1>4. Init => Log!LogInit
  BY LogStart
<1>5. IInv /\ IInv' /\ RInv /\ [Next]_vars => [Log!LogNext]_Log!logVars
  BY LogStep
<1> QED
  BY <1>1, <1>2, <1>3, <1>4, <1>5, PTL DEF Spec, ImplementsLog, Log!LogSpec

-----------------------------------------------------------------------------
(***************************************************************************)
(* What the log of callers implies for the revision that they declared.    *)
(***************************************************************************)

\* The events of a command are all there, at the revision that it declared, or
\* none is; which of the two, a success or a conflict tells.
DeclaredInv ==
    \A c \in Commands :
        /\ (LogOf(c) # {} /\ declared[c] # NoRevision) =>
              LogOf(c) = BuildEnvelopes(c, made[c], declared[c])
        /\ Answered[c].kind \in {"unsent", "conflict"} => LogOf(c) = {}
        /\ Answered[c].kind = "state" => Cardinality(LogOf(c)) = made[c]

(* An answer that is true of the log. *)
LEMMA DeclaredTold ==
    ASSUME DeclaredInv, NEW id, NEW kind, NEW seen, NEW rev, Log!Tell(id, kind, seen, rev),
           UNCHANGED <<journal, made>>,
           id \in Commands =>
              /\ kind \in {"unsent", "conflict"} => LogOf(id) = {}
              /\ kind = "state" => Cardinality(LogOf(id)) = made[id],
           \A c \in Commands : declared'[c] = declared[c] \/ LogOf(c) = {}
    PROVE  DeclaredInv'
<1>1. Answered' = [Answered EXCEPT ![id] = [kind |-> kind, seen |-> seen, rev |-> rev]]
  BY Zenon DEF Log!Tell
<1>2. DOMAIN Answered = Commands \cup Reads
  BY Zenon DEF Answered
<1>3. \A c \in Commands : Answered'[c].kind = IF c = id THEN kind ELSE Answered[c].kind
  BY <1>1, <1>2
<1>4. \A c \in Commands : LogOf(c)' = LogOf(c)
  BY Zenon DEF LogOf
<1> SUFFICES ASSUME NEW c \in Commands
             PROVE  /\ (LogOf(c)' # {} /\ declared'[c] # NoRevision) =>
                          LogOf(c)' = BuildEnvelopes(c, made'[c], declared'[c])
                    /\ Answered'[c].kind \in {"unsent", "conflict"} => LogOf(c)' = {}
                    /\ Answered'[c].kind = "state" => Cardinality(LogOf(c)') = made'[c]
  BY Zenon DEF DeclaredInv
<1> QED
  BY <1>3, <1>4, Zenon DEF DeclaredInv

LEMMA DeclaredStep ==
    ASSUME BaseTypeOK, LogInv, MadeInv, DeclaredInv, Log!LogNext
    PROVE  DeclaredInv'
<1>1. /\ Log!Revision = store.rev /\ \A c : Log!EventsOf(c) = LogOf(c)
      /\ declared \in [Commands -> Preconditions] /\ made \in [Commands -> Nat]
  BY LogTerms, Zenon DEF BaseTypeOK
<1>2. /\ "waiting" # "unsent" /\ "waiting" # "conflict" /\ "waiting" # "state"
      /\ "error" # "unsent" /\ "error" # "conflict" /\ "error" # "state"
      /\ "state" # "unsent" /\ "state" # "conflict"
  OBVIOUS
<1>3. CASE \E c \in Commands, rev \in Declarable : Log!AskCommand(c, rev)
  <2>1. PICK c \in Commands, rev \in Declarable : Log!AskCommand(c, rev)
    BY <1>3, Zenon
  <2>2. /\ Log!Tell(c, "waiting", {}, 0) /\ UNCHANGED <<journal, made>>
        /\ declared' = [declared EXCEPT ![c] = rev] /\ Answered[c] = Log!Unasked
    BY <2>1, Zenon DEF Log!AskCommand
  <2>3. Answered[c].kind = "unsent"
    BY <2>2 DEF Log!Unasked
  <2>4. \A d \in Commands : declared'[d] = declared[d] \/ LogOf(d) = {}
    BY <1>1, <2>2, <2>3, Zenon DEF DeclaredInv
  <2> QED
    BY <1>2, <2>2, <2>4, DeclaredTold, Zenon
<1>4. CASE \E r \in Reads : Log!AskState(r)
  BY <1>2, <1>4, DeclaredTold, Zenon DEF Log!AskState
<1>5. CASE \E c \in Commands, n \in 1..MaxEvents : Log!Decide(c, n)
  <2>1. PICK c \in Commands, n \in 1..MaxEvents : Log!Decide(c, n)
    BY <1>5, Zenon
  <2>2. /\ UNCHANGED <<journal, declared, Answered>> /\ made' = [made EXCEPT ![c] = n]
        /\ Answered[c].kind = "waiting" /\ LogOf(c) = {}
    BY <2>1, Zenon DEF Log!Decide, Log!Pending, MadeInv, Untouched
  <2>3. \A d \in Commands : LogOf(d)' = LogOf(d) /\ (d # c => made'[d] = made[d])
    BY <1>1, <2>2, Zenon DEF LogOf
  <2> QED
    BY <1>2, <2>2, <2>3, Zenon DEF DeclaredInv
<1>6. CASE \E c \in Commands : Log!AppendEvents(c)
  <2>1. PICK c \in Commands : Log!AppendEvents(c)
    BY <1>6, Zenon
  <2>2. /\ Answered[c].kind \in {"waiting", "error"} /\ LogOf(c) = {}
        /\ declared[c] \in {NoRevision, store.rev}
        /\ journal' = journal \cup BuildEnvelopes(c, made[c], store.rev)
        /\ UNCHANGED <<declared, made, Answered>>
    BY <1>1, <2>1, Zenon DEF Log!AppendEvents, BuildEnvelopes
  <2>3. LogOf(c)' = BuildEnvelopes(c, made[c], store.rev) /\ \A d : d # c => LogOf(d)' = LogOf(d)
    BY <2>2, EnvelopesOf, Zenon DEF LogOf
  <2>4. (LogOf(c)' # {} /\ declared'[c] # NoRevision) =>
           LogOf(c)' = BuildEnvelopes(c, made'[c], declared'[c])
    BY <2>2, <2>3, Zenon
  <2>5. Answered'[c].kind \notin {"unsent", "conflict", "state"}
    BY <1>2, <2>2, Zenon
  <2> QED
    BY <2>2, <2>3, <2>4, <2>5, Zenon DEF DeclaredInv
<1>7. CASE \E c \in Commands : Log!Fail(c)
  BY <1>2, <1>7, DeclaredTold, Zenon DEF Log!Fail
<1>8. CASE Log!AppendOther
  <2>1. PICK k : journal' = journal \cup {[seq |-> Log!Revision + 1, cmd |-> Peer, nth |-> k]}
    BY <1>8, Zenon DEF Log!AppendOther
  <2>2. \A c \in Commands : LogOf(c)' = LogOf(c)
    <3>1. [seq |-> Log!Revision + 1, cmd |-> Peer, nth |-> k].cmd = Peer /\ Peer \notin Commands
      BY EntityAssumption, Zenon
    <3> QED
      BY <2>1, <3>1, Zenon DEF LogOf
  <2>3. UNCHANGED <<declared, made, Answered>>
    BY <1>8, Zenon DEF Log!AppendOther
  <2> QED
    BY <2>2, <2>3, Zenon DEF DeclaredInv
<1>9. CASE \E id \in Log!Callers, rev \in 0..Log!Revision : Log!Succeed(id, rev)
  <2>1. PICK id \in Log!Callers, rev \in 0..Log!Revision : Log!Succeed(id, rev)
    BY <1>9, Zenon
  <2>2. /\ Log!Tell(id, "state", Log!Prefix(rev), rev) /\ UNCHANGED <<journal, declared, made>>
        /\ id \in Commands => Cardinality(LogOf(id)) = made[id]
    BY <1>1, <2>1, LogCardinality, Zenon DEF Log!Succeed
  <2> QED
    BY <1>2, <2>2, DeclaredTold, Zenon
<1>10. CASE \E c \in Commands, rev \in 0..Log!Revision : Log!Conflict(c, rev)
  <2>1. PICK c \in Commands, rev \in 0..Log!Revision : Log!Conflict(c, rev)
    BY <1>10, Zenon
  <2>2. /\ Log!Tell(c, "conflict", {}, rev) /\ UNCHANGED <<journal, declared, made>> /\ LogOf(c) = {}
    BY <1>1, <2>1, Zenon DEF Log!Conflict
  <2>3. "conflict" # "state"
    OBVIOUS
  <2> QED
    BY <2>2, <2>3, DeclaredTold, Zenon
<1> QED
  BY <1>3, <1>4, <1>5, <1>6, <1>7, <1>8, <1>9, <1>10, Zenon DEF Log!LogNext

(* A success has the events of its command at the revision that the command
   declared, and a conflict leaves none behind, then or later (WriteEvents under
   processCommandAndReply): a consequence of the log that callers see. *)
THEOREM DeclaredRevision ==
    ASSUME DeclaredPostgres
    PROVE  Spec => []DeclaredRevisionRespected
<1>1. Spec => []IInv
  BY Inductive
<1>2. Init => RInv /\ DeclaredInv
  <2> SUFFICES ASSUME Init PROVE RInv /\ DeclaredInv
    BY Zenon
  <2>1. \A c \in Commands : LogOf(c) = {} /\ Answered[c].kind = "unsent"
    BY DEF Init, BaseInit, LogOf, Answered, Unsent
  <2>2. "unsent" # "state"
    OBVIOUS
  <2> QED
    BY <2>1, <2>2, InitRefinement, Zenon DEF DeclaredInv
<1>3. IInv /\ IInv' /\ RInv /\ DeclaredInv /\ [Next]_vars => RInv' /\ DeclaredInv'
  <2> SUFFICES ASSUME IInv, IInv', RInv, DeclaredInv, [Next]_vars PROVE RInv' /\ DeclaredInv'
    BY Zenon
  <2>1. RInv' /\ (Log!LogNext \/ UNCHANGED Log!logVars)
    BY RefinementStep, LogStep, Zenon
  <2>2. BaseTypeOK /\ LogInv /\ MadeInv
    BY Zenon DEF IInv, TypeOK, BaseInv, RInv
  <2>3. CASE UNCHANGED Log!logVars
    BY <2>1, <2>3, Zenon DEF Log!logVars, DeclaredInv, LogOf
  <2> QED
    BY <2>1, <2>2, <2>3, DeclaredStep, Zenon
<1>4. IInv /\ DeclaredInv => DeclaredRevisionRespected
  <2> SUFFICES ASSUME IInv, DeclaredInv, NEW c \in Commands
               PROVE  /\ (reply[c].kind = "state" /\ declared[c] # NoRevision) =>
                            BuildEnvelopes(c, made[c], declared[c]) \subseteq journal
                      /\ reply[c].kind = "conflict" => \A e \in journal : e.cmd # c
    BY Zenon DEF DeclaredRevisionRespected
  <2>1. Answered[c].kind = reply[c].kind
    <3>1. BaseTypeOK /\ LogInv /\ c \in Commands \cup Reads
      BY Zenon DEF IInv, TypeOK, BaseInv
    <3> QED
      BY <3>1, LogTerms, Zenon
  <2>2. LogOf(c) \subseteq journal /\ (LogOf(c) = {} => \A e \in journal : e.cmd # c)
    BY Zenon DEF LogOf
  <2>3. made[c] = 0 => BuildEnvelopes(c, made[c], declared[c]) = {}
    BY DEF BuildEnvelopes
  <2>4. Cardinality({}) = 0
    BY FS_EmptySet, Zenon
  <2> QED
    BY <2>1, <2>2, <2>3, <2>4, Zenon DEF DeclaredInv
<1> QED
  BY <1>1, <1>2, <1>3, <1>4, PTL DEF Spec
=============================================================================

------------------------- MODULE DirectEntityProofs -------------------------
(***************************************************************************)
(* Theorems about the direct write path.                                   *)
(***************************************************************************)
EXTENDS DirectInvariant, EventSourcedEntityProofs

-----------------------------------------------------------------------------
(***************************************************************************)
(* Type correctness.                                                       *)
(***************************************************************************)

LEMMA NoDirectType == NoDirect \in Directs
BY InitialStateType DEF NoDirect, Directs, Committed, Outcomes, Preconditions

LEMMA InitType == Init => TypeOK
BY BaseInitType, NoDirectType DEF Init, TypeOK, BaseInit, Directs

(* A handler that answers and keeps everything else but the queues. *)
LEMMA AnsweringType ==
    ASSUME TypeOK, NEW type, Received(type), NEW id \in Commands \cup Reads,
           NEW answer \in Replies, Answer(id, answer), Consume,
           UNCHANGED <<durable, alive, phase, currentState, eventsCounter, writers, declared,
                       made, direct>>
    PROVE  TypeOK'
<1>1. mailbox' \in Seq(Messages) /\ stash' \in Seq(Messages)
  BY QueueTypes DEF TypeOK
<1>2. reply' \in [Commands \cup Reads -> Replies]
  BY DEF TypeOK, BaseTypeOK, Answer
<1> QED
  BY <1>1, <1>2, SMTT(30) DEF TypeOK, BaseTypeOK, WellFormed, durable, writers

LEMMA StashingType ==
    ASSUME TypeOK, NEW type, Received(type), Stash,
           UNCHANGED <<durable, alive, phase, currentState, eventsCounter, writers, callers, direct>>
    PROVE  TypeOK'
<1>1. mailbox' \in Seq(Messages) /\ stash' \in Seq(Messages)
  BY QueueTypes DEF TypeOK
<1> QED
  BY <1>1 DEF TypeOK, BaseTypeOK, WellFormed, durable, writers, callers

LEMMA PersistAsyncType ==
    ASSUME TypeOK, NEW n \in 1..MaxEvents, PersistAsync(n)
    PROVE  TypeOK'
<1> DEFINE c == Head(mailbox).id
           envelopes == BuildEnvelopes(c, n, eventsCounter)
           r == [events |-> envelopes, pre |-> declared[c]]
<1>1. c \in Commands /\ n \in Nat \ {0} /\ eventsCounter \in Nat
  BY ReceivedTypes, EntityAssumption, SMTT(30) DEF TypeOK, BaseTypeOK, PersistAsync, Processing
<1>2. IsWrite(envelopes, Event)
  BY <1>1, EnvelopesType
<1>3. r \in Requests /\ WellFormed(r)
  <2>1. declared[c] \in Preconditions
    BY <1>1 DEF TypeOK, BaseTypeOK
  <2> HIDE DEF c, envelopes
  <2> QED
    BY <1>2, <2>1, SMTT(30) DEF IsWrite, Requests, WellFormed
<1>4. direct' \in Directs
  <2>1. Apply(currentState, envelopes) \in States
    BY <1>2, ApplyType, SMTT(30) DEF IsWrite, TypeOK, BaseTypeOK
  <2>2. direct' = [direct EXCEPT !.state = Apply(currentState, envelopes),
                                 !.counter = eventsCounter + n]
    BY DEF PersistAsync
  <2>3. direct \in Directs /\ eventsCounter + n \in Nat
    BY <1>1 DEF Directs, TypeOK
  <2> HIDE DEF envelopes
  <2> QED
    BY <2>1, <2>2, <2>3, Zenon DEF Directs
<1>5. mailbox' \in Seq(Messages) /\ stash' \in Seq(Messages)
  BY QueueTypes DEF TypeOK, PersistAsync, Processing
<1>6. made' \in [Commands -> Nat]
  BY <1>1 DEF PersistAsync, TypeOK, BaseTypeOK
<1>7. request' = {r}
  BY DEF PersistAsync
<1>8. \A q \in request' \cup abandoned' : q \in Requests /\ WellFormed(q)
  <2> HIDE DEF r
  <2> QED BY <1>3, <1>7, SMTT(30) DEF TypeOK, BaseTypeOK, PersistAsync
<1> QED
  BY <1>4, <1>5, <1>6, <1>8, ZenonT(40) DEF PersistAsync, TypeOK, BaseTypeOK, WellFormed, durable, Directs

LEMMA HandleDirectPersistResponseType ==
    ASSUME TypeOK, HandleDirectPersistResponse
    PROVE  TypeOK'
<1> DEFINE outcome == Head(mailbox).outcome
<1>1. outcome \in Outcomes
  BY ReceivedTypes DEF TypeOK, HandleDirectPersistResponse
<1>2. mailbox' \in Seq(Messages) /\ stash' \in Seq(Messages)
  BY QueueTypes DEF TypeOK, HandleDirectPersistResponse
<1>3. /\ currentState' \in States
      /\ eventsCounter' \in Nat
      /\ snapshotQueue' \in Seq(Snapshots)
      /\ direct' \in Directs
      /\ phase' \in {"processing", "persisting", "directReplying"}
  <2>1. CASE phase # "persisting"
    BY <2>1 DEF HandleDirectPersistResponse, TypeOK, BaseTypeOK, Directs
  <2>2. CASE phase = "persisting" /\ outcome.kind = "ok"
    <3>1. PersistConfirmed /\ phase' = "directReplying"
      BY <2>2 DEF HandleDirectPersistResponse
    <3>2. [seq |-> direct.counter, state |-> direct.state] \in Snapshots
      BY DEF TypeOK, Snapshots
    <3>3. snapshotQueue' \in Seq(Snapshots)
      <4>1. \/ snapshotQueue' = snapshotQueue
            \/ snapshotQueue' = Append(snapshotQueue, [seq |-> direct.counter, state |-> direct.state])
        BY <3>1 DEF PersistConfirmed, SnapshotAndRetain
      <4>2. snapshotQueue \in Seq(Snapshots)
        BY DEF TypeOK, BaseTypeOK
      <4> QED
        BY <4>1, <4>2, <3>2
    <3>4. Committed \in Outcomes
      BY DEF Committed, Outcomes, Preconditions
    <3> QED
      BY <3>1, <3>3, <3>4 DEF PersistConfirmed, TypeOK, Directs
  <2>3. CASE phase = "persisting" /\ outcome.kind # "ok"
    BY <1>1, <2>3, ZenonT(30) DEF HandleDirectPersistResponse, PersistFailed, ShouldStayAliveAfterConflict,
                      TypeOK, BaseTypeOK, Directs
  <2> QED
    BY <2>1, <2>2, <2>3, SMTT(30)
<1> QED
  BY <1>2, <1>3, SMTT(30) DEF HandleDirectPersistResponse, TypeOK, BaseTypeOK, WellFormed, durable, callers,
                    Directs

LEMMA ReplyDirectType ==
    ASSUME TypeOK, ReplyDirect
    PROVE  TypeOK'
<1> DEFINE answer == IF direct.err = Committed THEN StateReply(currentState, eventsCounter)
                                               ELSE ErrorReply(direct.err)
<1>1. Head(mailbox).id \in Commands
  BY ReceivedTypes, SMTT(30) DEF TypeOK, ReplyDirect
<1>2. answer \in Replies
  <2>1. direct.err \in Outcomes
    BY DEF TypeOK
  <2>2. direct.err # Committed => direct.err.kind # "ok"
    BY <2>1, SMTT(30) DEF Outcomes, Committed, Failed
  <2> QED
    BY <2>1, <2>2, ReplyTypes, SMTT(30) DEF TypeOK, BaseTypeOK
<1>3. reply' \in [Commands \cup Reads -> Replies]
  <2>1. reply' = [reply EXCEPT ![Head(mailbox).id] = answer]
    BY DEF ReplyDirect, Answer
  <2> HIDE DEF answer
  <2> QED
    BY <1>1, <1>2, <2>1, SMTT(30) DEF TypeOK, BaseTypeOK
<1>4. direct' \in Directs
  BY NoDirectType DEF ReplyDirect
<1>5. CASE direct.shutdown
  <2>1. BaseTypeOK'
    BY <1>3, <1>5, TerminateType, SMTT(30) DEF ReplyDirect, TypeOK
  <2> QED
    BY <1>4, <1>5, <2>1, SMTT(30) DEF ReplyDirect, Terminate, TypeOK, Directs
<1>6. CASE ~direct.shutdown
  <2>1. mailbox' \in Seq(Messages) /\ stash' \in Seq(Messages)
    BY <1>6, QueueTypes DEF ReplyDirect, TypeOK
  <2> QED
    BY <1>3, <1>4, <1>6, <2>1, SMTT(30)
       DEF ReplyDirect, TypeOK, BaseTypeOK, WellFormed, Directs, durable, writers
<1> QED
  BY <1>5, <1>6

LEMMA ActorType ==
    ASSUME TypeOK, Actor
    PROVE  TypeOK'
<1>1. CASE RejectCommand
  <2>1. Head(mailbox).id \in Commands /\ ErrorReply(Failed) \in Replies
    BY <1>1, ReceivedTypes, ReplyTypes, SMTT(30) DEF TypeOK, RejectCommand, Processing
  <2> QED
    BY <1>1, <2>1, AnsweringType, SMTT(30) DEF RejectCommand, Processing
<1>2. CASE AnswerWithoutEvents
  <2>1. Head(mailbox).id \in Commands /\ StateReply(currentState, eventsCounter) \in Replies
    BY <1>2, ReceivedTypes, ReplyTypes, SMTT(30) DEF TypeOK, BaseTypeOK, AnswerWithoutEvents, Processing
  <2> QED
    BY <1>2, <2>1, AnsweringType, SMTT(30) DEF AnswerWithoutEvents, Processing
<1>3. CASE \E n \in 1..MaxEvents : PersistAsync(n)
  BY <1>3, PersistAsyncType
<1>4. CASE StashCommand
  BY <1>4, StashingType, SMTT(30) DEF StashCommand
<1>5. CASE HandleGetState
  <2>1. Head(mailbox).id \in Reads /\ StateReply(currentState, eventsCounter) \in Replies
    BY <1>5, ReceivedTypes, ReplyTypes, SMTT(30) DEF TypeOK, BaseTypeOK, HandleGetState
  <2>2. CASE phase \in {"persisting", "directReplying"}
    BY <1>5, <2>2, StashingType, SMTT(30) DEF HandleGetState, callers
  <2>3. CASE phase \notin {"persisting", "directReplying"}
    BY <1>5, <2>1, <2>3, AnsweringType, SMTT(30) DEF HandleGetState
  <2> QED
    BY <2>2, <2>3, SMTT(30)
<1>6. CASE HandleDirectPersistResponse
  BY <1>6, HandleDirectPersistResponseType
<1>7. CASE ReplyDirect
  BY <1>7, ReplyDirectType
<1> QED
  BY <1>1, <1>2, <1>3, <1>4, <1>5, <1>6, <1>7, SMTT(30) DEF Actor

LEMMA CallerType ==
    ASSUME TypeOK, Caller
    PROVE  TypeOK'
<1>1. BaseTypeOK'
  BY SendCommandType, SendGetStateType, SMTT(30) DEF Caller, TypeOK
<1>2. UNCHANGED <<phase, direct>>
  BY SMTT(30) DEF Caller, SendCommand, SendGetState
<1> QED
  BY <1>1, <1>2, SMTT(30) DEF TypeOK

LEMMA WriterType ==
    ASSUME TypeOK, Writer
    PROVE  TypeOK'
<1>1. BaseTypeOK'
  BY HandlePersistEventsType, StoreFailureType, AskTimeoutType DEF Writer, TypeOK
<1>2. UNCHANGED <<phase, direct>>
  BY Zenon DEF Writer, HandlePersistEvents, StoreFailure, AskTimeout
<1> QED
  BY <1>1, <1>2 DEF TypeOK

LEMMA BackgroundType ==
    ASSUME TypeOK, Background
    PROVE  TypeOK'
<1>1. BaseTypeOK'
  BY SMTT(30), AbandonedLandsType, AbandonedLostType, HandlePersistSnapshotType, HandleApplyRetentionType,
     PeerWriteType, SpawnType DEF Background, TypeOK
<1>2. UNCHANGED <<phase, direct>>
  BY Zenon DEF Background, AbandonedLands, AbandonedLost, HandlePersistSnapshot, HandleApplyRetention,
         PeerWrite, Spawn, actor
<1> QED
  BY <1>1, <1>2 DEF TypeOK

LEMMA StopDirectType ==
    ASSUME TypeOK, StopDirect
    PROVE  TypeOK'
<1>1. BaseTypeOK'
  BY StopType DEF StopDirect, TypeOK
<1> QED
  BY <1>1, NoDirectType DEF StopDirect, Stop, Terminate, TypeOK, Directs

LEMMA TypeStep == TypeOK /\ [Next]_vars => TypeOK'
<1> SUFFICES ASSUME TypeOK, [Next]_vars PROVE TypeOK'
  OBVIOUS
<1>1. CASE UNCHANGED vars
  BY <1>1, BaseUnchangedType DEF TypeOK, vars, baseVars, actor
<1> QED
  BY <1>1, CallerType, ActorType, WriterType, BackgroundType, StopDirectType, SMTT(30) DEF Next

(* Every variable of the direct path stays in its range: no command, late
   response or restart puts a malformed message, write, reply or state anywhere. *)
THEOREM TypeCorrect == Spec => []TypeOK
BY InitType, TypeStep, PTL DEF Spec

-----------------------------------------------------------------------------
(***************************************************************************)
(* The state that the actor works on, and hands out, is committed.         *)
(***************************************************************************)

LEMMA InitInv == Init => IInv
<1> SUFFICES ASSUME Init PROVE IInv
  OBVIOUS
<1>1. WriteInv
  BY SMTT(30) DEF Init, BaseInit, WriteInv
<1> QED
  BY <1>1, InitType, BaseInitInv DEF Init, IInv

(* Steps that leave the write path alone: a message arrives, or one that is
   not a response is taken. *)
LEMMA WriteKept ==
    ASSUME TypeOK, WriteInv, Grows,
           UNCHANGED <<alive, phase, currentState, eventsCounter, request, direct>>,
           \/ mailbox' = mailbox
           \/ \E m \in Messages : m.type # "response" /\ mailbox' = Append(mailbox, m)
           \/ mailbox # << >> /\ mailbox' = Tail(mailbox)
    PROVE  WriteInv'
<1>1. mailbox \in Seq(Messages)
  BY DEF TypeOK, BaseTypeOK
<1>2. PICK k \in Nat :
         \A i \in DOMAIN mailbox' :
            mailbox'[i].type = "response" =>
               i + k \in DOMAIN mailbox /\ mailbox'[i] = mailbox[i + k]
  <2>1. CASE mailbox' = mailbox
    <3>1. \A i \in DOMAIN mailbox' : i + 0 = i
      BY <1>1, <2>1
    <3> QED
      BY <2>1, <3>1
  <2>2. CASE \E m \in Messages : m.type # "response" /\ mailbox' = Append(mailbox, m)
    <3>1. PICK m \in Messages : m.type # "response" /\ mailbox' = Append(mailbox, m)
      BY <2>2
    <3>2. \A i \in DOMAIN mailbox' :
             i + 0 = i /\ (mailbox'[i] = m \/ (i \in DOMAIN mailbox /\ mailbox'[i] = mailbox[i]))
      BY <1>1, <3>1
    <3>3. \A i \in DOMAIN mailbox' :
             mailbox'[i].type = "response" =>
                i + 0 \in DOMAIN mailbox /\ mailbox'[i] = mailbox[i + 0]
      BY <3>1, <3>2
    <3> QED
      BY <3>3
  <2>3. CASE mailbox # << >> /\ mailbox' = Tail(mailbox)
    <3>1. \A i \in DOMAIN mailbox' : i + 1 \in DOMAIN mailbox /\ mailbox'[i] = mailbox[i + 1]
      BY <1>1, <2>3, HeadTailProperties, LenProperties, SMTT(30)
    <3> QED
      BY <3>1
  <2> QED
    BY <2>1, <2>2, <2>3
<1>3. request' # {} => alive' /\ phase' = "persisting"
                         /\ \A i \in DOMAIN mailbox' : mailbox'[i].type # "response"
  BY <1>2 DEF WriteInv
<1>4. \A r \in request' :
         /\ Follows(r.events, eventsCounter')
         /\ direct'.state = Apply(currentState', r.events)
         /\ direct'.counter = eventsCounter' + Cardinality(r.events)
  BY SMTT(30) DEF WriteInv
<1>5. \A i \in DOMAIN mailbox' :
         mailbox'[i].type = "response" =>
            /\ phase' = "persisting"
            /\ mailbox'[i].outcome = Committed =>
                  Recorded(journal', store'.rev, direct'.state, direct'.counter)
  BY <1>2, RecordedKept, SMTT(30) DEF WriteInv
<1>6. \A i, j \in DOMAIN mailbox' :
         (mailbox'[i].type = "response" /\ mailbox'[j].type = "response") => i = j
  <2>1. mailbox' \in Seq(Messages)
    BY <1>1, HeadTailProperties, SMTT(30)
  <2> QED
    BY <1>2, <2>1 DEF WriteInv
<1> QED
  BY <1>3, <1>4, <1>5, <1>6, SMTT(30) DEF WriteInv

(* No write is asked for and no response waits. *)
LEMMA WriteIdle ==
    ASSUME request' = {}, \A i \in DOMAIN mailbox' : mailbox'[i].type # "response"
    PROVE  WriteInv'
BY SMTT(30) DEF WriteInv

(* The writer, or the timeout of the ask, responds. *)
LEMMA WriteResponded ==
    ASSUME TypeOK, WriteInv, request # {}, request' = {},
           UNCHANGED <<alive, phase, currentState, eventsCounter, direct>>,
           NEW outcome \in Outcomes, Respond(outcome),
           outcome = Committed => Recorded(journal', store'.rev, direct.state, direct.counter)
    PROVE  WriteInv'
<1>1. mailbox \in Seq(Messages)
  BY SMTT(30) DEF TypeOK, BaseTypeOK
<1>2. ResponseMsg(outcome) \in Messages
  BY DEF ResponseMsg, Messages
<1>3. \A i \in DOMAIN mailbox' :
         \/ i = Len(mailbox) + 1 /\ mailbox'[i] = ResponseMsg(outcome)
         \/ i \in DOMAIN mailbox /\ mailbox'[i] = mailbox[i]
  BY <1>1, <1>2, SMTT(30) DEF Respond
<1>4. \A i \in DOMAIN mailbox' :
         mailbox'[i].type = "response" =>
            i = Len(mailbox) + 1 /\ mailbox'[i] = ResponseMsg(outcome)
  BY <1>3, SMTT(30) DEF WriteInv
<1> QED
  BY <1>4, SMTT(30) DEF WriteInv, ResponseMsg

(* A handler that answers, and keeps everything else but the queues. *)
LEMMA AnsweringInv ==
    ASSUME IInv, NEW type, type # "response", Received(type), NEW id, NEW answer,
           Answer(id, answer), Consume,
           answer.kind = "state" =>
              answer.state = currentState /\ answer.rev = eventsCounter,
           UNCHANGED <<durable, alive, phase, currentState, eventsCounter, writers, declared,
                       made, direct>>
    PROVE  BaseInv' /\ WriteInv'
<1>1. BaseTypeOK /\ BaseInv
  BY DEF IInv, TypeOK
<1>2. Grows
  BY <1>1, UnwrittenGrows, SMTT(30) DEF durable, BaseInv
<1>3. RequestsInv' /\ SnapshotsInv' /\ ActorInv'
  BY <1>1, <1>2, RequestsKept, SnapshotsKept, ActorKept, SMTT(30) DEF durable, writers, BaseInv
<1>4. MessagesInv'
  BY <1>1, MessagesKept, SMTT(30) DEF BaseInv
<1>5. RepliesInv'
  <2>1. Recorded(journal, store.rev, currentState, eventsCounter)
    BY <1>1, SMTT(30) DEF BaseInv, ActorInv, Received
  <2>2. \A other \in Commands \cup Reads : reply'[other] = reply[other] \/ reply'[other] = answer
    BY <1>1, SMTT(30) DEF Answer, BaseTypeOK
  <2> QED
    BY <1>1, <1>2, <2>1, <2>2, RepliesKept, SMTT(30) DEF BaseInv
<1>6. WriteInv'
  BY <1>2, WriteKept, SMTT(30) DEF IInv, Consume, Received, writers
<1> QED
  BY <1>2, <1>3, <1>4, <1>5, <1>6, SMTT(30) DEF BaseInv, Grows

LEMMA StashingInv ==
    ASSUME IInv, NEW type, type # "response", Received(type), Stash,
           UNCHANGED <<durable, alive, phase, currentState, eventsCounter, writers, callers, direct>>
    PROVE  BaseInv' /\ WriteInv'
<1>1. BaseTypeOK /\ BaseInv
  BY DEF IInv, TypeOK
<1>2. Grows
  BY <1>1, UnwrittenGrows, SMTT(30) DEF durable, BaseInv
<1>3. RequestsInv' /\ SnapshotsInv' /\ ActorInv' /\ RepliesInv'
  BY <1>1, <1>2, RequestsKept, SnapshotsKept, ActorKept, SameReplies, SMTT(30)
     DEF durable, writers, callers, BaseInv
<1>4. MessagesInv'
  BY <1>1, MessagesKept, SMTT(30) DEF BaseInv, callers
<1>5. WriteInv'
  BY <1>2, WriteKept, SMTT(30) DEF IInv, Stash, Received, writers
<1> QED
  BY <1>2, <1>3, <1>4, <1>5, SMTT(30) DEF BaseInv, Grows

LEMMA PersistAsyncInv ==
    ASSUME DeclaredPostgres, IInv, NEW n \in 1..MaxEvents, PersistAsync(n)
    PROVE  BaseInv' /\ WriteInv'
<1> DEFINE c == Head(mailbox).id
           envelopes == BuildEnvelopes(c, n, eventsCounter)
           r == [events |-> envelopes, pre |-> declared[c]]
<1>1. BaseTypeOK /\ BaseInv /\ TypeOK /\ WriteInv
  BY SMTT(30) DEF IInv, TypeOK
<1>2. c \in Commands /\ n \in Nat \ {0} /\ eventsCounter \in Nat
  BY <1>1, ReceivedTypes, EntityAssumption, SMTT(30) DEF BaseTypeOK, PersistAsync, Processing
<1>3. Follows(envelopes, eventsCounter) /\ Cardinality(envelopes) = n
  BY <1>2, EnvelopesFollow
<1>4. Recorded(journal, store.rev, currentState, eventsCounter)
  BY <1>1, SMTT(30) DEF BaseInv, ActorInv, PersistAsync, Processing, Received
<1>5. declared[c] # NoRevision
  <2>1. mailbox \in Seq(Messages) /\ mailbox # << >> /\ Head(mailbox).type = "command"
    BY <1>1 DEF BaseTypeOK, PersistAsync, Processing, Received
  <2>2. Head(mailbox) = mailbox[1] /\ 1 \in DOMAIN mailbox
    BY <2>1
  <2> QED
    BY <1>1, <2>1, <2>2, SMTT(30) DEF BaseInv, MessagesInv
<1>6. request = {} /\ \A i \in DOMAIN mailbox : mailbox[i].type # "response"
  BY <1>1 DEF WriteInv, PersistAsync, Processing
<1>7. Grows
  BY <1>1, UnwrittenGrows DEF PersistAsync, durable, BaseInv
<1>8. request' = {r} /\ direct'.state = Apply(currentState, envelopes)
        /\ direct'.counter = eventsCounter + n
  BY <1>1 DEF PersistAsync, TypeOK
<1>9. UNCHANGED <<store, journal, eventsCounter, currentState, alive, declared, abandoned>>
        /\ phase' = "persisting" /\ alive
  BY DEF PersistAsync, durable, Processing, Received
<1>10. \A i \in DOMAIN mailbox' : mailbox'[i].type # "response"
  BY <1>1, <1>6, NoResponseLeft, SMTT(30) DEF TypeOK, PersistAsync, BaseInv, Processing, Received
<1>11. r.events = envelopes /\ r.pre = declared[c]
  OBVIOUS
<1>12. SnapshotsInv' /\ ActorInv' /\ RepliesInv' /\ MessagesInv'
  BY <1>1, <1>7, SnapshotsKept, ActorKept, SameReplies, MessagesKept, SMTT(30)
     DEF BaseInv, PersistAsync, durable, Processing
<1> HIDE DEF c, envelopes, r
<1>13. RequestsInv'
  <2>1. eventsCounter \in 0..store.rev
    BY <1>4, SMTT(30) DEF Recorded
  <2> QED
    BY <1>1, <1>3, <1>5, <1>8, <1>9, <1>11, <2>1, SMTT(30) DEF BaseInv, RequestsInv
<1>14. WriteInv'
  BY <1>3, <1>8, <1>9, <1>10, <1>11, SMTT(30) DEF WriteInv
<1> QED
  BY <1>7, <1>12, <1>13, <1>14, SMTT(30) DEF BaseInv, Grows

LEMMA HandleDirectPersistResponseInv ==
    ASSUME IInv, HandleDirectPersistResponse
    PROVE  BaseInv' /\ WriteInv'
<1> DEFINE outcome == Head(mailbox).outcome
<1>1. BaseTypeOK /\ BaseInv /\ TypeOK /\ WriteInv
  BY SMTT(30) DEF IInv, TypeOK
<1>2. mailbox \in Seq(Messages) /\ mailbox # << >> /\ Head(mailbox).type = "response"
  BY <1>1 DEF BaseTypeOK, HandleDirectPersistResponse, Received
<1>3. Head(mailbox) = mailbox[1] /\ 1 \in DOMAIN mailbox
  BY <1>2
<1>4. phase = "persisting" /\ request = {}
  BY <1>1, <1>2, <1>3, SMTT(30) DEF WriteInv
<1>5. \A i \in DOMAIN mailbox : i # 1 => mailbox[i].type # "response"
  BY <1>1, <1>2, <1>3, SMTT(30) DEF WriteInv
<1>6. UnstashAll /\ ((outcome.kind = "ok" /\ PersistConfirmed) \/ PersistFailed(outcome))
  BY <1>4, SMTT(30) DEF HandleDirectPersistResponse
<1>7. Grows
  BY <1>1, UnwrittenGrows, SMTT(30) DEF HandleDirectPersistResponse, durable, BaseInv
<1>8. outcome.kind = "ok" => Recorded(journal, store.rev, direct.state, direct.counter)
  <2>1. outcome \in Outcomes
    BY <1>2, SMTT(30) DEF Messages
  <2>2. outcome.kind = "ok" => outcome = Committed
    BY <2>1, SMTT(30) DEF Outcomes, Committed, Failed
  <2> QED
    BY <1>1, <1>2, <1>3, <2>2, SMTT(30) DEF WriteInv
<1>9. UNCHANGED <<store, journal, snapshots, request, abandoned, alive, reply, declared>>
  BY SMTT(30) DEF HandleDirectPersistResponse, durable, callers
<1>10. RequestsInv' /\ RepliesInv' /\ MessagesInv'
  BY <1>1, <1>6, <1>7, <1>9, RequestsKept, SameReplies, MessagesKept, SMTT(30)
     DEF BaseInv, HandleDirectPersistResponse
<1>11. ActorInv'
  BY <1>1, <1>6, <1>8, <1>9, SMTT(30) DEF BaseInv, ActorInv, PersistConfirmed, PersistFailed
<1>12. SnapshotsInv'
  <2>1. CASE snapshotQueue' = snapshotQueue
    BY <1>1, <1>7, <1>9, <2>1, SnapshotsKept, SMTT(30) DEF BaseInv
  <2>2. CASE snapshotQueue' # snapshotQueue
    <3> DEFINE snap == [seq |-> direct.counter, state |-> direct.state]
    <3>1. outcome.kind = "ok" /\ snapshotQueue' = Append(snapshotQueue, snap)
      BY <1>6, <2>2, SMTT(30) DEF PersistConfirmed, PersistFailed, SnapshotAndRetain
    <3>2. snapshotQueue \in Seq(Snapshots) /\ snap \in Snapshots
      BY <1>1, SMTT(30) DEF BaseTypeOK, TypeOK, Snapshots
    <3>3. \A i \in DOMAIN snapshotQueue' :
             \/ snapshotQueue'[i] = snap
             \/ i \in DOMAIN snapshotQueue /\ snapshotQueue'[i] = snapshotQueue[i]
      BY <3>1, <3>2, SMTT(30)
    <3>4. Recorded(journal, store.rev, snap.state, snap.seq)
      BY <1>8, <3>1, SMTT(30)
    <3> HIDE DEF snap
    <3> QED
      BY <1>1, <1>9, <3>3, <3>4, SMTT(30) DEF BaseInv, SnapshotsInv
  <2> QED
    BY <2>1, <2>2
<1>13. WriteInv'
  BY <1>1, <1>2, <1>4, <1>5, <1>6, <1>9, NoResponseLeft, WriteIdle, SMTT(30) DEF TypeOK, BaseInv
<1> QED
  BY <1>7, <1>10, <1>11, <1>12, <1>13, SMTT(30) DEF BaseInv, Grows

LEMMA ReplyDirectInv ==
    ASSUME IInv, ReplyDirect
    PROVE  BaseInv' /\ WriteInv'
<1>1. BaseTypeOK /\ BaseInv /\ TypeOK /\ WriteInv
  BY DEF IInv, TypeOK
<1>2. alive /\ mailbox # << >> /\ phase = "directReplying"
  BY SMTT(30) DEF ReplyDirect, Received
<1>3. request = {} /\ \A i \in DOMAIN mailbox : mailbox[i].type # "response"
  BY <1>1, <1>2, SMTT(30) DEF WriteInv
<1>4. Grows
  BY <1>1, UnwrittenGrows, SMTT(30) DEF ReplyDirect, durable, BaseInv
<1>5. RepliesInv'
  <2> DEFINE answer == IF direct.err = Committed THEN StateReply(currentState, eventsCounter)
                                                 ELSE ErrorReply(direct.err)
  <2>1. \A other \in Commands \cup Reads : reply'[other] = reply[other] \/ reply'[other] = answer
    BY <1>1, SMTT(30) DEF ReplyDirect, Answer, BaseTypeOK
  <2>2. answer.kind = "state" => answer = StateReply(currentState, eventsCounter)
    <3>1. direct.err \in Outcomes
      BY <1>1, SMTT(30) DEF TypeOK
    <3>2. direct.err.kind # "state"
      BY <3>1 DEF Outcomes, Committed, Failed
    <3> QED
      BY <3>2 DEF ErrorReply, Unsent
  <2>3. Recorded(journal, store.rev, currentState, eventsCounter)
    BY <1>1, <1>2, SMTT(30) DEF BaseInv, ActorInv
  <2>4. answer.kind = "state" => Recorded(journal, store.rev, answer.state, answer.rev)
    BY <2>2, <2>3 DEF StateReply
  <2> HIDE DEF answer
  <2> QED
    BY <1>1, <1>4, <2>1, <2>4, RepliesKept, SMTT(30) DEF BaseInv
<1>6. CASE Terminate
  <2>1. BaseInv'
    BY <1>1, <1>5, <1>6, TerminateInv, SMTT(30) DEF ReplyDirect
  <2>2. WriteInv'
    BY <1>6, WriteIdle, SMTT(30) DEF Terminate
  <2> QED
    BY <2>1, <2>2, SMTT(30)
<1>7. CASE UnstashAll /\ UNCHANGED <<alive, currentState, eventsCounter, writers>>
  <2>1. RequestsInv' /\ SnapshotsInv' /\ ActorInv' /\ MessagesInv'
    BY <1>1, <1>4, <1>7, RequestsKept, SnapshotsKept, ActorKept, MessagesKept, SMTT(30)
       DEF BaseInv, ReplyDirect, durable, writers
  <2>2. WriteInv'
    BY <1>1, <1>2, <1>3, <1>7, NoResponseLeft, WriteIdle, SMTT(30) DEF TypeOK, BaseInv, writers
  <2> QED
    BY <1>4, <1>5, <2>1, <2>2, SMTT(30) DEF BaseInv, Grows
<1> QED
  BY <1>6, <1>7 DEF ReplyDirect

LEMMA ActorInvStep ==
    ASSUME DeclaredPostgres, IInv, Actor
    PROVE  BaseInv' /\ WriteInv'
<1>1. CASE RejectCommand
  <2>1. ErrorReply(Failed).kind # "state"
    BY DEF ErrorReply, Failed, Unsent
  <2> QED
    BY <1>1, <2>1, AnsweringInv, SMTT(30) DEF RejectCommand, Processing
<1>2. CASE AnswerWithoutEvents
  <2>1. StateReply(currentState, eventsCounter).state = currentState
          /\ StateReply(currentState, eventsCounter).rev = eventsCounter
    BY DEF StateReply
  <2> QED
    BY <1>2, <2>1, AnsweringInv, SMTT(30) DEF AnswerWithoutEvents, Processing
<1>3. CASE \E n \in 1..MaxEvents : PersistAsync(n)
  BY <1>3, PersistAsyncInv, SMTT(30)
<1>4. CASE StashCommand
  BY <1>4, StashingInv DEF StashCommand
<1>5. CASE HandleGetState
  <2>1. StateReply(currentState, eventsCounter).state = currentState
          /\ StateReply(currentState, eventsCounter).rev = eventsCounter
    BY DEF StateReply
  <2>2. CASE phase \in {"persisting", "directReplying"}
    BY <1>5, <2>2, StashingInv, SMTT(30) DEF HandleGetState, callers
  <2>3. CASE phase \notin {"persisting", "directReplying"}
    BY <1>5, <2>1, <2>3, AnsweringInv, SMTT(30) DEF HandleGetState
  <2> QED
    BY <2>2, <2>3, SMTT(30)
<1>6. CASE HandleDirectPersistResponse
  BY <1>6, HandleDirectPersistResponseInv
<1>7. CASE ReplyDirect
  BY <1>7, ReplyDirectInv
<1> QED
  BY <1>1, <1>2, <1>3, <1>4, <1>5, <1>6, <1>7, SMTT(30) DEF Actor

LEMMA CallerInv ==
    ASSUME DeclaredPostgres, IInv, Caller
    PROVE  BaseInv' /\ WriteInv'
<1>1. BaseTypeOK /\ BaseInv /\ TypeOK /\ WriteInv
  BY SMTT(30) DEF IInv, TypeOK
<1>2. CASE \E c \in Commands, rev \in Declarable : SendCommand(c, rev)
  <2>1. PICK c \in Commands, rev \in Declarable : SendCommand(c, rev)
    BY <1>2
  <2>2. BaseInv' /\ Grows
    BY <1>1, <2>1, SendCommandInv, SMTT(30)
  <2>3. CommandMsg(c) \in Messages /\ CommandMsg(c).type # "response"
    BY SMTT(30) DEF CommandMsg, Messages
  <2> QED
    BY <1>1, <2>1, <2>2, <2>3, WriteKept, SMTT(30) DEF SendCommand, Caller, writers
<1>3. CASE \E r \in Reads : SendGetState(r)
  <2>1. PICK r \in Reads : SendGetState(r)
    BY <1>3
  <2>2. BaseInv' /\ Grows
    BY <1>1, <2>1, SendGetStateInv, SMTT(30)
  <2>3. GetStateMsg(r) \in Messages /\ GetStateMsg(r).type # "response"
    BY DEF GetStateMsg, Messages
  <2> QED
    BY <1>1, <2>1, <2>2, <2>3, WriteKept, SMTT(30) DEF SendGetState, Caller, writers
<1> QED
  BY <1>2, <1>3, SMTT(30) DEF Caller

LEMMA WriterInv ==
    ASSUME DeclaredPostgres, IInv, Writer
    PROVE  BaseInv' /\ WriteInv'
<1>1. BaseTypeOK /\ BaseInv /\ TypeOK /\ WriteInv
  BY DEF IInv, TypeOK
<1>2. CASE HandlePersistEvents
  <2>1. BaseInv'
    BY <1>1, <1>2, HandlePersistEventsInv, SMTT(30)
  <2>2. PICK r \in request :
           /\ Commit(r, TRUE)
           /\ Respond(Outcome(r))
           /\ request' = {}
           /\ UNCHANGED <<alive, phase, currentState, eventsCounter>>
    BY <1>2, ZenonT(30) DEF HandlePersistEvents
  <2>3. r \in Requests /\ WellFormed(r) /\ r.pre # NoRevision
    BY <1>1, SMTT(30) DEF BaseTypeOK, BaseInv, RequestsInv
  <2>4. /\ alive
        /\ Follows(r.events, eventsCounter)
        /\ direct.state = Apply(currentState, r.events)
        /\ direct.counter = eventsCounter + Cardinality(r.events)
    BY <1>1, SMTT(30) DEF WriteInv
  <2>5. Recorded(journal, store.rev, currentState, eventsCounter)
    BY <1>1, <2>4, SMTT(30) DEF BaseInv, ActorInv
  <2>6. eventsCounter \in 0..store.rev
    BY <2>5 DEF Recorded
  <2>7. Outcome(r) = Committed =>
           /\ store.rev = eventsCounter
           /\ journal' = journal \cup r.events
           /\ store'.rev = eventsCounter + Cardinality(r.events)
    BY <1>1, <2>2, <2>3, <2>4, <2>6, CommitAppends, ZenonT(30) DEF DeclaredPostgres, BaseInv
  <2>8. Outcome(r) = Committed => Recorded(journal', store'.rev, direct.state, direct.counter)
    <3> SUFFICES ASSUME Outcome(r) = Committed
                 PROVE  Recorded(journal', store'.rev, direct.state, direct.counter)
      BY SMTT(30)
    <3>1. Numbers(journal) = 1..eventsCounter /\ eventsCounter \in Nat
      BY <1>1, <2>7, SMTT(30) DEF BaseInv, LogInv, BaseTypeOK
    <3>2. Recorded(journal, eventsCounter, currentState, eventsCounter)
      BY <2>5, <2>7, SMTT(30)
    <3>3. journal \in SUBSET Event /\ r.events \in SUBSET Event /\ IsFiniteSet(r.events)
      BY <1>1, <2>3, SMTT(30) DEF BaseTypeOK, Requests, WellFormed
    <3> QED
      BY <2>4, <2>7, <3>1, <3>2, <3>3, RecordedExtends, SMTT(30)
  <2>9. Outcome(r) \in Outcomes
    BY <1>1, <2>2, <2>3, CommitType, ZenonT(30)
  <2> QED
    BY <1>1, <2>1, <2>2, <2>8, <2>9, WriteResponded, SMTT(30) DEF Writer
<1>3. CASE StoreFailure \/ AskTimeout
  <2>1. BaseInv'
    BY <1>1, <1>3, StoreFailureInv, AskTimeoutInv, SMTT(30)
  <2>2. /\ request # {} /\ request' = {}
        /\ Respond(Failed)
        /\ UNCHANGED <<alive, phase, currentState, eventsCounter, direct>>
    BY <1>3, Zenon DEF StoreFailure, AskTimeout, Writer
  <2>3. Failed \in Outcomes /\ Failed # Committed
    BY DEF Outcomes, Failed, Committed
  <2> QED
    BY <1>1, <2>1, <2>2, <2>3, WriteResponded, SMTT(30)
<1> QED
  BY <1>2, <1>3, SMTT(30) DEF Writer

LEMMA BackgroundInv ==
    ASSUME DeclaredPostgres, IInv, Background
    PROVE  BaseInv' /\ WriteInv'
<1>1. BaseTypeOK /\ BaseInv /\ TypeOK /\ WriteInv
  BY DEF IInv, TypeOK
<1>2. CASE Spawn
  <2>1. BaseInv' /\ Grows
    BY <1>1, <1>2, SpawnInv, SMTT(30)
  <2>2. request = {} /\ request' = {} /\ UNCHANGED <<mailbox, phase, direct, store, journal>>
    BY <1>1, <1>2, SMTT(30) DEF Spawn, WriteInv, writers, durable, Background
  <2>3. WriteInv'
    BY <1>1, <2>2, SMTT(30) DEF WriteInv
  <2> QED
    BY <2>1, <2>3
<1>3. CASE AbandonedLands \/ AbandonedLost \/ HandlePersistSnapshot \/ HandleApplyRetention
             \/ PeerWrite
  <2>1. BaseInv' /\ Grows
    BY <1>1, <1>3, AbandonedInv, HandlePersistSnapshotInv, HandleApplyRetentionInv, PeerWriteInv, SMTT(30)
  <2>2. UNCHANGED <<alive, phase, currentState, eventsCounter, request, direct, mailbox>>
    BY <1>3, ZenonT(30) DEF AbandonedLands, AbandonedLost, HandlePersistSnapshot, HandleApplyRetention,
                PeerWrite, actor, writers, Background
  <2> QED
    BY <1>1, <2>1, <2>2, WriteKept, SMTT(30)
<1> QED
  BY <1>2, <1>3 DEF Background

LEMMA InductiveStep ==
    ASSUME DeclaredPostgres, IInv, [Next]_vars
    PROVE  IInv'
<1>1. BaseTypeOK /\ BaseInv /\ TypeOK /\ WriteInv
  BY DEF IInv, TypeOK
<1>2. TypeOK'
  BY <1>1, TypeStep, SMTT(30)
<1>3. CASE StopDirect
  <2>1. Grows
    BY <1>1, <1>3, UnwrittenGrows, SMTT(30) DEF StopDirect, Stop, durable, BaseInv
  <2>2. RepliesInv'
    BY <1>1, <1>3, <2>1, SameReplies, SMTT(30) DEF StopDirect, Stop, callers, BaseInv
  <2>3. BaseInv'
    BY <1>1, <1>3, <2>2, TerminateInv, SMTT(30) DEF StopDirect, Stop, callers
  <2>4. WriteInv'
    BY <1>3, WriteIdle, SMTT(30) DEF StopDirect, Stop, Terminate
  <2> QED
    BY <1>2, <2>3, <2>4, SMTT(30) DEF IInv
<1>4. CASE UNCHANGED vars
  <2>1. BaseInv' /\ Grows
    BY <1>1, <1>4, SameBase, SMTT(30) DEF vars
  <2>2. WriteInv'
    BY <1>1, <1>4, <2>1, WriteKept, SMTT(30) DEF vars, baseVars, actor, writers
  <2> QED
    BY <1>2, <2>1, <2>2, SMTT(30) DEF IInv
<1> QED
  BY <1>2, <1>3, <1>4, ActorInvStep, CallerInv, WriterInv, BackgroundInv, SMTT(30) DEF Next, IInv

(* The inductive invariant of the direct path holds throughout. *)
THEOREM Inductive ==
    ASSUME DeclaredPostgres PROVE Spec => []IInv
BY InitInv, InductiveStep, PTL DEF Spec

(* "The actor state always matches what is stored": with declared revisions, the
   Postgres store and no deletion of events, the state the running actor works on
   is the fold of the committed events up to its counter, however writes fail,
   time out, land late or race with another writer. *)
THEOREM StateCommitted ==
    ASSUME DeclaredPostgres PROVE Spec => []StateIsCommitted
<1>1. IInv => StateIsCommitted
  BY SMTT(30) DEF IInv, BaseInv, ActorInv, Recorded, StateIsCommitted, CommittedPrefix
<1> QED
  BY <1>1, Inductive, PTL

(* No caller, of a command or of a read, is ever handed a state that is not
   committed at the revision named with it (sendStateReply). *)
THEOREM RepliesCommitted ==
    ASSUME DeclaredPostgres PROVE Spec => []RepliesAreCommitted
<1>1. IInv => RepliesAreCommitted
  BY SMTT(30) DEF IInv, BaseInv, RepliesInv, Recorded, RepliesAreCommitted, CommittedPrefix
<1> QED
  BY <1>1, Inductive, PTL

(* The stream carries only events that are in the log, under their number, the
   ones of late and of foreign writes included (handlePersistEvents). *)
THEOREM PublishedPersisted ==
    ASSUME DeclaredPostgres PROVE Spec => []PublishedArePersisted
<1>1. IInv => PublishedArePersisted
  BY DEF IInv, BaseInv, LogInv, PublishedArePersisted
<1> QED
  BY <1>1, Inductive, PTL

(* The three together: what the actor works on, what callers are told and what the
   stream carries is committed. *)
THEOREM OnlyCommittedSeen ==
    ASSUME DeclaredPostgres PROVE Spec => []OnlyCommittedIsSeen
<1>1. (StateIsCommitted /\ RepliesAreCommitted /\ PublishedArePersisted) <=> OnlyCommittedIsSeen
  BY SMTT(30) DEF OnlyCommittedIsSeen
<1> QED
  BY <1>1, StateCommitted, RepliesCommitted, PublishedPersisted, PTL

(* No write replaces an event: the store holds what was first committed under
   each number (insertEvent). *)
THEOREM EventsOriginal ==
    ASSUME DeclaredPostgres PROVE Spec => []EventsAreOriginal
<1>1. IInv => EventsAreOriginal
  BY SMTT(30) DEF IInv, BaseInv, LogInv, EventsAreOriginal
<1> QED
  BY <1>1, Inductive, PTL

(* In every reachable state a recovery would rebuild all that was committed, each
   event folded once, from whichever snapshots were written, lost or deleted by
   then, and would end at the storage revision (recover). *)
THEOREM RecoveryComplete ==
    ASSUME DeclaredPostgres PROVE Spec => []RecoveryIsComplete
<1>1. IInv => RecoveryIsComplete
  BY RecoveredRecorded DEF IInv, TypeOK, BaseInv, Recorded, RecoveryIsComplete, CommittedPrefix
<1> QED
  BY <1>1, Inductive, PTL
=============================================================================

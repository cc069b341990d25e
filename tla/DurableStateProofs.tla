------------------------- MODULE DurableStateProofs -------------------------
(***************************************************************************)
(* Theorems about the durable state entity, for any number of nodes,       *)
(* commands, reads and incarnations.                                       *)
(***************************************************************************)
EXTENDS DurableInvariant, TLAPS

-----------------------------------------------------------------------------
(***************************************************************************)
(* Lemmas about the store, the memory and the replies.                     *)
(***************************************************************************)

(* The record held is the last one written. *)
LEMMA StoredIsLast ==
    ASSUME records \in Seq(Records), records # << >>
    PROVE  /\ Len(records) \in DOMAIN records
           /\ Stored = records[Len(records)]
           /\ Stored \in Records
           /\ StoredState = Stored.state
           /\ StoredVersion = Stored.version
BY DEF Stored, StoredState, StoredVersion

LEMMA StoredTypes ==
    ASSUME records \in Seq(Records)
    PROVE  StoredState \in States /\ StoredVersion \in Nat
<1>1. InitialState \in States
  BY DEF InitialState, States
<1>2. CASE records = << >>
  BY <1>1, <1>2 DEF StoredState, StoredVersion
<1>3. CASE records # << >>
  BY <1>3, StoredIsLast DEF Records
<1> QED
  BY <1>2, <1>3

(* A write adds a record, which is then the one held. *)
LEMMA StoreAppends ==
    ASSUME records \in Seq(Records), NEW record \in Records, Store(record)
    PROVE  /\ records' \in Seq(Records)
           /\ records' # << >>
           /\ Len(records') = Len(records) + 1
           /\ \A i \in DOMAIN records : i \in DOMAIN records' /\ records'[i] = records[i]
           /\ \A i \in DOMAIN records' :
                 records'[i] = record \/ (i \in DOMAIN records /\ records'[i] = records[i])
           /\ \E i \in DOMAIN records' : records'[i] = record
           /\ StoredState' = record.state
           /\ StoredVersion' = record.version
<1>1. records' = Append(records, record)
  BY DEF Store
<1>2. /\ records' \in Seq(Records)
      /\ records' # << >>
      /\ Len(records') = Len(records) + 1
      /\ \A i \in DOMAIN records : i \in DOMAIN records' /\ records'[i] = records[i]
      /\ \A i \in DOMAIN records' :
            records'[i] = record \/ (i \in DOMAIN records /\ records'[i] = records[i])
  BY <1>1
<1>3. Len(records') \in DOMAIN records' /\ records'[Len(records')] = record
  BY <1>1
<1>4. StoredState' = record.state /\ StoredVersion' = record.version
  BY <1>2, <1>3 DEF StoredState, StoredVersion, Stored
<1> QED
  BY <1>2, <1>3, <1>4

(* What a flush writes and a read returns is the state or its cached encoding. *)
LEMMA CachedOrCurrent ==
    ASSUME NEW n \in Nodes
    PROVE  CurrentStateAny(n) = currentState[n] \/ CurrentStateAny(n) \in cachedStateAny[n]
BY DEF CurrentStateAny

LEMMA ReplyTypes ==
    /\ Unsent \in Replies
    /\ Waiting \in Replies
    /\ Waiting.kind = "waiting" /\ Unsent.kind = "unsent"
    /\ \A s \in States, v \in Nat :
          StateReply(s, v) \in Replies /\ StateReply(s, v).kind = "state"
                                      /\ StateReply(s, v).state = s
    /\ \A o \in {Failed} \cup [kind : {"conflict"}, actual : Preconditions] :
          ErrorReply(o) \in Replies /\ ErrorReply(o).kind = o.kind /\ o.kind \in {"error", "conflict"}
<1>1. InitialState \in States
  BY DEF InitialState, States
<1>2. Unsent \in Replies /\ Unsent.kind = "unsent"
  BY <1>1 DEF Unsent, Replies, Kinds
<1>3. Waiting \in Replies /\ Waiting.kind = "waiting"
  BY <1>2 DEF Waiting, Unsent, Replies, Kinds
<1>4. \A s \in States, v \in Nat :
         StateReply(s, v) \in Replies /\ StateReply(s, v).kind = "state"
                                     /\ StateReply(s, v).state = s
  BY DEF StateReply, Replies, Kinds
<1>5. ASSUME NEW o \in {Failed} \cup [kind : {"conflict"}, actual : Preconditions]
      PROVE  ErrorReply(o) \in Replies /\ ErrorReply(o).kind = o.kind
               /\ o.kind \in {"error", "conflict"}
  <2>1. o.kind \in {"error", "conflict"} /\ o.actual \in Preconditions
    BY DEF Failed, Preconditions
  <2> QED
    BY <1>2, <2>1, Zenon DEF ErrorReply, Unsent, Replies, Kinds, Preconditions
<1> QED
  BY <1>2, <1>3, <1>4, <1>5, Zenon

(* What the compare-and-swap answers.  A conflict on a record that was read names
   its version. *)
LEMMA WriteStateOutcome ==
    ASSUME records \in Seq(Records), NEW w \in Writes, w.seen <= Len(records)
    PROVE  /\ WriteState(w) = Committed <=> Admitted(w)
           /\ ~Admitted(w) => /\ WriteState(w) = Conflict(Met(w))
                              /\ Met(w) \in Preconditions
<1>1. WriteState(w) = Committed <=> Admitted(w)
  BY Zenon DEF WriteState, Committed, Conflict
<1>2. w.pre \in Preconditions /\ w.seen \in Nat
  BY Zenon DEF Writes
<1>3. ASSUME NEW i \in Nat, i > 0, i <= Len(records)
      PROVE  VersionAt(i) \in Nat
  <2>1. records[i] \in Records
    BY <1>3
  <2> QED
    BY <2>1, Zenon DEF VersionAt, Records
<1>4. ~Admitted(w) => Met(w) \in Preconditions
  <2> SUFFICES ASSUME ~Admitted(w) PROVE Met(w) \in Preconditions
    BY Zenon
  <2>1. CASE w.seen > 0
    BY <1>2, <1>3, <2>1 DEF Met, Preconditions
  <2>2. CASE w.seen = 0 /\ w.pre = 0
    <3>1. Len(records) > 0
      BY <2>2 DEF Admitted
    <3> QED
      BY <1>3, <2>2, <3>1 DEF Met, Preconditions
  <2>3. CASE w.seen = 0 /\ w.pre # 0
    BY <2>3 DEF Met, Preconditions
  <2> QED
    BY <1>2, <2>1, <2>2, <2>3
<1> QED
  BY <1>1, <1>4, Zenon DEF WriteState

-----------------------------------------------------------------------------
(***************************************************************************)
(* Every step preserves types.                                             *)
(***************************************************************************)

LEMMA InitType == Init => TypeOK
<1> SUFFICES ASSUME Init PROVE TypeOK
  BY Zenon
<1>1. InitialState \in States /\ Record(0, InitialState) \in Records
  BY DEF InitialState, States, Record, Records
<1>2. records \in Seq(Records)
  BY <1>1 DEF Init
<1> QED
  BY <1>1, <1>2, ReplyTypes, Zenon DEF Init, TypeOK, Preconditions

(* What a recovery puts into memory. *)
LEMMA RecoverType ==
    ASSUME TypeOK, NEW n \in Nodes, RecoverFromStore(n)
    PROVE  currentState' \in [Nodes -> States] /\ currentVersion' \in [Nodes -> Nat]
<1>1. InitialState \in States
  BY DEF InitialState, States
<1>2. ~Blank => Stored \in Records
  BY StoredIsLast, Zenon DEF Blank, TypeOK
<1> QED
  BY <1>1, <1>2, Zenon DEF RecoverFromStore, TypeOK, Records

(* A write under way is well-formed, and so is what it leaves in the store. *)
LEMMA WritingTypes ==
    ASSUME TypeOK, NEW n \in Nodes, NEW w \in writing[n]
    PROVE  w \in Writes /\ w.record \in Records /\ w.cmd \in Commands /\ w.pre \in Preconditions
             /\ w.seen \in Nat /\ w.record.state \in States /\ w.record.version \in Nat
<1>1. w \in Writes
  BY Zenon DEF TypeOK
<1> QED
  BY <1>1, Zenon DEF Writes, Records

LEMMA FailedTypes ==
    ASSUME TypeOK, NEW n \in Nodes, NEW f \in failed[n]
    PROVE  f.cmd \in Commands /\ f.outcome \in {Failed} \cup [kind : {"conflict"}, actual : Preconditions]
<1>1. f \in Failures
  BY Zenon DEF TypeOK
<1> QED
  BY <1>1, Zenon DEF Failures

LEMMA StoreType ==
    ASSUME TypeOK, NEW n \in Nodes,
           UNCHANGED records \/ \E w \in writing[n] : Store(w.record)
    PROVE  records' \in Seq(Records)
<1>1. CASE UNCHANGED records
  BY <1>1, Zenon DEF TypeOK
<1>2. CASE \E w \in writing[n] : Store(w.record)
  BY <1>2, WritingTypes, StoreAppends, Zenon DEF TypeOK
<1> QED
  BY <1>1, <1>2, Zenon

LEMMA SpawnType ==
    ASSUME TypeOK, NEW n \in Nodes, Spawn(n)
    PROVE  TypeOK'
BY RecoverType DEF Spawn, TypeOK, deployment

LEMMA GetStateAndReplyType ==
    ASSUME TypeOK, NEW n \in Nodes, NEW r \in Reads, GetStateAndReply(n, r)
    PROVE  TypeOK'
<1>1. CurrentStateAny(n) \in States
  BY CachedOrCurrent, Zenon DEF TypeOK
<1>2. StateReply(CurrentStateAny(n), currentVersion[n]) \in Replies
  BY <1>1, ReplyTypes DEF TypeOK
<1>3. reply' \in [Commands \cup Reads -> Replies]
  BY <1>2, Zenon DEF GetStateAndReply, Answer, TypeOK
<1>4. cachedStateAny' \in [Nodes -> SUBSET States]
  BY <1>1, Zenon DEF GetStateAndReply, TypeOK
<1> QED
  BY <1>3, <1>4, Zenon DEF GetStateAndReply, TypeOK, deployment

LEMMA RejectCommandType ==
    ASSUME TypeOK, NEW n \in Nodes, NEW c \in Commands, RejectCommand(n, c)
    PROVE  TypeOK'
<1>1. ErrorReply(Failed) \in Replies
  BY ReplyTypes, Zenon
<1>2. reply' \in [Commands \cup Reads -> Replies]
  BY <1>1, Zenon DEF RejectCommand, Answer, TypeOK
<1> QED
  BY <1>2, Zenon DEF RejectCommand, TypeOK, deployment, memory

LEMMA ProcessCommandType ==
    ASSUME TypeOK, NEW n \in Nodes, NEW c \in Commands, NEW rev \in Declarable,
           ProcessCommand(n, c, rev)
    PROVE  TypeOK'
<1> DEFINE w == [cmd |-> c,
                 record |-> Record(currentVersion[n] + 1, Append(currentState[n], c)),
                 pre |-> rev,
                 seen |-> Len(records)]
<1>1. Record(currentVersion[n] + 1, Append(currentState[n], c)) \in Records
  BY DEF TypeOK, Record, Records, States
<1>2. rev \in Preconditions
  BY DurableAssumption, Zenon DEF Preconditions
<1>3. w \in Writes
  BY <1>1, <1>2 DEF Writes, TypeOK
<1>4. writing' = [writing EXCEPT ![n] = {w}]
  BY Zenon DEF ProcessCommand
<1>5. writing' \in [Nodes -> SUBSET Writes]
  <2> HIDE DEF w
  <2> QED BY <1>3, <1>4, Zenon DEF TypeOK
<1>6. reply' \in [Commands \cup Reads -> Replies]
  BY ReplyTypes, Zenon DEF ProcessCommand, Answer, TypeOK
<1>7. declared' \in [Commands -> Preconditions]
  BY <1>2, Zenon DEF ProcessCommand, TypeOK
<1> QED
  BY <1>5, <1>6, <1>7, Zenon DEF ProcessCommand, TypeOK, deployment, memory

LEMMA RefusedType ==
    ASSUME TypeOK, NEW n \in Nodes, NEW w \in writing[n],
           NEW outcome \in {Failed} \cup [kind : {"conflict"}, actual : Preconditions],
           Refused(n, w, outcome)
    PROVE  failed' \in [Nodes -> SUBSET Failures]
<1>1. [cmd |-> w.cmd, outcome |-> outcome] \in Failures
  BY WritingTypes, Zenon DEF Failures
<1> QED
  BY <1>1, Zenon DEF Refused, Fail, TypeOK

LEMMA CommitStateType ==
    ASSUME TypeOK, TurnInv, NEW n \in Nodes, CommitState(n)
    PROVE  TypeOK'
<1>1. PICK w \in writing[n] :
         /\ writing' = [writing EXCEPT ![n] = {}]
         /\ WriteState(w) = Committed =>
               /\ Store(w.record)
               /\ Adopt(n, w.record)
               /\ published' = published \cup {w.record}
               /\ Answer(w.cmd, StateReply(w.record.state, w.record.version))
               /\ UNCHANGED <<alive, failed>>
         /\ WriteState(w) # Committed => Refused(n, w, WriteState(w)) /\ UNCHANGED records
         /\ UNCHANGED <<deployment, declared, spawns>>
  BY Zenon DEF CommitState
<1>2. w \in Writes /\ w.record \in Records /\ w.seen <= Len(records) /\ w.cmd \in Commands
        /\ w.record.state \in States /\ w.record.version \in Nat
  BY WritingTypes, Zenon DEF TurnInv, WriteInv, Pending
<1>3. writing' \in [Nodes -> SUBSET Writes] /\ declared' \in [Commands -> Preconditions]
        /\ spawns' \in Nat /\ UNCHANGED <<deployment, alive>>
  BY <1>1, Zenon DEF TypeOK, Refused, memory
<1>4. CASE WriteState(w) = Committed
  <2>1. records' \in Seq(Records)
    BY <1>1, <1>2, <1>4, StoreAppends, Zenon DEF TypeOK
  <2>2. StateReply(w.record.state, w.record.version) \in Replies
    BY <1>2, ReplyTypes, Zenon
  <2>3. reply' \in [Commands \cup Reads -> Replies]
    BY <1>1, <1>2, <1>4, <2>2, Zenon DEF Answer, TypeOK
  <2>4. /\ currentState' \in [Nodes -> States]
        /\ currentVersion' \in [Nodes -> Nat]
        /\ cachedStateAny' \in [Nodes -> SUBSET States]
    <3>1. Adopt(n, w.record)
      BY <1>1, <1>4, Zenon
    <3>2. {w.record.state} \in SUBSET States
      BY <1>2, Zenon
    <3> QED
      BY <1>2, <3>1, <3>2, Zenon DEF Adopt, TypeOK
  <2>5. published' \subseteq Records /\ UNCHANGED failed
    BY <1>1, <1>2, <1>4, Zenon DEF TypeOK
  <2> QED
    BY <1>3, <2>1, <2>3, <2>4, <2>5, Zenon DEF TypeOK, deployment
<1>5. CASE WriteState(w) # Committed
  <2>1. WriteState(w) \in {Failed} \cup [kind : {"conflict"}, actual : Preconditions]
    BY <1>2, <1>5, WriteStateOutcome DEF Conflict, TypeOK
  <2>2. failed' \in [Nodes -> SUBSET Failures]
    BY <1>1, <1>5, <2>1, RefusedType, Zenon
  <2>3. UNCHANGED <<records, memory, published, reply>>
    BY <1>1, <1>5, Zenon DEF Refused
  <2> QED
    BY <1>3, <2>2, <2>3, Zenon DEF TypeOK, deployment, memory
<1> QED
  BY <1>4, <1>5, Zenon

LEMMA StoreFaultType ==
    ASSUME TypeOK, NEW n \in Nodes, StoreFault(n)
    PROVE  TypeOK'
<1>1. PICK w \in writing[n] :
         /\ writing' = [writing EXCEPT ![n] = {}]
         /\ Store(w.record) \/ UNCHANGED records
         /\ Refused(n, w, Failed)
         /\ UNCHANGED <<deployment, declared, spawns>>
  BY Zenon DEF StoreFault
<1>2. records' \in Seq(Records)
  BY <1>1, StoreType, Zenon
<1>3. failed' \in [Nodes -> SUBSET Failures]
  BY <1>1, RefusedType, Zenon
<1> QED
  BY <1>1, <1>2, <1>3, Zenon DEF TypeOK, Refused, deployment, memory

LEMMA RecoverFromConflictIfNeededType ==
    ASSUME TypeOK, NEW n \in Nodes, RecoverFromConflictIfNeeded(n)
    PROVE  TypeOK'
<1>1. PICK f \in failed[n] :
         /\ failed' = [failed EXCEPT ![n] = {}]
         /\ UNCHANGED <<currentState, currentVersion>> \/ RecoverFromStore(n)
         /\ Answer(f.cmd, ErrorReply(f.outcome))
         /\ UNCHANGED <<deployment, records, published, alive, cachedStateAny, writing, declared,
                        spawns>>
  BY Zenon DEF RecoverFromConflictIfNeeded
<1>2. f.cmd \in Commands /\ f.outcome \in {Failed} \cup [kind : {"conflict"}, actual : Preconditions]
  BY FailedTypes, Zenon
<1>3. ErrorReply(f.outcome) \in Replies
  BY <1>2, ReplyTypes, Zenon
<1>4. reply' \in [Commands \cup Reads -> Replies]
  BY <1>1, <1>2, <1>3, Zenon DEF Answer, TypeOK
<1>5. currentState' \in [Nodes -> States] /\ currentVersion' \in [Nodes -> Nat]
  BY <1>1, RecoverType, Zenon DEF TypeOK
<1>6. failed' \in [Nodes -> SUBSET Failures]
  BY <1>1, Zenon DEF TypeOK
<1> QED
  BY <1>1, <1>4, <1>5, <1>6, Zenon DEF TypeOK, deployment

LEMMA ForgetType ==
    ASSUME TypeOK, NEW n \in Nodes, Forget(n)
    PROVE  /\ alive' \in [Nodes -> BOOLEAN]
           /\ currentState' \in [Nodes -> States]
           /\ currentVersion' \in [Nodes -> Nat]
           /\ cachedStateAny' \in [Nodes -> SUBSET States]
<1>1. InitialState \in States
  BY DEF InitialState, States
<1> QED
  BY <1>1, Zenon DEF Forget, TypeOK

LEMMA PostStopType ==
    ASSUME TypeOK, NEW n \in Nodes, PostStop(n)
    PROVE  TypeOK'
<1> DEFINE record == Record(currentVersion[n], CurrentStateAny(n))
<1>1. record \in Records
  BY CachedOrCurrent, Zenon DEF TypeOK, Record, Records
<1>2. \/ Store(record) /\ published' = published \cup {record}
      \/ UNCHANGED <<records, published>>
  BY Zenon DEF PostStop, PersistStateAndPublish
<1>3. records' \in Seq(Records) /\ published' \subseteq Records
  <2> HIDE DEF record
  <2> QED BY <1>1, <1>2, StoreAppends, Zenon DEF TypeOK
<1> QED
  BY <1>3, ForgetType, Zenon DEF PostStop, TypeOK, deployment

LEMMA CrashType ==
    ASSUME TypeOK, NEW n \in Nodes, Crash(n)
    PROVE  TypeOK'
<1>1. records' \in Seq(Records)
  BY StoreType, Zenon DEF Crash
<1> QED
  BY <1>1, ForgetType, Zenon DEF Crash, TypeOK, deployment

LEMMA TypeStep ==
    ASSUME TypeOK, TurnInv, [Next]_vars
    PROVE  TypeOK'
<1>1. CASE UNCHANGED vars
  BY <1>1, Zenon DEF TypeOK, vars, deployment, memory
<1>2. CASE Next
  BY <1>2, SpawnType, GetStateAndReplyType, RejectCommandType, ProcessCommandType, CommitStateType,
     StoreFaultType, RecoverFromConflictIfNeededType, PostStopType, CrashType, Zenon
     DEF Next, Turn
<1> QED
  BY <1>1, <1>2, Zenon

-----------------------------------------------------------------------------
(***************************************************************************)
(* What a step may do to the store and to memory.                          *)
(***************************************************************************)

LEMMA SameStore ==
    ASSUME UNCHANGED records
    PROVE  /\ StoredState' = StoredState
           /\ StoredVersion' = StoredVersion
           /\ \A s : WasStored(s) => WasStored(s)'
           /\ \A c : Absent(c) => Absent(c)'
BY Zenon DEF StoredState, StoredVersion, Stored, WasStored, Absent

(* The store forgets no state; a command it takes up is one of the new record. *)
LEMMA StoreKeeps ==
    ASSUME records \in Seq(Records), NEW record \in Records, Store(record)
    PROVE  /\ \A s : WasStored(s) => WasStored(s)'
           /\ WasStored(record.state)'
           /\ \A c : Absent(c) /\ ~Includes(record.state, c) => Absent(c)'
<1>1. \A s : WasStored(s) => WasStored(s)'
  BY StoreAppends, Zenon DEF WasStored
<1>2. WasStored(record.state)'
  BY StoreAppends, Zenon DEF WasStored
<1>3. \A c : Absent(c) /\ ~Includes(record.state, c) => Absent(c)'
  BY StoreAppends, Zenon DEF Absent
<1> QED
  BY <1>1, <1>2, <1>3, Zenon

LEMMA IncludesAppend ==
    ASSUME NEW s \in States, NEW c \in Commands
    PROVE  /\ Append(s, c) \in States
           /\ Len(Append(s, c)) = Len(s) + 1
           /\ Includes(Append(s, c), c)
           /\ \A d : Includes(s, d) => Includes(Append(s, c), d)
           /\ \A d : Includes(Append(s, c), d) => Includes(s, d) \/ d = c
<1>1. /\ Append(s, c) \in States
      /\ Len(Append(s, c)) = Len(s) + 1
      /\ Append(s, c)[Len(s) + 1] = c
      /\ Len(s) + 1 \in DOMAIN Append(s, c)
      /\ \A i \in DOMAIN s : i \in DOMAIN Append(s, c) /\ Append(s, c)[i] = s[i]
      /\ \A i \in DOMAIN Append(s, c) :
            i = Len(s) + 1 \/ (i \in DOMAIN s /\ Append(s, c)[i] = s[i])
  BY DEF States
<1> QED
  BY <1>1, Zenon DEF Includes

(* A state that was stored has no command that is in no record. *)
LEMMA StoredExcludes ==
    ASSUME NEW s, WasStored(s), NEW c, Absent(c)
    PROVE  ~Includes(s, c)
BY DEF WasStored, Absent, Includes, InitialState

LEMMA InitialIncludesNone == \A c : ~Includes(InitialState, c)
BY DEF Includes, InitialState

(* A recovery takes over the record, or starts blank when there is none to take. *)
LEMMA RecoverEffect ==
    ASSUME TypeOK, NEW n \in Nodes, RecoverFromStore(n)
    PROVE  /\ WasStored(currentState'[n])
           /\ (StoredVersion = 0 => StoredState = InitialState) =>
                 /\ currentState'[n] = StoredState
                 /\ \/ currentVersion'[n] = StoredVersion
                    \/ StoredVersion = 0 /\ currentVersion'[n] = currentVersion[n]
           /\ \A m \in Nodes \ {n} :
                 currentState'[m] = currentState[m] /\ currentVersion'[m] = currentVersion[m]
<1>1. /\ currentState'[n] = IF Blank THEN InitialState ELSE Stored.state
      /\ currentVersion'[n] = IF Blank THEN currentVersion[n] ELSE Stored.version
      /\ \A m \in Nodes \ {n} :
            currentState'[m] = currentState[m] /\ currentVersion'[m] = currentVersion[m]
  BY Zenon DEF RecoverFromStore, TypeOK
<1>2. CASE Blank
  <2>1. WasStored(currentState'[n])
    BY <1>1, <1>2, Zenon DEF WasStored
  <2>2. StoredVersion = 0
    BY <1>2, Zenon DEF Blank, StoredVersion
  <2>3. records = << >> => StoredState = InitialState
    BY Zenon DEF StoredState
  <2> QED
    BY <1>1, <1>2, <2>1, <2>2, <2>3, Zenon
<1>3. CASE ~Blank
  <2>1. records # << >> /\ records \in Seq(Records)
    BY <1>3, Zenon DEF Blank, TypeOK
  <2>2. WasStored(Stored.state) /\ StoredState = Stored.state /\ StoredVersion = Stored.version
    BY <2>1, StoredIsLast, Zenon DEF WasStored
  <2> QED
    BY <1>1, <1>3, <2>2, Zenon
<1> QED
  BY <1>2, <1>3, Zenon


-----------------------------------------------------------------------------
(***************************************************************************)
(* Every step preserves the invariant.                                     *)
(***************************************************************************)

(* A write stays under way as long as a step touches neither its actor nor its
   command, whatever is appended to the store meanwhile. *)
LEMMA PendingStays ==
    ASSUME TypeOK, NEW m \in Nodes, NEW v \in writing[m], Pending(m, v),
           alive'[m] = alive[m], failed'[m] = failed[m], writing'[m] = writing[m],
           currentState'[m] = currentState[m], currentVersion'[m] = currentVersion[m],
           declared'[v.cmd] = declared[v.cmd], reply'[v.cmd] = reply[v.cmd],
           records' = records \/ (Len(records') \in Nat /\ Len(records) <= Len(records'))
    PROVE  Pending(m, v)'
<1>1. v.seen \in Nat /\ Len(records) \in Nat
  BY WritingTypes DEF TypeOK
<1>2. v.seen <= Len(records)
  BY Zenon DEF Pending
<1>3. v.seen <= Len(records')
  BY <1>1, <1>2
<1> QED
  BY <1>3, Zenon DEF Pending

LEMMA InitInv == Init => IInv
<1> SUFFICES ASSUME Init PROVE IInv
  BY Zenon
<1>1. /\ \A i \in DOMAIN records : records[i] = Record(0, InitialState) /\ legacy
      /\ StoredState = InitialState /\ StoredVersion = 0
  <2>1. CASE legacy
    BY <2>1 DEF Init, StoredState, StoredVersion, Stored, Record
  <2>2. CASE ~legacy
    BY <2>2 DEF Init, StoredState, StoredVersion
  <2> QED
    BY <2>1, <2>2, Zenon
<1>2. TurnInv
  BY Zenon DEF Init, TurnInv, WriteInv, Pending, FailedInv, OneTurnInv, GoneInv
<1>3. \A id \in Commands \cup Reads : reply[id] = Unsent /\ reply[id].kind = "unsent"
  BY Zenon DEF Init, Unsent
<1>4. SeenInv
  BY <1>3, Zenon DEF Init, SeenInv, WasStored
<1>5. AbsentInv
  <2>1. \A c : Absent(c)
    BY <1>1, InitialIncludesNone DEF Absent, Record
  <2> QED
    BY <2>1, Zenon DEF Init, AbsentInv
<1>6. SoleInv /\ SyncInv /\ RevisionInv
  <2>1. Len(InitialState) = 0
    BY Zenon DEF InitialState
  <2> QED
    BY <1>1, <1>3, <2>1, Zenon DEF Init, SoleInv, SyncInv, RevisionInv
<1> QED
  BY <1>2, <1>4, <1>5, <1>6, InitType, Zenon DEF IInv

LEMMA SpawnInv ==
    ASSUME IInv, NEW n \in Nodes, Spawn(n)
    PROVE  TurnInv' /\ SeenInv' /\ AbsentInv' /\ SoleInv' /\ SyncInv' /\ RevisionInv'
<1>1. TypeOK /\ TurnInv /\ SeenInv /\ AbsentInv /\ SoleInv /\ SyncInv /\ RevisionInv
  BY Zenon DEF IInv
<1>2. /\ UNCHANGED <<tenantAware, legacy, overlapping, faulty, records, published, cachedStateAny,
                     writing, failed, reply, declared>>
      /\ ~alive[n] /\ alive'[n] /\ \A m \in Nodes \ {n} : alive'[m] = alive[m]
      /\ overlapping \/ \A m \in Nodes : ~alive[m]
      /\ RecoverFromStore(n)
  BY <1>1, Zenon DEF Spawn, TypeOK, deployment
<1>3. /\ WasStored(currentState'[n])
      /\ (StoredVersion = 0 => StoredState = InitialState) =>
            /\ currentState'[n] = StoredState
            /\ currentVersion'[n] = StoredVersion
      /\ \A m \in Nodes \ {n} :
            currentState'[m] = currentState[m] /\ currentVersion'[m] = currentVersion[m]
  BY <1>1, <1>2, RecoverEffect DEF TurnInv, GoneInv
<1>4. writing[n] = {} /\ failed[n] = {} /\ cachedStateAny[n] = {}
  BY <1>1, <1>2 DEF TurnInv, WriteInv, Pending, FailedInv, GoneInv
<1>5. TurnInv'
  <2>10. WriteInv'
    <3>1. ASSUME NEW m \in Nodes, NEW v \in writing'[m] PROVE Pending(m, v)'
      <4>1. v \in writing[m] /\ writing'[m] = writing[m] /\ v.cmd \in Commands
        BY <1>1, <1>2, <1>3, <3>1, WritingTypes, Zenon
      <4>2. Pending(m, v)
        BY <1>1, <4>1, Zenon DEF TurnInv, WriteInv
      <4> QED
        BY <1>1, <1>2, <1>3, <1>4, <4>1, <4>2, PendingStays, Zenon
    <3> QED
      BY <3>1, Zenon DEF WriteInv
  <2>11. FailedInv'
    BY <1>1, <1>2, Zenon DEF TurnInv, FailedInv
  <2>12. OneTurnInv'
    BY <1>1, <1>2, ZenonT(40) DEF TurnInv, OneTurnInv
  <2>13. GoneInv'
    BY <1>1, <1>2, <1>3, Zenon DEF TurnInv, GoneInv
  <2> QED
    BY <2>10, <2>11, <2>12, <2>13, Zenon DEF TurnInv
<1>6. SeenInv'
  BY <1>1, <1>2, <1>3 DEF SeenInv, WasStored
<1>7. AbsentInv'
  BY <1>1, <1>2, Zenon DEF AbsentInv, Absent
<1>8. StoredState' = StoredState /\ StoredVersion' = StoredVersion /\ StoredVersion \in Nat
  BY <1>1, <1>2, SameStore, StoredTypes, Zenon DEF TypeOK
<1>9. SoleInv'
  BY <1>1, <1>2, <1>3, <1>4, <1>8 DEF SoleInv
<1>10. SyncInv'
  BY <1>1, <1>2, <1>3, <1>4, <1>8, Zenon DEF SoleInv, SyncInv
<1>11. RevisionInv'
  BY <1>1, <1>2, Zenon DEF RevisionInv
<1> QED
  BY <1>5, <1>6, <1>7, <1>9, <1>10, <1>11, Zenon

LEMMA GetStateAndReplyInv ==
    ASSUME IInv, NEW n \in Nodes, NEW r \in Reads, GetStateAndReply(n, r)
    PROVE  TurnInv' /\ SeenInv' /\ AbsentInv' /\ SoleInv' /\ SyncInv' /\ RevisionInv'
<1> DEFINE state == CurrentStateAny(n)
<1>1. TypeOK /\ TurnInv /\ SeenInv /\ AbsentInv /\ SoleInv /\ SyncInv /\ RevisionInv
  BY Zenon DEF IInv
<1>2. /\ UNCHANGED <<tenantAware, legacy, overlapping, faulty, records, published, alive,
                     currentState, currentVersion, writing, failed, declared>>
      /\ alive[n]
      /\ cachedStateAny'[n] = {state}
      /\ \A m \in Nodes \ {n} : cachedStateAny'[m] = cachedStateAny[m]
      /\ reply'[r] = StateReply(state, currentVersion[n])
      /\ \A id \in (Commands \cup Reads) \ {r} : reply'[id] = reply[id]
  BY <1>1, Zenon DEF GetStateAndReply, Idle, Answer, TypeOK, deployment
<1>3. state = currentState[n] \/ state \in cachedStateAny[n]
  BY CachedOrCurrent, Zenon
<1>4. \A c \in Commands : reply'[c] = reply[c]
  BY <1>2, DurableAssumption, Zenon
<1>5. StateReply(state, currentVersion[n]).state = state
  BY Zenon DEF StateReply
<1> HIDE DEF state
<1>6. TurnInv'
  <2>10. WriteInv'
    <3>1. ASSUME NEW m \in Nodes, NEW v \in writing'[m] PROVE Pending(m, v)'
      <4>1. v \in writing[m] /\ writing'[m] = writing[m] /\ v.cmd \in Commands
        BY <1>1, <1>2, <1>3, <3>1, WritingTypes, Zenon
      <4>2. Pending(m, v)
        BY <1>1, <4>1, Zenon DEF TurnInv, WriteInv
      <4> QED
        BY <1>1, <1>2, <1>4, WritingTypes, <4>1, <4>2, PendingStays, Zenon
    <3> QED
      BY <3>1, Zenon DEF WriteInv
  <2>11. FailedInv'
    BY <1>1, <1>2, <1>4, FailedTypes, Zenon DEF TurnInv, FailedInv
  <2>12. OneTurnInv'
    BY <1>1, <1>2 DEF TurnInv, OneTurnInv
  <2>13. GoneInv'
    BY <1>1, <1>2, Zenon DEF TurnInv, GoneInv
  <2> QED
    BY <2>10, <2>11, <2>12, <2>13, Zenon DEF TurnInv
<1>7. SeenInv'
  BY <1>1, <1>2, <1>3, <1>5 DEF SeenInv, WasStored
<1>8. AbsentInv'
  BY <1>1, <1>2, <1>4, Zenon DEF AbsentInv, Absent
<1>9. StoredState' = StoredState /\ StoredVersion' = StoredVersion
  BY <1>2, SameStore, Zenon
<1>10. SoleInv'
  BY <1>1, <1>2, <1>3, <1>4, <1>9 DEF SoleInv
<1>11. SyncInv'
  BY <1>1, <1>2, <1>3, <1>9 DEF SyncInv
<1>12. RevisionInv'
  BY <1>1, <1>2, <1>4, Zenon DEF RevisionInv
<1> QED
  BY <1>6, <1>7, <1>8, <1>10, <1>11, <1>12, Zenon

LEMMA RejectCommandInv ==
    ASSUME IInv, NEW n \in Nodes, NEW c \in Commands, RejectCommand(n, c)
    PROVE  TurnInv' /\ SeenInv' /\ AbsentInv' /\ SoleInv' /\ SyncInv' /\ RevisionInv'
<1>1. TypeOK /\ TurnInv /\ SeenInv /\ AbsentInv /\ SoleInv /\ SyncInv /\ RevisionInv
  BY Zenon DEF IInv
<1>2. /\ UNCHANGED <<tenantAware, legacy, overlapping, faulty, records, published, alive,
                     currentState, currentVersion, cachedStateAny, writing, failed, declared>>
      /\ reply[c] = Unsent
      /\ reply'[c] = ErrorReply(Failed)
      /\ \A id \in (Commands \cup Reads) \ {c} : reply'[id] = reply[id]
  BY <1>1, Zenon DEF RejectCommand, Answer, TypeOK, deployment, memory
<1>3. ErrorReply(Failed).kind = "error" /\ Unsent.kind = "unsent" /\ Waiting.kind = "waiting"
  BY Zenon DEF ErrorReply, Failed, Unsent, Waiting
<1>4. \A m \in Nodes : \A w \in writing[m] : w.cmd \in Commands /\ w.cmd # c
  BY <1>1, <1>2, <1>3, WritingTypes DEF TurnInv, WriteInv, Pending
<1>5. \A m \in Nodes : \A f \in failed[m] : f.cmd \in Commands /\ f.cmd # c
  BY <1>1, <1>2, FailedTypes DEF TurnInv, FailedInv
<1>6. TurnInv'
  <2>10. WriteInv'
    <3>1. ASSUME NEW m \in Nodes, NEW v \in writing'[m] PROVE Pending(m, v)'
      <4>1. v \in writing[m] /\ writing'[m] = writing[m] /\ v.cmd \in Commands
        BY <1>1, <1>2, <1>3, <3>1, WritingTypes, Zenon
      <4>2. Pending(m, v)
        BY <1>1, <4>1, Zenon DEF TurnInv, WriteInv
      <4> QED
        BY <1>1, <1>2, <1>4, <4>1, <4>2, PendingStays, Zenon
    <3> QED
      BY <3>1, Zenon DEF WriteInv
  <2>11. FailedInv'
    BY <1>1, <1>2, <1>5, Zenon DEF TurnInv, FailedInv
  <2>12. OneTurnInv'
    BY <1>1, <1>2 DEF TurnInv, OneTurnInv
  <2>13. GoneInv'
    BY <1>1, <1>2, Zenon DEF TurnInv, GoneInv
  <2> QED
    BY <2>10, <2>11, <2>12, <2>13, Zenon DEF TurnInv
<1>7. SeenInv'
  BY <1>1, <1>2, <1>3 DEF SeenInv, WasStored
<1>8. AbsentInv'
  BY <1>1, <1>2, <1>3, Zenon DEF AbsentInv, Absent
<1>9. StoredState' = StoredState /\ StoredVersion' = StoredVersion
  BY <1>2, SameStore, Zenon
<1>10. SoleInv'
  BY <1>1, <1>2, <1>3, <1>9 DEF SoleInv
<1>11. SyncInv'
  BY <1>1, <1>2, <1>9, Zenon DEF SyncInv
<1>12. RevisionInv'
  BY <1>1, <1>2, <1>3, Zenon DEF RevisionInv
<1> QED
  BY <1>6, <1>7, <1>8, <1>10, <1>11, <1>12, Zenon

LEMMA ProcessCommandInv ==
    ASSUME IInv, NEW n \in Nodes, NEW c \in Commands, NEW rev \in Declarable,
           ProcessCommand(n, c, rev)
    PROVE  TurnInv' /\ SeenInv' /\ AbsentInv' /\ SoleInv' /\ SyncInv' /\ RevisionInv'
<1> DEFINE write == [cmd |-> c,
                     record |-> Record(currentVersion[n] + 1, Append(currentState[n], c)),
                     pre |-> rev,
                     seen |-> Len(records)]
<1>1. TypeOK /\ TurnInv /\ SeenInv /\ AbsentInv /\ SoleInv /\ SyncInv /\ RevisionInv
  BY Zenon DEF IInv
<1>2. /\ UNCHANGED <<tenantAware, legacy, overlapping, faulty, records, published, alive,
                     currentState, currentVersion, cachedStateAny, failed>>
      /\ alive[n] /\ writing[n] = {} /\ failed[n] = {}
      /\ writing'[n] = {write}
      /\ \A m \in Nodes \ {n} : writing'[m] = writing[m]
      /\ reply[c] = Unsent
      /\ reply'[c] = Waiting
      /\ \A id \in (Commands \cup Reads) \ {c} : reply'[id] = reply[id]
      /\ declared'[c] = rev
      /\ \A d \in Commands \ {c} : declared'[d] = declared[d]
  BY <1>1, Zenon DEF ProcessCommand, Idle, Answer, TypeOK, deployment, memory
<1>3. Unsent.kind = "unsent" /\ Waiting.kind = "waiting" /\ Waiting # Unsent
  BY Zenon DEF Unsent, Waiting
<1>4. \A m \in Nodes : \A w \in writing[m] : w.cmd \in Commands /\ w.cmd # c
  BY <1>1, <1>2, <1>3, WritingTypes DEF TurnInv, WriteInv, Pending
<1>5. \A m \in Nodes : \A f \in failed[m] : f.cmd \in Commands /\ f.cmd # c
  BY <1>1, <1>2, FailedTypes DEF TurnInv, FailedInv
<1>6. /\ write.cmd = c /\ write.pre = rev /\ write.seen = Len(records)
      /\ write.record = Record(currentVersion[n] + 1, Append(currentState[n], c))
  BY Zenon
<1>7. Len(records) <= Len(records)
  BY <1>1 DEF TypeOK
<1> HIDE DEF write
<1>8. TurnInv'
  <2>1. ASSUME NEW m \in Nodes, NEW w \in writing'[m]
        PROVE  /\ alive'[m] /\ failed'[m] = {} /\ writing'[m] = {w}
               /\ w.record = Record(currentVersion'[m] + 1, Append(currentState'[m], w.cmd))
               /\ w.pre = declared'[w.cmd]
               /\ w.seen <= Len(records')
               /\ reply'[w.cmd] = Waiting
    <3>1. CASE m = n
      BY <1>2, <1>6, <1>7, <2>1, <3>1
    <3>2. CASE m # n
      BY <1>1, <1>2, <1>4, <2>1, <3>2, SMTT(30) DEF TurnInv, WriteInv, Pending
    <3> QED
      BY <3>1, <3>2, ZenonT(40)
  <2>2. \A m \in Nodes : \A f \in failed'[m] : alive'[m] /\ reply'[f.cmd] # Unsent
    BY <1>1, <1>2, <1>5 DEF TurnInv, FailedInv
  <2>3. \A k, m \in Nodes : \A w \in writing'[k], v \in writing'[m] : w.cmd = v.cmd => k = m
    BY <1>1, <1>2, <1>4, <1>6 DEF TurnInv, OneTurnInv
  <2>4. \A k, m \in Nodes : \A w \in writing'[k], f \in failed'[m] : w.cmd # f.cmd
    BY <1>1, <1>2, <1>5, <1>6 DEF TurnInv, OneTurnInv
  <2>5. \A m \in Nodes : ~alive'[m] =>
           currentState'[m] = InitialState /\ currentVersion'[m] = 0 /\ cachedStateAny'[m] = {}
    BY <1>1, <1>2, Zenon DEF TurnInv, GoneInv
  <2> QED
    BY <2>1, <2>2, <2>3, <2>4, <2>5, Zenon DEF TurnInv, WriteInv, Pending, FailedInv, OneTurnInv, GoneInv
<1>9. SeenInv'
  BY <1>1, <1>2, <1>3, SMTT(30) DEF SeenInv, WasStored
<1>10. AbsentInv'
  BY <1>1, <1>2, <1>3, <1>6, SMTT(30) DEF AbsentInv, Absent
<1>11. StoredState' = StoredState /\ StoredVersion' = StoredVersion
  BY <1>2, SameStore, Zenon
<1>12. SoleInv'
  BY <1>1, <1>2, <1>3, <1>6, <1>11 DEF SoleInv
<1>13. SyncInv'
  BY <1>1, <1>2, <1>11, ZenonT(40) DEF SyncInv
<1>14. RevisionInv'
  BY <1>1, <1>2, <1>3, <1>5 DEF RevisionInv
<1> QED
  BY <1>8, <1>9, <1>10, <1>12, <1>13, <1>14, Zenon

-----------------------------------------------------------------------------
(***************************************************************************)
(* The write of a turn, its failure and its recovery.                      *)
(***************************************************************************)

(* The write of a turn reaches the store: the state it was made from, and the
   command, are in the record that is now held. *)
LEMMA WriteStored ==
    ASSUME IInv, NEW n \in Nodes, NEW w \in writing[n], Store(w.record)
    PROVE  /\ \A s : WasStored(s) => WasStored(s)'
           /\ \A c : Absent(c) /\ c # w.cmd => Absent(c)'
           /\ Len(records) \in Nat
           /\ Len(records') = Len(records) + 1
           /\ StoredState' = w.record.state /\ StoredVersion' = w.record.version
           /\ w.record.version = currentVersion[n] + 1 /\ currentVersion[n] \in Nat
           /\ Len(w.record.state) = Len(currentState[n]) + 1 /\ Len(currentState[n]) \in Nat
           /\ WasStored(w.record.state)'
           /\ Includes(w.record.state, w.cmd)
           /\ \A c : Includes(currentState[n], c) => Includes(w.record.state, c)
           /\ \E i \in DOMAIN records' : records'[i] = w.record
           /\ \A i \in DOMAIN records : i \in DOMAIN records' /\ records'[i] = records[i]
           /\ \A i \in DOMAIN records' :
                 records'[i] = w.record \/ (i \in DOMAIN records /\ records'[i] = records[i])
<1>1. TypeOK /\ TurnInv /\ SeenInv /\ AbsentInv /\ records \in Seq(Records)
  BY Zenon DEF IInv, TypeOK
<1>2. w.record \in Records /\ w.cmd \in Commands
  BY <1>1, WritingTypes, Zenon
<1>3. w.record.version = currentVersion[n] + 1 /\ w.record.state = Append(currentState[n], w.cmd)
  <2>1. w.record = Record(currentVersion[n] + 1, Append(currentState[n], w.cmd))
    BY <1>1, Zenon DEF TurnInv, WriteInv, Pending
  <2> QED
    BY <2>1 DEF Record
<1>4. currentState[n] \in States /\ currentVersion[n] \in Nat /\ WasStored(currentState[n])
  BY <1>1, Zenon DEF TypeOK, SeenInv
<1>5. /\ \A s : WasStored(s) => WasStored(s)'
      /\ WasStored(w.record.state)'
      /\ \A c : Absent(c) /\ ~Includes(w.record.state, c) => Absent(c)'
  BY <1>1, <1>2, StoreKeeps, Zenon
<1>6. /\ Len(w.record.state) = Len(currentState[n]) + 1
      /\ Includes(w.record.state, w.cmd)
      /\ \A c : Includes(currentState[n], c) => Includes(w.record.state, c)
      /\ \A c : Includes(w.record.state, c) => Includes(currentState[n], c) \/ c = w.cmd
  BY <1>2, <1>3, <1>4, IncludesAppend
<1>7. \A c : Absent(c) /\ c # w.cmd => Absent(c)'
  BY <1>4, <1>5, <1>6, StoredExcludes, Zenon
<1>8. /\ Len(records') = Len(records) + 1
      /\ \A i \in DOMAIN records : i \in DOMAIN records' /\ records'[i] = records[i]
      /\ \A i \in DOMAIN records' :
            records'[i] = w.record \/ (i \in DOMAIN records /\ records'[i] = records[i])
      /\ \E i \in DOMAIN records' : records'[i] = w.record
      /\ StoredState' = w.record.state
      /\ StoredVersion' = w.record.version
  BY <1>1, <1>2, StoreAppends, Zenon
<1>9. Len(records) \in Nat /\ Len(currentState[n]) \in Nat
  BY <1>1, <1>4 DEF States
<1> QED
  BY <1>3, <1>4, <1>5, <1>6, <1>7, <1>8, <1>9, Zenon

(* The write is stored, and the actor takes its state over and replies. *)
LEMMA CommittedInv ==
    ASSUME IInv, NEW n \in Nodes, NEW w \in writing[n],
           Store(w.record), Adopt(n, w.record),
           Answer(w.cmd, StateReply(w.record.state, w.record.version)),
           writing' = [writing EXCEPT ![n] = {}],
           published' = published \cup {w.record},
           UNCHANGED <<deployment, alive, failed, declared>>
    PROVE  TurnInv' /\ SeenInv' /\ AbsentInv' /\ SoleInv' /\ SyncInv' /\ RevisionInv'
<1>1. TypeOK /\ TurnInv /\ SeenInv /\ AbsentInv /\ SoleInv /\ SyncInv /\ RevisionInv
  BY Zenon DEF IInv
<1>2. /\ UNCHANGED <<tenantAware, legacy, overlapping, faulty, alive, failed, declared>>
      /\ writing'[n] = {} /\ \A m \in Nodes \ {n} : writing'[m] = writing[m]
      /\ currentState'[n] = w.record.state
      /\ currentVersion'[n] = w.record.version
      /\ cachedStateAny'[n] = {w.record.state}
      /\ \A m \in Nodes \ {n} :
            /\ currentState'[m] = currentState[m]
            /\ currentVersion'[m] = currentVersion[m]
            /\ cachedStateAny'[m] = cachedStateAny[m]
  BY <1>1, Zenon DEF Adopt, TypeOK, deployment
<1>3. w.cmd \in Commands /\ w.record.state \in States /\ w.record.version \in Nat
  BY <1>1, WritingTypes, Zenon
<1>4. /\ reply'[w.cmd].kind = "state" /\ reply'[w.cmd].state = w.record.state
      /\ \A id \in (Commands \cup Reads) \ {w.cmd} : reply'[id] = reply[id]
  BY <1>1, <1>3, Zenon DEF Answer, TypeOK, StateReply
<1>5. Unsent.kind = "unsent" /\ Waiting.kind = "waiting"
  BY Zenon DEF Unsent, Waiting
<1>6. alive[n] /\ failed[n] = {} /\ writing[n] = {w}
  BY <1>1, Zenon DEF TurnInv, WriteInv, Pending
<1>7. \A m \in Nodes : \A v \in writing'[m] : v \in writing[m] /\ v.cmd \in Commands /\ v.cmd # w.cmd
  BY <1>1, <1>2, WritingTypes, SMTT(30) DEF TurnInv, OneTurnInv
<1>8. \A m \in Nodes : \A f \in failed[m] : f.cmd \in Commands /\ f.cmd # w.cmd
  BY <1>1, FailedTypes DEF TurnInv, OneTurnInv
<1>9. TurnInv'
  <2>1. Len(records) \in Nat /\ Len(records') = Len(records) + 1
    BY WriteStored, Zenon
  <2>2. Len(records') \in Nat /\ Len(records) <= Len(records')
    BY <2>1
  <2>10. WriteInv'
    <3>1. ASSUME NEW m \in Nodes, NEW v \in writing'[m] PROVE Pending(m, v)'
      <4>1. v \in writing[m] /\ writing'[m] = writing[m] /\ v.cmd \in Commands
        BY <1>1, <1>2, <1>3, <3>1, WritingTypes, Zenon
      <4>2. Pending(m, v)
        BY <1>1, <4>1, Zenon DEF TurnInv, WriteInv
      <4> QED
        BY <1>1, <1>2, <1>4, <1>7, <2>2, <4>1, <4>2, PendingStays, ZenonT(40)
    <3> QED
      BY <3>1, Zenon DEF WriteInv
  <2>11. FailedInv'
    BY <1>1, <1>2, <1>4, <1>8, SMTT(30) DEF TurnInv, FailedInv
  <2>12. OneTurnInv'
    BY <1>1, <1>2, <1>7, SMTT(30) DEF TurnInv, OneTurnInv
  <2>13. GoneInv'
    BY <1>1, <1>2, <1>6 DEF TurnInv, GoneInv
  <2> QED
    BY <2>10, <2>11, <2>12, <2>13, Zenon DEF TurnInv
<1>10. SeenInv'
  <2>1. /\ \A s : WasStored(s) => WasStored(s)'
        /\ WasStored(w.record.state)'
        /\ \A i \in DOMAIN records : i \in DOMAIN records' /\ records'[i] = records[i]
        /\ \E i \in DOMAIN records' : records'[i] = w.record
    BY WriteStored, ZenonT(40)
  <2>2. \A m \in Nodes : WasStored(currentState[m])'
    BY <1>1, <1>2, <2>1, Zenon DEF SeenInv
  <2>3. \A m \in Nodes : \A s \in cachedStateAny'[m] : WasStored(s)'
    BY <1>1, <1>2, <2>1 DEF SeenInv
  <2>4. \A id \in Commands \cup Reads : reply'[id].kind = "state" => WasStored(reply[id].state)'
    BY <1>1, <1>4, <2>1, Zenon DEF SeenInv
  <2>5. \A r \in published' : \E i \in DOMAIN records' : records'[i] = r
    BY <1>1, <2>1, ZenonT(40) DEF SeenInv
  <2> QED
    BY <2>2, <2>3, <2>4, <2>5, Zenon DEF SeenInv
<1>11. AbsentInv'
  <2>1. \A c : Absent(c) /\ c # w.cmd => Absent(c)'
    BY WriteStored, ZenonT(40)
  <2> QED
    BY <1>1, <1>2, <1>4, <1>5, <1>7, <1>8, <2>1, ZenonT(40) DEF AbsentInv
<1>12. /\ StoredState' = w.record.state /\ StoredVersion' = w.record.version
       /\ w.record.version = currentVersion[n] + 1 /\ currentVersion[n] \in Nat
       /\ Len(w.record.state) = Len(currentState[n]) + 1
       /\ Includes(w.record.state, w.cmd)
       /\ \A c : Includes(currentState[n], c) => Includes(w.record.state, c)
  BY WriteStored, Zenon
<1>13. SoleInv'
  <2>1. SUFFICES ASSUME ~overlapping PROVE SoleInv'
    BY <1>2, Zenon DEF SoleInv
  <2>2. \A m \in Nodes : alive[m] => m = n
    BY <1>1, <1>6, <2>1, Zenon DEF SoleInv
  <2>3. \A m \in Nodes : writing'[m] = {}
    BY <1>1, <1>2, <2>2, SMTT(30) DEF TurnInv, WriteInv, Pending
  <2>4. /\ StoredVersion' # 0 /\ currentVersion'[n] # 0
        /\ currentVersion'[n] <= StoredVersion'
    BY <1>2, <1>3, <1>12
  <2>5. ASSUME NEW c \in Commands, reply'[c].kind = "state"
        PROVE  Includes(w.record.state, c)
    BY <1>1, <1>4, <1>6, <1>12, <2>1, <2>5, ZenonT(40) DEF SoleInv
  <2>6. \A k, m \in Nodes : alive'[k] /\ alive'[m] => k = m
    BY <1>2, <2>2, ZenonT(40)
  <2>7. \A m \in Nodes : alive'[m] => currentVersion'[m] <= StoredVersion' /\ currentVersion'[m] # 0
    BY <1>2, <2>2, <2>4, Zenon
  <2>8. \A c \in Commands : reply'[c].kind = "state" =>
           /\ Includes(StoredState', c)
           /\ \A m \in Nodes : alive'[m] =>
                 /\ Includes(currentState'[m], c)
                 /\ \A s \in cachedStateAny'[m] : Includes(s, c)
    <3> SUFFICES ASSUME NEW c \in Commands, reply'[c].kind = "state"
                 PROVE  /\ Includes(StoredState', c)
                        /\ \A m \in Nodes : alive'[m] =>
                              /\ Includes(currentState'[m], c)
                              /\ \A s \in cachedStateAny'[m] : Includes(s, c)
      BY Zenon
    <3>1. Includes(w.record.state, c)
      BY <2>5, Zenon
    <3>2. Includes(StoredState', c)
      BY <1>12, <3>1, Zenon
    <3>3. ASSUME NEW m \in Nodes, alive'[m]
          PROVE  Includes(currentState'[m], c) /\ \A s \in cachedStateAny'[m] : Includes(s, c)
      <4>1. m = n
        BY <1>2, <1>6, <2>6, <3>3, Zenon
      <4>2. currentState'[m] = w.record.state /\ cachedStateAny'[m] = {w.record.state}
        BY <1>2, <4>1, Zenon
      <4> QED
        BY <3>1, <4>2, Zenon
    <3> QED
      BY <3>2, <3>3, Zenon
  <2> QED
    BY <2>3, <2>4, <2>6, <2>7, <2>8 DEF SoleInv
<1>14. SyncInv'
  BY <1>1, <1>2, <1>6, <1>12, SMTT(30) DEF SoleInv, SyncInv
<1>15. RevisionInv'
  <2>1. \A i \in DOMAIN records' :
            records'[i] = w.record \/ (i \in DOMAIN records /\ records'[i] = records[i])
    BY WriteStored, Zenon
  <2> QED
    BY <1>1, <1>2, <1>4, <1>12, <2>1 DEF RevisionInv
<1> QED
  BY <1>9, <1>10, <1>11, <1>13, <1>14, <1>15, Zenon

(* The write is refused, or the store fails and may have written nevertheless:
   memory stays and a recovery is due. *)
LEMMA RefusedInv ==
    ASSUME IInv, NEW n \in Nodes, NEW w \in writing[n],
           NEW outcome \in {Failed} \cup [kind : {"conflict"}, actual : Preconditions],
           Refused(n, w, outcome),
           writing' = [writing EXCEPT ![n] = {}],
           UNCHANGED <<deployment, declared>>,
           UNCHANGED records \/ (Store(w.record) /\ faulty /\ outcome = Failed),
           (tenantAware /\ ~legacy /\ ~overlapping /\ ~faulty /\ outcome.kind = "conflict") =>
               ErrorReply(outcome).version # declared[w.cmd]
    PROVE  TurnInv' /\ SeenInv' /\ AbsentInv' /\ SoleInv' /\ SyncInv' /\ RevisionInv'
<1> DEFINE failure == [cmd |-> w.cmd, outcome |-> outcome]
<1>1. TypeOK /\ TurnInv /\ SeenInv /\ AbsentInv /\ SoleInv /\ SyncInv /\ RevisionInv
  BY Zenon DEF IInv
<1>2. /\ UNCHANGED <<tenantAware, legacy, overlapping, faulty, alive, currentState, currentVersion,
                     cachedStateAny, published, reply, declared>>
      /\ writing'[n] = {} /\ \A m \in Nodes \ {n} : writing'[m] = writing[m]
      /\ failed'[n] = {failure} /\ \A m \in Nodes \ {n} : failed'[m] = failed[m]
  BY <1>1, Zenon DEF Refused, Fail, TypeOK, deployment, memory
<1>3. failure.cmd = w.cmd /\ failure.outcome = outcome
  BY Zenon
<1> HIDE DEF failure
<1>4. Waiting # Unsent /\ Failed.kind = "error"
  BY Zenon DEF Unsent, Waiting, Failed
<1>5. alive[n] /\ reply[w.cmd] = Waiting /\ w.cmd \in Commands
  BY <1>1, WritingTypes, ZenonT(40) DEF TurnInv, WriteInv, Pending
<1>6. \A m \in Nodes : \A v \in writing'[m] : v \in writing[m] /\ v.cmd # w.cmd
  BY <1>1, <1>2 DEF TurnInv, OneTurnInv
<1>7. /\ \A s : WasStored(s) => WasStored(s)'
      /\ \A c : Absent(c) /\ c # w.cmd => Absent(c)'
      /\ outcome.kind = "conflict" /\ Absent(w.cmd) => Absent(w.cmd)'
      /\ Len(records) \in Nat /\ Len(records') \in Nat /\ Len(records) <= Len(records')
      /\ \A i \in DOMAIN records : i \in DOMAIN records' /\ records'[i] = records[i]
      /\ \A i \in DOMAIN records' :
            \/ records'[i].version = currentVersion[n] + 1
            \/ i \in DOMAIN records /\ records'[i] = records[i]
      /\ currentVersion[n] \in Nat
  <2>1. CASE UNCHANGED records
    BY <1>1, <2>1, SameStore, SMTT(30) DEF TypeOK
  <2>2. CASE Store(w.record) /\ outcome = Failed
    BY <1>4, <2>2, WriteStored
  <2> QED
    BY <2>1, <2>2, ZenonT(40)
<1>8. TurnInv'
  <2>2. \A k \in Nodes : \A v \in writing'[k] : k # n
    BY <1>2, ZenonT(40)
  <2>3. \A k, m \in Nodes : \A v \in writing'[k], f \in failed'[m] : v.cmd # f.cmd
    BY <1>1, <1>2, <1>3, <1>6, SMTT(30) DEF TurnInv, OneTurnInv
  <2>4. \A m \in Nodes : \A f \in failed'[m] : alive'[m] /\ reply'[f.cmd] # Unsent
    BY <1>1, <1>2, <1>3, <1>4, <1>5, ZenonT(40) DEF TurnInv, FailedInv
  <2>10. WriteInv'
    <3>1. ASSUME NEW m \in Nodes, NEW v \in writing'[m] PROVE Pending(m, v)'
      <4>1. v \in writing[m] /\ writing'[m] = writing[m] /\ v.cmd \in Commands
        BY <1>1, <1>2, <1>3, <3>1, WritingTypes, Zenon
      <4>2. Pending(m, v)
        BY <1>1, <4>1, Zenon DEF TurnInv, WriteInv
      <4> QED
        BY <1>1, <1>2, <1>7, <2>2, <3>1, <4>1, <4>2, PendingStays, Zenon
    <3> QED
      BY <3>1, Zenon DEF WriteInv
  <2>11. FailedInv'
    BY <2>4, Zenon DEF TurnInv, FailedInv
  <2>12. OneTurnInv'
    <3>1. \A k, m \in Nodes : \A u \in writing[k], v \in writing[m] : u.cmd = v.cmd => k = m
      BY <1>1, Zenon DEF TurnInv, OneTurnInv
    <3>2. ASSUME NEW k \in Nodes, NEW m \in Nodes, NEW u \in writing'[k], NEW v \in writing'[m],
                 u.cmd = v.cmd
          PROVE  k = m
      BY <1>6, <3>1, <3>2, Zenon
    <3> QED
      BY <2>3, <3>2, Zenon DEF OneTurnInv
  <2>13. GoneInv'
    BY <1>1, <1>2, Zenon DEF TurnInv, GoneInv
  <2> QED
    BY <2>10, <2>11, <2>12, <2>13, Zenon DEF TurnInv
<1>9. SeenInv'
  <2>1. \A m \in Nodes : WasStored(currentState[m])'
    BY <1>1, <1>2, <1>7, Zenon DEF SeenInv
  <2>2. \A m \in Nodes : \A s \in cachedStateAny'[m] : WasStored(s)'
    BY <1>1, <1>2, <1>7, Zenon DEF SeenInv
  <2>3. \A id \in Commands \cup Reads : reply'[id].kind = "state" => WasStored(reply[id].state)'
    BY <1>1, <1>2, <1>7, Zenon DEF SeenInv
  <2>4. \A r \in published' : \E i \in DOMAIN records' : records'[i] = r
    BY <1>1, <1>2, <1>7, Zenon DEF SeenInv
  <2> QED
    BY <2>1, <2>2, <2>3, <2>4, Zenon DEF SeenInv
<1>10. AbsentInv'
  <2>1. \A c \in Commands : reply'[c] = Unsent => Absent(c)'
    BY <1>1, <1>2, <1>4, <1>5, <1>7, Zenon DEF AbsentInv
  <2>2. \A c \in Commands : reply'[c].kind = "conflict" => Absent(c)'
    <3>1. Waiting.kind # "conflict"
      BY Zenon DEF Waiting, Unsent
    <3> QED
      BY <1>1, <1>2, <1>5, <1>7, <3>1, Zenon DEF AbsentInv
  <2>3. \A m \in Nodes : \A v \in writing'[m] : Absent(v.cmd)'
    BY <1>1, <1>6, <1>7, Zenon DEF AbsentInv
  <2>4. \A m \in Nodes : \A f \in failed'[m] : f.outcome.kind = "conflict" => Absent(f.cmd)'
    <3>1. \A m \in Nodes : \A f \in failed[m] : f.cmd # w.cmd
      BY <1>1 DEF TurnInv, OneTurnInv
    <3> QED
      BY <1>1, <1>2, <1>3, <1>7, <3>1, SMTT(30) DEF AbsentInv
  <2> QED
    BY <2>1, <2>2, <2>3, <2>4, Zenon DEF AbsentInv
<1>11. SoleInv'
  <2>1. SUFFICES ASSUME ~overlapping PROVE SoleInv'
    BY <1>2, Zenon DEF SoleInv
  <2>2. \A m \in Nodes : writing'[m] = {}
    BY <1>1, <1>2, <1>5, <2>1 DEF SoleInv, TurnInv, WriteInv, Pending
  <2>3. CASE UNCHANGED records
    <3>1. StoredState' = StoredState /\ StoredVersion' = StoredVersion
      BY <2>3, SameStore, ZenonT(40)
    <3> QED
      BY <1>1, <1>2, <2>1, <2>2, <3>1, Zenon DEF SoleInv
  <2>4. CASE Store(w.record)
    <3>1. /\ StoredState' = w.record.state /\ StoredVersion' = currentVersion[n] + 1
          /\ \A c : Includes(currentState[n], c) => Includes(w.record.state, c)
      BY <2>4, WriteStored, Zenon
    <3>2. \A m \in Nodes : alive[m] => m = n
      BY <1>1, <1>5, <2>1, Zenon DEF SoleInv
    <3> QED
      BY <1>1, <1>2, <1>5, <1>7, <2>1, <2>2, <3>1, <3>2 DEF SoleInv
  <2> QED
    BY <2>3, <2>4, Zenon
<1>12. SyncInv'
  <2>1. UNCHANGED records => StoredState' = StoredState /\ StoredVersion' = StoredVersion
    BY SameStore, ZenonT(40)
  <2> QED
    BY <1>1, <1>2, <2>1, Zenon DEF SyncInv
<1>13. RevisionInv'
  <2>1. currentVersion[n] + 1 > 0
    BY <1>7
  <2>2. (tenantAware /\ ~legacy) => \A i \in DOMAIN records' : records'[i].version > 0
    BY <1>1, <1>7, <2>1, Zenon DEF RevisionInv
  <2> QED
    BY <1>1, <1>2, <1>3, <2>2, SMTT(30) DEF RevisionInv
<1> QED
  BY <1>8, <1>9, <1>10, <1>11, <1>12, <1>13, Zenon

LEMMA CommitStateInv ==
    ASSUME IInv, NEW n \in Nodes, CommitState(n)
    PROVE  TurnInv' /\ SeenInv' /\ AbsentInv' /\ SoleInv' /\ SyncInv' /\ RevisionInv'
<1>1. TypeOK /\ TurnInv /\ SoleInv /\ RevisionInv /\ records \in Seq(Records)
  BY Zenon DEF IInv, TypeOK
<1>2. PICK w \in writing[n] :
         /\ writing' = [writing EXCEPT ![n] = {}]
         /\ WriteState(w) = Committed =>
               /\ Store(w.record)
               /\ Adopt(n, w.record)
               /\ published' = published \cup {w.record}
               /\ Answer(w.cmd, StateReply(w.record.state, w.record.version))
               /\ UNCHANGED <<alive, failed>>
         /\ WriteState(w) # Committed => Refused(n, w, WriteState(w)) /\ UNCHANGED records
         /\ UNCHANGED <<deployment, declared>>
  BY Zenon DEF CommitState
<1>3. CASE WriteState(w) = Committed
  BY <1>2, <1>3, CommittedInv, Zenon
<1>4. CASE WriteState(w) # Committed
  <2>1. w \in Writes /\ w.pre \in Preconditions /\ w.seen \in Nat /\ w.seen <= Len(records)
          /\ w.pre = declared[w.cmd] /\ (~overlapping => w.seen = Len(records))
    BY <1>1, WritingTypes, Zenon DEF TurnInv, WriteInv, Pending, SoleInv
  <2>2. ~Admitted(w) /\ WriteState(w) = Conflict(Met(w)) /\ Met(w) \in Preconditions
    BY <1>1, <1>4, <2>1, WriteStateOutcome, Zenon
  <2>3. WriteState(w) \in {Failed} \cup [kind : {"conflict"}, actual : Preconditions]
    BY <2>2 DEF Conflict
  <2>4. ASSUME tenantAware, ~legacy, ~overlapping
        PROVE  ErrorReply(WriteState(w)).version # declared[w.cmd]
    <3>1. ErrorReply(WriteState(w)).version = IF Met(w) = NoRevision THEN 0 ELSE Met(w)
      BY <2>2 DEF Conflict, ErrorReply, Unsent
    <3>2. w.seen > 0 => VersionAt(w.seen) \in Nat /\ VersionAt(w.seen) > 0
      <4>1. w.seen > 0 => w.seen \in DOMAIN records /\ records[w.seen] \in Records
        BY <1>1, <2>1
      <4> QED
        BY <1>1, <2>4, <4>1, Zenon DEF RevisionInv, VersionAt, Records
    <3>3. w.seen = 0 <=> records = << >>
      BY <1>1, <2>1, <2>4
    <3>4. w.pre # NoRevision /\ NoRevision \notin Nat
      BY <2>2, DurableAssumption, Zenon DEF Admitted
    <3>5. CASE w.pre = 0
      BY <2>1, <2>2, <3>1, <3>2, <3>3, <3>4, <3>5 DEF Admitted, Met
    <3>6. CASE w.pre # 0
      BY <2>1, <2>2, <2>4, <3>1, <3>2, <3>3, <3>4, <3>6, Zenon DEF Admitted, Met, Preconditions
    <3> QED
      BY <3>5, <3>6, Zenon
  <2> QED
    BY <1>2, <1>4, <2>3, <2>4, RefusedInv, Zenon
<1> QED
  BY <1>3, <1>4, Zenon

LEMMA StoreFaultInv ==
    ASSUME IInv, NEW n \in Nodes, StoreFault(n)
    PROVE  TurnInv' /\ SeenInv' /\ AbsentInv' /\ SoleInv' /\ SyncInv' /\ RevisionInv'
<1>1. PICK w \in writing[n] :
         /\ writing' = [writing EXCEPT ![n] = {}]
         /\ faulty /\ (Store(w.record) \/ UNCHANGED records)
         /\ Refused(n, w, Failed)
         /\ UNCHANGED <<deployment, declared>>
  BY Zenon DEF StoreFault
<1>2. Failed.kind # "conflict"
  BY Zenon DEF Failed
<1> QED
  BY <1>1, <1>2, RefusedInv, Zenon

LEMMA RecoverFromConflictIfNeededInv ==
    ASSUME IInv, NEW n \in Nodes, RecoverFromConflictIfNeeded(n)
    PROVE  TurnInv' /\ SeenInv' /\ AbsentInv' /\ SoleInv' /\ SyncInv' /\ RevisionInv'
<1>1. TypeOK /\ TurnInv /\ SeenInv /\ AbsentInv /\ SoleInv /\ SyncInv /\ RevisionInv
  BY Zenon DEF IInv
<1>2. PICK f \in failed[n] :
         /\ failed' = [failed EXCEPT ![n] = {}]
         /\ UNCHANGED <<currentState, currentVersion>> \/ RecoverFromStore(n)
         /\ Answer(f.cmd, ErrorReply(f.outcome))
         /\ UNCHANGED <<deployment, records, published, alive, cachedStateAny, writing, declared>>
  BY Zenon DEF RecoverFromConflictIfNeeded
<1>3. /\ UNCHANGED <<tenantAware, legacy, overlapping, faulty, records, published, alive,
                     cachedStateAny, writing, declared>>
      /\ failed'[n] = {} /\ \A m \in Nodes \ {n} : failed'[m] = failed[m]
  BY <1>1, <1>2, Zenon DEF TypeOK, deployment
<1>4. f.cmd \in Commands /\ f.outcome \in {Failed} \cup [kind : {"conflict"}, actual : Preconditions]
  BY <1>1, FailedTypes, Zenon
<1>5. /\ reply'[f.cmd] = ErrorReply(f.outcome)
      /\ \A id \in (Commands \cup Reads) \ {f.cmd} : reply'[id] = reply[id]
  BY <1>1, <1>2, <1>4, Zenon DEF Answer, TypeOK
<1>6. /\ reply'[f.cmd].kind = f.outcome.kind
      /\ reply'[f.cmd].kind \in {"error", "conflict"}
      /\ reply'[f.cmd] # Unsent
  BY <1>4, <1>5, ReplyTypes
<1>7. alive[n] /\ writing[n] = {}
  BY <1>1, Zenon DEF TurnInv, FailedInv, WriteInv, Pending
<1>8. \A m \in Nodes \ {n} :
         currentState'[m] = currentState[m] /\ currentVersion'[m] = currentVersion[m]
  BY <1>1, <1>2, RecoverEffect, Zenon
<1>9. StoredState' = StoredState /\ StoredVersion' = StoredVersion /\ StoredVersion \in Nat
  BY <1>1, <1>3, SameStore, StoredTypes, Zenon DEF TypeOK
<1>10. \A m \in Nodes : \A g \in failed[m] : g.cmd \in Commands
  BY <1>1, FailedTypes, Zenon
<1>11. \A m \in Nodes : \A w \in writing[m] : w.cmd \in Commands /\ w.cmd # f.cmd
  BY <1>1, WritingTypes DEF TurnInv, OneTurnInv
<1>12. TurnInv'
  <2>2. \A m \in Nodes : \A g \in failed'[m] : alive'[m] /\ reply'[g.cmd] # Unsent
    BY <1>1, <1>3, <1>5, <1>6, <1>10 DEF TurnInv, FailedInv
  <2>10. WriteInv'
    <3>1. ASSUME NEW m \in Nodes, NEW v \in writing'[m] PROVE Pending(m, v)'
      <4>1. v \in writing[m] /\ writing'[m] = writing[m] /\ v.cmd \in Commands
        BY <1>1, <1>2, <1>3, <3>1, WritingTypes, Zenon
      <4>2. Pending(m, v)
        BY <1>1, <4>1, Zenon DEF TurnInv, WriteInv
      <4> QED
        BY <1>1, <1>3, <1>5, <1>7, <1>8, <1>11, <4>1, <4>2, PendingStays, Zenon
    <3> QED
      BY <3>1, Zenon DEF WriteInv
  <2>11. FailedInv'
    BY <2>2, Zenon DEF TurnInv, FailedInv
  <2>12. OneTurnInv'
    BY <1>1, <1>3 DEF TurnInv, OneTurnInv
  <2>13. GoneInv'
    BY <1>1, <1>3, <1>7, <1>8, Zenon DEF TurnInv, GoneInv
  <2> QED
    BY <2>10, <2>11, <2>12, <2>13, Zenon DEF TurnInv
<1>13. SeenInv'
  <2>1. \A s : WasStored(s) => WasStored(s)'
    BY <1>3, SameStore, Zenon
  <2>2. \A m \in Nodes : WasStored(currentState'[m])
    BY <1>1, <1>2, <1>8, RecoverEffect, Zenon DEF SeenInv
  <2> QED
    BY <1>1, <1>3, <1>5, <1>6, <2>1, <2>2, Zenon DEF SeenInv
<1>14. AbsentInv'
  <2>1. \A c : Absent(c) => Absent(c)'
    BY <1>3, SameStore, Zenon
  <2> QED
    <3>1. \A c \in Commands : reply'[c] = Unsent => Absent(c)'
      BY <1>1, <1>5, <1>6, <2>1, Zenon DEF AbsentInv
    <3>2. \A c \in Commands : reply'[c].kind = "conflict" => Absent(c)'
      BY <1>1, <1>4, <1>5, <1>6, <2>1, Zenon DEF AbsentInv
    <3>3. \A m \in Nodes : \A w \in writing'[m] : Absent(w.cmd)'
      BY <1>1, <1>3, <2>1, Zenon DEF AbsentInv
    <3>4. \A m \in Nodes : \A g \in failed'[m] : g.outcome.kind = "conflict" => Absent(g.cmd)'
      BY <1>1, <1>3, <2>1, Zenon DEF AbsentInv
    <3> QED
      BY <3>1, <3>2, <3>3, <3>4, Zenon DEF AbsentInv
<1>15. ASSUME ~overlapping
       PROVE  \/ UNCHANGED <<currentState, currentVersion>>
              \/ currentState'[n] = StoredState /\ currentVersion'[n] = StoredVersion
  <2>1. currentVersion[n] \in Nat /\ currentVersion[n] <= StoredVersion
          /\ (StoredVersion = 0 => StoredState = InitialState)
    BY <1>1, <1>7, <1>15, Zenon DEF SoleInv, TypeOK
  <2> QED
    BY <1>1, <1>2, <1>9, <2>1, RecoverEffect
<1>16. SoleInv'
  <2>1. SUFFICES ASSUME ~overlapping PROVE SoleInv'
    BY <1>3, Zenon DEF SoleInv
  <2>2. \A m \in Nodes : alive[m] => m = n
    BY <1>1, <1>7, <2>1, Zenon DEF SoleInv
  <2>3. \A c \in Commands : reply'[c].kind = "state" => reply[c].kind = "state"
    BY <1>5, <1>6, Zenon
  <2>4. /\ currentVersion[n] \in Nat /\ currentVersion[n] <= StoredVersion
        /\ StoredVersion = 0 => StoredState = InitialState
        /\ currentVersion[n] = 0 =>
              currentState[n] = InitialState /\ cachedStateAny[n] \subseteq {InitialState}
    BY <1>1, <1>7, <2>1, Zenon DEF TypeOK, SoleInv
  <2>5. currentVersion'[n] <= StoredVersion /\ (currentVersion'[n] = 0 => currentVersion[n] = 0)
    BY <1>9, <1>15, <2>1, <2>4
  <2>6. currentVersion'[n] = 0 =>
           currentState'[n] = InitialState /\ cachedStateAny'[n] \subseteq {InitialState}
    BY <1>3, <1>15, <2>1, <2>4, <2>5, Zenon
  <2>7. ASSUME NEW c \in Commands, reply'[c].kind = "state"
        PROVE  /\ Includes(StoredState, c) /\ Includes(currentState'[n], c)
               /\ \A s \in cachedStateAny'[n] : Includes(s, c)
    BY <1>1, <1>3, <1>7, <1>15, <2>1, <2>3, <2>7, Zenon DEF SoleInv
  <2>8. \A m \in Nodes : \A w \in writing'[m] : w.seen = Len(records')
    BY <1>1, <1>3, <2>1, Zenon DEF SoleInv
  <2> QED
    BY <1>3, <1>9, <2>2, <2>4, <2>5, <2>6, <2>7, <2>8, Zenon DEF SoleInv
<1>17. SyncInv'
  BY <1>1, <1>3, <1>7, <1>8, <1>9, <1>15, ZenonT(40) DEF SyncInv
<1>18. RevisionInv'
  <2>1. SUFFICES ASSUME tenantAware, ~legacy PROVE RevisionInv'
    BY <1>3, Zenon DEF RevisionInv
  <2>2. \A i \in DOMAIN records' : records'[i].version > 0
    BY <1>1, <1>3, <2>1, Zenon DEF RevisionInv
  <2>3. ASSUME ~overlapping, ~faulty, NEW m \in Nodes, NEW g \in failed'[m],
               g.outcome.kind = "conflict"
        PROVE  ErrorReply(g.outcome).version # declared'[g.cmd]
    BY <1>1, <1>3, <2>1, <2>3, Zenon DEF RevisionInv
  <2>4. ASSUME ~overlapping, ~faulty, NEW c \in Commands, reply'[c].kind = "conflict"
        PROVE  reply'[c].version # declared'[c]
    <3>1. CASE c = f.cmd
      BY <1>1, <1>3, <1>5, <1>6, <2>1, <2>4, <3>1, Zenon DEF RevisionInv
    <3>2. CASE c # f.cmd
      BY <1>1, <1>3, <1>5, <2>1, <2>4, <3>2, Zenon DEF RevisionInv
    <3> QED
      BY <3>1, <3>2, Zenon
  <2> QED
    BY <1>3, <2>2, <2>3, <2>4, Zenon DEF RevisionInv
<1> QED
  BY <1>12, <1>13, <1>14, <1>16, <1>17, <1>18, Zenon

(* The incarnation is gone; what it last wrote, if anything, is in the store. *)
LEMMA ForgetEffect ==
    ASSUME TypeOK, NEW n \in Nodes, Forget(n)
    PROVE  /\ ~alive'[n]
           /\ currentState'[n] = InitialState
           /\ currentVersion'[n] = 0
           /\ cachedStateAny'[n] = {}
           /\ \A m \in Nodes \ {n} :
                 /\ alive'[m] = alive[m]
                 /\ currentState'[m] = currentState[m]
                 /\ currentVersion'[m] = currentVersion[m]
                 /\ cachedStateAny'[m] = cachedStateAny[m]
BY Zenon DEF Forget, TypeOK

\* An incarnation that stops leaves a record that has every success, and no
\* command but its own that no record had.
LeftBehind(n, record) ==
    /\ Store(record)
    /\ published' = published \/ published' = published \cup {record}
    /\ \A c : Absent(c) /\ (\A w \in writing[n] : w.cmd # c) => ~Includes(record.state, c)
    /\ (tenantAware /\ ~legacy) => record.version > 0
    /\ ~overlapping =>
          /\ record.version = 0 => record.state = InitialState
          /\ \A c \in Commands : reply[c].kind = "state" => Includes(record.state, c)
          /\ ~faulty => Len(record.state) = record.version

LEMMA StoppedInv ==
    ASSUME IInv, NEW n \in Nodes, alive[n], Forget(n),
           writing' = [writing EXCEPT ![n] = {}],
           failed' = [failed EXCEPT ![n] = {}],
           UNCHANGED <<deployment, reply, declared>>,
           \/ UNCHANGED <<records, published>>
           \/ \E record \in Records : LeftBehind(n, record)
    PROVE  TurnInv' /\ SeenInv' /\ AbsentInv' /\ SoleInv' /\ SyncInv' /\ RevisionInv'
<1>1. TypeOK /\ TurnInv /\ SeenInv /\ AbsentInv /\ SoleInv /\ SyncInv /\ RevisionInv
        /\ records \in Seq(Records)
  BY Zenon DEF IInv, TypeOK
<1>2. /\ UNCHANGED <<tenantAware, legacy, overlapping, faulty, reply, declared>>
      /\ writing'[n] = {} /\ \A m \in Nodes \ {n} : writing'[m] = writing[m]
      /\ failed'[n] = {} /\ \A m \in Nodes \ {n} : failed'[m] = failed[m]
  BY <1>1, Zenon DEF TypeOK, deployment
<1>3. /\ ~alive'[n] /\ currentState'[n] = InitialState /\ currentVersion'[n] = 0
      /\ cachedStateAny'[n] = {}
      /\ \A m \in Nodes \ {n} :
            /\ alive'[m] = alive[m] /\ currentState'[m] = currentState[m]
            /\ currentVersion'[m] = currentVersion[m] /\ cachedStateAny'[m] = cachedStateAny[m]
  BY <1>1, ForgetEffect, Zenon
<1>4. /\ \A s : WasStored(s) => WasStored(s)'
      /\ \A c : Absent(c) /\ (\A w \in writing[n] : w.cmd # c) => Absent(c)'
      /\ Len(records) \in Nat /\ Len(records') \in Nat /\ Len(records) <= Len(records')
      /\ \A r \in published' : \E i \in DOMAIN records' : records'[i] = r
      /\ (tenantAware /\ ~legacy) => \A i \in DOMAIN records' : records'[i].version > 0
      /\ ~overlapping =>
            /\ StoredVersion' = 0 => StoredState' = InitialState
            /\ \A c \in Commands : reply[c].kind = "state" => Includes(StoredState', c)
            /\ ~faulty => Len(StoredState') = StoredVersion'
  <2>1. CASE UNCHANGED <<records, published>>
    <3>1. StoredState' = StoredState /\ StoredVersion' = StoredVersion
      BY <2>1, SameStore, Zenon
    <3>2. /\ \A s : WasStored(s) => WasStored(s)'
          /\ \A c : Absent(c) => Absent(c)'
      BY <2>1, SameStore, Zenon
    <3>3. Len(records) \in Nat /\ Len(records) <= Len(records)
      BY <1>1
    <3> QED
      BY <1>1, <2>1, <3>1, <3>2, <3>3, Zenon DEF SeenInv, SoleInv, SyncInv, RevisionInv
  <2>2. CASE \E record \in Records : LeftBehind(n, record)
    <3>1. PICK record \in Records :
                 /\ Store(record)
                 /\ published' = published \/ published' = published \cup {record}
                 /\ \A c : Absent(c) /\ (\A w \in writing[n] : w.cmd # c) =>
                              ~Includes(record.state, c)
                 /\ (tenantAware /\ ~legacy) => record.version > 0
                 /\ ~overlapping =>
                       /\ record.version = 0 => record.state = InitialState
                       /\ \A c \in Commands :
                             reply[c].kind = "state" => Includes(record.state, c)
                       /\ ~faulty => Len(record.state) = record.version
      BY <2>2, Zenon DEF LeftBehind
    <3>2. /\ Len(records') = Len(records) + 1
          /\ \A i \in DOMAIN records : i \in DOMAIN records' /\ records'[i] = records[i]
          /\ \A i \in DOMAIN records' :
                records'[i] = record \/ (i \in DOMAIN records /\ records'[i] = records[i])
          /\ \E i \in DOMAIN records' : records'[i] = record
          /\ StoredState' = record.state
          /\ StoredVersion' = record.version
      BY <1>1, <3>1, StoreAppends, Zenon
    <3>3. /\ \A s : WasStored(s) => WasStored(s)'
          /\ \A c : Absent(c) /\ (\A w \in writing[n] : w.cmd # c) => Absent(c)'
      BY <1>1, <3>1, StoreKeeps, ZenonT(40)
    <3>4. \A r \in published' : \E i \in DOMAIN records' : records'[i] = r
      BY <1>1, <3>1, <3>2, ZenonT(40) DEF SeenInv
    <3>5. (tenantAware /\ ~legacy) => \A i \in DOMAIN records' : records'[i].version > 0
      BY <1>1, <3>1, <3>2, Zenon DEF RevisionInv
    <3>6. Len(records) \in Nat /\ Len(records') \in Nat /\ Len(records) <= Len(records')
      BY <1>1, <3>2
    <3> QED
      BY <3>1, <3>2, <3>3, <3>4, <3>5, <3>6, Zenon
  <2> QED
    BY <2>1, <2>2, Zenon
<1>5. TurnInv'
  <2>1. \A m \in Nodes : writing'[m] # {} => m # n
    BY <1>2, Zenon
  <2>10. WriteInv'
    <3>1. ASSUME NEW m \in Nodes, NEW v \in writing'[m] PROVE Pending(m, v)'
      <4>1. v \in writing[m] /\ writing'[m] = writing[m] /\ v.cmd \in Commands
        BY <1>1, <1>2, <1>3, <3>1, WritingTypes, Zenon
      <4>2. Pending(m, v)
        BY <1>1, <4>1, Zenon DEF TurnInv, WriteInv
      <4> QED
        BY <1>1, <1>2, <1>3, <1>4, <2>1, <3>1, <4>1, <4>2, PendingStays, Zenon
    <3> QED
      BY <3>1, Zenon DEF WriteInv
  <2>11. FailedInv'
    BY <1>1, <1>2, <1>3, SMTT(30) DEF TurnInv, FailedInv
  <2>12. OneTurnInv'
    BY <1>1, <1>2 DEF TurnInv, OneTurnInv
  <2>13. GoneInv'
    BY <1>1, <1>3, Zenon DEF TurnInv, GoneInv
  <2> QED
    BY <2>10, <2>11, <2>12, <2>13, Zenon DEF TurnInv
<1>6. SeenInv'
  <2>1. \A m \in Nodes : WasStored(currentState[m])'
    <3>1. WasStored(InitialState)'
      BY Zenon DEF WasStored
    <3> QED
      BY <1>1, <1>3, <1>4, <3>1, Zenon DEF SeenInv
  <2>2. \A m \in Nodes : \A s \in cachedStateAny'[m] : WasStored(s)'
    BY <1>1, <1>3, <1>4, Zenon DEF SeenInv
  <2>3. \A id \in Commands \cup Reads : reply'[id].kind = "state" => WasStored(reply[id].state)'
    BY <1>1, <1>2, <1>4, ZenonT(40) DEF SeenInv
  <2> QED
    BY <1>4, <2>1, <2>2, <2>3, Zenon DEF SeenInv
<1>7. AbsentInv'
  <2>1. Unsent.kind = "unsent" /\ Waiting.kind = "waiting"
    BY ZenonT(40) DEF Unsent, Waiting
  <2>2. \A c \in Commands :
           reply[c] = Unsent \/ reply[c].kind = "conflict" => \A w \in writing[n] : w.cmd # c
    <3>1. \A w \in writing[n] : reply[w.cmd] = Waiting
      BY <1>1, Zenon DEF TurnInv, WriteInv, Pending
    <3> QED
      BY <2>1, <3>1
  <2>3. \A m \in Nodes : \A v \in writing'[m] : v \in writing[m] /\ \A w \in writing[n] : w.cmd # v.cmd
    BY <1>1, <1>2 DEF TurnInv, OneTurnInv
  <2>4. \A m \in Nodes : \A f \in failed'[m] : f \in failed[m] /\ \A w \in writing[n] : w.cmd # f.cmd
    BY <1>1, <1>2, SMTT(30) DEF TurnInv, OneTurnInv
  <2> QED
    <3>1. \A c \in Commands : reply'[c] = Unsent => Absent(c)'
      BY <1>1, <1>2, <1>4, <2>2, Zenon DEF AbsentInv
    <3>2. \A c \in Commands : reply'[c].kind = "conflict" => Absent(c)'
      BY <1>1, <1>2, <1>4, <2>2, Zenon DEF AbsentInv
    <3>3. \A m \in Nodes : \A w \in writing'[m] : Absent(w.cmd)'
      BY <1>1, <1>4, <2>3, Zenon DEF AbsentInv
    <3>4. \A m \in Nodes : \A f \in failed'[m] : f.outcome.kind = "conflict" => Absent(f.cmd)'
      BY <1>1, <1>4, <2>4, ZenonT(40) DEF AbsentInv
    <3> QED
      BY <3>1, <3>2, <3>3, <3>4, Zenon DEF AbsentInv
<1>8. ~overlapping => \A m \in Nodes : ~alive'[m] /\ writing'[m] = {}
  BY <1>1, <1>2, <1>3, ZenonT(40) DEF SoleInv, TurnInv, WriteInv, Pending
<1>9. SoleInv'
  BY <1>1, <1>2, <1>4, <1>8, Zenon DEF SoleInv
<1>10. SyncInv'
  BY <1>2, <1>4, <1>8, ZenonT(40) DEF SyncInv
<1>11. RevisionInv'
  BY <1>1, <1>2, <1>4, ZenonT(40) DEF RevisionInv
<1> QED
  BY <1>5, <1>6, <1>7, <1>9, <1>10, <1>11, Zenon

LEMMA PostStopInv ==
    ASSUME IInv, NEW n \in Nodes, PostStop(n)
    PROVE  TurnInv' /\ SeenInv' /\ AbsentInv' /\ SoleInv' /\ SyncInv' /\ RevisionInv'
<1> DEFINE record == Record(currentVersion[n], CurrentStateAny(n))
<1>1. TypeOK /\ TurnInv /\ SeenInv /\ SoleInv /\ SyncInv
  BY Zenon DEF IInv
<1>2. /\ alive[n] /\ writing[n] = {} /\ failed[n] = {} /\ Forget(n)
      /\ UNCHANGED <<deployment, reply, declared, writing, failed>>
      /\ \/ Flushes(n) /\ Store(record) /\ published' = published \cup {record}
         \/ UNCHANGED <<records, published>>
  BY Zenon DEF PostStop, Idle, PersistStateAndPublish
<1>3. writing' = [writing EXCEPT ![n] = {}] /\ failed' = [failed EXCEPT ![n] = {}]
  BY <1>1, <1>2, Zenon DEF TypeOK
<1>4. CurrentStateAny(n) = currentState[n] \/ CurrentStateAny(n) \in cachedStateAny[n]
  BY CachedOrCurrent, Zenon
<1>5. record \in Records /\ record.version = currentVersion[n] /\ record.state = CurrentStateAny(n)
        /\ currentVersion[n] \in Nat
  BY <1>1, <1>4, Zenon DEF TypeOK, Record, Records
<1>6. \A c : Absent(c) => ~Includes(record.state, c)
  BY <1>1, <1>4, <1>5, StoredExcludes, ZenonT(40) DEF SeenInv
<1>7. ~overlapping =>
         /\ record.version = 0 => record.state = InitialState
         /\ \A c \in Commands : reply[c].kind = "state" => Includes(record.state, c)
         /\ ~faulty => Len(record.state) = record.version
  BY <1>1, <1>2, <1>4, <1>5, ZenonT(40) DEF SoleInv, SyncInv
<1>8. Flushes(n) => (tenantAware /\ ~legacy => record.version > 0)
  BY <1>5, Zenon DEF Flushes
<1> HIDE DEF record
<1> QED
  BY <1>2, <1>3, <1>5, <1>6, <1>7, <1>8, StoppedInv, Zenon DEF LeftBehind

LEMMA CrashInv ==
    ASSUME IInv, NEW n \in Nodes, Crash(n)
    PROVE  TurnInv' /\ SeenInv' /\ AbsentInv' /\ SoleInv' /\ SyncInv' /\ RevisionInv'
<1>1. TypeOK /\ TurnInv /\ SeenInv /\ SoleInv /\ SyncInv
  BY Zenon DEF IInv
<1>2. /\ alive[n] /\ Forget(n)
      /\ writing' = [writing EXCEPT ![n] = {}] /\ failed' = [failed EXCEPT ![n] = {}]
      /\ UNCHANGED <<deployment, published, reply, declared>>
  BY Zenon DEF Crash
<1>3. CASE UNCHANGED records
  BY <1>2, <1>3, StoppedInv, Zenon
<1>4. CASE \E w \in writing[n] : Store(w.record)
  <2>1. PICK w \in writing[n] : Store(w.record)
    BY <1>4, Zenon
  <2>2. w.record \in Records /\ w.cmd \in Commands
    BY <1>1, WritingTypes, ZenonT(40)
  <2>3. /\ w.record.version = currentVersion[n] + 1
        /\ w.record.state = Append(currentState[n], w.cmd)
    <3>1. w.record = Record(currentVersion[n] + 1, Append(currentState[n], w.cmd))
      BY <1>1, Zenon DEF TurnInv, WriteInv, Pending
    <3> QED
      BY <3>1 DEF Record
  <2>4. currentState[n] \in States /\ currentVersion[n] \in Nat /\ WasStored(currentState[n])
    BY <1>1, Zenon DEF TypeOK, SeenInv
  <2>5. /\ Len(w.record.state) = Len(currentState[n]) + 1
        /\ \A c : Includes(currentState[n], c) => Includes(w.record.state, c)
        /\ \A c : Includes(w.record.state, c) => Includes(currentState[n], c) \/ c = w.cmd
    BY <2>2, <2>3, <2>4, IncludesAppend
  <2>6. \A c : Absent(c) /\ c # w.cmd => ~Includes(w.record.state, c)
    BY <2>4, <2>5, StoredExcludes, Zenon
  <2>7. w.record.version > 0 /\ w.record.version # 0
    BY <2>3, <2>4
  <2>8. ~overlapping =>
           /\ \A c \in Commands : reply[c].kind = "state" => Includes(w.record.state, c)
           /\ ~faulty => Len(w.record.state) = w.record.version
    BY <1>1, <1>2, <2>3, <2>5, Zenon DEF SoleInv, SyncInv
  <2> QED
    BY <1>2, <2>1, <2>2, <2>6, <2>7, <2>8, StoppedInv, Zenon DEF LeftBehind
<1> QED
  BY <1>3, <1>4, Zenon DEF Crash

LEMMA InductiveStep == IInv /\ [Next]_vars => IInv'
<1> SUFFICES ASSUME IInv, [Next]_vars PROVE IInv'
  BY Zenon
<1>1. TypeOK /\ TurnInv /\ SeenInv /\ AbsentInv /\ SoleInv /\ SyncInv /\ RevisionInv
  BY Zenon DEF IInv
<1>2. TypeOK'
  BY <1>1, TypeStep, Zenon
<1>3. CASE Next
  <2>1. TurnInv' /\ SeenInv' /\ AbsentInv' /\ SoleInv' /\ SyncInv' /\ RevisionInv'
    BY <1>3, SpawnInv, GetStateAndReplyInv, RejectCommandInv, ProcessCommandInv, CommitStateInv,
       StoreFaultInv, RecoverFromConflictIfNeededInv, PostStopInv, CrashInv, Zenon
       DEF Next, Turn
  <2> QED
    BY <1>2, <2>1, Zenon DEF IInv
<1>4. CASE UNCHANGED vars
  <2>1. UNCHANGED <<tenantAware, legacy, overlapping, faulty, records, published, alive, currentState,
                    currentVersion, cachedStateAny, writing, failed, reply, declared>>
    BY <1>4, Zenon DEF vars, deployment, memory
  <2>2. StoredState' = StoredState /\ StoredVersion' = StoredVersion
    BY <2>1, SameStore, ZenonT(40)
  <2>3. TurnInv'
    BY <1>1, <2>1 DEF TurnInv, WriteInv, Pending, FailedInv, OneTurnInv, GoneInv
  <2>4. SeenInv' /\ AbsentInv'
    BY <1>1, <2>1, SameStore, Zenon DEF SeenInv, AbsentInv
  <2>5. SoleInv' /\ SyncInv'
    BY <1>1, <2>1, <2>2, Zenon DEF SoleInv, SyncInv
  <2>6. RevisionInv'
    BY <1>1, <2>1, Zenon DEF RevisionInv
  <2> QED
    BY <1>2, <2>3, <2>4, <2>5, <2>6, Zenon DEF IInv
<1> QED
  BY <1>3, <1>4, Zenon

-----------------------------------------------------------------------------
(***************************************************************************)
(* The theorems.                                                           *)
(***************************************************************************)

(* The inductive invariant of the durable state entity holds throughout. *)
THEOREM Inductive == Spec => []IInv
BY InitInv, InductiveStep, PTL DEF Spec

(* With any number of commands, nodes and incarnations, one at a time: a success is
   in the record for good, whatever the store, the crashes, the flushes on stop and
   the failed recoveries do (commitState, PostStop). *)
THEOREM AcknowledgedStored == Spec => []AcknowledgedIsStored
<1>1. IInv => AcknowledgedIsStored
  BY Zenon DEF IInv, SoleInv, AcknowledgedIsStored
<1> QED
  BY <1>1, Inductive, PTL

(* A sole incarnation over a store that answers has exactly the record in memory
   and in its cache whenever it takes its next message
   (recoverFromConflictIfNeeded). *)
THEOREM SoleWriterInSync == Spec => []SoleWriterIsInSync
<1>1. ASSUME IInv, ~overlapping, ~faulty, NEW n \in Nodes, Idle(n)
      PROVE  /\ currentState[n] = StoredState
             /\ CurrentStateAny(n) = StoredState
             /\ currentVersion[n] = StoredVersion
             /\ Len(StoredState) = StoredVersion
  BY <1>1, CachedOrCurrent, Zenon DEF IInv, SyncInv, Idle
<1>2. IInv => SoleWriterIsInSync
  BY <1>1, Zenon DEF SoleWriterIsInSync
<1> QED
  BY <1>2, Inductive, PTL

(* Callers and subscribers see only states that the store held, and a command that
   was told of a conflict is never in a record, also when incarnations overlap and
   the store fails (commitState, WriteState). *)
THEOREM AnswersTrue == Spec => []AnswersAreTrue
<1>1. IInv => AnswersAreTrue
  BY Zenon DEF IInv, SeenInv, AbsentInv, Absent, AnswersAreTrue
<1> QED
  BY <1>1, Inductive, PTL

(* A tenant-aware entity does not refuse a command that declares the revision it
   is at, when nobody else writes (PostStop, WriteState). *)
THEOREM CurrentRevisionAdmitted == Spec => []CurrentRevisionIsAdmitted
<1>1. IInv => CurrentRevisionIsAdmitted
  BY Zenon DEF IInv, RevisionInv, CurrentRevisionIsAdmitted, NotRefusedAtOwnRevision
<1> QED
  BY <1>1, Inductive, PTL

(* Only the commit of its own write answers a waiting command with success. *)
LEMMA SuccessIsCommit ==
    ASSUME IInv, Next, NEW c \in Commands, reply[c] = Waiting, reply'[c].kind = "state"
    PROVE  \E n \in Nodes : \E w \in writing[n] : w.cmd = c /\ WriteState(w) = Committed
<1>1. TypeOK /\ TurnInv
  BY Zenon DEF IInv
<1>2. reply \in [Commands \cup Reads -> Replies] /\ c \notin Reads
  BY <1>1, DurableAssumption, Zenon DEF TypeOK
<1>3. Waiting.kind = "waiting" /\ Waiting # Unsent
  BY Zenon DEF Waiting, Unsent
<1>4. reply' # reply
  BY <1>3, Zenon
<1>5. PICK n \in Nodes :
         \/ \E r \in Reads : GetStateAndReply(n, r)
         \/ \E d \in Commands : RejectCommand(n, d)
         \/ \E d \in Commands, rev \in Declarable : ProcessCommand(n, d, rev)
         \/ CommitState(n)
         \/ RecoverFromConflictIfNeeded(n)
  BY <1>4, Zenon DEF Next, Turn, Spawn, StoreFault, Refused, PostStop, Crash
<1>6. ASSUME NEW id, id # c, NEW answer, Answer(id, answer) PROVE FALSE
  <2>1. reply'[c] = reply[c]
    BY <1>2, <1>6, Zenon DEF Answer
  <2> QED
    BY <1>3, <2>1, Zenon
<1>7. CASE \E r \in Reads : GetStateAndReply(n, r)
  BY <1>2, <1>6, <1>7, Zenon DEF GetStateAndReply
<1>8. CASE \E d \in Commands : RejectCommand(n, d)
  BY <1>3, <1>6, <1>8, Zenon DEF RejectCommand
<1>9. CASE \E d \in Commands, rev \in Declarable : ProcessCommand(n, d, rev)
  BY <1>3, <1>6, <1>9, Zenon DEF ProcessCommand
<1>10. CASE CommitState(n)
  BY <1>4, <1>6, <1>10, Zenon DEF CommitState, Refused
<1>11. CASE RecoverFromConflictIfNeeded(n)
  <2>1. PICK f \in failed[n] : Answer(f.cmd, ErrorReply(f.outcome))
    BY <1>11, Zenon DEF RecoverFromConflictIfNeeded
  <2>2. f.cmd = c
    BY <1>6, <2>1, Zenon
  <2>3. ErrorReply(f.outcome).kind \in {"error", "conflict"}
    BY <1>1, FailedTypes, ReplyTypes, Zenon
  <2>4. reply'[c] = ErrorReply(f.outcome)
    BY <1>2, <2>1, <2>2, Zenon DEF Answer
  <2> QED
    BY <2>3, <2>4, Zenon
<1> QED
  BY <1>5, <1>7, <1>8, <1>9, <1>10, <1>11, Zenon

(* A declared revision is that of the record which the write replaces, for any
   number of incarnations that read and swap in any order (WriteState). *)
THEOREM DeclaredRevision == Spec => DeclaredRevisionRespected
<1> DEFINE Respected ==
        \A c \in Commands :
          (reply[c] = Waiting /\ reply'[c].kind = "state" /\ declared[c] # NoRevision) =>
              IF declared[c] = 0 THEN records = << >> ELSE StoredVersion = declared[c]
<1>1. ASSUME IInv, Next PROVE Respected
  <2> SUFFICES ASSUME NEW c \in Commands,
                      reply[c] = Waiting, reply'[c].kind = "state", declared[c] # NoRevision
               PROVE  IF declared[c] = 0 THEN records = << >> ELSE StoredVersion = declared[c]
    BY Zenon
  <2>1. PICK n \in Nodes : \E w \in writing[n] : w.cmd = c /\ WriteState(w) = Committed
    BY <1>1, SuccessIsCommit, Zenon
  <2>2. PICK w \in writing[n] : w.cmd = c /\ WriteState(w) = Committed
    BY <2>1, Zenon
  <2>3. /\ TypeOK /\ records \in Seq(Records)
        /\ w.pre = declared[c] /\ w.seen <= Len(records)
    BY <1>1, <2>2, Zenon DEF IInv, TurnInv, WriteInv, Pending, TypeOK
  <2>4. w \in Writes /\ w.seen \in Nat
    BY <2>3, WritingTypes, Zenon
  <2>5. Admitted(w)
    BY <2>2, <2>3, <2>4, WriteStateOutcome, Zenon
  <2>6. CASE declared[c] = 0
    BY <2>3, <2>5, <2>6 DEF Admitted
  <2>7. CASE declared[c] # 0
    <3>1. w.seen > 0 /\ VersionAt(w.seen) = declared[c] /\ w.seen = Len(records)
      BY <2>3, <2>5, <2>7, Zenon DEF Admitted
    <3> QED
      BY <2>3, <2>7, <3>1, StoredIsLast DEF VersionAt
  <2> QED
    BY <2>6, <2>7, Zenon
<1>2. IInv /\ [Next]_vars => [Respected]_vars
  BY <1>1, Zenon
<1> QED
  BY <1>2, Inductive, PTL DEF Spec, DeclaredRevisionRespected
=============================================================================

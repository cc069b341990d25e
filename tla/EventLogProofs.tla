--------------------------- MODULE EventLogProofs ---------------------------
(***************************************************************************)
(* What every write to the events store guarantees, for either             *)
(* implementation, any log and any write; and the lemmas about events,     *)
(* replies and queues that the proofs of the entity share.                 *)
(***************************************************************************)
EXTENDS EntityInvariant, FiniteSetTheorems, SequenceTheorems, TLAPS

\* What a store, and a write, of events from the set E are.
IsStore(st, E) ==
    st \in [rev : Nat, events : SUBSET E] /\ IsFiniteSet(st.events)

IsWrite(evs, E) ==
    /\ evs \in SUBSET E
    /\ IsFiniteSet(evs)
    /\ \E n \in Numbers(evs) : \A m \in Numbers(evs) : m <= n

Numbered(E) == \A e \in E : e.seq \in Nat

LEMMA NumbersOfUnion ==
    ASSUME NEW A, NEW B
    PROVE  Numbers(A \cup B) = Numbers(A) \cup Numbers(B)
BY Zenon DEF Numbers

(* The largest number of a set that has one is in it and bounds it. *)
LEMMA MaxProperty ==
    ASSUME NEW S \in SUBSET Nat, \E n \in S : \A m \in S : m <= n
    PROVE  Max(S) \in S /\ \A m \in S : m <= Max(S)
<1>1. \E x \in S : \A y \in S : x >= y
  OBVIOUS
<1>2. Max(S) \in S /\ \A y \in S : Max(S) >= y
  BY <1>1, Zenon DEF Max
<1> QED
  BY <1>2

(* The revision after a write is that of the last event, unless it was higher. *)
LEMMA AdvanceProperty ==
    ASSUME NEW E, Numbered(E), NEW st, IsStore(st, E), NEW evs, IsWrite(evs, E)
    PROVE  /\ Advance(st, evs) \in Nat
           /\ Advance(st, evs) >= st.rev
           /\ Advance(st, evs) \in {st.rev} \cup Numbers(evs)
           /\ \A n \in Numbers(evs) : n <= Advance(st, evs)
<1>1. Numbers(evs) \in SUBSET Nat
  BY DEF Numbers, IsWrite, Numbered
<1>2. Max(Numbers(evs)) \in Numbers(evs) /\ \A m \in Numbers(evs) : m <= Max(Numbers(evs))
  BY <1>1, MaxProperty DEF IsWrite
<1> DEFINE last == Max(Numbers(evs))
<1>3. last \in Nat /\ st.rev \in Nat
  BY <1>1, <1>2 DEF IsStore
<1>4. \E n \in {st.rev, last} : \A m \in {st.rev, last} : m <= n
  BY <1>3
<1>5. Max({st.rev, last}) \in {st.rev, last} /\ \A m \in {st.rev, last} : m <= Max({st.rev, last})
  <2> HIDE DEF last
  <2> QED BY <1>3, <1>4, MaxProperty
<1> QED
  BY <1>1, <1>2, <1>3, <1>5 DEF Advance

(* A write gives one of the three outcomes and leaves a store. *)
LEMMA WriteEventsType ==
    ASSUME NEW E, Numbered(E), NEW st, IsStore(st, E), NEW evs, IsWrite(evs, E),
           NEW pre \in Preconditions
    PROVE  /\ WriteEvents(st, evs, pre).outcome \in Outcomes
           /\ IsStore(WriteEvents(st, evs, pre).store, E)
<1>1. Advance(st, evs) \in Nat
  BY AdvanceProperty
<1>2. Without(st.events, evs) \in SUBSET st.events /\ Without(evs, st.events) \in SUBSET evs
  BY DEF Without
<1>3. /\ IsFiniteSet(Without(st.events, evs) \cup evs)
      /\ IsFiniteSet(st.events \cup Without(evs, st.events))
  BY <1>2, FS_Subset, FS_Union, Zenon DEF IsStore, IsWrite
<1>4. IsStore(MemoryMerge(st, evs), E) /\ IsStore(PostgresMerge(st, evs), E)
  BY <1>1, <1>2, <1>3 DEF MemoryMerge, PostgresMerge, IsStore, IsWrite
<1>5. /\ NewConflictError(st) \in Outcomes
      /\ Committed \in Outcomes
      /\ Failed \in Outcomes
  BY DEF NewConflictError, Committed, Failed, Outcomes, Preconditions, IsStore
<1> QED
  BY <1>4, <1>5 DEF WriteEvents, MemoryWrite, PostgresWrite

(* The storage revision never decreases. *)
THEOREM RevisionIsMonotone ==
    ASSUME NEW E, Numbered(E), NEW st, IsStore(st, E), NEW evs, IsWrite(evs, E),
           NEW pre \in Preconditions
    PROVE  WriteEvents(st, evs, pre).store.rev >= st.rev
<1>1. Advance(st, evs) >= st.rev /\ st.rev \in Nat
  BY AdvanceProperty DEF IsStore
<1> QED
  BY <1>1 DEF WriteEvents, MemoryWrite, PostgresWrite, MemoryMerge, PostgresMerge

(* A write that is not reported as committed leaves the store as it was: neither
   a conflict nor a clash of keys commits part of a batch. *)
THEOREM FailureWritesNothing ==
    ASSUME NEW st, NEW evs, NEW pre, WriteEvents(st, evs, pre).outcome # Committed
    PROVE  WriteEvents(st, evs, pre).store = st
BY DEF WriteEvents, MemoryWrite, PostgresWrite, NewConflictError, Committed, Failed

(* The postgres store never drops or replaces a row: a write that is committed
   adds the events whose numbers are free. *)
THEOREM PostgresKeepsRows ==
    ASSUME StoreKind = "postgres", NEW st, NEW evs, NEW pre
    PROVE  LET w == WriteEvents(st, evs, pre)
           IN  /\ st.events \subseteq w.store.events
               /\ w.outcome = Committed => w.store.events = st.events \cup Without(evs, st.events)
BY DEF WriteEvents, PostgresWrite, PostgresMerge, NewConflictError, Committed, Failed

(* On postgres a committed write that declared a revision holds all its events:
   none was skipped over a row that was there. *)
THEOREM DeclaredWriteIsWhole ==
    ASSUME StoreKind = "postgres", NEW st, NEW evs, NEW pre, pre # NoRevision,
           WriteEvents(st, evs, pre).outcome = Committed
    PROVE  /\ Without(evs, st.events) = evs
           /\ Numbers(st.events) \cap Numbers(evs) = {}
           /\ WriteEvents(st, evs, pre).store.events = st.events \cup evs
           /\ WriteEvents(st, evs, pre).store.rev = Advance(st, evs)
<1>1. ~Clashes(st, evs)
  BY DEF WriteEvents, PostgresWrite, NewConflictError, Committed, Failed
<1>2. Without(evs, st.events) = evs
  BY <1>1 DEF Clashes, Without, Numbers
<1>3. WriteEvents(st, evs, pre).store = PostgresMerge(st, evs)
  BY DEF WriteEvents, PostgresWrite, NewConflictError, Committed, Failed
<1> QED
  BY <1>1, <1>2, <1>3 DEF PostgresMerge, Clashes

-----------------------------------------------------------------------------
(***************************************************************************)
(* Events.                                                                 *)
(***************************************************************************)

(* Events with the numbers from a + 1 to b, one of each, are b - a events. *)
LEMMA CountOfRange ==
    ASSUME NEW S \in SUBSET Event, NEW a \in Nat, NEW b \in Nat, a <= b,
           Unambiguous(S), Numbers(S) = a + 1..b
    PROVE  IsFiniteSet(S) /\ Cardinality(S) = b - a
<1> DEFINE f == [e \in S |-> e.seq]
           T == a + 1..b
<1>1. IsFiniteSet(T) /\ Cardinality(T) = b - a
  <2>1. a + 1 \in Int /\ b \in Int
    OBVIOUS
  <2>2. /\ IsFiniteSet(T)
        /\ Cardinality(T) = IF a + 1 > b THEN 0 ELSE b - (a + 1) + 1
    BY <2>1, FS_Interval
  <2> HIDE DEF T
  <2> QED BY <2>2
<1>2. \A e \in S : e.seq \in T
  BY DEF Numbers
<1>3. \A n \in T : \E e \in S : e.seq = n
  BY ZenonT(30) DEF Numbers
<1>4. f \in Injection(S, T)
  BY <1>2 DEF Injection, IsInjective, Unambiguous
<1>5. f \in Surjection(S, T)
  <2>1. f \in [S -> T]
    BY <1>2
  <2>2. \A n \in T : \E e \in S : f[e] = n
    <3> HIDE DEF T
    <3> QED BY <1>3
  <2> HIDE DEF f, T
  <2> QED BY <2>1, <2>2 DEF Surjection
<1>6. IsFiniteSet(S)
  <2> HIDE DEF f, T
  <2> QED BY <1>1, <1>4, FS_Injection
<1>7. Cardinality(T) = Cardinality(S)
  <2> HIDE DEF f, T
  <2> QED BY <1>4, <1>5, <1>6, FS_Surjection
<1> QED
  BY <1>1, <1>6, <1>7

(* What the handler makes follows the counter it was numbered from. *)
LEMMA EnvelopesFollow ==
    ASSUME NEW c \in Commands, NEW n \in Nat \ {0}, NEW counter \in Nat
    PROVE  /\ Follows(BuildEnvelopes(c, n, counter), counter)
           /\ Cardinality(BuildEnvelopes(c, n, counter)) = n
<1> DEFINE evs == BuildEnvelopes(c, n, counter)
<1>1. evs \in SUBSET Event /\ Unambiguous(evs)
  BY DEF BuildEnvelopes, Event, Unambiguous
<1>2. Numbers(evs) \subseteq counter + 1..counter + n
  BY DEF BuildEnvelopes, Numbers
<1>3. ASSUME NEW k \in counter + 1..counter + n
      PROVE  k \in Numbers(evs)
  <2>1. k - counter \in 1..n /\ counter + (k - counter) = k
    OBVIOUS
  <2>2. [seq |-> k, cmd |-> c, nth |-> k - counter] \in evs
    BY <2>1 DEF BuildEnvelopes
  <2> HIDE DEF evs
  <2> QED
    BY <2>2 DEF Numbers
<1>4. Numbers(evs) = counter + 1..counter + n
  BY <1>2, <1>3, ZenonT(30)
<1>5. Cardinality(evs) = n
  <2> HIDE DEF evs
  <2> QED BY <1>1, <1>4, CountOfRange
<1>6. evs # {}
  <2>1. counter + 1 \in Numbers(evs)
    BY <1>4
  <2> HIDE DEF evs
  <2> QED BY <2>1 DEF Numbers
<1> QED
  BY <1>1, <1>4, <1>5, <1>6, SMTT(30) DEF Follows

-----------------------------------------------------------------------------
(***************************************************************************)
(* Replies, steps that write nothing, and queues.                          *)
(***************************************************************************)

LEMMA InitialStateType == InitialState \in States
BY DEF InitialState, States

LEMMA ReplyTypes ==
    /\ Unsent \in Replies
    /\ Waiting \in Replies
    /\ \A state \in States, rev \in Nat : StateReply(state, rev) \in Replies
    /\ \A o \in Outcomes : o.kind # "ok" => ErrorReply(o) \in Replies
    /\ Failed \in Outcomes /\ Failed.kind = "error"
<1>1. Unsent \in Replies /\ Waiting \in Replies
  BY InitialStateType DEF Unsent, Waiting, Replies
<1>2. \A state \in States, rev \in Nat : StateReply(state, rev) \in Replies
  BY DEF StateReply, Replies
<1>3. ASSUME NEW o \in Outcomes, o.kind # "ok"
      PROVE  ErrorReply(o) \in Replies
  <2>1. o.kind \in {"conflict", "error"} /\ (o.actual = NoRevision \/ o.actual \in Nat)
    BY <1>3 DEF Outcomes, Committed, Failed, Preconditions
  <2> QED
    BY <2>1, InitialStateType, Zenon DEF ErrorReply, Unsent, Replies
<1>4. Failed \in Outcomes /\ Failed.kind = "error"
  BY DEF Failed, Outcomes
<1> QED
  BY <1>1, <1>2, <1>3, <1>4

LEMMA UnwrittenGrows ==
    ASSUME BaseTypeOK, LogInv, UNCHANGED <<store, journal, published>>
    PROVE  Grows
BY DEF Grows, LogInv, BaseTypeOK

(* The elements of a concatenation are those of its parts. *)
LEMMA ConcatElements ==
    ASSUME NEW S, NEW p \in Seq(S), NEW q \in Seq(S), NEW i \in DOMAIN (p \o q)
    PROVE  \/ i \in DOMAIN p /\ (p \o q)[i] = p[i]
           \/ \E j \in DOMAIN q : (p \o q)[i] = q[j]
<1>1. /\ p \o q \in Seq(S)
      /\ Len(p \o q) = Len(p) + Len(q)
      /\ \A k \in 1..Len(p) + Len(q) :
            (p \o q)[k] = IF k <= Len(p) THEN p[k] ELSE q[k - Len(p)]
  BY ConcatProperties
<1>2. /\ DOMAIN p = 1..Len(p) /\ Len(p) \in Nat
      /\ DOMAIN q = 1..Len(q) /\ Len(q) \in Nat
  OBVIOUS
<1>3. i \in 1..Len(p) + Len(q)
  <2>1. DOMAIN (p \o q) = 1..Len(p \o q)
    BY <1>1, LenProperties
  <2> QED
    BY <1>1, <2>1
<1>4. CASE i <= Len(p)
  BY <1>1, <1>2, <1>3, <1>4
<1>5. CASE i > Len(p)
  <2>1. i - Len(p) \in DOMAIN q /\ ~(i <= Len(p))
    BY <1>2, <1>3, <1>5
  <2>2. (p \o q)[i] = q[i - Len(p)]
    BY <1>1, <1>3, <2>1
  <2> QED
    BY <2>1, <2>2
<1> QED
  BY <1>2, <1>3, <1>4, <1>5

(* The part of the queues that stays free of responses. *)
LEMMA NoResponseLeft ==
    ASSUME BaseTypeOK, MessagesInv, mailbox # << >>, Consume \/ UnstashAll \/ Stash,
           \A i \in DOMAIN mailbox : i # 1 => mailbox[i].type # "response"
    PROVE  \A i \in DOMAIN mailbox' : mailbox'[i].type # "response"
<1>1. mailbox \in Seq(Messages) /\ stash \in Seq(Messages)
  BY DEF BaseTypeOK
<1>2. Tail(mailbox) \in Seq(Messages)
  BY <1>1, HeadTailProperties
<1>3. \A i \in DOMAIN Tail(mailbox) : Tail(mailbox)[i].type # "response"
  <2>1. \A i \in DOMAIN Tail(mailbox) :
           i + 1 \in DOMAIN mailbox /\ i + 1 # 1 /\ Tail(mailbox)[i] = mailbox[i + 1]
    BY <1>1, HeadTailProperties, LenProperties
  <2> QED
    BY <2>1
<1>4. CASE mailbox' = Tail(mailbox)
  BY <1>3, <1>4
<1>5. CASE mailbox' = stash \o Tail(mailbox)
  <2>1. \A i \in DOMAIN stash : stash[i].type # "response"
    BY DEF MessagesInv
  <2> QED
    BY <1>1, <1>2, <1>3, <1>5, <2>1, ConcatElements, SMTT(30)
<1> QED
  BY <1>4, <1>5 DEF Consume, UnstashAll, Stash
=============================================================================

----------------------- MODULE ProjectionRunnerProofs -----------------------
(***************************************************************************)
(* Theorems about the projection, for any number of shards, workers,       *)
(* events, failures and restarts, and every recovery policy.               *)
(***************************************************************************)
EXTENDS ProjectionRunner, FiniteSetTheorems, TLAPS

(***************************************************************************)
(* The theorems are about a journal whose events become visible in the     *)
(* order of distinct timestamps, read from PostgreSQL, with rebuilds that  *)
(* wait for the writes under way.  A timestamp in milliseconds, which is   *)
(* what a rebuild and a configured start put in the place of one in        *)
(* nanoseconds, is before every event.                                     *)
(***************************************************************************)
Sequential ==
    /\ Ordered
    /\ Settles
    /\ EventsStore = "postgres"
    /\ StartOffset < Scale
    /\ MaxTime < Scale

-----------------------------------------------------------------------------
(***************************************************************************)
(* The inductive invariant.                                                *)
(***************************************************************************)

Events == [shard : Shards, nth : Nat, ts : Nat]
Places == {"offset", "read", "handle", "commit"}
Jobs == [at : Places, shard : Shards, batch : SUBSET Events, next : Nat, tries : Nat]
Writes == [shard : Shards, value : Nat]

TypeOK ==
    /\ journal \subseteq Events
    /\ IsFiniteSet(journal)
    /\ offsets \in [Shards -> Nat]
    /\ toDispatch \subseteq Shards
    /\ workCh \subseteq Shards
    /\ worker \in [Workers -> {Idle, Exited} \cup Jobs]
    /\ cache \in [Shards -> Nat \cup {Unknown}]
    /\ late \subseteq Writes

Size(s) == Cardinality(EventsOf(s))

\* The nth event of a shard has timestamp n.
StampInv == \A e \in journal : e.nth = e.ts /\ e.ts > 0 /\ e.ts <= Size(e.shard)

\* Every event of the shard up to the offset was disposed of, and the
\* offset is no later than its last event.
Passed(s, offset) ==
    /\ offset <= Size(s)
    /\ \A e \in journal : e.shard = s /\ e.ts <= offset => e \in disposed

\* What was committed, what is cached and what is still to be written is passed.
CoverInv ==
    /\ \A s \in Shards : Passed(s, offsets[s])
    /\ \A s \in Shards : cache[s] # Unknown => Passed(s, cache[s])
    /\ \A o \in late : Passed(o.shard, o.value)

\* A worker reads behind a known offset, and has in its batch every event up to
\* the offset it will commit that is not disposed of.
JobOK(j) ==
    /\ j.at = "read" => cache[j.shard] # Unknown
    /\ j.at \in {"handle", "commit"} =>
          /\ j.next <= Size(j.shard)
          /\ \A e \in journal :
                e.shard = j.shard /\ e.ts <= j.next => e \in disposed \cup j.batch
    /\ j.at = "commit" => j.batch = {}

WorkInv == \A w \in Workers : JobOK(worker[w])

IInv == TypeOK /\ StampInv /\ CoverInv /\ WorkInv
-----------------------------------------------------------------------------
(***************************************************************************)
(* Lemmas about the journal and its timestamps.                            *)
(***************************************************************************)

(* A bounded set of numbers has a largest one. *)
LEMMA MaxOfBounded ==
    ASSUME NEW S \in SUBSET Nat, S # {}, NEW n \in Nat, \A x \in S : x <= n
    PROVE  Max(S) \in S /\ \A x \in S : x <= Max(S)
<1> DEFINE T == {n - x : x \in S}
<1>1. T \subseteq Nat
  <2>1. ASSUME NEW x \in S PROVE n - x \in Nat
    BY <2>1
  <2> QED
    BY <2>1, Zenon
<1>2. T # {}
  BY Zenon
<1>3. \E k \in T : \A y \in T : <<y, k>> \notin OpToRel(<, Nat)
  BY <1>1, <1>2, NatLessThanWellFounded, WFMin, Zenon
<1>4. PICK x \in S : \A y \in T : <<y, n - x>> \notin OpToRel(<, Nat)
  BY <1>3, Zenon
<1>5. \A y \in S : x >= y
  <2> SUFFICES ASSUME NEW y \in S PROVE x >= y
    BY Zenon
  <2>1. n - y \in Nat /\ n - x \in Nat /\ <<n - y, n - x>> \notin OpToRel(<, Nat)
    BY <1>1, <1>4, Zenon
  <2>2. ~(n - y < n - x)
    BY <2>1 DEF OpToRel
  <2> QED
    BY <2>2
<1>6. Max(S) \in S /\ \A y \in S : Max(S) >= y
  BY <1>5, Zenon DEF Max
<1> QED
  BY <1>6

(* The events of a shard can be counted. *)
LEMMA SizeType ==
    ASSUME TypeOK, NEW s
    PROVE  Size(s) \in Nat /\ IsFiniteSet(EventsOf(s))
<1>1. EventsOf(s) \in SUBSET journal
  BY Zenon DEF EventsOf
<1> QED
  BY <1>1, FS_Subset, FS_CardinalityType, Zenon DEF TypeOK, Size

(* A step that leaves the journal alone, and forgets no event disposed of, takes no
   offset back. *)
LEMMA PassedStays ==
    ASSUME UNCHANGED journal, disposed \subseteq disposed', NEW s, NEW offset, Passed(s, offset)
    PROVE  Passed(s, offset)'
BY Zenon DEF Passed, Size, EventsOf

LEMMA JobStays ==
    ASSUME UNCHANGED journal, disposed \subseteq disposed', NEW j, JobOK(j),
           cache'[j.shard] = Unknown => cache[j.shard] = Unknown
    PROVE  JobOK(j)'
<1>1. Size(j.shard)' = Size(j.shard)
  BY Zenon DEF Size, EventsOf
<1> QED
  BY <1>1, Zenon DEF JobOK

(* A busy worker has a shard, a batch and an offset to commit. *)
LEMMA JobTypes ==
    ASSUME TypeOK, NEW w \in Workers, worker[w].at \in Places
    PROVE  /\ worker[w] \in Jobs /\ worker[w].shard \in Shards
           /\ worker[w].batch \in SUBSET Events
           /\ worker[w].next \in Nat /\ worker[w].tries \in Nat
<1>1. worker[w] # Idle /\ worker[w] # Exited
  BY DEF Idle, Exited, Places
<1>2. worker[w] \in Jobs
  BY <1>1, Zenon DEF TypeOK
<1> QED
  BY <1>2, Zenon DEF Jobs

LEMMA IdleOK == JobOK(Idle)' /\ JobOK(Exited)'
BY Zenon DEF JobOK, Idle, Exited
-----------------------------------------------------------------------------
(***************************************************************************)
(* Every step preserves the invariant.                                     *)
(***************************************************************************)

LEMMA InitInv == Init => IInv
<1> SUFFICES ASSUME Init PROVE IInv
  BY Zenon
<1>1. TypeOK
  BY FS_EmptySet, Zenon DEF Init, TypeOK
<1>2. \A s : Size(s) \in Nat
  BY <1>1, SizeType, Zenon
<1>3. StampInv /\ CoverInv
  BY <1>2 DEF Init, StampInv, CoverInv, Passed
<1>4. WorkInv
  BY Zenon DEF Init, WorkInv, JobOK, Exited
<1> QED
  BY <1>1, <1>3, <1>4, Zenon DEF IInv

(* Steps of the loop, and of the actor that stops it, leave offsets, events and
   workers alone. *)
LEMMA QuietInv ==
    ASSUME IInv, UNCHANGED <<journal, offsets, disposed, cache, late, worker>>,
           toDispatch' \subseteq Shards, workCh' \subseteq Shards
    PROVE  IInv'
<1>1. TypeOK'
  BY Zenon DEF IInv, TypeOK
<1>2. \A s : Size(s)' = Size(s)
  BY Zenon DEF Size, EventsOf
<1>3. StampInv'
  BY <1>2, Zenon DEF IInv, StampInv
<1>4. CoverInv'
  BY PassedStays, Zenon DEF IInv, CoverInv
<1>5. WorkInv'
  BY JobStays, Zenon DEF IInv, WorkInv
<1> QED
  BY <1>1, <1>3, <1>4, <1>5, Zenon DEF IInv

(* A worker that moves on leaves the invariant in place, when its job is as it
   should be and the offsets it sets are passed. *)
LEMMA WorkerInv ==
    ASSUME IInv, NEW w \in Workers, NEW j \in {Idle, Exited} \cup Jobs,
           worker' = [worker EXCEPT ![w] = j], JobOK(j)',
           UNCHANGED <<journal, late, toDispatch>>, disposed \subseteq disposed',
           workCh' \subseteq workCh,
           offsets' \in [Shards -> Nat], cache' \in [Shards -> Nat \cup {Unknown}],
           \A s \in Shards : offsets'[s] = offsets[s] \/ Passed(s, offsets'[s]),
           \A s \in Shards : cache'[s] = cache[s] \/ (cache'[s] # Unknown /\ Passed(s, cache'[s]))
    PROVE  IInv'
<1>1. TypeOK'
  BY Zenon DEF IInv, TypeOK
<1>2. \A s : Size(s)' = Size(s)
  BY Zenon DEF Size, EventsOf
<1>3. StampInv'
  BY <1>2, Zenon DEF IInv, StampInv
<1>4. \A s \in Shards : Passed(s, offsets[s])'
  BY PassedStays, Zenon DEF IInv, CoverInv
<1>5. \A s \in Shards : cache'[s] # Unknown => Passed(s, cache[s])'
  BY PassedStays, Zenon DEF IInv, CoverInv
<1>6. \A o \in late' : Passed(o.shard, o.value)'
  BY PassedStays, Zenon DEF IInv, CoverInv
<1>7. CoverInv'
  BY <1>4, <1>5, <1>6, Zenon DEF CoverInv
<1>8. ASSUME NEW v \in Workers PROVE JobOK(worker[v])'
  <2>1. CASE v = w
    BY <2>1, Zenon DEF IInv, TypeOK
  <2>2. CASE v # w
    <3>1. worker'[v] = worker[v] /\ JobOK(worker[v]) /\ worker[v] \in {Idle, Exited} \cup Jobs
      BY <2>2, Zenon DEF IInv, TypeOK, WorkInv
    <3>2. CASE worker[v] \in Jobs
      BY <3>1, <3>2, JobStays, Zenon DEF Jobs
    <3> QED
      BY <3>1, <3>2, IdleOK, Zenon
  <2> QED
    BY <2>1, <2>2, Zenon
<1>9. WorkInv'
  BY <1>8, Zenon DEF WorkInv
<1> QED
  BY <1>1, <1>3, <1>7, <1>9, Zenon DEF IInv

LEMMA LoopInv ==
    ASSUME IInv, Loop
    PROVE  IInv'
<1>1. UNCHANGED <<journal, offsets, disposed, cache, late, worker>>
  BY Zenon DEF Loop, Pull, PullFails, Dispatch, DispatchCancelled, AbortPass, PassDone,
               RetryAfterStoreFailure, LoopEnds
<1>2. toDispatch \subseteq Shards /\ workCh \subseteq Shards /\ PendingShards \subseteq Shards
  BY Zenon DEF IInv, TypeOK, PendingShards
<1>3. toDispatch' \subseteq Shards /\ workCh' \subseteq Shards
  BY <1>2, Zenon DEF Loop, Pull, PullFails, Dispatch, DispatchCancelled, AbortPass, PassDone,
                     RetryAfterStoreFailure, LoopEnds
<1> QED
  BY <1>1, <1>3, QuietInv, Zenon

LEMMA StopInv ==
    ASSUME IInv, Stop \/ Cancel \/ UNCHANGED vars
    PROVE  IInv'
<1>1. UNCHANGED <<journal, offsets, disposed, cache, late, worker, toDispatch, workCh>>
  BY Zenon DEF Stop, Cancel, vars, runner
<1> QED
  BY <1>1, QuietInv, Zenon DEF IInv, TypeOK

(* A new event comes after every offset that is known or will be written. *)
LEMMA PersistInv ==
    ASSUME Sequential, IInv, NEW s \in Shards, NEW ts \in 1..MaxTime, Persist(s, ts)
    PROVE  IInv'
<1> DEFINE e == [shard |-> s, nth |-> Size(s) + 1, ts |-> ts]
<1>1. /\ journal' = journal \cup {e} /\ ts = Size(s) + 1
      /\ UNCHANGED <<offsets, disposed, cache, late, worker, toDispatch, workCh>>
  BY Zenon DEF Persist, Sequential, runner, Size
<1>2. TypeOK /\ StampInv /\ CoverInv /\ WorkInv
  BY Zenon DEF IInv
<1>3. \A r : Size(r) \in Nat /\ IsFiniteSet(EventsOf(r))
  BY <1>2, SizeType, Zenon
<1>4. e \in Events /\ e.shard = s /\ e.nth = Size(s) + 1 /\ e.ts = Size(s) + 1
  BY <1>1, <1>3 DEF Events
<1> HIDE DEF e
<1>5. e \notin journal
  BY <1>2, <1>3, <1>4 DEF StampInv
<1>6. Size(s)' = Size(s) + 1
  <2>1. EventsOf(s)' = EventsOf(s) \cup {e} /\ e \notin EventsOf(s)
    BY <1>1, <1>4, <1>5, Zenon DEF EventsOf
  <2>2. Cardinality(EventsOf(s) \cup {e}) = Cardinality(EventsOf(s)) + 1
    BY <1>3, <2>1, FS_AddElement, Zenon
  <2> QED
    BY <2>1, <2>2, Zenon DEF Size
<1>7. \A r : r # s => Size(r)' = Size(r)
  <2>1. \A r : r # s => EventsOf(r)' = EventsOf(r)
    BY <1>1, <1>4, Zenon DEF EventsOf
  <2> QED
    BY <2>1, Zenon DEF Size
<1>8. \A r : Size(r) <= Size(r)' /\ Size(r)' \in Nat
  BY <1>3, <1>6, <1>7
<1>9. TypeOK'
  <2>1. IsFiniteSet(journal')
    BY <1>1, <1>2, FS_AddElement, Zenon DEF TypeOK
  <2> QED
    BY <1>1, <1>2, <1>4, <2>1, Zenon DEF TypeOK
<1>10. StampInv'
  <2> SUFFICES ASSUME NEW f \in journal' PROVE f.nth = f.ts /\ f.ts > 0 /\ f.ts <= Size(f.shard)'
    BY Zenon DEF StampInv
  <2>1. CASE f = e
    BY <1>3, <1>4, <1>6, <2>1
  <2>2. CASE f \in journal
    <3>1. f.ts \in Nat /\ f.nth = f.ts /\ f.ts > 0 /\ f.ts <= Size(f.shard)
      BY <1>2, <2>2, Zenon DEF TypeOK, Events, StampInv
    <3> QED
      BY <1>3, <1>8, <3>1
  <2> QED
    BY <1>1, <2>1, <2>2, Zenon
<1>11. ASSUME NEW r, NEW offset \in Nat, offset <= Size(r), NEW D,
              \A f \in journal : f.shard = r /\ f.ts <= offset => f \in D
       PROVE  /\ offset <= Size(r)'
              /\ \A f \in journal' : f.shard = r /\ f.ts <= offset => f \in D
  <2>1. offset <= Size(r)'
    BY <1>3, <1>8, <1>11
  <2>2. ~(e.shard = r /\ e.ts <= offset)
    BY <1>3, <1>4, <1>11
  <2> QED
    BY <1>1, <1>11, <2>1, <2>2, Zenon
<1>12. ASSUME NEW r, NEW offset \in Nat, Passed(r, offset)
       PROVE  Passed(r, offset)'
  BY <1>1, <1>11, <1>12, Zenon DEF Passed
<1>13. CoverInv'
  <2>1. /\ \A r \in Shards : offsets[r] \in Nat
        /\ \A r \in Shards : cache[r] # Unknown => cache[r] \in Nat
        /\ \A o \in late : o.value \in Nat
    BY <1>2, Zenon DEF TypeOK, Writes
  <2> QED
    BY <1>1, <1>2, <1>12, <2>1, Zenon DEF CoverInv
<1>14. WorkInv'
  <2> SUFFICES ASSUME NEW w \in Workers PROVE JobOK(worker[w])'
    BY Zenon DEF WorkInv
  <2>1. JobOK(worker[w]) /\ UNCHANGED worker
    BY <1>1, <1>2, Zenon DEF WorkInv
  <2>2. worker[w].at \in {"handle", "commit"} => worker[w].next \in Nat
    BY <1>2, JobTypes DEF Places
  <2> DEFINE D == disposed \cup worker[w].batch
  <2>3. ASSUME worker[w].at \in {"handle", "commit"}
        PROVE  /\ worker[w].next <= Size(worker[w].shard)'
               /\ \A f \in journal' :
                     f.shard = worker[w].shard /\ f.ts <= worker[w].next => f \in D
    <3>1. /\ worker[w].next <= Size(worker[w].shard)
          /\ \A f \in journal : f.shard = worker[w].shard /\ f.ts <= worker[w].next => f \in D
      BY <2>1, <2>3, Zenon DEF JobOK
    <3> HIDE DEF D
    <3> QED
      BY <1>11, <2>1, <2>2, <2>3, <3>1, Zenon
  <2> QED
    BY <1>1, <2>1, <2>3, Zenon DEF JobOK
<1> QED
  BY <1>9, <1>10, <1>13, <1>14, Zenon DEF IInv

(* An offset that a stopped runner may still write is passed. *)
LEMMA UnderWayPassed ==
    ASSUME IInv, NEW o \in UnderWay
    PROVE  o \in Writes /\ Passed(o.shard, o.value)
<1>1. PICK w \in Workers :
         worker[w].at = "commit" /\ o = [shard |-> worker[w].shard, value |-> worker[w].next]
  BY Zenon DEF UnderWay
<1>2. worker[w].shard \in Shards /\ worker[w].next \in Nat
  BY <1>1, JobTypes, Zenon DEF IInv, Places
<1>3. o \in Writes /\ o.shard = worker[w].shard /\ o.value = worker[w].next
  BY <1>1, <1>2, Zenon DEF Writes
<1>4. JobOK(worker[w])
  BY Zenon DEF IInv, WorkInv
<1>5. Passed(worker[w].shard, worker[w].next)
  BY <1>1, <1>4, Zenon DEF JobOK, Passed
<1> QED
  BY <1>3, <1>5, Zenon

(* A timestamp in milliseconds is before every event. *)
LEMMA MillisZero ==
    ASSUME Sequential, NEW ts \in Nat, ts < Scale
    PROVE  Millis(ts) = 0
<1>1. Scale \in Nat /\ Scale > 0
  BY ProjectionAssumption
<1> QED
  BY <1>1 DEF Millis

(* What a new runner, or a crash, leaves behind. *)
LEMMA RestartInv ==
    ASSUME IInv, UNCHANGED <<journal, disposed, offsets>>,
           NEW place \in {Idle, Exited}, worker' = [w \in Workers |-> place],
           cache' = [s \in Shards |-> Unknown], late' = late \cup UnderWay,
           toDispatch' = {}, workCh' = {}
    PROVE  IInv'
<1>1. TypeOK /\ StampInv /\ CoverInv /\ \A o \in UnderWay : o \in Writes /\ Passed(o.shard, o.value)
  BY UnderWayPassed, Zenon DEF IInv
<1>2. TypeOK'
  BY <1>1, Zenon DEF TypeOK
<1>3. \A s : Size(s)' = Size(s)
  BY Zenon DEF Size, EventsOf
<1>4. StampInv'
  BY <1>1, <1>3, Zenon DEF StampInv
<1>5. CoverInv'
  BY <1>1, PassedStays, Zenon DEF CoverInv
<1>6. WorkInv'
  BY IdleOK, Zenon DEF WorkInv
<1> QED
  BY <1>2, <1>4, <1>5, <1>6, Zenon DEF IInv

LEMMA StartInv ==
    ASSUME IInv, Start \/ Crash
    PROVE  IInv'
BY RestartInv, Zenon DEF Start, StartRunner, Crash

(* A rebuild forgets what was disposed of, and every offset with it. *)
LEMMA RebuildInv ==
    ASSUME Sequential, IInv, NEW ts \in 1..MaxTime, Rebuild(ts)
    PROVE  IInv'
<1>1. TypeOK /\ StampInv /\ \A s : Size(s) \in Nat
  BY SizeType, Zenon DEF IInv
<1>2. Millis(ts) = 0
  BY ProjectionAssumption, MillisZero DEF Sequential
<1>3. /\ UNCHANGED journal /\ late' = {} /\ toDispatch' = {} /\ workCh' = {}
      /\ offsets' = [s \in Shards |-> 0] /\ cache' = [s \in Shards |-> Unknown]
      /\ worker' = [w \in Workers |-> Idle]
  BY <1>2, Zenon DEF Rebuild, StartRunner, Sequential
<1>4. TypeOK'
  BY <1>1, <1>3, Zenon DEF TypeOK
<1>5. \A s : Size(s)' = Size(s)
  BY <1>3, Zenon DEF Size, EventsOf
<1>6. StampInv'
  BY <1>1, <1>3, <1>5, Zenon DEF StampInv
<1>7. \A s : Passed(s, 0)'
  <2>1. \A e \in journal' : ~(e.ts <= 0)
    BY <1>1, <1>3 DEF TypeOK, Events, StampInv
  <2>2. \A s : 0 <= Size(s)'
    BY <1>1, <1>5
  <2> QED
    BY <2>1, <2>2, Zenon DEF Passed
<1>8. CoverInv'
  BY <1>3, <1>7, Zenon DEF CoverInv
<1>9. WorkInv'
  BY <1>3, IdleOK, Zenon DEF WorkInv
<1> QED
  BY <1>4, <1>6, <1>8, <1>9, Zenon DEF IInv

LEMMA LateWriteInv ==
    ASSUME IInv, LateWrite
    PROVE  IInv'
<1>1. PICK o \in late :
         /\ late' = late \ {o} /\ offsets' = [offsets EXCEPT ![o.shard] = o.value]
         /\ UNCHANGED <<journal, disposed, toDispatch, workCh, worker, cache>>
  BY Zenon DEF LateWrite, WriteOffset, runner
<1>2. TypeOK /\ StampInv /\ CoverInv /\ WorkInv
  BY Zenon DEF IInv
<1>3. o.shard \in Shards /\ o.value \in Nat /\ Passed(o.shard, o.value)
  BY <1>2, Zenon DEF TypeOK, Writes, CoverInv
<1>4. TypeOK'
  BY <1>1, <1>2, <1>3, Zenon DEF TypeOK
<1>5. \A s : Size(s)' = Size(s)
  BY <1>1, Zenon DEF Size, EventsOf
<1>6. StampInv'
  BY <1>1, <1>2, <1>5, Zenon DEF StampInv
<1>7. \A s \in Shards : Passed(s, offsets'[s])
  BY <1>1, <1>2, <1>3, Zenon DEF TypeOK, CoverInv
<1>8. CoverInv'
  BY <1>1, <1>2, <1>7, PassedStays, Zenon DEF CoverInv
<1>9. WorkInv'
  BY <1>1, <1>2, JobStays, Zenon DEF WorkInv
<1> QED
  BY <1>4, <1>6, <1>8, <1>9, Zenon DEF IInv
-----------------------------------------------------------------------------
(***************************************************************************)
(* The steps of a worker.                                                  *)
(***************************************************************************)

(* A worker that gives up, or has nothing to do, leaves everything as it was. *)
LEMMA LeaveInv ==
    ASSUME IInv, NEW w \in Workers, NEW place \in {Idle, Exited},
           worker' = [worker EXCEPT ![w] = place],
           UNCHANGED <<journal, offsets, disposed, cache, late, toDispatch>>,
           workCh' \subseteq workCh
    PROVE  IInv'
<1>1. place \in {Idle, Exited} \cup Jobs /\ JobOK(place)'
  BY IdleOK, Zenon
<1>2. offsets' \in [Shards -> Nat] /\ cache' \in [Shards -> Nat \cup {Unknown}]
  BY Zenon DEF IInv, TypeOK
<1> QED
  BY <1>1, <1>2, WorkerInv, Zenon

LEMMA TakeItemInv ==
    ASSUME IInv, NEW w \in Workers, TakeItem(w)
    PROVE  IInv'
<1>1. PICK s \in workCh :
         /\ workCh' = workCh \ {s}
         /\ \/ worker' = [worker EXCEPT ![w] =
                   [at |-> "offset", shard |-> s, batch |-> {}, next |-> 0, tries |-> 0]]
            \/ worker' = [worker EXCEPT ![w] = Idle]
         /\ UNCHANGED <<journal, offsets, disposed, cache, late, toDispatch>>
  BY Zenon DEF TakeItem, Finish
<1>2. CASE worker' = [worker EXCEPT ![w] = Idle]
  BY <1>1, <1>2, LeaveInv, Zenon
<1>3. ASSUME NEW j, j = [at |-> "offset", shard |-> s, batch |-> {}, next |-> 0, tries |-> 0],
             worker' = [worker EXCEPT ![w] = j]
      PROVE  IInv'
  <2>1. s \in Shards
    BY <1>1, Zenon DEF IInv, TypeOK
  <2>2. j \in Jobs /\ j.at = "offset"
    BY <1>3, <2>1 DEF Jobs, Places
  <2>3. JobOK(j)'
    BY <2>2 DEF JobOK
  <2>4. offsets' \in [Shards -> Nat] /\ cache' \in [Shards -> Nat \cup {Unknown}]
    BY <1>1, Zenon DEF IInv, TypeOK
  <2> QED
    BY <1>1, <1>3, <2>2, <2>3, <2>4, WorkerInv, Zenon
<1> QED
  BY <1>1, <1>2, <1>3, Zenon

LEMMA FailInv ==
    ASSUME IInv, NEW w \in Workers, WorkerExits(w) \/ ReadFails(w) \/ Unprocessable(w)
    PROVE  IInv'
<1>1. /\ worker' = [worker EXCEPT ![w] = Exited] \/ worker' = [worker EXCEPT ![w] = Idle]
      /\ UNCHANGED <<journal, offsets, disposed, cache, late, toDispatch, workCh>>
  BY Zenon DEF WorkerExits, ReadFails, Unprocessable, FailBatch, Fail, Finish
<1> QED
  BY <1>1, LeaveInv, Zenon

(* The offset of the store is read into the cache, and never replaces one that is there. *)
LEMMA CurrentOffsetInv ==
    ASSUME IInv, NEW w \in Workers, CurrentOffset(w)
    PROVE  IInv'
<1>1. PICK s, j :
         /\ s = worker[w].shard /\ j = [worker[w] EXCEPT !.at = "read"]
         /\ cache' = [cache EXCEPT ![s] = IF cache[s] = Unknown THEN offsets[s] ELSE cache[s]]
         /\ worker' = [worker EXCEPT ![w] = j]
         /\ UNCHANGED <<journal, offsets, disposed, late, toDispatch, workCh>>
         /\ worker[w].at = "offset"
  BY Zenon DEF CurrentOffset, Work
<1>2. TypeOK /\ CoverInv
  BY Zenon DEF IInv
<1>3. worker[w] \in Jobs /\ s \in Shards
  BY <1>1, <1>2, JobTypes, Zenon DEF Places
<1>4. j \in Jobs /\ j.at = "read" /\ j.shard = s
  BY <1>1, <1>3, Zenon DEF Jobs, Places
<1>5. offsets[s] \in Nat /\ Unknown \notin Nat
  BY <1>2, <1>3, ProjectionAssumption, Zenon DEF TypeOK
<1>6. cache' \in [Shards -> Nat \cup {Unknown}] /\ cache'[s] # Unknown
  BY <1>1, <1>2, <1>3, <1>5, Zenon DEF TypeOK
<1>7. \A r \in Shards : cache'[r] = cache[r] \/ (cache'[r] # Unknown /\ Passed(r, cache'[r]))
  BY <1>1, <1>2, <1>3, <1>6, Zenon DEF TypeOK, CoverInv
<1>8. JobOK(j)'
  BY <1>4, <1>6 DEF JobOK
<1>9. offsets' \in [Shards -> Nat]
  BY <1>1, <1>2, Zenon DEF TypeOK
<1> QED
  BY <1>1, <1>4, <1>6, <1>7, <1>8, <1>9, WorkerInv, Zenon

(* What a batch leaves out is after the offset that the batch will commit: PostgreSQL
   cuts off the latest events, and no two events of a shard have the same timestamp. *)
LEMMA BatchCovers ==
    ASSUME Sequential, IInv, NEW s \in Shards, NEW offset \in Nat, Passed(s, offset),
           NEW batch \in GetShardEvents(s, offset), batch # {}
    PROVE  /\ batch \subseteq Events
           /\ NextOffset(s, batch) \in Nat
           /\ NextOffset(s, batch) <= Size(s)
           /\ \A e \in journal : e.shard = s /\ e.ts <= NextOffset(s, batch) => e \in disposed \cup batch
<1>1. TypeOK /\ StampInv /\ Size(s) \in Nat
  BY SizeType, Zenon DEF IInv
<1>2. /\ batch \subseteq {e \in EventsOf(s) : e.ts > offset}
      /\ \A e \in batch, f \in {e \in EventsOf(s) : e.ts > offset} \ batch : e.ts <= f.ts
  BY Zenon DEF GetShardEvents, Sequential
<1>3. \A e \in batch : e \in journal /\ e.shard = s
  BY <1>2, Zenon DEF EventsOf
<1>4. batch \subseteq Events
  BY <1>1, <1>3, Zenon DEF TypeOK
<1>5. \A e \in batch : e.ts \in Nat /\ e.ts <= Size(s)
  BY <1>1, <1>3, <1>4, Zenon DEF StampInv, Events
<1>6. Stamps(batch) \in SUBSET Nat /\ Stamps(batch) # {} /\ \A x \in Stamps(batch) : x <= Size(s)
  BY <1>5, Zenon DEF Stamps
<1>7. Max(Stamps(batch)) \in Stamps(batch)
  BY <1>1, <1>6, MaxOfBounded, Zenon
<1>8. PICK b \in batch : NextOffset(s, batch) = b.ts
  BY <1>7, Zenon DEF NextOffset, Stamps
<1>9. ASSUME NEW e \in journal, e.shard = s, e.ts <= b.ts, e \notin disposed, e \notin batch
      PROVE  FALSE
  <2>1. e \in Events /\ b \in Events /\ e.ts \in Nat /\ b.ts \in Nat
    BY <1>1, <1>4, Zenon DEF TypeOK, Events
  <2>2. e.ts > offset
    BY <1>9, <2>1 DEF Passed
  <2>3. b.ts <= e.ts
    BY <1>2, <1>9, <2>2, Zenon DEF EventsOf
  <2>4. e.ts = b.ts
    BY <1>9, <2>1, <2>3
  <2>5. e.nth = b.nth /\ e.shard = b.shard
    BY <1>1, <1>3, <1>9, <2>4, Zenon DEF StampInv
  <2>6. e = b
    BY <2>1, <2>4, <2>5 DEF Events
  <2> QED
    BY <1>9, <2>6, Zenon
<1> QED
  BY <1>4, <1>5, <1>8, <1>9, Zenon

LEMMA ReadEventsInv ==
    ASSUME Sequential, IInv, NEW w \in Workers, ReadEvents(w)
    PROVE  IInv'
<1>1. /\ worker[w].at = "read"
      /\ UNCHANGED <<journal, offsets, disposed, cache, late, toDispatch, workCh>>
  BY Zenon DEF ReadEvents
<1>2. TypeOK /\ StampInv /\ CoverInv /\ JobOK(worker[w])
  BY Zenon DEF IInv, WorkInv
<1>3. PICK s : s = worker[w].shard
  BY Zenon
<1>4. worker[w] \in Jobs /\ s \in Shards
  BY <1>1, <1>2, <1>3, JobTypes, Zenon DEF Places
<1>5. PICK offset : offset = IF StartOffset > 0 THEN Millis(StartOffset) ELSE cache[s]
  BY Zenon
<1>6. offset \in Nat /\ Passed(s, offset)
  <2>1. CASE StartOffset > 0
    <3>1. StartOffset \in Nat /\ StartOffset < Scale
      BY ProjectionAssumption, Zenon DEF Sequential
    <3>2. offset = 0
      BY <1>5, <2>1, <3>1, MillisZero, Zenon
    <3>3. Size(s) \in Nat
      BY <1>2, SizeType, Zenon
    <3> QED
      BY <1>2, <3>2, <3>3 DEF Passed, StampInv, TypeOK, Events
  <2>2. CASE ~(StartOffset > 0)
    <3>1. offset = cache[s] /\ cache[s] # Unknown
      BY <1>1, <1>2, <1>3, <1>5, <2>2, Zenon DEF JobOK
    <3> QED
      BY <1>2, <1>4, <3>1, Zenon DEF TypeOK, CoverInv
  <2> QED
    BY <2>1, <2>2, Zenon
<1>7. PICK batch \in GetShardEvents(s, offset) :
         IF batch = {} THEN Finish(w)
         ELSE worker' = [worker EXCEPT ![w] =
                [worker[w] EXCEPT !.at = "handle", !.batch = batch, !.next = NextOffset(s, batch)]]
  BY <1>3, <1>5, Zenon DEF ReadEvents
<1>8. CASE batch = {}
  BY <1>1, <1>7, <1>8, LeaveInv, Zenon DEF Finish
<1>9. CASE batch # {}
  <2>1. PICK next : next = NextOffset(s, batch)
    BY Zenon
  <2>2. PICK j : j = [worker[w] EXCEPT !.at = "handle", !.batch = batch, !.next = next]
    BY Zenon
  <2>3. /\ batch \subseteq Events /\ next \in Nat /\ next <= Size(s)
        /\ \A e \in journal : e.shard = s /\ e.ts <= next => e \in disposed \cup batch
    BY <1>4, <1>6, <1>9, <2>1, BatchCovers, Zenon
  <2>4. /\ j \in Jobs /\ j.at = "handle" /\ j.shard = s /\ j.batch = batch /\ j.next = next
    BY <1>3, <1>4, <2>2, <2>3, Zenon DEF Jobs, Places
  <2>5. JobOK(j)
    BY <2>3, <2>4 DEF JobOK
  <2>6. JobOK(j)'
    BY <1>1, <2>5, JobStays, Zenon
  <2>7. offsets' \in [Shards -> Nat] /\ cache' \in [Shards -> Nat \cup {Unknown}]
    BY <1>1, <1>2, Zenon DEF TypeOK
  <2>8. worker' = [worker EXCEPT ![w] = j]
    BY <1>7, <1>9, <2>1, <2>2, Zenon
  <2> QED
    BY <1>1, <2>4, <2>6, <2>7, <2>8, WorkerInv, Zenon
<1> QED
  BY <1>8, <1>9, Zenon

(* An event leaves the batch when it is disposed of. *)
LEMMA DisposeInv ==
    ASSUME IInv, NEW w \in Workers, worker[w].at = "handle", Dispose(w),
           UNCHANGED <<journal, offsets, cache, late, toDispatch, workCh>>
    PROVE  IInv'
<1>1. TypeOK /\ JobOK(worker[w])
  BY Zenon DEF IInv, WorkInv
<1>2. worker[w] \in Jobs
  BY <1>1, JobTypes, Zenon DEF Places
<1>3. PICK e \in worker[w].batch :
         /\ disposed' = disposed \cup {e}
         /\ worker' = [worker EXCEPT ![w].batch = @ \ {e}, ![w].tries = 0,
                                     ![w].at = IF worker[w].batch = {e} THEN "commit" ELSE "handle"]
  BY Zenon DEF Dispose
<1> DEFINE place == IF worker[w].batch = {e} THEN "commit" ELSE "handle"
<1> HIDE DEF place
<1>4. PICK j : j = [worker[w] EXCEPT !.batch = worker[w].batch \ {e}, !.tries = 0, !.at = place]
  BY Zenon
<1>5. place \in Places /\ place # "read" /\ (place = "commit" <=> worker[w].batch = {e})
  BY DEF place, Places
<1>6. /\ j.at = place /\ j \in Jobs
      /\ j.shard = worker[w].shard /\ j.next = worker[w].next /\ j.batch = worker[w].batch \ {e}
  BY <1>2, <1>4, <1>5, Zenon DEF Jobs
<1>7. worker' = [worker EXCEPT ![w] = j]
  BY <1>1, <1>3, <1>4, Zenon DEF place, TypeOK
<1>8. /\ worker[w].next <= Size(worker[w].shard)
      /\ \A f \in journal : f.shard = worker[w].shard /\ f.ts <= worker[w].next
                               => f \in disposed \cup worker[w].batch
  BY <1>1, Zenon DEF JobOK
<1>9. /\ j.at # "read"
      /\ j.at = "commit" => j.batch = {}
  BY <1>6, <1>5
<1>10. /\ j.next <= Size(j.shard)
       /\ \A f \in journal : f.shard = j.shard /\ f.ts <= j.next => f \in disposed' \cup j.batch
  BY <1>3, <1>6, <1>8, Zenon
<1>11. Size(j.shard)' = Size(j.shard)
  BY Zenon DEF Size, EventsOf
<1>12. JobOK(j)'
  BY <1>9, <1>10, <1>11, Zenon DEF JobOK
<1>13. offsets' \in [Shards -> Nat] /\ cache' \in [Shards -> Nat \cup {Unknown}]
  BY <1>1, Zenon DEF TypeOK
<1> QED
  BY <1>3, <1>6, <1>7, <1>12, <1>13, WorkerInv, Zenon

LEMMA HandleInv ==
    ASSUME IInv, NEW w \in Workers, HandleEvent(w) \/ HandleFails(w)
    PROVE  IInv'
<1>1. worker[w].at = "handle" /\ UNCHANGED <<journal, offsets, cache, late, toDispatch, workCh>>
  BY Zenon DEF HandleEvent, HandleFails, FailBatch
<1>2. CASE Dispose(w)
  BY <1>1, <1>2, DisposeInv, Zenon
<1>3. CASE worker' = [worker EXCEPT ![w] = Idle] /\ UNCHANGED disposed
  BY <1>1, <1>3, LeaveInv, Zenon
<1>4. CASE worker' = [worker EXCEPT ![w].tries = @ + 1] /\ UNCHANGED disposed
  <2>1. TypeOK /\ JobOK(worker[w])
    BY Zenon DEF IInv, WorkInv
  <2>2. worker[w] \in Jobs /\ worker[w].tries + 1 \in Nat
    BY <1>1, <2>1, JobTypes DEF Places
  <2>3. PICK j : j = [worker[w] EXCEPT !.tries = worker[w].tries + 1]
    BY Zenon
  <2>4. worker' = [worker EXCEPT ![w] = j]
    BY <1>4, <2>3, Zenon
  <2>5. /\ j \in Jobs /\ j.at = worker[w].at /\ j.shard = worker[w].shard
        /\ j.next = worker[w].next /\ j.batch = worker[w].batch
    BY <2>2, <2>3 DEF Jobs
  <2>6. JobOK(j)
    BY <2>1, <2>5, Zenon DEF JobOK
  <2>7. JobOK(j)'
    BY <1>1, <1>4, <2>6, JobStays, Zenon
  <2>8. offsets' \in [Shards -> Nat] /\ cache' \in [Shards -> Nat \cup {Unknown}]
    BY <1>1, <2>1, Zenon DEF TypeOK
  <2> QED
    BY <1>1, <1>4, <2>4, <2>5, <2>7, <2>8, WorkerInv, Zenon
<1> QED
  BY <1>2, <1>3, <1>4, Zenon DEF HandleEvent, HandleFails, FailBatch, Fail, Finish

(* The offset of a batch that is done is passed, whether its write fails or not. *)
LEMMA CommitInv ==
    ASSUME IInv, NEW w \in Workers, CommitOffset(w) \/ CommitFails(w)
    PROVE  IInv'
<1>1. PICK s, next :
         /\ s = worker[w].shard /\ next = worker[w].next
         /\ offsets' = [offsets EXCEPT ![s] = next] \/ UNCHANGED offsets
         /\ cache' = [cache EXCEPT ![s] = next] \/ UNCHANGED cache
         /\ worker' = [worker EXCEPT ![w] = Idle]
         /\ worker[w].at = "commit"
         /\ UNCHANGED <<journal, disposed, late, toDispatch, workCh>>
  BY Zenon DEF CommitOffset, CommitFails, WriteOffset, Fail, Finish
<1>2. TypeOK /\ JobOK(worker[w])
  BY Zenon DEF IInv, WorkInv
<1>3. s \in Shards /\ next \in Nat /\ next # Unknown
  BY <1>1, <1>2, JobTypes, ProjectionAssumption, Zenon DEF Places
<1>4. Passed(s, next)
  BY <1>1, <1>2, Zenon DEF JobOK, Passed
<1>5. /\ offsets' \in [Shards -> Nat]
      /\ \A r \in Shards : offsets'[r] = offsets[r] \/ Passed(r, offsets'[r])
  BY <1>1, <1>2, <1>3, <1>4, Zenon DEF TypeOK
<1>6. /\ cache' \in [Shards -> Nat \cup {Unknown}]
      /\ \A r \in Shards : cache'[r] = cache[r] \/ (cache'[r] # Unknown /\ Passed(r, cache'[r]))
  BY <1>1, <1>2, <1>3, <1>4, Zenon DEF TypeOK
<1>7. Idle \in {Idle, Exited} \cup Jobs /\ JobOK(Idle)'
  BY IdleOK, Zenon
<1> QED
  BY <1>1, <1>5, <1>6, <1>7, WorkerInv, Zenon
-----------------------------------------------------------------------------
(***************************************************************************)
(* The theorems.                                                           *)
(***************************************************************************)

LEMMA InductiveStep ==
    ASSUME Sequential, IInv, [Next]_vars
    PROVE  IInv'
<1>1. ASSUME NEW w \in Workers, WorkerStep(w) PROVE IInv'
  BY <1>1, TakeItemInv, FailInv, CurrentOffsetInv, ReadEventsInv, HandleInv, CommitInv, Zenon
     DEF WorkerStep
<1>2. CASE Loop
  BY <1>2, LoopInv, Zenon
<1>3. ASSUME NEW s \in Shards, NEW ts \in 1..MaxTime, Persist(s, ts) PROVE IInv'
  BY <1>3, PersistInv, Zenon
<1>4. ASSUME NEW ts \in 1..MaxTime, Rebuild(ts) PROVE IInv'
  BY <1>4, RebuildInv, Zenon
<1>5. CASE Start \/ Crash
  BY <1>5, StartInv, Zenon
<1>6. CASE LateWrite
  BY <1>6, LateWriteInv, Zenon
<1>7. CASE Stop \/ Cancel \/ UNCHANGED vars
  BY <1>7, StopInv, Zenon
<1> QED
  BY <1>1, <1>2, <1>3, <1>4, <1>5, <1>6, <1>7, Zenon DEF Next

(* The invariant holds of every behaviour of a sequential projection. *)
THEOREM Inductive == Sequential => (Spec => []IInv)
<1> SUFFICES ASSUME Sequential PROVE Spec => []IInv
  OBVIOUS
<1>1. Init => IInv
  BY InitInv
<1>2. IInv /\ [Next]_vars => IInv'
  BY InductiveStep
<1> QED
  BY <1>1, <1>2, PTL DEF Spec

(* The invariant says that offsets and cache cover what was handled. *)
LEMMA CoversHandled ==
    ASSUME IInv
    PROVE  OffsetCoversHandled
<1>1. TypeOK /\ CoverInv /\ StampInv
  BY Zenon DEF IInv
<1>2. \A e \in journal : e.shard \in Shards /\ e.ts \in Nat /\ e.ts > 0
  BY <1>1, Zenon DEF TypeOK, Events, StampInv
<1>3. Covered(offsets)
  BY <1>1, <1>2, Zenon DEF Covered, CoverInv, Passed
<1>4. Covered([s \in Shards |-> IF cache[s] = Unknown THEN 0 ELSE cache[s]])
  <2> SUFFICES ASSUME NEW e \in journal,
                      e.ts <= IF cache[e.shard] = Unknown THEN 0 ELSE cache[e.shard]
               PROVE  e \in disposed
    BY <1>2, Zenon DEF Covered
  <2>1. cache[e.shard] # Unknown /\ e.ts <= cache[e.shard]
    BY <1>2
  <2> QED
    BY <1>1, <1>2, <2>1, Zenon DEF CoverInv, Passed
<1> QED
  BY <1>3, <1>4, Zenon DEF OffsetCoversHandled

(* No offset, committed or cached, passes an event that was not handled or skipped,
   whatever fails, stops or arrives late, with any number of workers and events: what
   "A failure mid-batch commits nothing" (processEvents) rests on. *)
THEOREM OffsetCovers == Sequential => (Spec => []OffsetCoversHandled)
<1> SUFFICES ASSUME Sequential PROVE Spec => []OffsetCoversHandled
  OBVIOUS
<1>1. Spec => []IInv
  BY Inductive
<1>2. IInv => OffsetCoversHandled
  BY CoversHandled
<1> QED
  BY <1>1, <1>2, PTL
=============================================================================

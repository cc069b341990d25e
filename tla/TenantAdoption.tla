--------------------------- MODULE TenantAdoption ---------------------------
(***************************************************************************)
(* TenantAdopter: runs that move one aggregate, its events, its snapshot   *)
(* and its durable state, from a source scope to a tenant's, beside the    *)
(* actors that write it and the legacy Migrator, which seeds snapshots.    *)
(*                                                                         *)
(* A scope is a number, 0 for Unscoped.  A record is its position (the     *)
(* sequence or version number), a value, the tenant in its metadata and,   *)
(* when a run wrote it, a receipt: the source scope, the position of the   *)
(* adopted event before it and a digest of the rest.  An event also has    *)
(* the protobuf fields its type does not know, where a legacy one has the  *)
(* state it resulted in.  Every call of a store is a step of its own.      *)
(***************************************************************************)
EXTENDS Naturals, Sequences, FiniteSets, SequencesExt

CONSTANTS
    Scopes,         \* 0 and the tenants
    Plans,          \* what each run is configured to do, and what the first one's source holds
    None,           \* no receipt, nobody, nothing
    MaxWrites,      \* bound on writes of the actors
    MaxFaults       \* bound on failed calls and crashes

ASSUME AdoptionAssumption ==
    /\ Scopes \subseteq Nat /\ 0 \in Scopes
    /\ \A plan \in Plans, a \in 1..2 : plan.runs[a].source \in Scopes /\ plan.runs[a].target \in Scopes \ {0}
    /\ {MaxWrites, MaxFaults} \subseteq Nat

VARIABLES
    fenced,         \* do the actors honor the fence?
    stored,         \* per kind and scope: the records
    holder,         \* per scope: who holds its fence
    job,            \* per run: what it does
    at,             \* per run: the call it makes next
    kind,           \* per run: the kind of record it is at
    verified,       \* per run: the source records it read
    outcome,        \* per run and kind: the status
    wrote,          \* per run: did it write the target?
    reread,         \* the Migrator: the snapshot it is about to write, if any
    writes, faults,
    history,        \* history: every record an actor or the Migrator wrote
    fresh,          \* history: source and target of runs that succeeded, as they left them
    repeats         \* history: the runs that began there and met no failure since

Adopters == 1..2

disk == <<stored, holder>>
runs == <<job, at, kind, verified, outcome, wrote>>
past == <<history, fresh, repeats>>
vars == <<fenced, disk, runs, reread, writes, faults, past>>

Kinds == {"events", "snapshot", "state"}

Record(pos, val, scope, unknown) ==
    [pos |-> pos, val |-> val, tenant |-> scope, unknown |-> unknown, receipt |-> None]

Positions(records) == {r.pos : r \in records}
Latest(records) == IF records = {} THEN 0 ELSE Max(Positions(records))

\* ReplayEvents, GetLatestSnapshot, GetLatestState.
Read(k, s) ==
    IF k = "events" THEN stored[k][s] ELSE {r \in stored[k][s] : r.pos = Latest(stored[k][s])}

Init ==
    /\ fenced \in BOOLEAN
    /\ \E plan \in Plans :
          /\ job = plan.runs
          /\ stored = [k \in Kinds |-> [s \in Scopes |->
                 IF s # job[1].source THEN {}
                 ELSE {Record(p, p, s, IF k = "events" THEN plan.unknown[p] ELSE <<>>) : p \in plan[k]}]]
    /\ holder = [s \in Scopes |-> None]
    /\ at = [a \in Adopters |-> "ready"]
    /\ kind = [a \in Adopters |-> "events"]
    /\ verified = [a \in Adopters |-> {}]
    /\ outcome = [a \in Adopters |-> [k \in Kinds |-> "none"]]
    /\ wrote = [a \in Adopters |-> FALSE]
    /\ reread = {}
    /\ writes = 2
    /\ faults = 0
    /\ history = [k \in Kinds |-> UNION {stored[k][s] : s \in Scopes}]
    /\ fresh = {}
    /\ repeats = {}

-----------------------------------------------------------------------------
(***************************************************************************)
(* Receipts and equivalence.                                               *)
(***************************************************************************)

Body(r) == [r EXCEPT !.receipt = None]

\* adoptedPredecessors: the position before, 0 for the first.
Predecessor(records, r) == Latest({q \in records : q.pos < r.pos})

\* A bug: copies without a receipt.
StampWithoutReceipt(k, a) == {[r EXCEPT !.tenant = job[a].target] : r \in verified[a]}

\* stampAdoptionReceipt: metadata of the target's tenant and a fresh receipt.
Stamp(k, a) ==
    {LET stamped == [r EXCEPT !.tenant = job[a].target, !.receipt = None]
     IN  [stamped EXCEPT !.receipt =
             [from |-> job[a].source, digest |-> stamped,
              predecessor |-> IF k = "events" THEN Predecessor(verified[a], r) ELSE None]] :
        r \in verified[a]}

VerifyAdoptionReceipt(r, source) ==
    r.receipt # None /\ r.receipt.from = source /\ r.receipt.digest = Body(r)

\* verifyEventsEquivalent, with the source: containment, then what the tenant added.
ContainsSource(expected, existing) ==
    /\ expected \subseteq existing
    /\ \A r \in existing \ expected : r.pos > Latest(expected)

\* verifyEventsEquivalent, the source gone: an unbroken chain of receipts, then the rest.
IsAdoptedChain(existing, source) ==
    LET adopted == {r \in existing : r.receipt # None}
    IN  /\ adopted # {}
        /\ \A r \in adopted : /\ VerifyAdoptionReceipt(r, source)
                              /\ r.receipt.predecessor = Predecessor(adopted, r)
        /\ \A r \in adopted, q \in existing \ adopted : r.pos < q.pos

\* verifyRecordEquivalent: one record keeps no lineage, it has to be the very one.
IsAdoptedRecord(expected, existing, source) ==
    IF expected # {} THEN existing = expected
                     ELSE \A r \in existing : VerifyAdoptionReceipt(r, source)

Equivalent(k, a, existing) ==
    LET expected == Stamp(k, a)
    IN  /\ \A r \in existing : r.tenant = job[a].target
        /\ IF k # "events" THEN IsAdoptedRecord(expected, existing, job[a].source)
           ELSE IF expected # {} THEN ContainsSource(expected, existing)
           ELSE IsAdoptedChain(existing, job[a].source)

-----------------------------------------------------------------------------
(***************************************************************************)
(* A run: enumeration, fences, and the kinds in turn.                      *)
(***************************************************************************)

Ends(a) == <<job[a].source, job[a].target>>
Goto(a, place) == at' = [at EXCEPT ![a] = place]

\* Only these are still as their runs left them.
Keeping(left) ==
    /\ fresh' = left
    /\ repeats' = {a \in repeats : Ends(a) \in left}

SuccessorOf(k) == IF k = "events" THEN "snapshot" ELSE "state"

\* collectPersistenceIDs: what the events store lists, and explicit ids; then
\* target.Equal(sourceScope) is refused.  A dry run takes no fence.
Begin(a) ==
    /\ at[a] = "ready"
    /\ Goto(a, IF Read("events", job[a].source) = {} /\ ~job[a].explicit THEN "unseen"
               ELSE IF job[a].source = job[a].target THEN "failed"
               ELSE IF job[a].write THEN "fence" ELSE "read")
    /\ repeats' = IF Ends(a) \in fresh THEN repeats \cup {a} ELSE repeats
    /\ UNCHANGED <<fenced, disk, job, kind, verified, outcome, wrote, reread, writes, faults, history, fresh>>

\* A bug: the source first, whichever way the run goes.
SourceFirst(a) ==
    IF holder[job[a].source] = a THEN job[a].target ELSE job[a].source

\* acquireFences: Unscoped first, then by tenant.
NextFence(a) == Min({s \in {job[a].source, job[a].target} : holder[s] # a})

Acquire(a) ==
    /\ at[a] = "fence"
    /\ LET s == NextFence(a)
           other == CHOOSE t \in {job[a].source, job[a].target} : t # s
       IN  /\ holder[s] = None
           /\ holder' = [holder EXCEPT ![s] = a]
           /\ Goto(a, IF holder[other] = a THEN "read" ELSE "fence")
    /\ Keeping({f \in fresh : f = Ends(a) \/ Range(f) \cap Range(Ends(a)) = {}})
    /\ UNCHANGED <<fenced, stored, job, kind, verified, outcome, wrote, reread, writes, faults, history>>

ReleaseAll(a) == holder' = [s \in Scopes |-> IF holder[s] = a THEN None ELSE holder[s]]

\* The kind is settled: the next one, or the end, where the fences are held still.
Settle(a, status) ==
    /\ outcome' = [outcome EXCEPT ![a][kind[a]] = status]
    /\ verified' = [verified EXCEPT ![a] = {}]
    /\ IF status = "failed" \/ kind[a] = "state"
       THEN Goto(a, "end") /\ UNCHANGED kind
       ELSE Goto(a, "read") /\ kind' = [kind EXCEPT ![a] = SuccessorOf(@)]

Deletes(a) == job[a].write /\ job[a].delete /\ kind[a] # "state"

ReadSource(a) ==
    /\ at[a] = "read"
    /\ verified' = [verified EXCEPT ![a] = Read(kind[a], job[a].source)]
    /\ Goto(a, "check")
    /\ UNCHANGED <<fenced, disk, job, kind, outcome, wrote, reread, writes, faults, past>>

\* A bug: a target that exists is taken for adopted.
ClassifyByPresence(a, existing) ==
    IF verified[a] # {} /\ Deletes(a) THEN Goto(a, "delete") /\ UNCHANGED <<kind, verified, outcome>>
    ELSE Settle(a, "already_present")

\* classifyExisting, afterVerifiedEvents.
Classify(a, existing) ==
    IF ~Equivalent(kind[a], a, existing) THEN Settle(a, "failed")
    ELSE IF verified[a] # {} /\ Deletes(a) THEN Goto(a, "reread") /\ UNCHANGED <<kind, verified, outcome>>
    ELSE Settle(a, "already_present")

CheckTarget(a) ==
    /\ at[a] = "check"
    /\ LET existing == Read(kind[a], job[a].target)
       IN  IF existing # {} THEN Classify(a, existing) /\ UNCHANGED wrote
           ELSE IF verified[a] = {} THEN Settle(a, "none") /\ UNCHANGED wrote
           ELSE IF ~job[a].write
                THEN Settle(a, "copied") /\ wrote' = [wrote EXCEPT ![a] = TRUE]
                ELSE Goto(a, "write") /\ UNCHANGED <<kind, verified, outcome, wrote>>
    /\ UNCHANGED <<fenced, disk, job, reread, writes, faults, past>>

\* Events and state are written on condition of genesis, a snapshot is just written.
WriteTarget(a) ==
    /\ at[a] = "write"
    /\ LET k == kind[a]
           target == job[a].target
           kept == {r \in stored[k][target] : r.pos \notin Positions(verified[a])}
       IN  IF k # "snapshot" /\ stored[k][target] # {}
           THEN Goto(a, "recheck") /\ UNCHANGED <<stored, wrote>>
           ELSE /\ stored' = [stored EXCEPT ![k][target] = kept \cup Stamp(k, a)]
                /\ wrote' = [wrote EXCEPT ![a] = TRUE]
                /\ Goto(a, "verify")
    /\ UNCHANGED <<fenced, holder, job, kind, verified, outcome, reread, writes, faults, past>>

\* The conflict is classified, not trusted.
Recheck(a) ==
    /\ at[a] = "recheck"
    /\ LET existing == Read(kind[a], job[a].target)
       IN  IF existing = {} THEN Settle(a, "failed") ELSE Classify(a, existing)
    /\ UNCHANGED <<fenced, disk, job, wrote, reread, writes, faults, past>>

\* verifyEventsMatchBySequence, and the read-back of the other kinds.
VerifyTarget(a) ==
    /\ at[a] = "verify"
    /\ IF Read(kind[a], job[a].target) # Stamp(kind[a], a) THEN Settle(a, "failed")
       ELSE IF Deletes(a) THEN Goto(a, "reread") /\ UNCHANGED <<kind, verified, outcome>>
       ELSE Settle(a, "copied")
    /\ UNCHANGED <<fenced, disk, job, wrote, reread, writes, faults, past>>

\* sameEventsBySequence: the source has to be what was verified.
RereadSource(a) ==
    /\ at[a] = "reread"
    /\ IF Read(kind[a], job[a].source) = verified[a]
       THEN Goto(a, "delete") /\ UNCHANGED <<kind, verified, outcome>>
       ELSE Settle(a, "failed")
    /\ UNCHANGED <<fenced, disk, job, wrote, reread, writes, faults, past>>

\* A bug: everything in the source is deleted.
AllOf(a) == stored[kind[a]][job[a].source]

\* DeleteEvents and DeleteSnapshots take the highest position to delete.
VerifiedOf(a) == {r \in stored[kind[a]][job[a].source] : r.pos <= Latest(verified[a])}

DeleteSource(a) ==
    /\ at[a] = "delete"
    /\ stored' = [stored EXCEPT ![kind[a]][job[a].source] = @ \ VerifiedOf(a)]
    /\ Goto(a, "confirm")
    /\ UNCHANGED <<fenced, holder, job, kind, verified, outcome, wrote, reread, writes, faults, past>>

ConfirmDeletion(a) ==
    /\ at[a] = "confirm"
    /\ Settle(a, IF Read(kind[a], job[a].source) = {} THEN "source_deleted" ELSE "failed")
    /\ UNCHANGED <<fenced, disk, job, wrote, reread, writes, faults, past>>

Failed(a) == \E k \in Kinds : outcome[a][k] = "failed"
Found(a) == \E k \in Kinds : outcome[a][k] # "none"

\* The counters of the report, and the fences released.
Finish(a) ==
    /\ at[a] = "end"
    /\ Goto(a, IF Failed(a) \/ ~Found(a) THEN "failed" ELSE "done")
    /\ ReleaseAll(a)
    /\ fresh' = IF Failed(a) \/ ~Found(a) \/ ~job[a].write THEN fresh ELSE fresh \cup {Ends(a)}
    /\ UNCHANGED <<fenced, stored, job, kind, verified, outcome, wrote, reread, writes, faults, history, repeats>>

Running(a) == at[a] \notin {"ready", "end", "done", "failed", "unseen", "crashed"}

\* A call of a store or of the fence fails.
CallFails(a) ==
    /\ Running(a)
    /\ faults < MaxFaults
    /\ faults' = faults + 1
    /\ outcome' = [outcome EXCEPT ![a][kind[a]] = "failed"]
    /\ Goto(a, "end")
    /\ UNCHANGED <<fenced, disk, job, kind, verified, wrote, reread, writes, history>>
    /\ Keeping({})

\* The process dies; its fences are released.
Crash(a) ==
    /\ Running(a) \/ at[a] = "end"
    /\ faults < MaxFaults
    /\ faults' = faults + 1
    /\ Goto(a, "crashed")
    /\ ReleaseAll(a)
    /\ Keeping({})
    /\ UNCHANGED <<fenced, stored, job, kind, verified, outcome, wrote, reread, writes, history>>

Adopt(a) ==
    \/ Begin(a) \/ Acquire(a) \/ ReadSource(a) \/ CheckTarget(a) \/ WriteTarget(a) \/ Recheck(a)
    \/ VerifyTarget(a) \/ RereadSource(a) \/ DeleteSource(a) \/ ConfirmDeletion(a) \/ Finish(a)

-----------------------------------------------------------------------------
(***************************************************************************)
(* Writers: the aggregate's actor in a scope, and the legacy Migrator.     *)
(***************************************************************************)

\* An aggregate has events and snapshots, or a durable state.
EventSourced == history["events"] # {}

Admitted(s) == fenced => holder[s] = None

\* A write leaves as they were the jobs it does not touch: those of other scopes,
\* and those into s when it appends an event.
Untouched(k, s) == {f \in fresh : s # f[1] /\ (s = f[2] => k = "events")}

Put(k, s, r) ==
    /\ stored' = [stored EXCEPT ![k][s] =
           IF k = "state" THEN {r} ELSE {q \in @ : q.pos # r.pos} \cup {r}]
    /\ history' = [history EXCEPT ![k] = @ \cup {r}]
    /\ Keeping(Untouched(k, s))

\* The actor appends an event, snapshots its state, or stores a new version of it.
ActorWrites(k, s) ==
    /\ writes < MaxWrites
    /\ Admitted(s)
    /\ k = "state" <=> ~EventSourced
    /\ k = "snapshot" => stored["events"][s] # {}
    /\ writes' = writes + 1
    /\ LET recovered == Max({Latest(stored["events"][s]), Latest(stored["snapshot"][s])})
           pos == CASE k = "events" -> recovered + 1
                    [] k = "snapshot" -> Latest(stored["events"][s])
                    [] OTHER -> Latest(stored[k][s]) + 1
       IN  Put(k, s, Record(pos, writes + 1, s, <<>>))
    /\ UNCHANGED <<fenced, holder, runs, reread, faults>>

\* extractLegacyResultingState: field 5, if it is met before a field that is cut short or
\* of a wire type that cannot be skipped, and only the first of that number.
HasLegacyState(r) ==
    LET Unreadable(f) == f.wire \notin {0, 1, 2, 5} \/ ~f.whole
        i == SelectInSeq(r.unknown, LAMBDA f : Unreadable(f) \/ (f.number = 5 /\ f.wire = 2))
    IN  i # 0 /\ ~Unreadable(r.unknown[i]) /\ r.unknown[i].typed

\* stampSnapshotTenant: in a tenant's scope the event has to be the tenant's.
MayStamp(r, s) == s # 0 => r.tenant = s

\* migrateEntity: the state of the last event that carries one.
MigrateEntity(s) ==
    LET legacy == {r \in stored["events"][s] : HasLegacyState(r)}
    IN  {[scope |-> s, snapshot |-> Record(r.pos, r.val, s, <<>>)] :
            r \in {q \in legacy : q.pos = Latest(legacy) /\ MayStamp(q, s)}}

MigratorReads(s) ==
    /\ reread = {}
    /\ Admitted(s)
    /\ MigrateEntity(s) # {}
    /\ reread' = MigrateEntity(s)
    /\ UNCHANGED <<fenced, disk, runs, writes, faults, past>>

MigratorWrites ==
    /\ \E m \in reread : /\ Admitted(m.scope)
                         /\ Put("snapshot", m.scope, m.snapshot)
    /\ reread' = {}
    /\ UNCHANGED <<fenced, holder, runs, writes, faults>>

-----------------------------------------------------------------------------
Next ==
    \/ \E a \in Adopters : Adopt(a) \/ CallFails(a) \/ Crash(a)
    \/ \E k \in Kinds, s \in Scopes : ActorWrites(k, s)
    \/ \E s \in Scopes : MigratorReads(s)
    \/ MigratorWrites

\* A run goes on until it ends; nothing makes an actor write.
Fairness == \A a \in Adopters : WF_vars(Adopt(a))

Spec == Init /\ [][Next]_vars /\ Fairness

-----------------------------------------------------------------------------
(***************************************************************************)
(* Properties.                                                             *)
(***************************************************************************)

Everywhere(k) == UNION {stored[k][s] : s \in Scopes}

(* No event an actor ever wrote is lost, although runs delete what they moved,
   crash, fail and run side by side, and even when actors ignore the fence; the same
   for snapshots, up to a newer one, when they honor it (deleteVerifiedSourceEvents:
   "The newer or rewritten events always stay in the source"). *)
NothingLost ==
    /\ \A r \in history["events"] :
          \E q \in Everywhere("events") : q.pos = r.pos /\ q.val = r.val
    /\ fenced => \A r \in history["snapshot"] :
          \E q \in Everywhere("snapshot") : q.pos >= r.pos

(* What a run found stays true as long as it holds its fences, for each kind: copied
   or already present, the target is the source with the tenant's metadata and what
   the tenant appended; source deleted, the source is empty and the target is not. *)
OutcomesHold ==
    fenced => \A a \in Adopters : at[a] = "end" /\ job[a].write =>
        \A k \in Kinds :
            LET source == Read(k, job[a].source)
                target == Read(k, job[a].target)
            IN  /\ outcome[a][k] \in {"copied", "already_present"} =>
                       \A r \in source : \E q \in target :
                           q.pos = r.pos /\ q.val = r.val /\ q.tenant = job[a].target
                /\ outcome[a][k] = "source_deleted" => source = {} /\ target # {}

(* A run that repeats one that succeeded is a no-op, with the source deleted or not,
   although the tenant's actor appended events: nothing fails and nothing is written
   ("A re-run right after a deleting run is therefore a no-op"). *)
RerunIsNoOp ==
    fenced => \A a \in repeats : at[a] = "end" =>
        /\ ~Failed(a)
        /\ (\E b \in Adopters \ {a} : job[b] = job[a] /\ at[b] = "done") => ~wrote[a]

(* Every run ends, also when two runs move the aggregate in opposite directions: they
   acquire their fences in one order ("so two runs moving data in opposite directions
   cannot deadlock"). *)
EveryRunEnds == \A a \in Adopters : <>(at[a] \in {"done", "failed", "unseen", "crashed"})
=============================================================================

------------------------------ MODULE Entities ------------------------------
(***************************************************************************)
(* The engine's entities: the spawns, with the tenant they bind and the    *)
(* verification of the actor they got, and EraseEntity, beside the         *)
(* commands of Dispatch.                                                   *)
(***************************************************************************)
EXTENDS Dispatch

-----------------------------------------------------------------------------
(***************************************************************************)
(* Spawns.                                                                 *)
(***************************************************************************)

\* spawnTenantScope
SpawnTenantScope(request) ==
    IF ~TenantAware THEN Unscoped
    ELSE IF NewSpawnConfig(request.opts).tenant # "" THEN NewSpawnConfig(request.opts).tenant
    ELSE IF workload.resolver = "single" THEN "t1" ELSE Invalid

\* spawnDependency: in a cluster a behavior has to be serializable, and a pointer.
Placeable(request) ==
    request.behavior = "pointer" \/ (request.behavior \in {"value", "local"} /\ ~workload.cluster)

\* The early returns of the spawns.
SpawnRefusal(request) ==
    IF ~Started(request.node) THEN "not_started"
    ELSE IF ~Placeable(request) THEN "placement"
    ELSE IF SpawnTenantScope(request) = Invalid THEN "tenant_undetermined" ELSE "none"

\* resolveScope in PreStart: an id that is no tenant's ends the spawn.
ResolveScope(scope) == IF ~TenantAware THEN Unscoped ELSE NewTenantID(scope)

Spawned(c, request, phase, pid) ==
    calls' = [calls EXCEPT ![c].request = request, ![c].scope = SpawnTenantScope(request),
                           ![c].phase = phase, ![c].pid = pid]
SpawnFailed(c, request, result) ==
    calls' = [calls EXCEPT ![c].request = request, ![c].phase = "returned", ![c].result = result]

\* SpawnOn, external: a live actor of the name is returned, or refused in a cluster.
CallSpawn(c) ==
    /\ MayCall(c)
    /\ \E request \in workload.requests :
          /\ request.kind = "spawn"
          /\ LET scope == SpawnTenantScope(request)
             IN  IF SpawnRefusal(request) # "none"
                 THEN SpawnFailed(c, request, SpawnRefusal(request)) /\ UNCHANGED actors
                 ELSE IF actors[request.name] # None
                 THEN /\ IF ~workload.cluster THEN Spawned(c, request, "verify", actors[request.name].pid)
                         ELSE IF TenantAware THEN Spawned(c, request, "lookup", None)
                         ELSE SpawnFailed(c, request, "already_exists")
                      /\ UNCHANGED actors
                 ELSE IF ResolveScope(scope) = Invalid
                 THEN SpawnFailed(c, request, "scope_missing") /\ UNCHANGED actors
                 ELSE /\ actors' = [actors EXCEPT ![request.name] = NewActor(ResolveScope(scope), c, NewSpawnConfig(request.opts))]
                      /\ Spawned(c, request, "verify", c)
    /\ UNCHANGED <<schemaVars, clock, workload, mailbox, events, revisions, snapshots, abandoned, erasers, handled>>

\* resolveExistingSpawn
LookUp(c) ==
    /\ calls[c].phase = "lookup"
    /\ LET actor == actors[calls[c].request.name]
       IN  calls' = IF actor = None THEN Return(c, "already_exists")
                    ELSE [calls EXCEPT ![c].phase = "verify", ![c].pid = actor.pid]
    /\ UNCHANGED <<schemaVars, clock, workload, actors, mailbox, events, revisions, snapshots, abandoned, erasers, handled>>

\* A bug: that the actor is bound to a tenant is enough.
AnyBinding(actor, requested) ==
    IF NewTenantContext(requested) = Invalid THEN "mismatch"
    ELSE IF actor.scope = Unscoped THEN "unverified" ELSE "spawned"

\* AnswerTenantBinding and classifyTenantBinding
ClassifyTenantBinding(actor, requested) ==
    IF NewTenantContext(requested) = Invalid THEN "mismatch"
    ELSE IF actor.scope = Unscoped THEN "unverified"
    ELSE IF actor.scope = requested THEN "spawned" ELSE "mismatch"

SpawnedActor(c) == LET actor == actors[calls[c].request.name]
                   IN  IF actor # None /\ actor.pid = calls[c].pid THEN actor ELSE None

\* verifySpawnedTenant: the actor answers between two commands, or not in time.
VerifySpawnedTenant(c) ==
    /\ calls[c].phase = "verify"
    /\ LET actor == SpawnedActor(c)
       IN  IF ~TenantAware THEN calls' = Return(c, "spawned")
           ELSE /\ actor # None /\ actor.stage = "idle"
                /\ calls' = Return(c, ClassifyTenantBinding(actor, calls[c].scope))
    /\ UNCHANGED <<schemaVars, clock, workload, actors, mailbox, events, revisions, snapshots, abandoned, erasers, handled>>

\* A bug: the answer of an actor that is gone is waited for.
TimesOutWhenBusy(c) == SpawnedActor(c) # None /\ SpawnedActor(c).stage # "idle"

QueryFails(c) == SpawnedActor(c) # None => SpawnedActor(c).stage # "idle"

VerifyFails(c) ==
    /\ calls[c].phase = "verify" /\ TenantAware
    /\ QueryFails(c)
    /\ calls' = Return(c, "unverified")
    /\ UNCHANGED <<schemaVars, clock, workload, actors, mailbox, events, revisions, snapshots, abandoned, erasers, handled>>

-----------------------------------------------------------------------------
(***************************************************************************)
(* EraseEntity.                                                            *)
(***************************************************************************)

\* The scope: the tenant the resolver gives, and no administrative one.
EraseScope(request) ==
    IF ~TenantAware THEN Unscoped
    ELSE IF Resolve(request) = Invalid \/ TenantOf(Resolve(request)) = None THEN Invalid
    ELSE NewTenantID(TenantOf(Resolve(request)))

CallErase(c) ==
    /\ MayCall(c)
    /\ \E request \in workload.requests :
          /\ request.kind = "erase"
          /\ calls' = [calls EXCEPT
                 ![c].request = request,
                 ![c].scope = EraseScope(request),
                 ![c].phase = IF Started(request.node) /\ EraseScope(request) # Invalid /\ request.full
                              THEN "latest" ELSE "returned",
                 ![c].result = IF ~Started(request.node) THEN "not_started"
                               ELSE IF EraseScope(request) = Invalid THEN "denied"
                               ELSE IF request.full THEN None ELSE "erased"]
    /\ UNCHANGED <<schemaVars, clock, workload, actors, mailbox, events, revisions, snapshots, abandoned, erasers, handled>>

\* One store call each: the latest event, the events up to it, the snapshots up to it.
EraseSteps(c) ==
    /\ calls[c].phase \in {"latest", "events", "snapshots"}
    /\ LET scope == calls[c].scope
           name == calls[c].request.name
           by == <<scope, TenantOf(IF TenantAware THEN Resolve(calls[c].request) ELSE ZeroContext)>>
       IN  \/ /\ calls[c].phase = "latest"
              /\ calls' = IF events[scope][name] = <<>> THEN Return(c, "erased")
                          ELSE [calls EXCEPT ![c].phase = "events", ![c].revision = Len(events[scope][name])]
              /\ UNCHANGED <<events, snapshots, erasers>>
           \/ /\ calls[c].phase = "events"
              /\ events' = [events EXCEPT ![scope][name] = SubSeq(@, calls[c].revision + 1, Len(@))]
              /\ erasers' = erasers \cup {by}
              /\ calls' = [calls EXCEPT ![c].phase = "snapshots"]
              /\ UNCHANGED snapshots
           \/ /\ calls[c].phase = "snapshots"
              /\ snapshots' = snapshots \ {<<scope, name>>}
              /\ erasers' = erasers \cup {by}
              /\ calls' = Return(c, "erased")
              /\ UNCHANGED events
    /\ UNCHANGED <<schemaVars, clock, workload, actors, mailbox, revisions, abandoned, handled>>

EraseFails(c) ==
    /\ calls[c].phase \in {"latest", "events", "snapshots"}
    /\ failures < MaxFailures
    /\ failures' = failures + 1
    /\ calls' = Return(c, "failed")
    /\ UNCHANGED <<db, session, migrating, stores, current, before, ran,
                   clock, workload, actors, mailbox, events, revisions, snapshots, abandoned, erasers, handled>>

-----------------------------------------------------------------------------

Step(c) == LookUp(c) \/ VerifySpawnedTenant(c) \/ VerifyFails(c) \/ EraseSteps(c) \/ DispatchGivesUp(c)

Work(n) == Receive(n) \/ HandlerResumes(n) \/ HandlerEnds(n) \/ Persisted(n)

Next ==
    \/ SchemaNext /\ UNCHANGED callVars
    \/ \E c \in Roots : CallDispatch(c) \/ CallSpawn(c) \/ CallErase(c)
    \/ \E c \in Calls : Step(c) \/ CallerCancels(c) \/ EraseFails(c)
    \/ \E n \in Names : Work(n) \/ HandlerCalls(n) \/ HandlerDecides(n) \/ Passivates(n) \/ ActorFails(n)
    \/ Settled /\ Tick

\* Time passes and calls in progress go on; an actor need not answer.
Fairness ==
    /\ WF_vars(Settled /\ Tick)
    /\ \A c \in Calls : WF_vars(Step(c))
    /\ \A n \in Nodes : WF_vars(Migrate(n) /\ UNCHANGED callVars)

Spec == Init /\ [][Next]_vars /\ Fairness

-----------------------------------------------------------------------------
(***************************************************************************)
(* Properties.                                                             *)
(***************************************************************************)

(* What the store holds for a tenant was written by commands of that tenant's callers,
   also through handlers that call other entities; a state is given to callers of the
   tenant it belongs to, and a tenant's records are erased by its own callers.  Tenants
   are resolved by the caller's engine, entities are spawned, stopped and spawned again
   for other tenants by name, and only the gates compare the two. *)
TenantsAreIsolated ==
    TenantAware =>
        /\ \A s \in Tenants, n \in Names : \A c \in Range(events[s][n]) :
              calls[c].tenant = TenantContext("tenant", s)
        /\ \A c \in Calls : calls[c].result = "success" => calls[c].tenant = TenantContext("tenant", calls[c].scope)
        /\ \A e \in erasers : e[1] = e[2]
        /\ \A r \in Roots : calls[Nested[r]].phase # "idle" /\ calls[Nested[r]].tenant # None =>
              calls[Nested[r]].tenant = calls[r].tenant

\* What the calls made for a call, itself included, were refused with by their stores.
Raised(c) == {calls[d].raised : d \in {c} \cup Children(c)} \ {None}

(* Results tell the truth: a success with events was persisted, a rejected command
   wrote nothing, and neither did one refused at the door.  Only failures and calls
   given up while they waited leave it open.  Whom a store refused is told so, with the
   conflict the store found, whatever the persistence id has in it, although the reply
   is text; and a conflict that a result reports was found by a store, for the call or
   for one its handler made. *)
OutcomesAreTrue ==
    \A c \in Calls :
        /\ calls[c].result \in {"rejected", "denied", "invalid_metadata", "unreachable"} => ~calls[c].persisted
        /\ calls[c].result \in {"timed_out", "canceled"} /\ c \notin abandoned => ~calls[c].persisted
        /\ calls[c].persisted /\ calls[c].result = "success" => calls[c].revision > 0
        /\ calls[c].raised # None /\ c \notin abandoned =>
              calls[c].result = "rejected" /\ calls[c].cause = calls[c].raised
        /\ calls[c].result = "rejected" => calls[c].cause \in Raised(c)

(* The handler is given the metadata that was dispatched, and one that calls another
   entity, with options of its own or not, passes on its correlation, its tenant and a
   deadline that is not later than its own, never its revision.  A tenant context that
   no constructor built is the exception: it is left out. *)
MetadataSurvives ==
    /\ \A c \in Calls : handled[c] # None =>
          handled[c] = [calls[c].md EXCEPT !.tenant = IF @ = ZeroContext THEN None ELSE @]
    /\ \A r \in Roots : handled[Nested[r]] # None =>
          /\ handled[Nested[r]].correlation = handled[r].correlation
          /\ handled[Nested[r]].causation = handled[r].op
          /\ handled[r].tenant # None => handled[Nested[r]].tenant = handled[r].tenant
          /\ handled[r].deadline # None => handled[Nested[r]].deadline <= handled[r].deadline
          /\ workload.derives = {} => handled[Nested[r]].revision = None
          /\ calls[Nested[r]].due <= calls[r].due

(* A spawn that succeeded got an actor bound to the tenant it declared, although the
   name may have been spawned by another call, for another tenant or on another node. *)
SpawnsAreVerified ==
    \A c \in Roots : TenantAware /\ calls[c].result = "spawned" /\ SpawnedActor(c) # None =>
        SpawnedActor(c).scope = calls[c].scope

(* Once Dispatch has told its caller that it gave up, the handler is not started any
   more and nothing is handed to the writer: the message's context ends with the call,
   and the actor looks at it before the handler and before persistence. *)
AbandonedIsDropped ==
    [][\A c \in Calls : calls[c].phase = "returned" =>
          /\ handled'[c] = handled[c]
          /\ \A n \in Names : actors'[n] # None /\ actors'[n].busy = c /\ actors'[n].stage = "persisting"
                 => actors[n] # None /\ actors[n].busy = c /\ actors[n].stage = "persisting"]_vars

(* Every call returns: entities that wait for each other, and for an actor that is
   gone, wait until the deadline. *)
CallsEnd == \A c \in Calls : (calls[c].phase \in Waiting) ~> (calls[c].phase = "returned")
=============================================================================

------------------------------ MODULE Dispatch ------------------------------
(***************************************************************************)
(* The calls an application makes of a started engine about its entities:  *)
(* Dispatch and SendCommand, also from within a handler, the spawns and    *)
(* EraseEntity, with their deadlines, cancellation and tenants.  An entity *)
(* is what its gates are: how it writes its events is DirectEntity.        *)
(*                                                                         *)
(* The engines are the nodes of SchemaMigrator, which start by migrating.  *)
(***************************************************************************)
EXTENDS SchemaMigrator, Replies

CONSTANTS
    Names,          \* entities
    IdText,         \* per entity: the text of its persistence id
    Roots,          \* calls an application makes
    Nested,         \* per root call: the call its handler makes
    Workloads,      \* deployments, and what is called
    MaxTime

ASSUME DispatchAssumption == MaxTime \in Nat /\ MaxTime < Year10000

Calls == Roots \cup {Nested[r] : r \in Roots}
Unscoped == "unscoped"
Scopes == Tenants \cup {Unscoped}

VARIABLES
    clock,
    workload,       \* resolver, cluster, requests, who calls, whose handlers call
    actors,         \* per entity: the live actor, None
    mailbox,        \* per entity: calls
    events,         \* per scope and entity: the calls that wrote an event
    revisions,      \* per scope and entity: the last sequence number
    snapshots,      \* <<scope, entity>> that have a snapshot
    calls,
    abandoned,      \* history: calls that returned before their handler was done
    erasers,        \* history: <<scope, tenant>> of the deletions
    handled         \* history: per call, the metadata its handler was given

callVars == <<clock, workload, actors, mailbox, events, revisions, snapshots, calls, abandoned, erasers, handled>>
vars == <<schemaVars, callVars>>

Waiting == {"sent", "latest", "events", "snapshots", "lookup", "verify"}
Untold == [phase |-> "idle", request |-> None, md |-> None, tenant |-> None, due |-> 0, err |-> "none",
           scope |-> None, pid |-> None, result |-> None, revision |-> None, persisted |-> FALSE,
           message |-> <<>>, cause |-> None, raised |-> None]

-----------------------------------------------------------------------------
(***************************************************************************)
(* Spawn options.                                                          *)
(***************************************************************************)

\* A later option overrides an earlier one, and a nil one is skipped.
ApplySpawnOption(settings, option) ==
    CASE option.with = "nil" -> settings
      [] option.with = "adapter" -> [settings EXCEPT !.adapter = (option.key :> option.value) @@ @]
      [] OTHER -> [settings EXCEPT ![option.with] = option.value]

ResolveSpawnOptions(opts) ==
    FoldLeft(ApplySpawnOption,
             [passivateAfter |-> 0, relocation |-> FALSE, directive |-> "restart", placement |-> "RoundRobin",
              tenant |-> "", adapter |-> <<>>], opts)

\* newSpawnConfig, and with it the options of the actor: the adapter's settings have
\* the value 0 when they are not set.
NewSpawnConfig(opts) ==
    LET settings == ResolveSpawnOptions(opts)
        AdapterSetting(key) == IF key \in DOMAIN settings.adapter THEN settings.adapter[key] ELSE 0
    IN  [passivates |-> settings.passivateAfter > 0, relocates |-> settings.relocation,
         restarts |-> settings.directive # "stop", tenant |-> settings.tenant,
         batching |-> AdapterSetting("batchThreshold") > 0]

NewActor(scope, pid, config) == [scope |-> scope, pid |-> pid, config |-> config, busy |-> None, stage |-> "idle"]

DispatchInit ==
    /\ workload \in Workloads
    /\ clock = 0
    /\ actors = [n \in Names |-> IF workload.alive[n] = None THEN None ELSE NewActor(workload.alive[n], "boot", NewSpawnConfig(<<>>))]
    /\ mailbox = [n \in Names |-> <<>>]
    /\ events = [s \in Scopes |-> [n \in Names |-> <<>>]]
    /\ revisions = [s \in Scopes |-> [n \in Names |-> 0]]
    /\ snapshots = {}
    /\ calls = [c \in Calls |-> Untold]
    /\ abandoned = {}
    /\ erasers = {}
    /\ handled = [c \in Calls |-> None]

Init == DispatchInit /\ SchemaInit(workload.databases, workload.engines)

TenantAware == workload.resolver # "none"
Started(n) == migrating[n] = "started"

\* Users call once every engine has started or was refused.
Settled == \A n \in Nodes : migrating[n] \in {"started", "refused"}

Return(c, result) == [calls EXCEPT ![c].phase = "returned", ![c].result = result]

\* What Dispatch says itself of a call that it refuses or gives up.
OwnWords == <<"command: ">>

-----------------------------------------------------------------------------
(***************************************************************************)
(* Dispatch and SendCommand.                                               *)
(***************************************************************************)

\* The least of the context's deadline, the metadata's and the timeout.
EffectiveDeadline(request, md) ==
    Min({clock + request.timeout} \cup ({md.deadline, request.deadline} \ {None}))

\* TenantResolver.Resolve, external: one fixed tenant, or what the request says.
Resolve(request) == IF workload.resolver = "single" THEN NewTenantContext("t1") ELSE request.who

\* Dispatch up to SendSync: its early returns, in order.
Admission(request, md, bound) ==
    IF ~Started(request.node) THEN "not_started"
    ELSE IF request.name = "" THEN "undefined_entity"
    ELSE IF request.payload = "binding_query" THEN "not_a_command"
    ELSE IF request.payload = "nil" THEN "invalid_envelope"
    ELSE IF UnmarshalMetadata(MarshalMetadata(md)) = Invalid THEN "invalid_metadata"
    ELSE IF request.context = "canceled" THEN "canceled"
    ELSE IF request.context = "deadline" \/ EffectiveDeadline(request, md) <= clock THEN "timed_out"
    ELSE IF TenantAware /\ (Resolve(request) = Invalid \/ Attach(bound, Resolve(request)) = Invalid) THEN "denied"
    ELSE "admitted"

\* SendSync to an entity that is not there fails at once.
Send(c, request, md, bound) ==
    LET admission == Admission(request, md, bound)
        asked == [calls[c] EXCEPT !.request = request, !.md = md]
    IN  IF admission = "admitted" /\ actors[request.name] # None
        THEN /\ calls' = [calls EXCEPT ![c] =
                    [asked EXCEPT !.phase = "sent", !.due = EffectiveDeadline(request, md),
                                  !.tenant = IF TenantAware THEN Resolve(request) ELSE None]]
             /\ mailbox' = [mailbox EXCEPT ![request.name] = Append(@, c)]
        ELSE /\ calls' = [calls EXCEPT ![c] =
                    [asked EXCEPT !.phase = "returned",
                                  !.message = OwnWords,
                                  !.result = IF admission = "admitted" THEN "unreachable" ELSE admission]]
             /\ UNCHANGED mailbox

\* deriveMetadata of SendCommand, in a handler's context or not.
DeriveMetadata(c, parent) ==
    IF parent = None
    THEN NewMetadata(<<"op", c>>, [correlation |-> None, principal |-> None, custom |-> <<>>,
                                   timestamp |-> clock] @@ NoOptions)
    ELSE Derive(parent, <<"op", c>>, clock, NoOptions)

MayCall(c) == Settled /\ c \in workload.callers /\ calls[c].phase = "idle"

CallDispatch(c) ==
    /\ MayCall(c)
    /\ \E request \in workload.requests :
          /\ request.kind \in {"dispatch", "send"}
          /\ clock + request.timeout <= MaxTime
          /\ LET md == IF request.kind = "send" THEN DeriveMetadata(c, None)
                       ELSE NewMetadata(request.op, request.options)
             IN  IF md = Invalid
                 THEN calls' = Return(c, "invalid_metadata") /\ UNCHANGED mailbox
                 ELSE Send(c, request, md, None)
    /\ UNCHANGED <<schemaVars, clock, workload, actors, events, revisions, snapshots, abandoned, erasers, handled>>

\* A handler calls SendCommand with the context it was given, or Dispatch with metadata
\* it derived from its own.
HandlerCalls(n) ==
    /\ actors[n] # None /\ actors[n].stage = "handling"
    /\ LET c == actors[n].busy
       IN  /\ c \in workload.nests
           /\ calls[Nested[c]].phase = "idle"
           /\ \E target \in Names, who \in {calls[c].request.who, ZeroContext},
                 options \in {NoOptions} \cup workload.derives :
                 LET md == IF options = NoOptions THEN DeriveMetadata(Nested[c], handled[c])
                           ELSE Derive(handled[c], <<"op", Nested[c]>>, clock, options)
                 IN  IF md = Invalid
                     THEN /\ calls' = [calls EXCEPT ![Nested[c]].phase = "returned", ![Nested[c]].message = OwnWords,
                                                   ![Nested[c]].result = "invalid_metadata"]
                          /\ UNCHANGED mailbox
                     ELSE Send(Nested[c],
                               [calls[c].request EXCEPT !.kind = "dispatch", !.name = target, !.payload = "command",
                                    !.who = who, !.context = calls[c].err, !.deadline = calls[c].due],
                               md, calls[c].tenant)
    /\ actors' = [actors EXCEPT ![n].stage = "calling"]
    /\ UNCHANGED <<schemaVars, clock, workload, events, revisions, snapshots, abandoned, erasers, handled>>

HandlerResumes(n) ==
    /\ actors[n] # None /\ actors[n].stage = "calling"
    /\ calls[Nested[actors[n].busy]].phase = "returned"
    /\ actors' = [actors EXCEPT ![n].stage = "handling"]
    /\ UNCHANGED <<schemaVars, clock, workload, mailbox, events, revisions, snapshots, calls, abandoned, erasers, handled>>

Children(c) == IF c \in Roots THEN {Nested[c]} ELSE {}

\* The contexts of a call and of those made with it are done.
Done(c, err) ==
    [d \in Calls |-> IF d \in {c} \cup Children(c) /\ calls[d].err = "none" /\ calls[d].phase # "idle"
                     THEN [calls[d] EXCEPT !.err = err] ELSE calls[d]]

\* The caller cancels its context while it waits, or its time is up: Dispatch returns,
\* and its deferred cancel ends the context of the message.
DispatchGivesUp(c) ==
    /\ calls[c].phase = "sent"
    /\ calls[c].err # "none"
    /\ calls' = [Done(c, "canceled") EXCEPT ![c].phase = "returned", ![c].message = OwnWords,
                     ![c].result = IF calls[c].err = "canceled" THEN "canceled" ELSE "timed_out"]
    /\ abandoned' = abandoned \cup {c}
    /\ UNCHANGED <<schemaVars, clock, workload, actors, mailbox, events, revisions, snapshots, erasers, handled>>

CallerCancels(c) ==
    /\ calls[c].phase = "sent" /\ calls[c].request.cancels
    /\ calls' = Done(c, "canceled")
    /\ calls' # calls
    /\ UNCHANGED <<schemaVars, clock, workload, actors, mailbox, events, revisions, snapshots, abandoned, erasers, handled>>

Tick ==
    /\ clock < MaxTime
    /\ clock' = clock + 1
    /\ calls' = [c \in Calls |-> IF calls[c].phase # "idle" /\ calls[c].due > 0 /\ calls[c].due <= clock'
                                    /\ calls[c].err = "none"
                                 THEN [calls[c] EXCEPT !.err = "deadline"] ELSE calls[c]]
    /\ UNCHANGED <<schemaVars, workload, actors, mailbox, events, revisions, snapshots, abandoned, erasers, handled>>

-----------------------------------------------------------------------------
(***************************************************************************)
(* The entity's side: the gates of processCommandAndReply.                 *)
(***************************************************************************)

\* A bug: a tenant has to be there, whichever it is.
TenantPresent(c, actor) == TenantAware => Require(calls[c].tenant) # Invalid

\* T4-A: the tenant of the message is the one the actor is bound to.
TenantGate(c, actor) ==
    TenantAware => /\ Require(calls[c].tenant) # Invalid
                   /\ VerifyUnchanged(NewTenantContext(actor.scope), calls[c].tenant)

\* CheckDeadline
CheckDeadline(c) == calls[c].err

\* The reply, to a caller that is still there, and the next message.
ReplyTo(n, c, result, revision, wrote) ==
    /\ calls' = [calls EXCEPT
           ![c].phase = "returned",
           ![c].result = IF @ = None THEN result.outcome ELSE @,
           ![c].message = IF calls[c].result = None THEN result.message ELSE @,
           ![c].cause = IF calls[c].result = None THEN result.cause ELSE @,
           ![c].revision = IF calls[c].result = None THEN revision ELSE @,
           ![c].raised = result.raised,
           ![c].scope = actors[n].scope,
           ![c].persisted = wrote]
    /\ actors' = [actors EXCEPT ![n].stage = "idle", ![n].busy = None]

NewSuccess == [outcome |-> "success", raised |-> None] @@ NewFailure(<<>>, None)

ReplyError(n, c, message, wrote) ==
    ReplyTo(n, c, [raised |-> None] @@ ResultFromReply(message), None, wrote)

\* The text of CheckDeadline's error.
DeadlineText(err) == IF err = "canceled" THEN ErrActorContextCanceled ELSE ErrActorDeadlineExceeded

\* The context carries the metadata as a Carrier, which the entity reads.
MetadataFromContext(md) == UnmarshalMetadata(MarshalMetadata(md))

Receive(n) ==
    /\ actors[n] # None /\ actors[n].stage = "idle" /\ mailbox[n] # <<>>
    /\ LET c == Head(mailbox[n])
       IN  IF ~TenantGate(c, actors[n])
           THEN ReplyError(n, c, <<"tenancy: ">>, FALSE) /\ UNCHANGED handled
           ELSE IF CheckDeadline(c) # "none"
           THEN ReplyError(n, c, DeadlineText(CheckDeadline(c)), FALSE) /\ UNCHANGED handled
           ELSE /\ actors' = [actors EXCEPT ![n].stage = "handling", ![n].busy = c]
                /\ handled' = [handled EXCEPT ![c] = MetadataFromContext(calls[c].md)]
                /\ UNCHANGED calls
    /\ mailbox' = [mailbox EXCEPT ![n] = Tail(@)]
    /\ UNCHANGED <<schemaVars, clock, workload, events, revisions, snapshots, abandoned, erasers>>

\* What a handler may refuse with: nothing said, or the error of the call it made, as it
\* is or in words of its own.
Refusals(c) ==
    LET inner == IF c \in Roots THEN calls[Nested[c]] ELSE Untold
    IN  {<<>>} \cup (IF inner.phase = "returned" /\ inner.result # "success"
                     THEN {ErrorOf(inner), <<"transfer: ">> \o ErrorOf(inner)} ELSE {})

\* The handler refuses, or has no events.
HandlerEnds(n) ==
    /\ actors[n] # None /\ actors[n].stage = "handling"
    /\ LET c == actors[n].busy
       IN  \/ \E message \in Refusals(c) : ReplyError(n, c, message, FALSE)
           \/ ReplyTo(n, c, NewSuccess, revisions[actors[n].scope][n], FALSE)
    /\ UNCHANGED <<schemaVars, clock, workload, mailbox, events, revisions, snapshots, abandoned, erasers, handled>>

\* A bug: what the handler took too long for is persisted.
PersistAnyway(c) == TRUE

PersistGate(c) == CheckDeadline(c) = "none"

\* It has events: the gates before persistence, and the events go to the writer.
HandlerDecides(n) ==
    /\ actors[n] # None /\ actors[n].stage = "handling"
    /\ LET c == actors[n].busy
       IN  IF PersistGate(c)
           THEN actors' = [actors EXCEPT ![n].stage = "persisting"] /\ UNCHANGED calls
           ELSE ReplyError(n, c, DeadlineText(CheckDeadline(c)), FALSE)
    /\ UNCHANGED <<schemaVars, clock, workload, mailbox, events, revisions, snapshots, abandoned, erasers, handled>>

\* PreconditionFromRevision against the store's revision.
PreconditionHolds(c, n) ==
    handled[c].revision = None \/ handled[c].revision = revisions[actors[n].scope][n]

\* The error of a store whose compare failed; it may not have learnt the revision.
Conflicts(c, n) ==
    {NewConflictError(actors[n].scope, IdText[n],
                      IF handled[c].revision = 0 THEN "genesis" ELSE ToString(handled[c].revision), actual) :
        actual \in {None, revisions[actors[n].scope][n]}}

\* The store commits, refuses, or answers with an error after either.
Persisted(n) ==
    /\ actors[n] # None /\ actors[n].stage = "persisting"
    /\ LET c == actors[n].busy
           scope == actors[n].scope
           Commits == /\ events' = [events EXCEPT ![scope][n] = Append(@, c)]
                      /\ revisions' = [revisions EXCEPT ![scope][n] = @ + 1]
                      /\ snapshots' = snapshots \cup {<<scope, n>>}
       IN  IF ~PreconditionHolds(c, n)
           THEN /\ \E conflict \in Conflicts(c, n) :
                       ReplyTo(n, c, [raised |-> conflict] @@ ResultFromReply(ConflictText(conflict)), None, FALSE)
                /\ UNCHANGED <<events, revisions, snapshots, failures>>
           ELSE \/ /\ Commits
                   /\ ReplyTo(n, c, NewSuccess, revisions[scope][n] + 1, TRUE)
                   /\ UNCHANGED failures
                \/ /\ failures < MaxFailures /\ failures' = failures + 1
                   /\ Commits
                   /\ ReplyError(n, c, <<"store: ">>, TRUE)
                \/ /\ failures < MaxFailures /\ failures' = failures + 1
                   /\ ReplyError(n, c, <<"store: ">>, FALSE)
                   /\ UNCHANGED <<events, revisions, snapshots>>
    /\ UNCHANGED <<db, session, migrating, stores, current, before, ran,
                   clock, workload, mailbox, abandoned, erasers, handled>>

\* Passivation: an actor that had nothing to do is gone.
Passivates(n) ==
    /\ actors[n] # None /\ actors[n].config.passivates
    /\ actors[n].stage = "idle" /\ mailbox[n] = <<>>
    /\ actors' = [actors EXCEPT ![n] = None]
    /\ UNCHANGED <<schemaVars, clock, workload, mailbox, events, revisions, snapshots, calls, abandoned, erasers, handled>>

\* An actor of the same configuration and binding starts again under another pid.
Again(n) == NewActor(actors[n].scope, "again", actors[n].config)

\* The node that hosts it leaves, or the handler panics: what it had not handled is lost
\* with the node, and with an actor that its supervisor stops.
ActorFails(n) ==
    /\ actors[n] # None
    /\ failures < MaxFailures
    /\ failures' = failures + 1
    /\ \/ /\ actors' = [actors EXCEPT ![n] = IF workload.cluster /\ @.config.relocates THEN Again(n) ELSE None]
          /\ mailbox' = [mailbox EXCEPT ![n] = <<>>]
       \/ /\ actors[n].stage = "handling"
          /\ actors' = [actors EXCEPT ![n] = IF @.config.restarts THEN [Again(n) EXCEPT !.pid = actors[n].pid] ELSE None]
          /\ mailbox' = IF actors[n].config.restarts THEN mailbox ELSE [mailbox EXCEPT ![n] = <<>>]
    /\ UNCHANGED <<db, session, migrating, stores, current, before, ran,
                   clock, workload, events, revisions, snapshots, calls, abandoned, erasers, handled>>
=============================================================================

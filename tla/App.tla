-------------------------------- MODULE App ---------------------------------
(***************************************************************************)
(* A deployment composed from a Spec: the single-use lifecycle.Sequence    *)
(* with its five steps, rollback and Stop, over the engine.  Users reach   *)
(* the engine once Start has succeeded: they subscribe, add a publisher of *)
(* their own and may stop the engine themselves.                           *)
(***************************************************************************)
EXTENDS Engine, Composition

CONSTANTS
    Deployments,    \* what New may be given, and what users do with the engine
    Extra,          \* publishers of the users
    ExtraKind,      \* and what they are
    MaxFaults

ASSUME AppAssumption ==
    /\ Extra \subseteq EventPublishers
    /\ Stoppers = {"app", "user"}
    /\ MaxFaults \in Nat

VARIABLES
    spec,
    users,          \* what users do: "subscribe", "add", "stop", have entities "publish"
    config,         \* a.config
    life,           \* Sequence.state
    at,             \* the step Start, Stop or the rollback is at
    stepsStarted,   \* Sequence.started
    release,        \* does the clean-up release the publishers?
    canceled,       \* the context of Start
    running,        \* the actor system
    projecting,     \* projections running on it
    projections,    \* a.projections
    flags,          \* a.eventsAttached, a.statesAttached
    published,      \* the engine handed out: "no", "due" or "yes"
    faults,
    troubled        \* history: something failed, panicked or was canceled

appVars == <<spec, users, config, life, at, stepsStarted, release, canceled, running, projecting, projections,
             flags, published, faults, troubled>>
vars == <<engineVars, appVars>>

Idle == <<"idle">>

\* Go panics on a nil adapter: one that is set is called.
Owned(publishers) == {publishers[i].name : i \in DOMAIN publishers}
OwnedPublishers == Owned(spec.events) \cup Owned(spec.states)
NamesOf(publishers) == [i \in DOMAIN publishers |-> publishers[i].name]

\* What the consumer has to build; the users' own are built elsewhere.
ToBuild == NamesOf(spec.events) \o NamesOf(spec.states)
KindOf(p) ==
    IF p \in OwnedPublishers THEN (CHOOSE o \in Range(spec.events \o spec.states) : o.name = p).kind ELSE ExtraKind

\* New: both validations; what it refuses stays the consumer's.
Accepts(s) == Validate(s) \cup ValidateOptions(s) = {}

Init ==
    /\ EngineInit
    /\ \E d \in Deployments : spec = d.spec /\ users = d.users
    /\ PublishersInit([p \in Publishers |-> KindOf(p)], Extra)
    /\ life = "building"
    /\ config = None
    /\ at = Idle
    /\ stepsStarted = 0
    /\ release = FALSE
    /\ canceled = FALSE
    /\ running = FALSE
    /\ projecting = {} /\ projections = <<>>
    /\ flags = {}
    /\ published = "no"
    /\ faults = 0
    /\ troubled = FALSE

-----------------------------------------------------------------------------
(***************************************************************************)
(* Start.                                                                  *)
(***************************************************************************)

\* The consumer builds the publishers, one after the other; a failure ends it.
Build ==
    /\ life = "building"
    /\ \E i \in DOMAIN ToBuild, ok \in BOOLEAN :
          /\ ~open[ToBuild[i]] /\ \A j \in 1..(i - 1) : open[ToBuild[j]]
          /\ ok \/ faults < MaxFaults
          /\ NewPublisher(ToBuild[i], ok)
          /\ life' = IF ok THEN life ELSE "unbuilt"
    /\ UNCHANGED <<streamVars, started, detached, addVars, loopVars, stopVars, messages,
                   spec, users, config, at, stepsStarted, release, canceled, running, projecting, projections,
                   flags, published, faults, troubled>>

Composed ==
    /\ life = "building"
    /\ \A p \in OwnedPublishers : open[p]
    /\ life' = IF Accepts(spec) THEN "new" ELSE "refused"
    /\ UNCHANGED <<engineVars, spec, users, config, at, stepsStarted, release, canceled, running, projecting,
                   projections, flags, published, faults, troubled>>

StepNames == <<"probe", "system", "engine", "attach", "projections">>

StartCalled ==
    /\ life = "new" /\ at = Idle
    /\ life' = "starting"
    /\ at' = <<"start", 1>>
    /\ UNCHANGED <<engineVars, spec, users, config, stepsStarted, release, canceled, running, projecting, projections,
                   flags, published, faults, troubled>>

\* The next step, or the end of Start.
Advance ==
    /\ stepsStarted' = stepsStarted + 1
    /\ at' = IF stepsStarted' = Len(StepNames) THEN Idle ELSE <<"start", stepsStarted' + 1>>
    /\ life' = IF stepsStarted' = Len(StepNames) THEN "running" ELSE life
    /\ published' = IF stepsStarted' = Len(StepNames) THEN "due" ELSE published
    /\ UNCHANGED release

\* A bug: the last step that started is taken for the one that failed.
RollBackFromFailed ==
    /\ at' = <<"undo", IF stepsStarted = 0 THEN 0 ELSE stepsStarted - 1>>
    /\ release' = TRUE
    /\ UNCHANGED <<stepsStarted, life, published>>

\* A step failed: the steps before it are undone, then the publishers released.
RollBack ==
    /\ at' = <<"undo", stepsStarted>>
    /\ release' = TRUE
    /\ UNCHANGED <<stepsStarted, life, published>>

At(name) == at[1] = "start" /\ StepNames[at[2]] = name /\ ~canceled

ProbeStores ==
    /\ At("probe")
    /\ Advance
    /\ UNCHANGED <<engineVars, spec, users, config, canceled, running, projecting, projections, flags, faults, troubled>>

StartActorSystem ==
    /\ At("system")
    /\ config' = EngineConfig(spec)
    /\ running' = TRUE
    /\ Advance
    /\ UNCHANGED <<engineVars, spec, users, canceled, projecting, projections, flags, faults, troubled>>

StartEngine ==
    /\ At("engine")
    /\ IF EngineAccepts(config, Extensions(config))
       THEN started' = TRUE /\ Advance
       ELSE RollBack /\ UNCHANGED started
    /\ UNCHANGED <<streamVars, detached, addVars, loopVars, stopVars, publisherVars, messages,
                   spec, users, config, canceled, running, projecting, projections, flags, faults, troubled>>

\* The kind attached next: StartAndProbe has gone through, the events come first.
Attaching ==
    IF "events" \notin flags /\ spec.events # <<>> THEN "events"
    ELSE IF "states" \notin flags /\ spec.states # <<>> THEN "states" ELSE "none"
Batch == NamesOf(IF Attaching = "events" THEN spec.events ELSE spec.states)

AttachBegins ==
    /\ At("attach")
    /\ Attaching # "none"
    /\ IF DuplicateIds(Batch)
       THEN RollBack /\ UNCHANGED addVars
       ELSE /\ AddBegins(Batch)
            /\ at' = <<"attaching", Attaching>>
            /\ UNCHANGED <<stepsStarted, life, release, published>>
    /\ UNCHANGED <<streamVars, started, detached, loopVars, stopVars, publisherVars, messages,
                   spec, users, config, canceled, running, projecting, projections, flags, faults, troubled>>

AttachEnds ==
    /\ at[1] = "attaching" /\ lock = <<>>
    /\ flags' = flags \cup {at[2]}
    /\ at' = <<"start", 4>>
    /\ UNCHANGED <<engineVars, spec, users, config, life, stepsStarted, release, canceled, running, projecting, projections,
                   published, faults, troubled>>

Attached ==
    /\ At("attach")
    /\ Attaching = "none"
    /\ Advance
    /\ UNCHANGED <<engineVars, spec, users, config, canceled, running, projecting, projections, flags, faults, troubled>>

\* One projection after the other, by name; those left out were none.
StartProjection ==
    /\ At("projections")
    /\ \E n \in config.projections \ Range(projections) :
          IF ProjectionStarts(config, n)
          THEN /\ projecting' = projecting \cup {n}
               /\ projections' = Append(projections, n)
               /\ UNCHANGED <<at, life, stepsStarted, release, published>>
          ELSE projecting' = {} /\ projections' = <<>> /\ RollBack
    /\ UNCHANGED <<engineVars, spec, users, config, canceled, running, flags, faults, troubled>>

ProjectionsStarted ==
    /\ At("projections")
    /\ Range(projections) = config.projections
    /\ Advance
    /\ UNCHANGED <<engineVars, spec, users, config, canceled, running, projecting, projections, flags, faults, troubled>>

\* The step at hand fails and undoes its own work: the context is done, a store or a
\* publisher does not answer, the actor system does not start, a projection does not.
StepFails ==
    /\ at[1] = "start"
    /\ canceled \/ faults < MaxFaults
    /\ faults' = IF canceled THEN faults ELSE faults + 1
    /\ troubled' = TRUE
    /\ projecting' = {} /\ projections' = <<>>
    /\ RollBack
    /\ UNCHANGED <<engineVars, spec, users, config, canceled, running, flags>>

\* It panics: the sequence is rolled back, the step's own work is not.
StepPanics ==
    /\ at[1] = "start"
    /\ ~canceled /\ faults < MaxFaults
    /\ faults' = faults + 1
    /\ troubled' = TRUE
    /\ RollBack
    /\ UNCHANGED <<engineVars, spec, users, config, canceled, running, projecting, projections, flags>>

Cancel ==
    /\ life = "starting" /\ at[1] # "undo"
    /\ ~canceled /\ canceled' = TRUE
    /\ UNCHANGED <<engineVars, spec, users, config, life, at, stepsStarted, release, running, projecting, projections,
                   flags, published, faults, troubled>>

\* a.published: after the sequence let its mutex go, so Stop may have come first.
HandOut ==
    /\ published = "due"
    /\ published' = "yes"
    /\ UNCHANGED <<engineVars, spec, users, config, life, at, stepsStarted, release, canceled, running, projecting,
                   projections, flags, faults, troubled>>

-----------------------------------------------------------------------------
(***************************************************************************)
(* Stop and roll-back: the steps in reverse, every one attempted.          *)
(***************************************************************************)

\* Stop waits for the sequence's mutex; it releases only what was never started.
StopCalled ==
    /\ at = Idle
    /\ life \in {"new", "running"}
    /\ life' = "stopping"
    /\ release' = (life = "new")
    /\ at' = <<"undo", stepsStarted>>
    /\ UNCHANGED <<engineVars, spec, users, config, stepsStarted, canceled, running, projecting, projections,
                   flags, published, faults, troubled>>

Undoing(name) == at[1] = "undo" /\ at[2] > 0 /\ StepNames[at[2]] = name
Undone == at' = <<"undo", at[2] - 1>>

\* Kill of a projection through the engine, which may have been stopped by a user.
StopProjections ==
    /\ Undoing("projections")
    /\ projecting' = IF started THEN projecting \ Range(projections) ELSE projecting
    /\ projections' = <<>>
    /\ Undone
    /\ UNCHANGED <<engineVars, spec, users, config, life, stepsStarted, release, canceled, running, flags, published, faults, troubled>>

StopEngine ==
    /\ Undoing("engine")
    /\ closing["app"] = "returned"
    /\ Undone
    /\ UNCHANGED <<engineVars, spec, users, config, life, stepsStarted, release, canceled, running, projecting, projections,
                   flags, published, faults, troubled>>

\* The actor system, and with it every actor; then the stream, closed already or not.
StopActorSystem ==
    /\ Undoing("system")
    /\ running' = FALSE
    /\ projecting' = {}
    /\ CloseStream
    /\ notify' = [p \in Publishers |-> notify[p] \/ (p \in registered /\ active[p])]
    /\ Undone
    /\ UNCHANGED <<started, detached, addVars, loop, batch, done, stopVars, publisherVars, messages,
                   spec, users, config, life, stepsStarted, release, canceled, projections, flags, published, faults, troubled>>

NothingToUndo ==
    /\ Undoing("probe") \/ Undoing("attach")
    /\ Undone
    /\ UNCHANGED <<engineVars, spec, users, config, life, stepsStarted, release, canceled, running, projecting, projections,
                   flags, published, faults, troubled>>

\* A bug: every publisher of the Spec is released.
EveryPublisher == OwnedPublishers

\* releasePublishers: the kinds that were not attached.
Unattached ==
    (IF "events" \in flags THEN {} ELSE Owned(spec.events))
        \cup (IF "states" \in flags THEN {} ELSE Owned(spec.states))

CleanedUp ==
    /\ at = <<"undo", 0>>
    /\ IF release THEN CloseAll(Unattached) ELSE UNCHANGED publisherVars
    /\ life' = IF life = "starting" THEN "failed" ELSE "stopped"
    /\ at' = Idle
    /\ stepsStarted' = 0
    /\ UNCHANGED <<streamVars, started, detached, addVars, loopVars, stopVars, messages,
                   spec, users, config, release, canceled, running, projecting, projections, flags, published, faults, troubled>>

-----------------------------------------------------------------------------
(***************************************************************************)
(* Users.                                                                  *)
(***************************************************************************)

\* AddEventPublishers of a user: Started, and then the lock.
UserAdds(p) ==
    /\ \/ /\ entering[p] = "out" /\ started
          /\ published = "yes" /\ "add" \in users
          /\ entering' = [entering EXCEPT ![p] = "checked"]
          /\ UNCHANGED <<attached, lock>>
       \/ /\ entering[p] = "checked" /\ lock = <<>>
          /\ lock' = IF DuplicateIds(<<p>>) THEN lock ELSE <<p>>
          /\ entering' = IF DuplicateIds(<<p>>) THEN [entering EXCEPT ![p] = "refused"] ELSE entering
          /\ UNCHANGED attached
    /\ UNCHANGED <<streamVars, started, detached, loopVars, stopVars, publisherVars, messages, appVars>>

\* Entities are spawned through the engine handed out, or by another node of the cluster.
EntitiesMayRun == running /\ "publish" \in users /\ (published = "yes" \/ spec.cluster = "on")

Sequence ==
    \/ ProbeStores \/ StartActorSystem \/ StartEngine \/ AttachBegins \/ AttachEnds \/ Attached
    \/ StartProjection \/ ProjectionsStarted \/ StopProjections \/ StopEngine \/ StopActorSystem
    \/ NothingToUndo \/ CleanedUp \/ HandOut
    \/ canceled /\ StepFails
    \/ Undoing("engine") /\ Stop("app") /\ UNCHANGED appVars

Next ==
    \/ Build \/ Composed
    \/ StartCalled \/ StopCalled \/ Cancel \/ StepFails \/ StepPanics
    \/ Sequence
    \/ \E p \in Publishers : (AddPublisher(p) \/ Loop(p)) /\ UNCHANGED appVars
    \/ \E p \in Extra : UserAdds(p)
    \/ \E c \in Clients : /\ published = "yes" /\ "subscribe" \in users
                         /\ (ClientSubscribes(c) \/ ClientLeaves(c))
                         /\ UNCHANGED appVars
    \/ \E t \in Topics : EntitiesMayRun /\ EntityPublishes(t) /\ UNCHANGED appVars
    \/ published = "yes" /\ "stop" \in users /\ Stop("user") /\ UNCHANGED appVars

\* Calls in progress go on; nobody has to call Start or Stop.
Fairness ==
    /\ WF_vars(Sequence)
    /\ \A p \in Publishers : /\ WF_vars(AddPublisher(p) /\ UNCHANGED appVars)
                             /\ WF_vars(Loop(p) /\ UNCHANGED appVars)
    /\ WF_vars(closing["user"] # "idle" /\ Stop("user") /\ UNCHANGED appVars)

Spec == Init /\ [][Next]_vars /\ Fairness

-----------------------------------------------------------------------------
(***************************************************************************)
(* Properties.                                                             *)
(***************************************************************************)

Ended == life \in {"stopped", "failed"}
UserIsStopping == closing["user"] \notin {"idle", "returned"}

(* Every publisher of the Spec has been closed once the deployment has ended, whichever
   step failed, panicked or was canceled and whether or not it ever started, and only
   once unless two calls of Engine.Stop overlapped (releasePublishers and Engine.Stop
   share the publishers out between them). *)
OwnedAreClosedOnce ==
    Ended /\ ~UserIsStopping =>
        \A p \in OwnedPublishers : closes[p] >= 1 /\ (stops <= 1 => closes[p] = 1)

(* Nothing is left running once the deployment has ended: no actor system, no
   projection, no started engine, no publisher that still gets messages and, unless a
   user is in Engine.Stop, none that holds on to its broker.  A publisher that was not
   built holds nothing either, those of NATS and Pulsar excepted: their constructors
   leave the connection behind when the stream or the producer cannot be made. *)
NothingLeftRunning ==
    /\ Ended => /\ ~running /\ projecting = {} /\ ~started
                /\ \A p \in OwnedPublishers : /\ ~active[p]
                                              /\ UserIsStopping \/ held[p] \subseteq {"stream"}
    /\ life = "unbuilt" => \A p \in OwnedPublishers : open[p] \/ held[p] = {} \/ kind[p] \in {"nats", "pulsar"}

(* A Spec that New accepted starts unless something fails at run time, and what it
   declares can then be spawned: Validate anticipates the refusals of NewEngine, of
   AddEventPublishers and of the projections.  Kinds are the exception: that they are
   pointers is only checked by NewEngine. *)
AcceptedSpecServes ==
    /\ life = "failed" => troubled \/ "value" \in Range(spec.kinds)
    /\ life = "running" => /\ \A f \in spec.families : MaySpawn(config, f)
                           /\ projecting = DOMAIN spec.projections

\* What a publisher was handed, then what its loop and its subscriber still have.
FedTo(p) == handed[p] \o batch[p] \o queue[p]

(* While the deployment is up each of its publishers is attached, and what it was handed
   with what waits for it is every message published to its topic since it was attached,
   each once and in order, whatever users subscribe, leave and add meanwhile: Start
   attaches them before it hands the engine out, and sendEvent drops nothing. *)
OwnedAreFed ==
    life = "running" /\ stops = 0 =>
        \A p \in OwnedPublishers :
            /\ p \in attached /\ loop[p] \notin {"none", "gone"}
            /\ \A i, j \in DOMAIN FedTo(p) : i < j => FedTo(p)[i] < FedTo(p)[j]
            /\ \A m \in DOMAIN messages : p \in messages[m].to => m \in Range(FedTo(p))

(* Start and Stop return and, after Stop, the loops of the publishers end: no call of
   Engine.Stop blocks on a done channel, although two of them may overlap. *)
EverythingEnds ==
    /\ life \in {"starting", "stopping"} ~> life \in {"running", "stopped", "failed"}
    /\ Ended ~> \A p \in OwnedPublishers : loop[p] \in {"none", "gone"}
=============================================================================

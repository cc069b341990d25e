---------------------------- MODULE Composition -----------------------------
(***************************************************************************)
(* What a composition root accepts and what it makes of it: the rules of   *)
(* Spec.Validate, the engine's configuration derived from a Spec, and the  *)
(* extensions the engine then demands of the actor system.                 *)
(*                                                                         *)
(* A slot is absent, holds a typed nil, or is set to an adapter: with the  *)
(* descriptors it declares, one or none, and the capabilities it           *)
(* implements.                                                             *)
(***************************************************************************)
EXTENDS Naturals, Sequences, FiniteSets

LOCAL INSTANCE SequencesExt

Stores == {"EventsStore", "StateStore", "SnapshotStore", "OffsetStore"}
Slots == Stores \cup {"Encryptor", "TenantResolver"}

Absent == [is |-> "absent"]
TypedNil == [is |-> "typed_nil"]
IsSet(v) == v.is = "set"

\* knownCapabilities, of the port of a slot or of a publisher.
KnownCapabilities(port) ==
    CASE port \in {"EventPublisher", "StatePublisher"} -> {"start", "ready"}
      [] port = "TenantResolver" -> {"fixed_tenant"}
      [] OTHER -> {}

Serves(d, port) == port \in d.ports
Declares(d, capability) == capability \in d.capabilities
Implements(v, capability) == capability \in v.implements

\* validateDeclared: the port is among its ports, and it declares what it implements.
DeclaresTruthfully(v, port) ==
    \A d \in v.descriptor :
        /\ Serves(d, port)
        /\ \A c \in KnownCapabilities(port) : Declares(d, c) <=> Implements(v, c)

\* The rules one slot breaks.
SlotProblems(v, port, required, rule) ==
    IF v.is = "absent" THEN IF required THEN {rule} ELSE {}
    ELSE IF v.is = "typed_nil" THEN {"V5"}
    ELSE IF DeclaresTruthfully(v, port) THEN {} ELSE {"V8"}

\* A bug: IDs are not compared.
PublisherProblemsButIds(publishers, port) ==
    UNION {SlotProblems(publishers[i], port, TRUE, "V6") : i \in DOMAIN publishers}

\* validatePublishers: an ID used before in the kind is V6, and is not inspected further.
PublisherProblems(publishers, port) ==
    UNION {LET v == publishers[i]
           IN  IF v.is = "absent" THEN {"V6"}
               ELSE IF v.is = "typed_nil" THEN {"V5"}
               ELSE IF \E j \in 1..(i - 1) : IsSet(publishers[j]) /\ publishers[j].id = v.id THEN {"V6"}
               ELSE IF DeclaresTruthfully(v, port) THEN {} ELSE {"V8"} : i \in DOMAIN publishers}

\* A projection: its options are absent, or its handler is absent, a typed nil or set.
ProjectionProblems(p) ==
    IF p \in {"no_options", "absent"} THEN {"V4"} ELSE IF p = "typed_nil" THEN {"V5"} ELSE {}

NeedsEvents(spec) == spec.families \cap {"EventSourced", "Saga"} # {} \/ DOMAIN spec.projections # {}

Required(spec, slot) ==
    CASE slot = "EventsStore" -> NeedsEvents(spec)
      [] slot = "StateStore" -> "DurableState" \in spec.families
      [] slot = "OffsetStore" -> DOMAIN spec.projections # {}
      [] OTHER -> FALSE

RuleOf(slot) ==
    CASE slot = "EventsStore" -> "V2" [] slot = "StateStore" -> "V3" [] OTHER -> "V4"

\* Spec.Validate: the rules that are broken.
Validate(spec) ==
    UNION { IF spec.families = {} THEN {"V1"} ELSE {},
            UNION {SlotProblems(spec.slots[s], s, Required(spec, s), RuleOf(s)) : s \in Slots},
            UNION {ProjectionProblems(spec.projections[n]) : n \in DOMAIN spec.projections},
            UNION {IF spec.adapters[i] = "set" THEN {} ELSE {"V5"} : i \in DOMAIN spec.adapters},
            PublisherProblems(spec.events, "EventPublisher"),
            PublisherProblems(spec.states, "StatePublisher"),
            IF spec.timeout < 0 THEN {"V7"} ELSE {} }

\* options.validate: G1 and G2.
ValidateOptions(spec) ==
    UNION { IF spec.cluster # "off" /\ (spec.cluster = "unconfigured" \/ spec.kinds = <<>>)
                THEN {"G1"} ELSE {},
            IF spec.name = "valid" THEN {} ELSE {"G2"} }

-----------------------------------------------------------------------------
\* engineOptions: the options a Spec becomes.  A slot that is absent becomes none.
EngineOptions(spec) ==
    LET Slot(s) == IF spec.slots[s].is = "absent" THEN <<>> ELSE <<[with |-> s, value |-> spec.slots[s]]>>
        names == SetToSeq(DOMAIN spec.projections)
    IN  (IF spec.kinds = <<>> THEN <<>> ELSE <<[with |-> "BehaviorKinds", value |-> spec.kinds]>>)
        \o <<[with |-> "EntityFamilies", value |-> spec.families]>>
        \o Slot("StateStore") \o Slot("SnapshotStore") \o Slot("OffsetStore")
        \o [i \in DOMAIN names |->
               [with |-> "Projection", value |-> [name |-> names[i], options |-> spec.projections[names[i]]]]]
        \o (IF spec.adapters = <<>> THEN <<>> ELSE <<[with |-> "EventAdapters", value |-> spec.adapters]>>)
        \o Slot("Encryptor") \o Slot("TenantResolver")

\* WithProjection: nil options are ignored.
WithProjection(c, p) ==
    IF p.options = "no_options" THEN c ELSE [c EXCEPT !.projections = @ \cup {p.name}]

KnownFamilies == {"EventSourced", "DurableState", "Saga"}

\* WithEntityFamilies: the union of what it knows.
WithEntityFamilies(c, families) == [c EXCEPT !.families = @ \cup (families \cap KnownFamilies)]

\* WithTenantResolver: a nil is ignored, the first of several stays, and each is counted.
WithTenantResolver(c, resolver) ==
    IF IsSet(resolver) THEN [c EXCEPT !.has = @ \cup {"TenantResolver"}, !.resolvers = @ + 1] ELSE c

\* An option is applied: of a store or an encryptor the last one stays.
Apply(c, option) ==
    CASE option.with = "BehaviorKinds"  -> [c EXCEPT !.kinds = @ \o option.value]
      [] option.with = "EntityFamilies" -> WithEntityFamilies(c, option.value)
      [] option.with = "Projection"     -> WithProjection(c, option.value)
      [] option.with = "EventAdapters"  -> [c EXCEPT !.adapters = TRUE]
      [] option.with = "TenantResolver" -> WithTenantResolver(c, option.value)
      [] OTHER                          -> [c EXCEPT !.has = @ \cup {option.with}]

NewConfig(eventsStore, options) ==
    FoldLeft(Apply, [events |-> eventsStore, has |-> {}, resolvers |-> 0, projections |-> {},
                     adapters |-> FALSE, kinds |-> <<>>, families |-> {}], options)

EngineConfig(spec) == NewConfig(spec.slots["EventsStore"], EngineOptions(spec))

\* GoaktOptions: the extensions the actor system is built with.
Extensions(config) ==
    {"EventsStore", "EventsStream"}
        \cup config.has
        \cup (IF config.projections # {} THEN {"Projection"} ELSE {})
        \cup (IF config.adapters THEN {"EventAdapters"} ELSE {})

\* validateActorSystemExtensions: the ones the engine demands.
RequiredExtensions(config) ==
    {"EventsStore", "EventsStream"}
        \cup (config.has \cap {"StateStore", "OffsetStore", "SnapshotStore", "Encryptor", "TenantResolver"})
        \cup (IF config.projections # {} THEN {"Projection"} ELSE {})
        \cup (IF config.adapters THEN {"EventAdapters"} ELSE {})

\* NewEngine on a running actor system.
EngineAccepts(config, extensions) ==
    /\ config.resolvers <= 1
    /\ RequiredExtensions(config) \subseteq extensions
    /\ \A i \in DOMAIN config.kinds : config.kinds[i] = "pointer"

\* requireFamily: what may be spawned, and hasEventsStore for event-sourced entities.
MaySpawn(config, family) ==
    /\ config.families = {} \/ family \in config.families
    /\ family \in {"EventSourced", "Saga"} => IsSet(config.events)
    /\ family = "DurableState" => "StateStore" \in config.has

\* A projection actor's start needs its stores and its registration.
ProjectionStarts(config, name) ==
    name \in config.projections /\ IsSet(config.events) /\ "OffsetStore" \in config.has
=============================================================================

------------------------------- MODULE MCApp --------------------------------
(* Instances of App for TLC. *)
EXTENDS App, TLC

CONSTANTS e1, e2, s1, x1, c1, c2

Adapter == [is |-> "set", descriptor |-> {}, implements |-> {}]
Described(port, declared, implemented) ==
    [is |-> "set", descriptor |-> {[ports |-> {port}, capabilities |-> declared]}, implements |-> implemented]
Publisher(name, broker) ==
    LET is == IF name \in EventPublishers THEN EventsBrokers[broker] ELSE StatesBrokers[broker]
    IN  [is |-> "set", descriptor |-> is.descriptor, implements |-> {}, name |-> name, kind |-> broker, id |-> is.id]

\* Every family, a projection, one publisher of each kind.
Base ==
    [families |-> {"EventSourced", "DurableState"},
     slots |-> [s \in Slots |-> IF s \in Stores THEN Adapter ELSE Absent],
     projections |-> [n \in {"totals"} |-> "set"],
     adapters |-> <<>>,
     events |-> <<Publisher(e1, "kafka")>>,
     states |-> <<Publisher(s1, "kafka")>>,
     timeout |-> 0, cluster |-> "off", kinds |-> <<>>, name |-> "valid"]

NoProjection == [n \in {} |-> "absent"]
Without(slot, value) == [Base EXCEPT !.slots[slot] = value]

\* A durable-state deployment that has no events store, publishers or projections.
Small ==
    [Base EXCEPT !.families = {"DurableState"}, !.projections = NoProjection, !.events = <<>>, !.states = <<>>,
                 !.slots = [s \in Slots |-> IF s = "StateStore" THEN Adapter ELSE Absent]]

\* Each differs from Base in what one rule is about, whether the rule is broken or not.
Variants ==
    {Without(s, v) : s \in Slots, v \in {Absent, TypedNil}}
        \cup {Without("TenantResolver", Described("TenantResolver", d, i)) :
                 d \in {{}, {"fixed_tenant"}}, i \in {{}, {"fixed_tenant"}}}
        \cup {[Base EXCEPT !.families = f] : f \in {{}, {"Saga"}}}
        \cup {[Base EXCEPT !.projections["totals"] = o] : o \in {"no_options", "absent", "typed_nil"}}
        \cup {[Base EXCEPT !.adapters = <<v>>] : v \in {"absent", "set"}}
        \cup {[Base EXCEPT !.events = <<Publisher(e1, "kafka"), Publisher(e2, i)>>] : i \in {"kafka", "nats"}}
        \cup {[Base EXCEPT !.cluster = c, !.kinds = k] :
                 c \in {"unconfigured", "on"}, k \in {<<>>, <<"pointer">>, <<"value">>}}
        \cup {[Base EXCEPT !.timeout = -1], [Base EXCEPT !.name = "invalid"]}

Deploy(specs, acts) == {[spec |-> s, users |-> acts] : s \in specs}

On(broker) == [Base EXCEPT !.events = <<Publisher(e1, broker)>>, !.states = <<>>]
States(broker) == [Base EXCEPT !.events = <<>>, !.states = <<Publisher(s1, broker)>>]
Clustered(spec0) == [spec0 EXCEPT !.cluster = "on", !.kinds = <<"pointer">>]

\* Users do different things with deployments on different brokers, and nothing with the
\* variants.
MCDeployments ==
    Deploy({Base}, {"subscribe", "stop"})
        \cup Deploy({On("nats")}, {"add", "stop"})
        \cup Deploy({On("pulsar")}, {"subscribe", "add"})
        \cup Deploy({On("websocket"), States("websocket")}, {"publish", "stop"})
        \cup Deploy({Base}, {"add"})
        \cup Deploy({On("kafka"), Clustered(States("pulsar"))}, {"subscribe", "publish"})
        \cup Deploy(Variants \cup {Small}, {})
=============================================================================

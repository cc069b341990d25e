----------------------------- MODULE Publishing -----------------------------
(***************************************************************************)
(* The publishers of the brokers.  Each is a constructor that connects, a  *)
(* Publish that checks `started' and sends, and a Close that resets        *)
(* `started' and then closes the client; they differ in what the           *)
(* constructor opens and what Close closes.  The two publishers of a       *)
(* broker, for events and for durable states, differ in the topic only.    *)
(* What a broker does with a message is external.                          *)
(***************************************************************************)
EXTENDS Naturals, Sequences, SequencesExt

CONSTANTS EventPublishers, StatePublishers

VARIABLES
    kind,           \* per publisher: what it is
    held,           \* per publisher: what its process holds open
    open,           \* per publisher: started
    closes,         \* history, per publisher: calls of Close
    handed          \* history, per publisher: messages given to its client

publisherVars == <<kind, held, open, closes, handed>>

Publishers == EventPublishers \cup StatePublishers
TopicOf(p) == IF p \in EventPublishers THEN "events" ELSE "states"

-----------------------------------------------------------------------------
(***************************************************************************)
(* opens: what the constructor opens, in this order, a failure leaving     *)
(* what came before it.  closes: what Close closes.  once: only the first  *)
(* Close goes on.                                                          *)
(***************************************************************************)

KafkaEvents == [id |-> "urd-kafka", opens |-> <<"producer">>, closes |-> {"producer"}, sends |-> "producer",
                once |-> FALSE, descriptor |-> {}]
KafkaStates == KafkaEvents

\* The stream is the broker's; Drain fails on a connection that is closed.
NatsEvents == [id |-> "urd-nats", opens |-> <<"connection", "stream">>, closes |-> {"connection"},
               sends |-> "connection", once |-> FALSE, descriptor |-> {}]
NatsStates == NatsEvents

PulsarEvents == [id |-> "urd-pulsar", opens |-> <<"client", "producer">>, closes |-> {"producer", "client"},
                 sends |-> "producer", once |-> FALSE, descriptor |-> {}]
PulsarStates == PulsarEvents

WebsocketEvents == [id |-> "urd-websocket", opens |-> <<"connection">>, closes |-> {"connection"},
                    sends |-> "connection", once |-> TRUE,
                    descriptor |-> {[ports |-> {"EventPublisher"}, capabilities |-> {}]}]
WebsocketStates ==
    [WebsocketEvents EXCEPT !.descriptor = {[ports |-> {"StatePublisher"}, capabilities |-> {}]}]

EventsBrokers ==
    [kafka |-> KafkaEvents, nats |-> NatsEvents, pulsar |-> PulsarEvents, websocket |-> WebsocketEvents]
StatesBrokers ==
    [kafka |-> KafkaStates, nats |-> NatsStates, pulsar |-> PulsarStates, websocket |-> WebsocketStates]

Broker(p) == IF p \in EventPublishers THEN EventsBrokers[kind[p]] ELSE StatesBrokers[kind[p]]

-----------------------------------------------------------------------------

PublishersInit(kindOf, built) ==
    /\ kind = kindOf
    /\ open = [p \in Publishers |-> p \in built]
    /\ held = [p \in Publishers |-> IF p \in built THEN ToSet(Broker(p).opens) ELSE {}]
    /\ closes = [p \in Publishers |-> 0]
    /\ handed = [p \in Publishers |-> <<>>]

\* A constructor that succeeds, or fails after it has opened some.
NewPublisher(p, succeeds) ==
    /\ \E n \in 0..Len(Broker(p).opens) :
          /\ succeeds <=> n = Len(Broker(p).opens)
          /\ held' = [held EXCEPT ![p] = {Broker(p).opens[i] : i \in 1..n}]
    /\ open' = [open EXCEPT ![p] = succeeds]
    /\ UNCHANGED <<kind, closes, handed>>

\* Publish, having found it started: through a client that may be closed since.
Send(p, m) ==
    /\ handed' = IF Broker(p).sends \in held[p] THEN [handed EXCEPT ![p] = Append(@, m)] ELSE handed
    /\ UNCHANGED <<kind, held, open, closes>>

\* Close, in two parts: does the first let the second happen?
CloseGoesOn(p) == open[p] \/ ~Broker(p).once

CloseBegins(p) ==
    /\ open' = [open EXCEPT ![p] = FALSE]
    /\ closes' = [closes EXCEPT ![p] = @ + 1]
    /\ UNCHANGED <<kind, held, handed>>

CloseReleases(p) ==
    /\ held' = [held EXCEPT ![p] = @ \ Broker(p).closes]
    /\ UNCHANGED <<kind, open, closes, handed>>

\* Close of publishers that nothing is sent to.
CloseAll(ps) ==
    /\ open' = [p \in Publishers |-> open[p] /\ p \notin ps]
    /\ closes' = [p \in Publishers |-> IF p \in ps THEN closes[p] + 1 ELSE closes[p]]
    /\ held' = [p \in Publishers |-> IF p \in ps THEN held[p] \ Broker(p).closes ELSE held[p]]
    /\ UNCHANGED <<kind, handed>>
=============================================================================

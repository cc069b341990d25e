------------------------------- MODULE Engine -------------------------------
(***************************************************************************)
(* The engine of one process: Start and Stop, publishers added to it, the  *)
(* loop that feeds each publisher, subscribers of its users.  A publisher  *)
(* is also the name of its subscriber.  Stop takes no lock and is called   *)
(* by its owner and by users alike.                                        *)
(***************************************************************************)
EXTENDS EventStream, Publishing

CONSTANTS
    Clients,        \* users of Subscribe
    Stoppers,       \* callers of Stop
    MaxMessages

ASSUME EngineAssumption ==
    /\ Subscribers = EventPublishers \cup StatePublishers \cup Clients
    /\ Topics = {"events", "states"}
    /\ MaxMessages \in Nat

VARIABLES
    started,        \* engine.started
    attached,       \* engine.eventsStreams and engine.statesStreams
    detached,       \* engine.actorSystem is nil
    lock,           \* engine.mutex: whose batch is being added, <<>>
    entering,       \* per subscriber: where its registration is
    loop,           \* per publisher: where sendEvent or sendState is
    batch,          \* per publisher: the messages of the snapshot it drains
    notify, done,   \* per publisher: the two channels of capacity 1
    closing,        \* per stopper: where Stop is
    todo,           \* per stopper: publishers it has still to close
    told,           \* per stopper: the one whose loop it has told, None
    marked,         \* per stopper: its Close is under way
    messages,       \* history: what entities published, and who was attached then
    stops           \* history: calls of Stop that found the engine started

loopVars == <<loop, batch, notify, done>>
stopVars == <<closing, todo, told, marked, stops>>
addVars == <<attached, lock, entering>>
engineVars == <<streamVars, started, detached, addVars, loopVars, stopVars, publisherVars, messages>>

EngineInit ==
    /\ StreamInit
    /\ started = FALSE /\ detached = FALSE
    /\ attached = {}
    /\ lock = <<>>
    /\ entering = [s \in Subscribers |-> "out"]
    /\ loop = [p \in Publishers |-> "none"]
    /\ batch = [p \in Publishers |-> <<>>]
    /\ notify = [p \in Publishers |-> FALSE]
    /\ done = [p \in Publishers |-> FALSE]
    /\ closing = [x \in Stoppers |-> "idle"]
    /\ todo = [x \in Stoppers |-> {}]
    /\ told = [x \in Stoppers |-> None]
    /\ marked = [x \in Stoppers |-> FALSE]
    /\ messages = <<>>
    /\ stops = 0

-----------------------------------------------------------------------------
(***************************************************************************)
(* AddEventPublishers and AddStatePublishers.                              *)
(***************************************************************************)

\* duplicatePublisherIDs: an ID registered already, or repeated in the call.
DuplicateIds(batchOf) ==
    \E i \in DOMAIN batchOf :
        \/ \E q \in attached : TopicOf(q) = TopicOf(batchOf[i]) /\ Broker(q).id = Broker(batchOf[i]).id
        \/ \E j \in DOMAIN batchOf : j < i /\ Broker(batchOf[j]).id = Broker(batchOf[i]).id

\* The lock is taken, Started having been checked before; a duplicate refuses them all.
AddBegins(batchOf) ==
    /\ lock = <<>>
    /\ lock' = batchOf
    /\ UNCHANGED <<attached, entering>>

\* For one publisher: AddSubscriber, the two halves of Subscribe, and the loop.
AddPublisher(p) ==
    /\ lock # <<>> /\ Head(lock) = p
    /\ \/ /\ entering[p] \in {"out", "checked"}
          /\ AddSubscriber(p)
          /\ entering' = [entering EXCEPT ![p] = "added"]
          /\ UNCHANGED <<attached, lock, loop>>
       \/ /\ entering[p] = "added"
          /\ SubscribeChooses(p, TopicOf(p))
          /\ entering' = [entering EXCEPT ![p] = IF active[p] THEN "choosing" ELSE "subscribed"]
          /\ UNCHANGED <<attached, lock, loop>>
       \/ /\ entering[p] = "choosing"
          /\ SubscribeEnters(p, TopicOf(p))
          /\ entering' = [entering EXCEPT ![p] = "subscribed"]
          /\ UNCHANGED <<attached, lock, loop>>
       \/ /\ entering[p] = "subscribed"
          /\ attached' = attached \cup {p}
          /\ loop' = [loop EXCEPT ![p] = "waiting"]
          /\ lock' = Tail(lock)
          /\ entering' = [entering EXCEPT ![p] = "in"]
          /\ UNCHANGED streamVars
    /\ UNCHANGED <<started, detached, batch, notify, done, stopVars, publisherVars, messages>>

\* Subscribe of a user: both topics, with no lock.
ClientSubscribes(c) ==
    /\ \/ /\ entering[c] = "out" /\ started
          /\ AddSubscriber(c)
          /\ entering' = [entering EXCEPT ![c] = "added"]
       \/ /\ entering[c] = "added"
          /\ SubscribeChooses(c, "events")
          /\ entering' = [entering EXCEPT ![c] = IF active[c] THEN "choosing" ELSE "half"]
       \/ /\ entering[c] = "choosing"
          /\ SubscribeEnters(c, "events")
          /\ entering' = [entering EXCEPT ![c] = "half"]
       \/ /\ entering[c] = "half"
          /\ SubscribeChooses(c, "states")
          /\ entering' = [entering EXCEPT ![c] = IF active[c] THEN "second" ELSE "in"]
       \/ /\ entering[c] = "second"
          /\ SubscribeEnters(c, "states")
          /\ entering' = [entering EXCEPT ![c] = "in"]
    /\ UNCHANGED <<started, detached, attached, lock, loopVars, stopVars, publisherVars, messages>>

ClientLeaves(c) ==
    /\ entering[c] = "in"
    /\ active[c]
    /\ RemoveSubscriber(c)
    /\ entering' = [entering EXCEPT ![c] = "left"]
    /\ UNCHANGED <<started, detached, attached, lock, loopVars, stopVars, publisherVars, messages>>

\* An entity publishes to the stream: external to the engine.
EntityPublishes(t) ==
    /\ Len(messages) < MaxMessages
    /\ messages' = Append(messages, [topic |-> t, to |-> {p \in attached : TopicOf(p) = t}])
    /\ Publish(t, Len(messages'))
    /\ notify' = [p \in Publishers |-> notify[p] \/ (p \in Members(t) /\ active[p])]
    /\ UNCHANGED <<started, detached, addVars, loop, batch, done, stopVars, publisherVars>>

-----------------------------------------------------------------------------
(***************************************************************************)
(* sendEvent and sendState.                                                *)
(***************************************************************************)

LoopEnds(p) ==
    /\ loop[p] = "waiting" \/ (loop[p] = "draining" /\ batch[p] # <<>>)
    /\ done[p]
    /\ done' = [done EXCEPT ![p] = FALSE]
    /\ loop' = [loop EXCEPT ![p] = "gone"]
    /\ UNCHANGED <<streamVars, started, detached, addVars, batch, notify, stopVars, publisherVars, messages>>

\* Ready, then the snapshot of Iterator: nothing once the subscriber is shut down.
LoopDrains(p) ==
    /\ loop[p] = "waiting"
    /\ notify[p]
    /\ notify' = [notify EXCEPT ![p] = FALSE]
    /\ batch' = [batch EXCEPT ![p] = IF active[p] THEN queue[p] ELSE <<>>]
    /\ queue' = IF active[p] THEN [queue EXCEPT ![p] = <<>>] ELSE queue
    /\ loop' = [loop EXCEPT ![p] = "draining"]
    /\ UNCHANGED <<registered, active, joined, topics, tables, choosing, started, detached, addVars,
                   done, stopVars, publisherVars, messages>>

\* done is not there: the next message, or back to the wait.  A failed Publish is logged.
LoopAdvances(p) ==
    /\ loop[p] = "draining"
    /\ IF batch[p] = <<>>
       THEN loop' = [loop EXCEPT ![p] = "waiting"]
       ELSE ~done[p] /\ loop' = [loop EXCEPT ![p] = "publishing"]
    /\ UNCHANGED <<streamVars, started, detached, addVars, batch, notify, done, stopVars, publisherVars, messages>>

\* Publish: refused after Close (ErrPublisherNotStarted), else sent.
LoopPublishes(p) ==
    /\ loop[p] \in {"publishing", "sending"}
    /\ IF loop[p] = "publishing" /\ open[p]
       THEN loop' = [loop EXCEPT ![p] = "sending"] /\ UNCHANGED <<batch, publisherVars>>
       ELSE /\ IF loop[p] = "sending" THEN Send(p, Head(batch[p])) ELSE UNCHANGED publisherVars
            /\ batch' = [batch EXCEPT ![p] = Tail(@)]
            /\ loop' = [loop EXCEPT ![p] = "draining"]
    /\ UNCHANGED <<streamVars, started, detached, addVars, notify, done, stopVars, messages>>

Loop(p) == LoopEnds(p) \/ LoopDrains(p) \/ LoopAdvances(p) \/ LoopPublishes(p)

-----------------------------------------------------------------------------
(***************************************************************************)
(* Stop.                                                                   *)
(***************************************************************************)

\* Not started: nothing.  The check and the store are two operations.
StopBegins(x) ==
    /\ closing[x] = "idle"
    /\ closing' = [closing EXCEPT ![x] = IF started THEN "passed" ELSE "returned"]
    /\ stops' = IF started THEN stops + 1 ELSE stops
    /\ UNCHANGED <<streamVars, started, detached, addVars, loopVars, todo, told, marked, publisherVars, messages>>

StopRefuses(x) ==
    /\ closing[x] = "passed"
    /\ started' = FALSE
    /\ todo' = [todo EXCEPT ![x] = attached \cap EventPublishers]
    /\ closing' = [closing EXCEPT ![x] = "events"]
    /\ UNCHANGED <<streamVars, detached, addVars, loopVars, told, marked, stops, publisherVars, messages>>

\* A bug: a channel nobody buffers is left to the loop.
WhenReceived(p) == ~done[p] /\ loop[p] # "gone"

\* stream.done <- Done{}: blocks while the buffer is full.
CanSendDone(p) == ~done[p]

StopSignals(x) ==
    /\ closing[x] \in {"events", "states"} /\ told[x] = None
    /\ \E p \in todo[x] :
          /\ CanSendDone(p)
          /\ done' = [done EXCEPT ![p] = TRUE]
          /\ told' = [told EXCEPT ![x] = p]
    /\ UNCHANGED <<streamVars, started, detached, addVars, loop, batch, notify, closing, todo, marked, stops,
                   publisherVars, messages>>

StopShutsDown(x) ==
    /\ told[x] # None /\ ~marked[x]
    /\ LET p == told[x]
       IN  /\ active' = [active EXCEPT ![p] = FALSE]
           /\ notify' = [notify EXCEPT ![p] = TRUE]
           /\ CloseBegins(p)
           /\ marked' = [marked EXCEPT ![x] = CloseGoesOn(p)]
           /\ todo' = IF CloseGoesOn(p) THEN todo ELSE [todo EXCEPT ![x] = @ \ {p}]
           /\ told' = IF CloseGoesOn(p) THEN told ELSE [told EXCEPT ![x] = None]
    /\ UNCHANGED <<registered, joined, topics, tables, choosing, queue, started, detached, addVars,
                   loop, batch, done, closing, stops, messages>>

\* The end of Close, whose error is reported and stops nothing.
StopCloses(x) ==
    /\ marked[x]
    /\ CloseReleases(told[x])
    /\ todo' = [todo EXCEPT ![x] = @ \ {told[x]}]
    /\ told' = [told EXCEPT ![x] = None]
    /\ marked' = [marked EXCEPT ![x] = FALSE]
    /\ UNCHANGED <<streamVars, started, detached, addVars, loopVars, closing, stops, messages>>

StopTurns(x) ==
    /\ closing[x] = "events" /\ todo[x] = {} /\ told[x] = None
    /\ todo' = [todo EXCEPT ![x] = attached \cap StatePublishers]
    /\ closing' = [closing EXCEPT ![x] = "states"]
    /\ UNCHANGED <<streamVars, started, detached, addVars, loopVars, told, marked, stops, publisherVars, messages>>

\* The stream is closed, the registries are emptied, the actor system is let go.
StopEnds(x) ==
    /\ closing[x] = "states" /\ todo[x] = {} /\ told[x] = None
    /\ CloseStream
    /\ notify' = [p \in Publishers |-> notify[p] \/ (p \in registered /\ active[p])]
    /\ attached' = {}
    /\ detached' = TRUE
    /\ closing' = [closing EXCEPT ![x] = "returned"]
    /\ UNCHANGED <<started, lock, entering, loop, batch, done, todo, told, marked, stops, publisherVars, messages>>

Stop(x) ==
    \/ StopBegins(x) \/ StopRefuses(x) \/ StopSignals(x) \/ StopShutsDown(x) \/ StopCloses(x)
    \/ StopTurns(x) \/ StopEnds(x)
=============================================================================

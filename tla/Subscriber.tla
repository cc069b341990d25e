----------------------------- MODULE Subscriber -----------------------------
(***************************************************************************)
(* A subscriber of the event stream: the lock-free queue its messages wait *)
(* in, the wake-up channel of capacity one, the goroutines that publish to *)
(* it and the one that drains it.                                          *)
(*                                                                         *)
(* Every atomic access to shared memory is a step of its own.  A node that *)
(* was dequeued goes back to the pool, which hands it out again or makes a *)
(* new one.  The queue's length is left out: nothing reads it.             *)
(***************************************************************************)
EXTENDS Naturals, Sequences, SequencesExt

CONSTANTS
    Producers,      \* goroutines that publish
    MaxMessages,    \* bound on messages published; they are numbered in that order
    MaxNodes,       \* bound on nodes ever made: one per message and one more is enough
    Nil             \* the nil pointer, and the nil value

ASSUME SubscriberAssumption ==
    /\ MaxMessages \in Nat
    /\ MaxNodes \in Nat \ {0}
    /\ Nil \notin Nat

VARIABLES
    next, value,        \* the fields of every node
    head, tail, pool,   \* the queue
    made,               \* how many nodes were made
    active, notify,     \* the subscriber
    at,                 \* per producer: where it is in signal
    seen, ahead, node,  \* per producer: the tail and the next it loaded, its own node
    message,            \* per producer: what it publishes
    sent,               \* messages published
    draining,           \* where the consumer is
    front, behind,      \* the head and the next it loaded
    msgs,               \* what Iterator collected
    delivered,          \* what the consumer received, in order
    linked,             \* history: messages in the order they entered the queue
    overlapped          \* history: were two producers ever in Enqueue at once?

queue == <<next, value, head, tail, pool, made>>
producer == <<at, seen, ahead, node, message, sent>>
consumer == <<draining, front, behind, msgs, delivered>>
vars == <<queue, active, notify, producer, consumer, linked, overlapped>>

Nodes == 1..MaxNodes

Messages == 1..MaxMessages

Init ==
    /\ next = [n \in Nodes |-> Nil]
    /\ value = [n \in Nodes |-> Nil]
    /\ head = 1
    /\ tail = 1
    /\ pool = {}
    /\ made = 1
    /\ active = TRUE
    /\ notify = FALSE
    /\ at = [p \in Producers |-> "idle"]
    /\ seen = [p \in Producers |-> Nil]
    /\ ahead = [p \in Producers |-> Nil]
    /\ node = [p \in Producers |-> Nil]
    /\ message = [p \in Producers |-> Nil]
    /\ sent = 0
    /\ draining = "wait"
    /\ front = Nil
    /\ behind = Nil
    /\ msgs = << >>
    /\ delivered = << >>
    /\ linked = << >>
    /\ overlapped = FALSE

Goto(p, place) == at' = [at EXCEPT ![p] = place]

-----------------------------------------------------------------------------
(***************************************************************************)
(* signal: the active check, Enqueue and the wake-up.                      *)
(***************************************************************************)

\* A message for a subscriber that was shut down is dropped.
SignalInactive(p) ==
    /\ at[p] = "idle"
    /\ sent < MaxMessages
    /\ ~active
    /\ sent' = sent + 1
    /\ UNCHANGED <<queue, active, notify, at, seen, ahead, node, message, consumer, linked, overlapped>>

\* getItem: a node of the pool, whose next is not touched, or a new one.
GetItem(p, n) ==
    /\ \/ n \in pool /\ pool' = pool \ {n} /\ UNCHANGED made
       \/ n = made + 1 /\ made' = n /\ UNCHANGED pool
    /\ node' = [node EXCEPT ![p] = n]
    /\ value' = [value EXCEPT ![n] = sent + 1]

InEnqueue(p) == at[p] \in {"load", "next", "help", "link", "advance"}

Signal(p) ==
    /\ at[p] = "idle"
    /\ sent < MaxMessages
    /\ active
    /\ \E n \in Nodes : GetItem(p, n)
    /\ message' = [message EXCEPT ![p] = sent + 1]
    /\ sent' = sent + 1
    /\ overlapped' = (overlapped \/ \E q \in Producers : InEnqueue(q))
    /\ Goto(p, "load")
    /\ UNCHANGED <<next, head, tail, active, notify, seen, ahead, consumer, linked>>

LoadTail(p) ==
    /\ at[p] = "load"
    /\ seen' = [seen EXCEPT ![p] = tail]
    /\ Goto(p, "next")
    /\ UNCHANGED <<queue, active, notify, ahead, node, message, sent, consumer, linked, overlapped>>

LoadNext(p) ==
    /\ at[p] = "next"
    /\ ahead' = [ahead EXCEPT ![p] = next[seen[p]]]
    /\ Goto(p, IF next[seen[p]] = Nil THEN "link" ELSE "help")
    /\ UNCHANGED <<queue, active, notify, seen, node, message, sent, consumer, linked, overlapped>>

\* CompareAndSwap on the queue's tail.
SwapTail(old, new) == tail' = IF tail = old THEN new ELSE tail

\* Another producer linked its node and did not advance the tail yet.
HelpAdvance(p) ==
    /\ at[p] = "help"
    /\ SwapTail(seen[p], ahead[p])
    /\ Goto(p, "load")
    /\ UNCHANGED <<next, value, head, pool, made, active, notify, seen, ahead, node, message, sent, consumer,
                   linked, overlapped>>

\* Another producer came first.
LinkFails(p) ==
    /\ at[p] = "link"
    /\ next[seen[p]] # Nil
    /\ Goto(p, "load")
    /\ UNCHANGED <<queue, active, notify, seen, ahead, node, message, sent, consumer, linked, overlapped>>

Link(p) ==
    /\ at[p] = "link"
    /\ next[seen[p]] = Nil
    /\ next' = [next EXCEPT ![seen[p]] = node[p]]
    /\ linked' = Append(linked, message[p])
    /\ Goto(p, "advance")
    /\ UNCHANGED <<value, head, tail, pool, made, active, notify, seen, ahead, node, message, sent, consumer,
                   overlapped>>

Advance(p) ==
    /\ at[p] = "advance"
    /\ SwapTail(seen[p], node[p])
    /\ Goto(p, "notify")
    /\ UNCHANGED <<next, value, head, pool, made, active, notify, seen, ahead, node, message, sent, consumer,
                   linked, overlapped>>

\* A bug: the wake-up is not sent.
WakeNobody(p) == UNCHANGED notify

\* A send on a channel of capacity one, dropped when it is full.
Wake(p) == notify' = TRUE

Notify(p) ==
    /\ at[p] = "notify"
    /\ Wake(p)
    /\ Goto(p, "idle")
    /\ seen' = [seen EXCEPT ![p] = Nil]
    /\ ahead' = [ahead EXCEPT ![p] = Nil]
    /\ node' = [node EXCEPT ![p] = Nil]
    /\ message' = [message EXCEPT ![p] = Nil]
    /\ UNCHANGED <<queue, active, sent, consumer, linked, overlapped>>

-----------------------------------------------------------------------------
(***************************************************************************)
(* The consumer waits for Ready and drains what Iterator returns.          *)
(***************************************************************************)

Ready ==
    /\ draining = "wait"
    /\ notify
    /\ notify' = FALSE
    /\ draining' = "iterate"
    /\ UNCHANGED <<queue, active, producer, front, behind, msgs, delivered, linked, overlapped>>

\* The loop's condition and Dequeue's first load: only the consumer moves head.
Iterate ==
    /\ draining = "iterate"
    /\ front' = head
    /\ draining' = IF active THEN "next" ELSE "deliver"
    /\ UNCHANGED <<queue, active, notify, producer, behind, msgs, delivered, linked, overlapped>>

DequeueNext ==
    /\ draining = "next"
    /\ behind' = next[front]
    /\ draining' = IF next[front] = Nil THEN "deliver" ELSE "swap"
    /\ UNCHANGED <<queue, active, notify, producer, front, msgs, delivered, linked, overlapped>>

\* The old head is a dummy: the value is in the node after it.
DequeuedValue == value[behind]

SwapHead ==
    /\ draining = "swap"
    /\ head' = behind
    /\ msgs' = Append(msgs, DequeuedValue)
    /\ draining' = "release"
    /\ UNCHANGED <<next, value, tail, pool, made, active, notify, producer, front, behind, delivered,
                   linked, overlapped>>

\* A bug: the link is kept.
ReleaseKeepingNext(n) ==
    /\ value' = [value EXCEPT ![n] = Nil]
    /\ pool' = pool \cup {n}
    /\ UNCHANGED next

ReleaseItem(n) ==
    /\ value' = [value EXCEPT ![n] = Nil]
    /\ next' = [next EXCEPT ![n] = Nil]
    /\ pool' = pool \cup {n}

Release ==
    /\ draining = "release"
    /\ ReleaseItem(front)
    /\ draining' = "iterate"
    /\ UNCHANGED <<head, tail, made, active, notify, producer, front, behind, msgs, delivered, linked,
                   overlapped>>

Deliver ==
    /\ draining = "deliver"
    /\ delivered' = delivered \o msgs
    /\ msgs' = << >>
    /\ front' = Nil
    /\ behind' = Nil
    /\ draining' = "wait"
    /\ UNCHANGED <<queue, active, notify, producer, linked, overlapped>>

Shutdown ==
    /\ active
    /\ active' = FALSE
    /\ notify' = TRUE
    /\ UNCHANGED <<queue, producer, consumer, linked, overlapped>>

-----------------------------------------------------------------------------
Enqueue(p) ==
    LoadTail(p) \/ LoadNext(p) \/ HelpAdvance(p) \/ LinkFails(p) \/ Link(p) \/ Advance(p)

Produce(p) == SignalInactive(p) \/ Signal(p) \/ Enqueue(p) \/ Notify(p)

Consume == Ready \/ Iterate \/ DequeueNext \/ SwapHead \/ Release \/ Deliver

Next == Consume \/ Shutdown \/ \E p \in Producers : Produce(p)

\* A goroutine that can run does; nothing makes one publish or shuts down.
Fairness == WF_vars(Consume) /\ \A p \in Producers : WF_vars(Enqueue(p) \/ Notify(p))

Spec == Init /\ [][Next]_vars /\ Fairness

-----------------------------------------------------------------------------
(***************************************************************************)
(* Properties.                                                             *)
(***************************************************************************)

(* Producers that take turns: the consumer receives their messages in the order
   they were published, each once, although nodes are recycled while a producer
   is still advancing the tail ("enqueueing before Publish returns keeps the order
   of consecutive Publish calls from one producer"). *)
InOrder == ~overlapped => IsPrefix(delivered \o msgs, linked)

\* Nobody is in the middle of anything and no wake-up is pending.
Quiet == /\ draining = "wait" /\ ~notify
         /\ \A p \in Producers : at[p] = "idle"

(* When the subscriber is quiet nothing is left in the queue, however producers
   overlap: "Dropping the send when the buffer is full is safe: the pending
   wake-up's drain will pick this message up too" (signal). *)
EveryMessageDelivered == (Quiet /\ active) => Len(delivered) = Len(linked)

(* A message in the queue is delivered, unless the subscriber is shut down or
   producers overlapped: neither a producer nor the consumer loops for ever, and a
   wake-up that was dropped because one was pending is not missed (signal). *)
QueuedIsDelivered ==
    \A k \in 1..MaxMessages :
        (Len(linked) >= k) ~> (Len(delivered) >= k \/ ~active \/ overlapped)
=============================================================================

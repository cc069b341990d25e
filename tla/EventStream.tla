---------------------------- MODULE EventStream -----------------------------
(***************************************************************************)
(* The in-process stream: its registry of subscribers and, per topic, the  *)
(* table of those subscribed to it.  A topic whose table is missing or     *)
(* empty gets a new one, so a table is named after the subscription that   *)
(* made it.  What a subscriber does with its queue is in Subscriber.       *)
(***************************************************************************)
EXTENDS Naturals, Sequences, FiniteSets, SequencesExt

CONSTANTS
    Subscribers,    \* one name per subscriber that may be added
    Topics,
    None

VARIABLES
    registered,     \* b.subscribers
    active,         \* per subscriber
    joined,         \* per subscriber: its own topics
    topics,         \* per topic: the name of its table, None
    tables,         \* per table name: the subscribers in it
    choosing,       \* per subscriber: the table its Subscribe has picked, None
    queue           \* per subscriber: messages signalled and not drained

streamVars == <<registered, active, joined, topics, tables, choosing, queue>>

TableNames == Topics \X Subscribers

StreamInit ==
    /\ registered = {}
    /\ active = [s \in Subscribers |-> FALSE]
    /\ joined = [s \in Subscribers |-> {}]
    /\ topics = [t \in Topics |-> None]
    /\ tables = [n \in TableNames |-> {}]
    /\ choosing = [s \in Subscribers |-> None]
    /\ queue = [s \in Subscribers |-> <<>>]

AddSubscriber(s) ==
    /\ registered' = registered \cup {s}
    /\ active' = [active EXCEPT ![s] = TRUE]
    /\ UNCHANGED <<joined, topics, tables, choosing, queue>>

Members(t) == IF topics[t] = None THEN {} ELSE tables[topics[t]]

\* A bug: a topic that has a table gets a new one.
SubscribeReplaces(s, t) ==
    /\ choosing[s] = None
    /\ IF active[s]
       THEN /\ joined' = [joined EXCEPT ![s] = @ \cup {t}]
            /\ choosing' = [choosing EXCEPT ![s] = <<t, s>>]
       ELSE UNCHANGED <<joined, choosing>>
    /\ UNCHANGED <<registered, active, topics, tables, queue>>

\* Subscribe, as far as its look at the topic: the table there, if it is not empty.
SubscribeChooses(s, t) ==
    /\ choosing[s] = None
    /\ IF active[s]
       THEN /\ joined' = [joined EXCEPT ![s] = @ \cup {t}]
            /\ choosing' = [choosing EXCEPT ![s] = IF Members(t) # {} THEN topics[t] ELSE <<t, s>>]
       ELSE UNCHANGED <<joined, choosing>>
    /\ UNCHANGED <<registered, active, topics, tables, queue>>

\* The rest of it: into the table there was, or into a new one that becomes the topic's.
SubscribeEnters(s, t) ==
    /\ choosing[s] # None
    /\ tables' = [tables EXCEPT ![choosing[s]] = IF choosing[s] = <<t, s>> THEN {s} ELSE @ \cup {s}]
    /\ topics' = IF choosing[s] = <<t, s>> THEN [topics EXCEPT ![t] = choosing[s]] ELSE topics
    /\ choosing' = [choosing EXCEPT ![s] = None]
    /\ UNCHANGED <<registered, active, joined, queue>>

\* RemoveSubscriber: Unsubscribe from its topics, then Shutdown.
RemoveSubscriber(s) ==
    /\ tables' = [n \in TableNames |->
           IF n[1] \in joined[s] /\ topics[n[1]] = n THEN tables[n] \ {s} ELSE tables[n]]
    /\ joined' = [joined EXCEPT ![s] = {}]
    /\ registered' = registered \ {s}
    /\ active' = [active EXCEPT ![s] = FALSE]
    /\ UNCHANGED <<topics, choosing, queue>>

\* publishToTopic
Publish(t, m) ==
    /\ queue' = [s \in Subscribers |->
           IF s \in Members(t) /\ active[s] THEN Append(queue[s], m) ELSE queue[s]]
    /\ UNCHANGED <<registered, active, joined, topics, tables, choosing>>

\* Close
CloseStream ==
    /\ active' = [s \in Subscribers |-> active[s] /\ s \notin registered]
    /\ registered' = {}
    /\ topics' = [t \in Topics |-> None]
    /\ UNCHANGED <<joined, tables, choosing, queue>>
=============================================================================

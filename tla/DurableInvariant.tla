-------------------------- MODULE DurableInvariant --------------------------
(***************************************************************************)
(* The inductive invariant of the durable state entity.                    *)
(***************************************************************************)
EXTENDS DurableState

-----------------------------------------------------------------------------
(***************************************************************************)
(* Types.                                                                  *)
(***************************************************************************)

States == Seq(Commands)
Records == [version : Nat, state : States]
Preconditions == Nat \cup {NoRevision}
Writes == [cmd : Commands, record : Records, pre : Preconditions, seen : Nat]
Failures == [cmd : Commands,
             outcome : {Failed} \cup [kind : {"conflict"}, actual : Preconditions]]
Kinds == {"unsent", "waiting", "state", "error", "conflict"}
Replies == [kind : Kinds, state : States, version : Nat]

\* A node has at most one write under way or one failure to recover from, and
\* none while its actor does not run.
TypeOK ==
    /\ tenantAware \in BOOLEAN
    /\ legacy \in BOOLEAN
    /\ overlapping \in BOOLEAN
    /\ faulty \in BOOLEAN
    /\ records \in Seq(Records)
    /\ published \subseteq Records
    /\ alive \in [Nodes -> BOOLEAN]
    /\ currentState \in [Nodes -> States]
    /\ currentVersion \in [Nodes -> Nat]
    /\ cachedStateAny \in [Nodes -> SUBSET States]
    /\ writing \in [Nodes -> SUBSET Writes]
    /\ failed \in [Nodes -> SUBSET Failures]
    /\ reply \in [Commands \cup Reads -> Replies]
    /\ declared \in [Commands -> Preconditions]
    /\ spawns \in Nat

-----------------------------------------------------------------------------
(***************************************************************************)
(* The inductive invariant.                                                *)
(***************************************************************************)

\* A write under way is the next state of the memory it was made from, and
\* belongs to a command that waits.
Pending(n, w) ==
    /\ alive[n] /\ failed[n] = {} /\ writing[n] = {w}
    /\ w.record = Record(currentVersion[n] + 1, Append(currentState[n], w.cmd))
    /\ w.pre = declared[w.cmd]
    /\ w.seen <= Len(records)
    /\ reply[w.cmd] = Waiting

WriteInv == \A n \in Nodes : \A w \in writing[n] : Pending(n, w)

\* A failed write is of a command that was sent.
FailedInv == \A n \in Nodes : \A f \in failed[n] : alive[n] /\ reply[f.cmd] # Unsent

\* No two turns are about one command.
OneTurnInv ==
    /\ \A n, m \in Nodes : \A w \in writing[n], v \in writing[m] : w.cmd = v.cmd => n = m
    /\ \A n, m \in Nodes : \A w \in writing[n], f \in failed[m] : w.cmd # f.cmd

\* An actor that does not run has no memory.
GoneInv ==
    \A n \in Nodes : ~alive[n] =>
        /\ currentState[n] = InitialState
        /\ currentVersion[n] = 0
        /\ cachedStateAny[n] = {}

TurnInv == WriteInv /\ FailedInv /\ OneTurnInv /\ GoneInv

\* Memory, replies and the topic hold what the store held at some time.
SeenInv ==
    /\ \A n \in Nodes : WasStored(currentState[n])
    /\ \A n \in Nodes : \A s \in cachedStateAny[n] : WasStored(s)
    /\ \A id \in Commands \cup Reads : reply[id].kind = "state" => WasStored(reply[id].state)
    /\ \A r \in published : \E i \in DOMAIN records : records[i] = r

\* The command is in no record.
Absent(c) == \A i \in DOMAIN records : ~Includes(records[i].state, c)

\* Commands that were not written are in no record.
AbsentInv ==
    /\ \A c \in Commands : reply[c] = Unsent => Absent(c)
    /\ \A c \in Commands : reply[c].kind = "conflict" => Absent(c)
    /\ \A n \in Nodes : \A w \in writing[n] : Absent(w.cmd)
    /\ \A n \in Nodes : \A f \in failed[n] : f.outcome.kind = "conflict" => Absent(f.cmd)

\* With one incarnation at a time the memory is never ahead of the store, and a
\* success is in both.
SoleInv ==
    ~overlapping =>
        /\ \A n, m \in Nodes : alive[n] /\ alive[m] => n = m
        /\ StoredVersion = 0 => StoredState = InitialState
        /\ \A n \in Nodes : \A w \in writing[n] : w.seen = Len(records)
        /\ \A n \in Nodes : alive[n] =>
              /\ currentVersion[n] <= StoredVersion
              /\ currentVersion[n] = 0 =>
                    currentState[n] = InitialState /\ cachedStateAny[n] \subseteq {InitialState}
        /\ \A c \in Commands : reply[c].kind = "state" =>
              /\ Includes(StoredState, c)
              /\ \A n \in Nodes : alive[n] =>
                    /\ Includes(currentState[n], c)
                    /\ \A s \in cachedStateAny[n] : Includes(s, c)

\* When the store answers as well, memory is the record.
SyncInv ==
    (~overlapping /\ ~faulty) =>
        /\ Len(StoredState) = StoredVersion
        /\ \A n \in Nodes : alive[n] =>
              /\ currentState[n] = StoredState
              /\ currentVersion[n] = StoredVersion
              /\ cachedStateAny[n] \subseteq {StoredState}

\* A tenant-aware entity has no record at version 0, so a conflict names another
\* revision than the declared one.
RevisionInv ==
    (tenantAware /\ ~legacy) =>
        /\ \A i \in DOMAIN records : records[i].version > 0
        /\ (~overlapping /\ ~faulty) =>
              /\ \A n \in Nodes : \A f \in failed[n] :
                    f.outcome.kind = "conflict" =>
                        ErrorReply(f.outcome).version # declared[f.cmd]
              /\ \A c \in Commands :
                    reply[c].kind = "conflict" => reply[c].version # declared[c]

IInv == TypeOK /\ TurnInv /\ SeenInv /\ AbsentInv /\ SoleInv /\ SyncInv /\ RevisionInv
=============================================================================

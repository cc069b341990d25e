----------------------- MODULE DirectRefinementLemmas -----------------------
(***************************************************************************)
(* The invariant that the refinement of EntityLog needs is kept by what    *)
(* the callers and the actor of the direct write path do.                  *)
(***************************************************************************)
EXTENDS DirectInvariant, EventLogProofs

-----------------------------------------------------------------------------
(***************************************************************************)
(* Queues.                                                                 *)
(***************************************************************************)

(* What a queue holds with one more message at its end. *)
LEMMA AppendIn ==
    ASSUME NEW q \in Seq(Messages), NEW m \in Messages, Once(q), Asks(m) => ~In(m, q)
    PROVE  /\ \A x : In(x, Append(q, m)) => In(x, q) \/ x = m
           /\ Once(Append(q, m))
<1> DEFINE p == Append(q, m)
<1>1. /\ DOMAIN p = 1..Len(q) + 1 /\ DOMAIN q = 1..Len(q) /\ Len(q) \in Nat
      /\ p[Len(q) + 1] = m /\ \A i \in 1..Len(q) : p[i] = q[i]
  OBVIOUS
<1> HIDE DEF p
<1>2. \A i \in DOMAIN p : (i \in DOMAIN q /\ p[i] = q[i]) \/ (i = Len(q) + 1 /\ p[i] = m)
  BY <1>1
<1>3. \A x : In(x, p) => In(x, q) \/ x = m
  BY <1>2, Zenon DEF In
<1>4. Once(p)
  BY <1>2, Zenon DEF Once, In
<1> QED
  BY <1>3, <1>4, Zenon DEF p

(* What a queue holds without its first message. *)
LEMMA TailIn ==
    ASSUME NEW q \in Seq(Messages), q # << >>
    PROVE  /\ In(Head(q), q)
           /\ \A x : In(x, Tail(q)) => In(x, q)
           /\ Once(q) => Once(Tail(q)) /\ (Asks(Head(q)) => ~In(Head(q), Tail(q)))
<1>1. \A i \in DOMAIN Tail(q) : i + 1 \in DOMAIN q /\ Tail(q)[i] = q[i + 1] /\ i \in Nat \ {0}
  BY HeadTailProperties, LenProperties
<1>2. 1 \in DOMAIN q /\ Head(q) = q[1]
  OBVIOUS
<1>3. \A x : In(x, Tail(q)) => In(x, q)
  BY <1>1, Zenon DEF In
<1>4. \A i, j \in DOMAIN Tail(q) : i + 1 = j + 1 => i = j
  BY <1>1
<1>5. Once(q) => Once(Tail(q))
  BY <1>1, <1>4, Zenon DEF Once
<1>6. \A i \in DOMAIN Tail(q) : i + 1 # 1
  BY <1>1
<1>7. Once(q) /\ Asks(Head(q)) => ~In(Head(q), Tail(q))
  BY <1>1, <1>2, <1>6, Zenon DEF Once, In
<1> QED
  BY <1>2, <1>3, <1>5, <1>7, Zenon DEF In

(* What two queues hold together. *)
LEMMA ConcatIn ==
    ASSUME NEW p \in Seq(Messages), NEW q \in Seq(Messages)
    PROVE  /\ \A x : In(x, p \o q) => In(x, p) \/ In(x, q)
           /\ (Once(p) /\ Once(q) /\ \A m \in Messages : Asks(m) => ~(In(m, p) /\ In(m, q)))
                 => Once(p \o q)
           /\ p # << >> => p \o q # << >> /\ (p \o q)[1] = p[1]
<1> DEFINE r == p \o q
<1>1. /\ DOMAIN r = 1..Len(p) + Len(q) /\ Len(p) \in Nat /\ Len(q) \in Nat
      /\ DOMAIN p = 1..Len(p) /\ DOMAIN q = 1..Len(q)
      /\ \A k \in 1..Len(p) + Len(q) : r[k] = IF k <= Len(p) THEN p[k] ELSE q[k - Len(p)]
  BY ConcatProperties, LenProperties
<1> HIDE DEF r
<1>2. \A i \in DOMAIN r : \/ i \in DOMAIN p /\ r[i] = p[i]
                          \/ i > Len(p) /\ i - Len(p) \in DOMAIN q /\ r[i] = q[i - Len(p)]
  BY <1>1
<1>3. \A x : In(x, r) => In(x, p) \/ In(x, q)
  BY <1>2, Zenon DEF In
<1>4. ASSUME Once(p), Once(q), \A m \in Messages : Asks(m) => ~(In(m, p) /\ In(m, q))
      PROVE  Once(r)
  <2> SUFFICES ASSUME NEW i \in DOMAIN r, NEW j \in DOMAIN r, r[i] = r[j], Asks(r[i])
               PROVE  i = j
    BY Zenon DEF Once
  <2>1. \A k \in DOMAIN p : p[k] \in Messages
    OBVIOUS
  <2>2. CASE i \in DOMAIN p /\ r[i] = p[i] /\ j \in DOMAIN p /\ r[j] = p[j]
    BY <1>4, <2>2, Zenon DEF Once
  <2>3. CASE i > Len(p) /\ i - Len(p) \in DOMAIN q /\ r[i] = q[i - Len(p)]
             /\ j > Len(p) /\ j - Len(p) \in DOMAIN q /\ r[j] = q[j - Len(p)]
    <3>1. i - Len(p) = j - Len(p)
      BY <1>4, <2>3, Zenon DEF Once
    <3> QED
      BY <1>1, <3>1
  <2>4. CASE i \in DOMAIN p /\ r[i] = p[i] /\ j - Len(p) \in DOMAIN q /\ r[j] = q[j - Len(p)]
    BY <1>4, <2>1, <2>4, Zenon DEF In
  <2>5. CASE j \in DOMAIN p /\ r[j] = p[j] /\ i - Len(p) \in DOMAIN q /\ r[i] = q[i - Len(p)]
    BY <1>4, <2>1, <2>5, Zenon DEF In
  <2> QED
    BY <1>2, <2>2, <2>3, <2>4, <2>5, Zenon
<1>5. p # << >> => 1 \in DOMAIN p /\ 1 \in DOMAIN r /\ r[1] = p[1]
  BY <1>1
<1>6. DOMAIN << >> = {}
  OBVIOUS
<1>7. p # << >> => r # << >> /\ r[1] = p[1]
  BY <1>5, <1>6, Zenon
<1> QED
  BY <1>3, <1>4, <1>7, Zenon DEF r
(* A request is known by its caller. *)
LEMMA AskIds ==
    /\ \A m \in Messages : Asks(m) => m.id \in Commands \cup Reads
    /\ \A m, x \in Messages : (Asks(m) /\ Asks(x) /\ m.id = x.id) => m = x
    /\ \A c \in Commands : CommandMsg(c) \in Messages /\ Asks(CommandMsg(c)) /\ CommandMsg(c).id = c
    /\ \A r \in Reads : GetStateMsg(r) \in Messages /\ Asks(GetStateMsg(r)) /\ GetStateMsg(r).id = r
    /\ \A m \in Messages : m.type = "command" => m.id \in Commands /\ m = CommandMsg(m.id)
    /\ \A c, d \in Commands : CommandMsg(c) = CommandMsg(d) => c = d
<1>1. /\ \A m \in Messages : m.type = "command" => m.id \in Commands /\ m = CommandMsg(m.id)
      /\ \A m \in Messages : m.type = "getState" => m.id \in Reads /\ m = GetStateMsg(m.id)
  BY DEF Messages, CommandMsg, GetStateMsg
<1>2. \A c \in Commands : CommandMsg(c) \in Messages /\ Asks(CommandMsg(c)) /\ CommandMsg(c).id = c
  BY DEF Messages, CommandMsg, Asks
<1>3. \A r \in Reads : GetStateMsg(r) \in Messages /\ Asks(GetStateMsg(r)) /\ GetStateMsg(r).id = r
  BY DEF Messages, GetStateMsg, Asks
<1>4. \A m \in Messages : Asks(m) => m.type = "command" \/ m.type = "getState"
  BY DEF Asks
<1>5. \A m \in Messages : Asks(m) => m.id \in Commands \cup Reads
  BY <1>1, <1>4, Zenon
<1>6. \A c : c \in Commands => c \notin Reads
  BY EntityAssumption, Zenon
<1>7. ASSUME NEW m \in Messages, NEW x \in Messages, Asks(m), Asks(x), m.id = x.id
      PROVE  m = x
  BY <1>1, <1>4, <1>6, <1>7, Zenon
<1> QED
  BY <1>1, <1>2, <1>3, <1>5, <1>7, Zenon

LEMMA WaitingUnsent == Waiting # Unsent /\ Waiting.kind = "waiting" /\ Unsent.kind = "unsent"
BY DEF Waiting, Unsent

(* A message arrives: a request of a caller that did not ask before, or a response. *)
LEMMA ArrivedQueues ==
    ASSUME BaseTypeOK, QueuesInv, alive, NEW m \in Messages, mailbox' = Append(mailbox, m),
           UNCHANGED <<stash, alive, phase>>,
           \/ Asks(m) /\ reply[m.id] = Unsent /\ reply' = [reply EXCEPT ![m.id] = Waiting]
           \/ ~Asks(m) /\ UNCHANGED reply
    PROVE  /\ QueuesInv'
           /\ \A x : Held(x)' => Held(x) \/ x = m
           /\ \A c : Turn(c)' <=> Turn(c)
<1>1. mailbox \in Seq(Messages) /\ stash \in Seq(Messages) /\ DOMAIN reply = Commands \cup Reads
  BY Zenon DEF BaseTypeOK
<1>2. OnceInv /\ WaitingInv /\ TurnInv
  BY Zenon DEF QueuesInv
<1>3. Asks(m) => ~Held(m) /\ ~In(m, mailbox) /\ ~In(m, stash)
  BY <1>2, WaitingUnsent, Zenon DEF WaitingInv, Held, In
<1>4. Once(mailbox') /\ \A x : In(x, mailbox') => In(x, mailbox) \/ x = m
  BY <1>1, <1>2, <1>3, AppendIn, Zenon DEF OnceInv
<1>5. OnceInv'
  BY <1>2, <1>3, <1>4, Zenon DEF OnceInv
<1>6. \A x : Held(x)' => Held(x) \/ x = m
  BY <1>4, Zenon DEF Held, In
<1>7. WaitingInv'
  <2> SUFFICES ASSUME NEW x \in Messages, Asks(x), Held(x)' PROVE reply'[x.id] = Waiting
    BY Zenon DEF WaitingInv
  <2>1. x.id \in Commands \cup Reads
    BY AskIds, Zenon
  <2>2. CASE x = m
    BY <1>1, <2>1, <2>2, Zenon
  <2>3. CASE Held(x)
    <3>1. reply[x.id] = Waiting
      BY <1>2, <2>3, Zenon DEF WaitingInv
    <3> QED
      BY <1>1, <2>1, <3>1, Zenon
  <2> QED
    BY <1>6, <2>2, <2>3, Zenon
<1>8. mailbox' # << >> /\ (mailbox # << >> => mailbox'[1] = mailbox[1])
  BY <1>1
<1>9. TurnInv'
  BY <1>2, <1>8, Zenon DEF TurnInv
<1>10. \A c : Turn(c)' <=> Turn(c)
  BY <1>2, <1>8, Zenon DEF Turn, TurnInv
<1> QED
  BY <1>5, <1>6, <1>7, <1>9, <1>10, Zenon DEF QueuesInv

(* The request at the head of the mailbox is answered. *)
LEMMA AnsweredQueues ==
    ASSUME BaseTypeOK, QueuesInv, alive, mailbox # << >>, Asks(Head(mailbox)), stash = << >>,
           NEW answer, Answer(Head(mailbox).id, answer),
           mailbox' = Tail(mailbox), stash' = << >>, phase' = "processing", UNCHANGED alive
    PROVE  /\ QueuesInv'
           /\ \A x : Held(x)' => Held(x) /\ x # Head(mailbox)
           /\ \A c : ~Turn(c)'
           /\ reply[Head(mailbox).id] = Waiting
<1>1. mailbox \in Seq(Messages) /\ DOMAIN reply = Commands \cup Reads /\ Head(mailbox) \in Messages
  BY HeadTailProperties, Zenon DEF BaseTypeOK
<1>2. OnceInv /\ WaitingInv
  BY Zenon DEF QueuesInv
<1>3. \A x : ~In(x, << >>)
  BY DEF In
<1>4. /\ Once(mailbox') /\ \A x : In(x, mailbox') => In(x, mailbox) /\ x # Head(mailbox)
      /\ In(Head(mailbox), mailbox)
  BY <1>1, <1>2, TailIn, Zenon DEF OnceInv
<1>5. Once(<< >>)
  BY DEF Once
<1>6. OnceInv'
  BY <1>3, <1>4, <1>5, Zenon DEF OnceInv
<1>7. \A x : Held(x)' => Held(x) /\ x # Head(mailbox)
  BY <1>3, <1>4, Zenon DEF Held, In
<1>8. \A x \in Messages : (Asks(x) /\ x # Head(mailbox)) => x.id # Head(mailbox).id
  BY <1>1, AskIds, Zenon
<1>9. WaitingInv'
  <2> SUFFICES ASSUME NEW x \in Messages, Asks(x), Held(x)' PROVE reply'[x.id] = Waiting
    BY Zenon DEF WaitingInv
  <2>1. Held(x) /\ x.id # Head(mailbox).id /\ x.id \in Commands \cup Reads
    BY <1>7, <1>8, AskIds, Zenon
  <2> QED
    BY <1>1, <1>2, <2>1, Zenon DEF WaitingInv, Answer
<1>10. TurnInv' /\ \A c : ~Turn(c)'
  BY DEF TurnInv, Turn
<1>11. reply[Head(mailbox).id] = Waiting
  BY <1>1, <1>2, <1>4, Zenon DEF WaitingInv, Held, In
<1> QED
  BY <1>6, <1>7, <1>9, <1>10, <1>11, Zenon DEF QueuesInv
(* The request at the head of the mailbox has to wait. *)
LEMMA StashedQueues ==
    ASSUME BaseTypeOK, QueuesInv, alive, mailbox # << >>, Asks(Head(mailbox)), Stash,
           phase' = "persisting", UNCHANGED <<alive, reply>>,
           \/ phase = "processing" /\ Head(mailbox).type = "command"
           \/ phase = "persisting"
    PROVE  /\ QueuesInv'
           /\ \A x : Held(x)' => Held(x)
           /\ phase = "processing" => stash'[1] = Head(mailbox)
           /\ phase = "persisting" => \A c : Turn(c)' <=> Turn(c)
<1>1. mailbox \in Seq(Messages) /\ stash \in Seq(Messages) /\ Head(mailbox) \in Messages
  BY HeadTailProperties, Zenon DEF BaseTypeOK
<1>2. OnceInv /\ WaitingInv /\ TurnInv
  BY Zenon DEF QueuesInv
<1>3. mailbox' = Tail(mailbox) /\ stash' = Append(stash, Head(mailbox))
  BY Zenon DEF Stash
<1>4. /\ Once(mailbox') /\ \A x : In(x, mailbox') => In(x, mailbox) /\ x # Head(mailbox)
      /\ In(Head(mailbox), mailbox)
  BY <1>1, <1>2, <1>3, TailIn, Zenon DEF OnceInv
<1>5. ~In(Head(mailbox), stash)
  BY <1>1, <1>2, <1>4, Zenon DEF OnceInv
<1>6. Once(stash') /\ \A x : In(x, stash') => In(x, stash) \/ x = Head(mailbox)
  BY <1>1, <1>2, <1>3, <1>5, AppendIn, Zenon DEF OnceInv
<1>7. OnceInv'
  BY <1>2, <1>4, <1>6, Zenon DEF OnceInv
<1>8. \A x : Held(x)' => Held(x)
  BY <1>4, <1>6, Zenon DEF Held, In
<1>9. WaitingInv'
  BY <1>2, <1>8, Zenon DEF WaitingInv
<1>10. /\ stash' # << >>
       /\ stash = << >> => stash'[1] = Head(mailbox)
       /\ stash # << >> => stash'[1] = stash[1]
  BY <1>1, <1>3
<1>11. TurnInv'
  BY <1>2, <1>10 DEF TurnInv
<1>12. phase = "persisting" => \A c : Turn(c)' <=> Turn(c)
  BY <1>2, <1>10 DEF TurnInv, Turn
<1> QED
  BY <1>2, <1>7, <1>8, <1>9, <1>10, <1>11, <1>12, ZenonT(40) DEF QueuesInv, TurnInv

(* The response brings back what waits in the stash. *)
LEMMA UnstashedQueues ==
    ASSUME BaseTypeOK, QueuesInv, mailbox # << >>, UnstashAll,
           phase = "persisting", phase' = "directReplying", UNCHANGED <<alive, reply>>
    PROVE  /\ QueuesInv'
           /\ \A x : Held(x)' => Held(x)
           /\ \A c : Turn(c)' <=> Turn(c)
<1>1. mailbox \in Seq(Messages) /\ stash \in Seq(Messages) /\ Tail(mailbox) \in Seq(Messages)
  BY HeadTailProperties, Zenon DEF BaseTypeOK
<1>2. OnceInv /\ WaitingInv /\ TurnInv
  BY Zenon DEF QueuesInv
<1>3. mailbox' = stash \o Tail(mailbox) /\ stash' = << >>
  BY Zenon DEF UnstashAll
<1>4. Once(Tail(mailbox)) /\ \A x : In(x, Tail(mailbox)) => In(x, mailbox)
  BY <1>1, <1>2, TailIn, Zenon DEF OnceInv
<1>5. \A m \in Messages : Asks(m) => ~(In(m, stash) /\ In(m, Tail(mailbox)))
  BY <1>2, <1>4, Zenon DEF OnceInv
<1>6. /\ Once(mailbox') /\ \A x : In(x, mailbox') => In(x, stash) \/ In(x, Tail(mailbox))
      /\ stash # << >> => mailbox' # << >> /\ mailbox'[1] = stash[1]
  BY <1>1, <1>2, <1>3, <1>4, <1>5, ConcatIn, ZenonT(40) DEF OnceInv
<1>7. Once(<< >>) /\ \A x : ~In(x, << >>)
  BY DEF Once, In
<1>8. OnceInv'
  BY <1>3, <1>6, <1>7, Zenon DEF OnceInv
<1>9. \A x : Held(x)' => Held(x)
  BY <1>3, <1>4, <1>6, <1>7, Zenon DEF Held, In
<1>10. WaitingInv'
  BY <1>2, <1>9, Zenon DEF WaitingInv
<1>11. TurnInv' /\ \A c : Turn(c)' <=> Turn(c)
  BY <1>2, <1>3, <1>6, SMTT(30) DEF TurnInv, Turn
<1> QED
  BY <1>8, <1>9, <1>10, <1>11, Zenon DEF QueuesInv

(* The actor stops. *)
LEMMA ClearedQueues ==
    ASSUME mailbox' = << >>, stash' = << >>, phase' = "processing"
    PROVE  QueuesInv' /\ (\A x : ~Held(x)') /\ \A c : ~Turn(c)'
<1>1. Once(<< >>) /\ \A x : ~In(x, << >>)
  BY DEF Once, In
<1>2. OnceInv' /\ \A x : ~Held(x)'
  BY <1>1, Zenon DEF OnceInv, Held, In
<1>3. TurnInv' /\ \A c : ~Turn(c)'
  BY DEF TurnInv, Turn
<1> QED
  BY <1>2, <1>3, Zenon DEF QueuesInv, WaitingInv

(* A step elsewhere. *)
LEMMA SameQueues ==
    ASSUME QueuesInv, UNCHANGED <<mailbox, stash, phase, reply>>, alive => alive'
    PROVE  QueuesInv' /\ (\A x : Held(x)' <=> Held(x)) /\ \A c : Turn(c)' <=> Turn(c)
<1>1. \A x : Held(x)' <=> Held(x)
  BY Zenon DEF Held
<1>2. \A c : Turn(c)' <=> Turn(c)
  BY Zenon DEF Turn
<1>3. OnceInv' /\ WaitingInv'
  BY <1>1, Zenon DEF QueuesInv, OnceInv, WaitingInv
<1>4. TurnInv'
  BY Zenon DEF QueuesInv, TurnInv
<1> QED
  BY <1>1, <1>2, <1>3, <1>4, Zenon DEF QueuesInv

(* The command in turn is held, and there is one at most. *)
LEMMA TurnHeld ==
    ASSUME BaseTypeOK, QueuesInv, NEW c \in Commands, Turn(c)
    PROVE  Held(CommandMsg(c)) /\ reply[c] = Waiting /\ \A d \in Commands : Turn(d) => d = c
<1>1. mailbox \in Seq(Messages) /\ stash \in Seq(Messages) /\ TurnInv
  BY Zenon DEF BaseTypeOK, QueuesInv
<1>2. (mailbox # << >> => 1 \in DOMAIN mailbox) /\ (stash # << >> => 1 \in DOMAIN stash)
  BY <1>1
<1>3. Held(CommandMsg(c))
  BY <1>1, <1>2, Zenon DEF Turn, TurnInv, Held
<1>4. reply[c] = Waiting
  BY <1>3, AskIds, Zenon DEF QueuesInv, WaitingInv
<1>5. \A d \in Commands : Turn(d) => CommandMsg(d) = CommandMsg(c)
  BY DEF Turn
<1> QED
  BY <1>3, <1>4, <1>5, AskIds, Zenon
-----------------------------------------------------------------------------
(***************************************************************************)
(* Writes.                                                                 *)
(***************************************************************************)

LEMMA EnvelopesOf ==
    ASSUME NEW c, NEW n, NEW counter, NEW e \in BuildEnvelopes(c, n, counter)
    PROVE  e.cmd = c
BY DEF BuildEnvelopes

(* Events say which command they are of. *)
LEMMA EnvelopesDiffer ==
    ASSUME NEW c \in Commands, NEW n \in Nat \ {0}, NEW b \in Nat, NEW d, NEW m, NEW k,
           BuildEnvelopes(c, n, b) = BuildEnvelopes(d, m, k)
    PROVE  c = d
<1>1. BuildEnvelopes(c, n, b) # {}
  BY EnvelopesFollow, Zenon DEF Follows
<1>2. PICK e \in BuildEnvelopes(c, n, b) : TRUE
  BY <1>1, Zenon
<1> QED
  BY <1>2, EnvelopesOf

(* A write has the events of one command, in full. *)
LEMMA WriteOwner ==
    ASSUME BaseTypeOK, RequestsInv, NEW r \in request \cup abandoned,
           NEW c \in Commands, WriteOf(r, c)
    PROVE  /\ made[c] > 0
           /\ \A e \in r.events : e.cmd = c
           /\ r.pre = declared[c] /\ r.pre # NoRevision
           /\ \A d \in Commands : WriteOf(r, d) => d = c
           /\ \E b \in 0..store.rev : r.events = BuildEnvelopes(c, made[c], b)
           /\ Cardinality(r.events) = made[c]
<1>1. PICK b \in Nat : r = [events |-> BuildEnvelopes(c, made[c], b), pre |-> declared[c]]
  BY Zenon DEF WriteOf
<1>2. r.events = BuildEnvelopes(c, made[c], b) /\ r.pre = declared[c]
  BY <1>1, Zenon
<1>3. PICK a \in 0..store.rev : Follows(r.events, a) /\ r.pre # NoRevision
  BY Zenon DEF RequestsInv
<1>4. made[c] \in Nat /\ store.rev \in Nat
  BY Zenon DEF BaseTypeOK
<1>5. r.events # {}
  BY <1>3, Zenon DEF Follows
<1>6. made[c] # 0
  BY <1>2, <1>5 DEF BuildEnvelopes
<1>7. \A e \in r.events : e.cmd = c
  BY <1>2, EnvelopesOf
<1>8. \A d \in Commands : WriteOf(r, d) => d = c
  <2> SUFFICES ASSUME NEW d \in Commands, WriteOf(r, d) PROVE d = c
    BY Zenon
  <2>1. PICK k \in Nat : r = [events |-> BuildEnvelopes(d, made[d], k), pre |-> declared[d]]
    BY Zenon DEF WriteOf
  <2>2. r.events = BuildEnvelopes(d, made[d], k)
    BY <2>1, Zenon
  <2>3. PICK e \in r.events : TRUE
    BY <1>5, Zenon
  <2>4. e.cmd = c /\ e.cmd = d
    BY <1>7, <2>2, EnvelopesOf, SMTT(30)
  <2> QED
    BY <2>4, Zenon
<1>9. Follows(r.events, b) /\ Cardinality(r.events) = made[c]
  BY <1>2, <1>4, <1>6, EnvelopesFollow, SMTT(30)
<1>10. b + 1..b + made[c] = a + 1..a + made[c]
  BY <1>3, <1>9, Zenon DEF Follows
<1>11. a = b
  <2>1. b + 1 \in a + 1..a + made[c] /\ a + 1 \in b + 1..b + made[c]
    BY <1>4, <1>6, <1>10, SMTT(30)
  <2> QED
    BY <1>4, <2>1, SMTT(30)
<1> QED
  BY <1>2, <1>3, <1>4, <1>6, <1>7, <1>8, <1>9, <1>11, SMTT(30)

(* A step that asks for no write leaves every command with one write at most, when
   the log of a command changes only with its write, and a caller that is told of
   more than an error has none left. *)
LEMMA WritesKept ==
    ASSUME BaseTypeOK, RequestsInv, MadeInv, OneWriteInv, UNCHANGED made,
           request' \cup abandoned' \subseteq request \cup abandoned,
           request' \cap abandoned' = {},
           request' \subseteq request, request' # {} => \A c \in Commands : Turn(c) => Turn(c)',
           \A c \in Commands : made[c] = 0 \/ declared'[c] = declared[c],
           \A c \in Commands :
              \/ LogOf(c)' = LogOf(c)
              \/ made[c] > 0 /\ \A q \in request' \cup abandoned' : ~WriteOf(q, c),
           \A c \in Commands : reply'[c] = Unsent => reply[c] = Unsent,
           \A c \in Commands :
              (Held(CommandMsg(c))' /\ ~Turn(c)')
                 => (Held(CommandMsg(c)) /\ ~Turn(c)) \/ reply[c] = Unsent,
           \A c \in Commands :
              \/ reply'[c] = reply[c]
              \/ reply'[c].kind \in {"waiting", "error"}
              \/ \A q \in request' \cup abandoned' : ~WriteOf(q, c)
    PROVE  MadeInv' /\ OneWriteInv'
<1>1. \A c \in Commands, r \in request' \cup abandoned' : WriteOf(r, c)' <=> WriteOf(r, c)
  <2> SUFFICES ASSUME NEW c \in Commands, NEW r \in request' \cup abandoned'
               PROVE  WriteOf(r, c)' <=> WriteOf(r, c)
    BY Zenon
  <2>1. CASE declared'[c] = declared[c]
    BY <2>1, Zenon DEF WriteOf
  <2>2. CASE made[c] = 0
    <3>1. ~WriteOf(r, c)
      BY <2>2, Zenon DEF MadeInv, Untouched
    <3>2. \E b : Follows(r.events, b)
      BY Zenon DEF RequestsInv
    <3>3. r.events # {}
      BY <3>2, Zenon DEF Follows
    <3>4. \A b : BuildEnvelopes(c, made'[c], b) = {}
      BY <2>2 DEF BuildEnvelopes
    <3>5. ~WriteOf(r, c)'
      BY <3>3, <3>4, Zenon DEF WriteOf
    <3> QED
      BY <3>1, <3>5, Zenon
  <2> QED
    BY <2>1, <2>2, Zenon
<1>2. \A c \in Commands : (~(made[c] > 0) /\ made[c] \in Nat) => made[c] = 0
  OBVIOUS
<1>3. made \in [Commands -> Nat]
  BY Zenon DEF BaseTypeOK
<1>4. MadeInv'
  <2>1. \A c \in Commands : reply'[c] = Unsent => made'[c] = 0
    BY Zenon DEF MadeInv
  <2>2. \A c \in Commands : (Held(CommandMsg(c))' /\ ~Turn(c)') => made'[c] = 0
    BY Zenon DEF MadeInv
  <2>3. ~(0 > 0)
    OBVIOUS
  <2>4. \A c \in Commands : made'[c] = 0 => LogOf(c)' = {}
    BY <2>3, Zenon DEF MadeInv, Untouched
  <2>5. \A c \in Commands : made'[c] = 0 => \A r \in request' \cup abandoned' : ~WriteOf(r, c)'
    BY <1>1, Zenon DEF MadeInv, Untouched
  <2> QED
    BY <2>1, <2>2, <2>4, <2>5, Zenon DEF MadeInv, Untouched
<1>5. \A r \in request' : \E c \in Commands : Turn(c)' /\ WriteOf(r, c)'
  BY <1>1, Zenon DEF OneWriteInv
<1>6. \A r \in request' \cup abandoned' : \E c \in Commands : WriteOf(r, c)' /\ MayLand(c)'
  <2> SUFFICES ASSUME NEW r \in request' \cup abandoned'
               PROVE  \E c \in Commands : WriteOf(r, c)' /\ MayLand(c)'
    BY Zenon
  <2>1. PICK c \in Commands : WriteOf(r, c) /\ MayLand(c)
    BY Zenon DEF OneWriteInv
  <2>2. LogOf(c)' = {} /\ made'[c] > 0
    BY <2>1, Zenon DEF MayLand
  <2>3. reply'[c].kind \in {"waiting", "error"}
    BY <2>1, Zenon DEF MayLand
  <2> QED
    BY <1>1, <2>1, <2>2, <2>3, Zenon DEF MayLand
<1>7. \A c \in Commands : \A r, q \in request' \cup abandoned' :
         (WriteOf(r, c)' /\ WriteOf(q, c)') => r = q
  BY <1>1, Zenon DEF OneWriteInv
<1> QED
  BY <1>4, <1>5, <1>6, <1>7, Zenon DEF OneWriteInv

(* What a response says stays so: nothing else is written for a command that was
   told of a success or of a conflict. *)
LEMMA SettledKept ==
    ASSUME BaseTypeOK, NEW c \in Commands, NEW outcome \in Outcomes, NEW n \in Nat, NEW k \in Nat,
           n <= k, Settled(c, outcome, n), Grows,
           made'[c] = made[c], declared'[c] = declared[c],
           request' \cup abandoned' \subseteq request \cup abandoned,
           \/ LogOf(c)' = LogOf(c)
           \/ \E r \in request \cup abandoned : WriteOf(r, c) /\ MayLand(c)
    PROVE  Settled(c, outcome, k)'
<1>1. \A r : WriteOf(r, c)' <=> WriteOf(r, c)
  BY Zenon DEF WriteOf
<1>2. CASE LogOf(c)' = LogOf(c)
  <2>1. Untouched(c) => Untouched(c)'
    BY <1>1, <1>2, ZenonT(40) DEF Untouched
  <2>2. \A e \in LogOf(c) : e.seq \in Nat
    BY DEF LogOf, BaseTypeOK, Event
  <2>3. \A e \in LogOf(c) : e.seq <= n => e.seq <= k
    BY <2>2
  <2>4. outcome = Committed =>
           Cardinality(LogOf(c)') = made'[c] /\ \A e \in LogOf(c)' : e.seq <= k
    BY <1>2, <2>3, ZenonT(40) DEF Settled
  <2>5. Named(outcome) \in Nat
    BY SMTT(30) DEF Named, Outcomes, Preconditions, Committed, Failed
  <2>6. Named(outcome) <= store.rev => Named(outcome) <= store'.rev
    BY <2>5, SMTT(30) DEF Grows
  <2> QED
    BY <2>1, <2>4, <2>6, Zenon DEF Settled
<1>3. CASE \E r \in request \cup abandoned : WriteOf(r, c) /\ MayLand(c)
  <2>1. ~Untouched(c) /\ made[c] # 0 /\ LogOf(c) = {}
    <3>1. made[c] > 0
      BY <1>3, ZenonT(40) DEF MayLand
    <3>2. made[c] # 0
      BY <3>1
    <3> QED
      BY <1>3, <3>2, Zenon DEF MayLand, Untouched
  <2>2. Cardinality({}) = 0
    BY FS_EmptySet, Zenon
  <2>3. outcome # Committed /\ outcome.kind # "conflict"
    BY <2>1, <2>2, Zenon DEF Settled
  <2> QED
    BY <2>3, Zenon DEF Settled
<1> QED
  BY <1>2, <1>3, Zenon
LEMMA SettlementKept ==
    ASSUME TypeOK, SettledInv, Grows, UNCHANGED <<phase, direct, eventsCounter, made>>,
           request' \cup abandoned' \subseteq request \cup abandoned,
           \A i \in DOMAIN mailbox' : mailbox'[i].type = "response" => In(mailbox'[i], mailbox),
           \A c \in Commands : Turn(c)' =>
              /\ Turn(c) /\ declared'[c] = declared[c]
              /\ \/ LogOf(c)' = LogOf(c)
                 \/ \E r \in request \cup abandoned : WriteOf(r, c) /\ MayLand(c)
    PROVE  SettledInv'
<1>1. /\ BaseTypeOK /\ mailbox \in Seq(Messages) /\ eventsCounter \in Nat
      /\ direct.counter \in Nat /\ direct.err \in Outcomes
  BY ZenonT(40) DEF TypeOK, BaseTypeOK
<1>2. \A n \in Nat : n <= n
  OBVIOUS
<1>3. ASSUME NEW c \in Commands, Turn(c)', NEW outcome \in Outcomes, NEW n \in Nat,
             Settled(c, outcome, n)
      PROVE  Settled(c, outcome, n)'
  BY <1>1, <1>2, <1>3, SettledKept, ZenonT(40)
<1>4. \A i \in DOMAIN mailbox : mailbox[i].type = "response" => mailbox[i].outcome \in Outcomes
  <2>1. \A m \in Messages : m.type = "response" => m.outcome \in Outcomes
    BY DEF Messages
  <2> QED
    BY <1>1, <2>1, SMTT(30)
<1>5. ASSUME NEW c \in Commands, NEW i \in DOMAIN mailbox', Turn(c)', mailbox'[i].type = "response"
      PROVE  Settled(c, mailbox[i].outcome, direct.counter)'
  <2>1. PICK j \in DOMAIN mailbox : mailbox[j] = mailbox'[i]
    BY <1>5, ZenonT(40) DEF In
  <2>2. Settled(c, mailbox[j].outcome, direct.counter) /\ mailbox[j].outcome \in Outcomes
    BY <1>4, <1>5, <2>1, ZenonT(40) DEF SettledInv
  <2>3. PICK outcome, n : outcome = mailbox[j].outcome /\ n = direct.counter
    BY Zenon
  <2>4. Settled(c, outcome, n)'
    BY <1>1, <1>3, <1>5, <2>2, <2>3, ZenonT(40)
  <2>5. mailbox'[i].outcome = outcome /\ direct'.counter = n
    BY <2>1, <2>3, Zenon
  <2> QED
    BY <2>4, <2>5, Zenon DEF Settled
<1>6. ASSUME NEW c \in Commands, Turn(c)', phase = "directReplying"
      PROVE  Settled(c, direct.err, eventsCounter)'
  <2>1. Settled(c, direct.err, eventsCounter)
    BY <1>6, Zenon DEF SettledInv
  <2>2. PICK outcome, n : outcome = direct.err /\ n = eventsCounter
    BY Zenon
  <2>3. Settled(c, outcome, n)'
    BY <1>1, <1>3, <1>6, <2>1, <2>2, ZenonT(40)
  <2>4. direct'.err = outcome /\ eventsCounter' = n
    BY <2>2, Zenon
  <2> QED
    BY <2>3, <2>4, Zenon DEF Settled
<1> QED
  BY <1>5, <1>6, Zenon DEF SettledInv

(* No command is in turn. *)
LEMMA SettlementOver ==
    ASSUME phase' = "processing"
    PROVE  SettledInv'
<1>1. \A c : ~Turn(c)'
  BY SMTT(30) DEF Turn
<1> QED
  BY <1>1 DEF SettledInv

LEMMA ToldKept ==
    ASSUME BaseTypeOK, BaseTypeOK', ToldInv, Grows,
           \A id \in Commands \cup Reads :
              \/ reply'[id].rev = reply[id].rev
              \/ reply'[id].rev = 0
              \/ reply'[id].rev <= store.rev /\ (alive' => reply'[id].rev <= eventsCounter'),
           alive' => alive /\ (UNCHANGED eventsCounter \/ eventsCounter <= eventsCounter')
    PROVE  ToldInv'
<1> SUFFICES ASSUME NEW id \in Commands \cup Reads
             PROVE  reply'[id].rev <= store'.rev /\ (alive' => reply'[id].rev <= eventsCounter')
  BY Zenon DEF ToldInv
<1>1. reply[id].rev \in Nat /\ reply'[id].rev \in Nat
  BY Zenon DEF BaseTypeOK, Replies
<1>2. /\ store.rev \in Nat /\ store'.rev \in Nat /\ store.rev <= store'.rev
      /\ eventsCounter \in Nat /\ eventsCounter' \in Nat
  BY Zenon DEF Grows, BaseTypeOK
<1>3. reply[id].rev <= store.rev /\ (alive => reply[id].rev <= eventsCounter)
  BY Zenon DEF ToldInv
<1> QED
  BY <1>1, <1>2, <1>3, SMTT(30)

-----------------------------------------------------------------------------
(***************************************************************************)
(* The invariant of the refinement, action by action.                      *)
(***************************************************************************)

LEMMA InitRefinement ==
    ASSUME Init
    PROVE  RInv
<1>1. \A x : ~Held(x)
  BY DEF Init, BaseInit, Held
<1>2. \A c : ~Turn(c)
  BY SMTT(30) DEF Init, BaseInit, Turn
<1>3. QueuesInv
  BY <1>1 DEF Init, BaseInit, QueuesInv, OnceInv, WaitingInv, TurnInv, Once, In
<1>4. \A c : LogOf(c) = {}
  BY Zenon DEF Init, BaseInit, LogOf
<1>5. MadeInv
  BY <1>1, <1>4, Zenon DEF Init, BaseInit, MadeInv, Untouched
<1>6. OneWriteInv
  BY Zenon DEF Init, BaseInit, OneWriteInv
<1>7. SettledInv
  BY <1>2, SMTT(30) DEF Init, BaseInit, SettledInv
<1>8. ToldInv
  BY DEF Init, BaseInit, ToldInv, Unsent, EmptyStore
<1>9. PeerInv
  BY <1>4, FS_EmptySet, Zenon DEF Init, BaseInit, PeerInv
<1> QED
  BY <1>3, <1>5, <1>6, <1>7, <1>8, <1>9, ZenonT(40) DEF RInv
(* A caller asks. *)
LEMMA AskedRefinement ==
    ASSUME IInv, IInv', RInv, alive, NEW m \in Messages, Asks(m), reply[m.id] = Unsent,
           reply' = [reply EXCEPT ![m.id] = Waiting], mailbox' = Append(mailbox, m),
           \A c \in Commands : declared'[c] = declared[c] \/ m = CommandMsg(c),
           UNCHANGED <<durable, alive, phase, currentState, eventsCounter, stash, writers, made,
                       direct>>
    PROVE  RInv'
<1>1. /\ BaseTypeOK /\ BaseTypeOK' /\ TypeOK /\ LogInv /\ RequestsInv
      /\ reply \in [Commands \cup Reads -> Replies] /\ mailbox \in Seq(Messages)
  BY Zenon DEF IInv, BaseInv, TypeOK, BaseTypeOK
<1>2. QueuesInv /\ MadeInv /\ OneWriteInv /\ SettledInv /\ ToldInv /\ PeerInv
  BY Zenon DEF RInv
<1>3. UNCHANGED <<store, journal, published, peerWrites, request, abandoned>>
  BY Zenon DEF durable, writers
<1>4. Grows
  BY <1>1, <1>3, UnwrittenGrows, ZenonT(40)
<1>5. QueuesInv' /\ (\A x : Held(x)' => Held(x) \/ x = m) /\ \A c : Turn(c)' <=> Turn(c)
  BY <1>1, <1>2, ArrivedQueues, Zenon
<1>6. \A c : LogOf(c)' = LogOf(c)
  BY <1>3, Zenon DEF LogOf
<1>7. m.id \in Commands \cup Reads
  BY AskIds, Zenon
<1>8. \A id \in Commands \cup Reads : reply'[id] = IF id = m.id THEN Waiting ELSE reply[id]
  BY <1>1, <1>7, Zenon
<1>9. \A c \in Commands : m = CommandMsg(c) => reply[c] = Unsent /\ made[c] = 0
  BY <1>2, AskIds, Zenon DEF MadeInv
<1>10. MadeInv' /\ OneWriteInv'
  <2>1. request' \cap abandoned' = {}
    BY <1>2, <1>3, ZenonT(40) DEF OneWriteInv
  <2>2. \A c \in Commands : made[c] = 0 \/ declared'[c] = declared[c]
    BY <1>9, Zenon
  <2>3. \A c \in Commands : reply'[c] = Unsent => reply[c] = Unsent
    BY <1>8, Zenon
  <2>4. \A c \in Commands : (Held(CommandMsg(c))' /\ ~Turn(c)')
                               => (Held(CommandMsg(c)) /\ ~Turn(c)) \/ reply[c] = Unsent
    BY <1>5, <1>9, Zenon
  <2>5. \A c \in Commands : reply'[c] = reply[c] \/ reply'[c].kind \in {"waiting", "error"}
    BY <1>8, WaitingUnsent, Zenon
  <2> QED
    BY <1>1, <1>2, <1>3, <1>5, <1>6, <2>1, <2>2, <2>3, <2>4, <2>5, WritesKept, ZenonT(40)
<1>11. SettledInv'
  <2>1. ~(m.type = "response")
    BY DEF Asks
  <2>2. Asks(m) => ~In(m, mailbox)
    BY <1>2, WaitingUnsent, Zenon DEF QueuesInv, WaitingInv, Held, In
  <2>3. \A x : In(x, mailbox') => In(x, mailbox) \/ x = m
    BY <1>1, <1>2, <2>2, AppendIn, ZenonT(40) DEF QueuesInv, OnceInv
  <2>4. \A i \in DOMAIN mailbox' : mailbox'[i].type = "response" => In(mailbox'[i], mailbox)
    BY <2>1, <2>3, ZenonT(40) DEF In
  <2>5. \A c \in Commands : Turn(c)' => Turn(c) /\ declared'[c] = declared[c]
    BY <1>1, <1>2, <1>5, <1>9, TurnHeld, WaitingUnsent, ZenonT(40)
  <2> QED
    BY <1>1, <1>2, <1>3, <1>4, <1>6, <2>4, <2>5, SettlementKept, ZenonT(40)
<1>12. ToldInv'
  <2>1. Waiting.rev = 0
    BY Zenon DEF Waiting, Unsent
  <2>2. \A id \in Commands \cup Reads : reply'[id].rev = reply[id].rev \/ reply'[id].rev = 0
    BY <1>8, <2>1, Zenon
  <2> QED
    BY <1>1, <1>2, <1>4, <2>1, <2>2, ToldKept, ZenonT(40)
<1>13. PeerInv'
  BY <1>2, <1>3, <1>6, ZenonT(40) DEF PeerInv
<1> QED
  BY <1>5, <1>10, <1>11, <1>12, <1>13, ZenonT(40) DEF RInv

LEMMA CallerRefinement ==
    ASSUME IInv, IInv', RInv, Caller
    PROVE  RInv'
<1>1. CASE \E c \in Commands, rev \in Declarable : SendCommand(c, rev)
  <2>1. PICK c \in Commands, rev \in Declarable : SendCommand(c, rev)
    BY <1>1, Zenon
  <2>2. declared \in [Commands -> Preconditions]
    BY Zenon DEF IInv, TypeOK, BaseTypeOK
  <2>3. \A d \in Commands : declared'[d] = declared[d] \/ CommandMsg(c) = CommandMsg(d)
    BY <2>1, <2>2, Zenon DEF SendCommand
  <2>4. CommandMsg(c) \in Messages /\ Asks(CommandMsg(c)) /\ CommandMsg(c).id = c
    BY AskIds, Zenon
  <2> QED
    BY <2>1, <2>3, <2>4, AskedRefinement, ZenonT(40) DEF SendCommand, Caller
<1>2. CASE \E r \in Reads : SendGetState(r)
  <2>1. PICK r \in Reads : SendGetState(r)
    BY <1>2, Zenon
  <2>2. GetStateMsg(r) \in Messages /\ Asks(GetStateMsg(r)) /\ GetStateMsg(r).id = r
    BY AskIds, Zenon
  <2> QED
    BY <2>1, <2>2, AskedRefinement, Zenon DEF SendGetState, Caller
<1> QED
  BY <1>1, <1>2, Zenon DEF Caller
(* A request is answered at once: a command of which no events were made. *)
LEMMA AnsweredRefinement ==
    ASSUME IInv, IInv', RInv, NEW type \in {"command", "getState"}, Received(type),
           phase = "processing", NEW answer \in Replies, Answer(Head(mailbox).id, answer), Consume,
           answer # Unsent, answer.rev = 0 \/ answer.rev = eventsCounter,
           UNCHANGED <<durable, alive, phase, eventsCounter, writers, declared, made>>
    PROVE  /\ RInv'
           /\ Head(mailbox).id \in Commands \cup Reads
           /\ reply[Head(mailbox).id] = Waiting
           /\ type = "command" => made[Head(mailbox).id] = 0
<1>1. /\ BaseTypeOK /\ BaseTypeOK' /\ LogInv /\ RequestsInv /\ ActorInv
      /\ reply \in [Commands \cup Reads -> Replies]
      /\ mailbox \in Seq(Messages)
  BY Zenon DEF IInv, BaseInv, TypeOK, BaseTypeOK
<1>2. QueuesInv /\ MadeInv /\ OneWriteInv /\ SettledInv /\ ToldInv /\ PeerInv
  BY Zenon DEF RInv
<1>3. /\ UNCHANGED <<store, journal, published, peerWrites, request, abandoned>>
      /\ mailbox' = Tail(mailbox) /\ stash' = stash /\ phase' = "processing"
  BY Zenon DEF durable, writers, Consume
<1>4. Grows
  BY <1>1, <1>3, UnwrittenGrows, Zenon
<1>5. alive /\ mailbox # << >> /\ Head(mailbox) \in Messages /\ Asks(Head(mailbox)) /\ stash = << >>
  BY <1>1, <1>2 DEF Received, Asks, QueuesInv, TurnInv
<1>6. /\ QueuesInv'
      /\ \A x : Held(x)' => Held(x) /\ x # Head(mailbox)
      /\ \A c : ~Turn(c)'
      /\ reply[Head(mailbox).id] = Waiting
  BY <1>1, <1>2, <1>3, <1>5, AnsweredQueues, Zenon
<1>7. \A c : LogOf(c)' = LogOf(c)
  BY <1>3, Zenon DEF LogOf
<1>8. Head(mailbox).id \in Commands \cup Reads
  BY <1>5, AskIds, Zenon
<1>9. \A id \in Commands \cup Reads : reply'[id] = IF id = Head(mailbox).id THEN answer ELSE reply[id]
  BY <1>1, <1>8, Zenon DEF Answer
<1>10. \A c : ~Turn(c)
  BY DEF Turn
<1>11. \A c \in Commands : Head(mailbox).id = c => made[c] = 0
  <2>1. In(Head(mailbox), mailbox)
    BY <1>1, <1>5, TailIn, Zenon
  <2>2. \A c \in Commands : Head(mailbox).id = c => Head(mailbox) = CommandMsg(c)
    BY <1>5, AskIds, Zenon
  <2>3. \A c \in Commands : Head(mailbox).id = c => Held(CommandMsg(c))
    BY <2>1, <2>2, Zenon DEF Held, In
  <2> QED
    BY <1>2, <1>10, <2>3, Zenon DEF MadeInv
<1>12. MadeInv' /\ OneWriteInv'
  <2>1. request' \cap abandoned' = {}
    BY <1>2, <1>3, Zenon DEF OneWriteInv
  <2>2. \A c \in Commands : reply'[c] = Unsent => reply[c] = Unsent
    BY <1>9, Zenon
  <2>3. \A c \in Commands : (Held(CommandMsg(c))' /\ ~Turn(c)') => (Held(CommandMsg(c)) /\ ~Turn(c))
    BY <1>6, <1>10, Zenon
  <2>4. \A c \in Commands : \/ reply'[c] = reply[c]
                            \/ \A q \in request' \cup abandoned' : ~WriteOf(q, c)
    BY <1>2, <1>3, <1>9, <1>11, ZenonT(40) DEF MadeInv, Untouched
  <2> QED
    BY <1>1, <1>2, <1>3, <1>7, <1>10, <2>1, <2>2, <2>3, <2>4, WritesKept, ZenonT(40)
<1>13. SettledInv'
  BY <1>3, SettlementOver, Zenon
<1>14. ToldInv'
  <2>1. eventsCounter <= eventsCounter' /\ eventsCounter <= store.rev
    BY <1>1, <1>5, SMTT(30) DEF BaseTypeOK, ActorInv, Recorded
  <2>2. answer.rev = 0 \/ (answer.rev <= store.rev /\ answer.rev <= eventsCounter')
    BY <2>1, Zenon
  <2>3. \A id \in Commands \cup Reads :
           \/ reply'[id].rev = reply[id].rev
           \/ reply'[id].rev = 0
           \/ reply'[id].rev <= store.rev /\ (alive' => reply'[id].rev <= eventsCounter')
    BY <1>9, <2>2, Zenon
  <2> QED
    BY <1>1, <1>2, <1>4, <1>5, <2>1, <2>3, ToldKept, ZenonT(40)
<1>15. PeerInv'
  BY <1>2, <1>3, <1>7, Zenon DEF PeerInv
<1>16. type = "command" => made[Head(mailbox).id] = 0
  <2>1. type = "command" => Head(mailbox).id \in Commands
    BY <1>5, AskIds, Zenon DEF Received
  <2> QED
    BY <1>11, <2>1, Zenon
<1> QED
  BY <1>6, <1>8, <1>12, <1>13, <1>14, <1>15, <1>16, ZenonT(40) DEF RInv

(* A request waits for the write that is out. *)
LEMMA StashedRefinement ==
    ASSUME IInv, IInv', RInv, NEW type \in {"command", "getState"}, Received(type),
           phase = "persisting", Stash,
           UNCHANGED <<durable, alive, phase, eventsCounter, writers, callers, direct>>
    PROVE  RInv'
<1>1. /\ BaseTypeOK /\ BaseTypeOK' /\ TypeOK /\ LogInv /\ RequestsInv
      /\ mailbox \in Seq(Messages)
  BY Zenon DEF IInv, BaseInv, TypeOK, BaseTypeOK
<1>2. QueuesInv /\ MadeInv /\ OneWriteInv /\ SettledInv /\ ToldInv /\ PeerInv
  BY Zenon DEF RInv
<1>3. /\ UNCHANGED <<store, journal, published, peerWrites, request, abandoned, reply, declared, made>>
      /\ mailbox' = Tail(mailbox) /\ phase' = "persisting"
  BY Zenon DEF durable, writers, callers, Stash
<1>4. Grows
  BY <1>1, <1>3, UnwrittenGrows, Zenon
<1>5. alive /\ mailbox # << >> /\ Asks(Head(mailbox))
  BY DEF Received, Asks
<1>6. QueuesInv' /\ (\A x : Held(x)' => Held(x)) /\ \A c : Turn(c)' <=> Turn(c)
  BY <1>1, <1>2, <1>3, <1>5, StashedQueues, Zenon
<1>7. \A c : LogOf(c)' = LogOf(c)
  BY <1>3, Zenon DEF LogOf
<1>8. MadeInv' /\ OneWriteInv'
  <2>1. request' \cap abandoned' = {}
    BY <1>2, <1>3, Zenon DEF OneWriteInv
  <2> QED
    BY <1>1, <1>2, <1>3, <1>6, <1>7, <2>1, WritesKept, ZenonT(40)
<1>9. SettledInv'
  <2>1. \A x : In(x, mailbox') => In(x, mailbox)
    BY <1>1, <1>3, <1>5, TailIn, ZenonT(40)
  <2>2. \A i \in DOMAIN mailbox' : In(mailbox'[i], mailbox)
    BY <2>1, Zenon DEF In
  <2> QED
    BY <1>1, <1>2, <1>3, <1>4, <1>6, <1>7, <2>2, SettlementKept, ZenonT(40)
<1>10. ToldInv'
  BY <1>1, <1>2, <1>3, <1>4, <1>5, ToldKept, ZenonT(40)
<1>11. PeerInv'
  BY <1>2, <1>3, <1>7, Zenon DEF PeerInv
<1> QED
  BY <1>6, <1>8, <1>9, <1>10, <1>11, ZenonT(40) DEF RInv

(* The events of a command go out: its first write. *)
LEMMA PersistAsyncRefinement ==
    ASSUME IInv, IInv', RInv, NEW n \in 1..MaxEvents, PersistAsync(n)
    PROVE  /\ RInv'
           /\ Head(mailbox).id \in Commands /\ made[Head(mailbox).id] = 0
           /\ reply[Head(mailbox).id] = Waiting
<1>1. /\ BaseTypeOK /\ BaseTypeOK' /\ TypeOK /\ LogInv /\ RequestsInv' /\ MessagesInv
      /\ WriteInv /\ mailbox \in Seq(Messages) /\ made \in [Commands -> Nat]
      /\ eventsCounter \in Nat /\ direct \in Directs
  BY Zenon DEF IInv, BaseInv, TypeOK, BaseTypeOK, Directs
<1>2. QueuesInv /\ MadeInv /\ OneWriteInv /\ SettledInv /\ ToldInv /\ PeerInv
  BY Zenon DEF RInv
<1>3. PICK c : c = Head(mailbox).id
  BY Zenon
<1>4. PICK r : r = [events |-> BuildEnvelopes(c, n, eventsCounter), pre |-> declared[c]]
  BY Zenon
<1>5. /\ Received("command") /\ phase = "processing" /\ phase' = "persisting" /\ Stash
      /\ request' = {r} /\ made' = [made EXCEPT ![c] = n]
      /\ direct' = [direct EXCEPT !.state = Apply(currentState, BuildEnvelopes(c, n, eventsCounter)),
                                  !.counter = eventsCounter + n]
      /\ UNCHANGED <<durable, alive, eventsCounter, abandoned, reply, declared>>
  BY <1>3, <1>4, Zenon DEF PersistAsync, Processing
<1>6. UNCHANGED <<store, journal, published, peerWrites>>
  BY <1>5, Zenon DEF durable
<1>7. Grows
  BY <1>1, <1>6, UnwrittenGrows, Zenon
<1>8. alive /\ mailbox # << >> /\ Head(mailbox).type = "command" /\ Asks(Head(mailbox))
  BY <1>5 DEF Received, Asks
<1>9. Head(mailbox) \in Messages /\ Head(mailbox) = CommandMsg(c) /\ c \in Commands
  BY <1>1, <1>3, <1>8, AskIds, HeadTailProperties, Zenon
<1>10. QueuesInv' /\ (\A x : Held(x)' => Held(x)) /\ stash'[1] = CommandMsg(c)
  BY <1>1, <1>2, <1>5, <1>8, <1>9, StashedQueues, ZenonT(40)
<1>11. Turn(c)' /\ \A d \in Commands : Turn(d)' => d = c
  <2>1. Turn(c)'
    BY <1>5, <1>10, Zenon DEF Turn
  <2>2. \A d \in Commands : Turn(d)' => CommandMsg(d) = CommandMsg(c)
    BY <1>5, <1>10 DEF Turn
  <2> QED
    BY <1>9, <2>1, <2>2, AskIds, Zenon
<1>12. \A d : ~Turn(d)
  BY <1>5 DEF Turn
<1>13. \A d : LogOf(d)' = LogOf(d)
  BY <1>6, Zenon DEF LogOf
<1>14. reply[c] = Waiting /\ made[c] = 0 /\ Untouched(c)
  <2>1. Held(CommandMsg(c))
    BY <1>1, <1>8, <1>9, TailIn, Zenon DEF Held, In
  <2>2. reply[c] = Waiting
    BY <1>2, <1>9, <2>1, AskIds, ZenonT(40) DEF QueuesInv, WaitingInv
  <2> QED
    BY <1>2, <1>9, <1>12, <2>1, <2>2, ZenonT(40) DEF MadeInv
<1>15. n > 0 /\ n # 0 /\ n \in Nat /\ made'[c] = n /\ \A d \in Commands : d # c => made'[d] = made[d]
  BY <1>1, <1>5, <1>9, EntityAssumption
<1>16. WriteOf(r, c)'
  BY <1>1, <1>4, <1>5, <1>15, ZenonT(40) DEF WriteOf
<1>17. \A d \in Commands : WriteOf(r, d)' => d = c
  <2>1. ASSUME NEW d \in Commands, WriteOf(r, d)'
        PROVE  d = c
    <3>1. PICK k \in Nat : r = [events |-> BuildEnvelopes(d, made'[d], k), pre |-> declared'[d]]
      BY <2>1, Zenon DEF WriteOf
    <3>2. r.events = BuildEnvelopes(d, made'[d], k)
      BY <3>1, Zenon
    <3>3. r.events = BuildEnvelopes(c, n, eventsCounter)
      BY <1>4, Zenon
    <3>4. n \in Nat \ {0}
      BY <1>15, Zenon
    <3> QED
      BY <1>1, <1>9, <3>2, <3>3, <3>4, EnvelopesDiffer, ZenonT(40)
  <2> QED
    BY <2>1, Zenon
<1>18. ASSUME NEW q \in abandoned
       PROVE  /\ \E d \in Commands : d # c /\ WriteOf(q, d) /\ MayLand(d)
              /\ ~WriteOf(q, c)'
              /\ \A d \in Commands : d # c => (WriteOf(q, d)' <=> WriteOf(q, d))
              /\ q # r
  <2>1. PICK d \in Commands : WriteOf(q, d) /\ MayLand(d)
    BY <1>2, Zenon DEF OneWriteInv
  <2>2. d # c
    BY <1>14, <2>1, Zenon DEF Untouched
  <2>3. \A k \in Commands : k # c => (WriteOf(q, k)' <=> WriteOf(q, k))
    BY <1>5, <1>15, Zenon DEF WriteOf
  <2>4. ~WriteOf(q, c)'
    <3> SUFFICES ASSUME WriteOf(q, c)' PROVE FALSE
      BY Zenon
    <3>1. PICK k \in Nat : q = [events |-> BuildEnvelopes(c, made'[c], k), pre |-> declared'[c]]
      BY Zenon DEF WriteOf
    <3>2. PICK b \in Nat : q = [events |-> BuildEnvelopes(d, made[d], b), pre |-> declared[d]]
      BY <2>1, Zenon DEF WriteOf
    <3>3. q.events = BuildEnvelopes(c, made'[c], k)
      BY <3>1, Zenon
    <3>4. q.events = BuildEnvelopes(d, made[d], b)
      BY <3>2, Zenon
    <3>5. made'[c] \in Nat \ {0}
      BY <1>15, Zenon
    <3> QED
      BY <1>9, <2>2, <3>3, <3>4, <3>5, EnvelopesDiffer, ZenonT(40)
  <2> QED
    BY <1>16, <2>1, <2>2, <2>3, <2>4, ZenonT(40)
<1>19. MadeInv'
  <2>1. \A d \in Commands : reply'[d] = Unsent => made'[d] = 0
    BY <1>2, <1>5, <1>14, <1>15, WaitingUnsent, ZenonT(40) DEF MadeInv
  <2>2. \A d \in Commands : (Held(CommandMsg(d))' /\ ~Turn(d)') => made'[d] = 0
    BY <1>2, <1>10, <1>11, <1>12, <1>15, ZenonT(40) DEF MadeInv
  <2>3. ASSUME NEW d \in Commands, made'[d] = 0
        PROVE  Untouched(d)'
    <3>1. d # c /\ made[d] = 0
      BY <1>15, <2>3, Zenon
    <3>2. LogOf(d)' = {} /\ \A q \in abandoned : ~WriteOf(q, d)
      BY <1>2, <1>13, <3>1, ZenonT(40) DEF MadeInv, Untouched
    <3>3. \A q \in request' \cup abandoned' : ~WriteOf(q, d)'
      BY <1>5, <1>17, <1>18, <3>1, <3>2, ZenonT(40)
    <3> QED
      BY <3>2, <3>3, Zenon DEF Untouched
  <2> QED
    BY <2>1, <2>2, <2>3, ZenonT(40) DEF MadeInv
<1>20. OneWriteInv'
  <2>1. request' \cap abandoned' = {}
    BY <1>5, <1>18, Zenon
  <2>2. \A q \in request' : \E d \in Commands : Turn(d)' /\ WriteOf(q, d)'
    BY <1>5, <1>9, <1>11, <1>16, ZenonT(40)
  <2>3. MayLand(c)'
    BY <1>5, <1>13, <1>14, <1>15, WaitingUnsent, ZenonT(40) DEF MayLand, Untouched
  <2>4. \A d \in Commands : (d # c /\ MayLand(d)) => MayLand(d)'
    BY <1>5, <1>13, <1>15, ZenonT(40) DEF MayLand
  <2>5. \A q \in request' \cup abandoned' : \E d \in Commands : WriteOf(q, d)' /\ MayLand(d)'
    BY <1>5, <1>9, <1>16, <1>18, <2>3, <2>4, ZenonT(40)
  <2>6. \A d \in Commands : \A q, p \in request' \cup abandoned' :
           (WriteOf(q, d)' /\ WriteOf(p, d)') => q = p
    <3> SUFFICES ASSUME NEW d \in Commands, NEW q \in request' \cup abandoned',
                        NEW p \in request' \cup abandoned', WriteOf(q, d)', WriteOf(p, d)'
                 PROVE  q = p
      BY Zenon
    <3>1. q \in abandoned \cup {r} /\ p \in abandoned \cup {r}
      BY <1>5, Zenon
    <3>2. CASE d = c
      BY <1>18, <3>1, <3>2, ZenonT(40)
    <3>3. CASE d # c
      <4>1. q \in abandoned /\ p \in abandoned
        BY <1>17, <3>1, <3>3, ZenonT(40)
      <4>2. WriteOf(q, d) /\ WriteOf(p, d)
        BY <1>18, <3>3, <4>1, ZenonT(40)
      <4> QED
        BY <1>2, <4>1, <4>2, ZenonT(40) DEF OneWriteInv
    <3> QED
      BY <3>2, <3>3, Zenon
  <2> QED
    BY <2>1, <2>2, <2>5, <2>6, ZenonT(40) DEF OneWriteInv
<1>21. SettledInv'
  <2>1. \A i \in DOMAIN mailbox : mailbox[i].type # "response"
    BY <1>1, <1>5, SMTT(30) DEF WriteInv
  <2>2. \A i \in DOMAIN mailbox' : mailbox'[i].type # "response"
    BY <1>1, <1>5, <1>8, <2>1, NoResponseLeft, ZenonT(40)
  <2>3. direct'.counter = eventsCounter + n
    BY <1>1, <1>5, ZenonT(40) DEF Directs
  <2>4. eventsCounter' <= direct'.counter /\ phase' # "directReplying"
    BY <1>1, <1>5, <1>15, <2>3, SMTT(30)
  <2> QED
    BY <2>2, <2>4, ZenonT(40) DEF SettledInv
<1>22. ToldInv'
  BY <1>1, <1>2, <1>5, <1>7, <1>8, ToldKept, ZenonT(40)
<1>23. PeerInv'
  BY <1>2, <1>6, <1>13, ZenonT(40) DEF PeerInv
<1> QED
  BY <1>3, <1>9, <1>10, <1>14, <1>19, <1>20, <1>21, <1>22, <1>23, ZenonT(40) DEF RInv

(* The response settles the write. *)
LEMMA HandleDirectPersistResponseRefinement ==
    ASSUME IInv, IInv', RInv, HandleDirectPersistResponse
    PROVE  RInv'
<1>1. /\ BaseTypeOK /\ BaseTypeOK' /\ TypeOK /\ LogInv /\ RequestsInv /\ MessagesInv
      /\ WriteInv /\ mailbox \in Seq(Messages) /\ direct \in Directs
      /\ eventsCounter \in Nat /\ eventsCounter' \in Nat
  BY Zenon DEF IInv, BaseInv, TypeOK, BaseTypeOK, Directs
<1>2. QueuesInv /\ MadeInv /\ OneWriteInv /\ SettledInv /\ ToldInv /\ PeerInv
  BY Zenon DEF RInv
<1>3. PICK o : o = Head(mailbox).outcome
  BY ZenonT(40)
<1>4. /\ alive /\ mailbox # << >> /\ Head(mailbox).type = "response"
      /\ Head(mailbox) = mailbox[1] /\ 1 \in DOMAIN mailbox /\ Head(mailbox) \in Messages
  BY <1>1 DEF HandleDirectPersistResponse, Received
<1>5. phase = "persisting" /\ request = {}
  BY <1>1, <1>4, ZenonT(40) DEF WriteInv
<1>6. o \in Outcomes /\ (o.kind = "ok" <=> o = Committed)
  BY <1>3, <1>4, SMTT(30) DEF Messages, Outcomes, Committed, Failed
<1>7. /\ UnstashAll /\ phase' = "directReplying"
      /\ IF o.kind = "ok" THEN PersistConfirmed ELSE PersistFailed(o)
      /\ UNCHANGED <<durable, alive, request, abandoned, callers>>
  BY <1>3, <1>5, ZenonT(40) DEF HandleDirectPersistResponse
<1>8. UNCHANGED <<store, journal, published, peerWrites, reply, declared, made>>
  BY <1>7, Zenon DEF durable, callers
<1>9. Grows
  BY <1>1, <1>8, UnwrittenGrows, ZenonT(40)
<1>10. QueuesInv' /\ (\A x : Held(x)' => Held(x)) /\ \A c : Turn(c)' <=> Turn(c)
  BY <1>1, <1>2, <1>4, <1>5, <1>7, <1>8, UnstashedQueues, ZenonT(40)
<1>11. \A c : LogOf(c)' = LogOf(c)
  BY <1>8, Zenon DEF LogOf
<1>12. MadeInv' /\ OneWriteInv'
  <2>1. request' \cap abandoned' = {}
    BY <1>2, <1>7, Zenon DEF OneWriteInv
  <2> QED
    BY <1>1, <1>2, <1>7, <1>8, <1>10, <1>11, <2>1, WritesKept, ZenonT(40)
<1>13. /\ direct'.err = o
       /\ o = Committed => eventsCounter' = direct.counter
       /\ o # Committed => eventsCounter' = eventsCounter
       /\ (o # Committed /\ o.kind = "conflict" /\ ~direct'.shutdown) => o.actual = eventsCounter
  <2>1. CASE o = Committed
    BY <1>1, <1>6, <1>7, <2>1, ZenonT(40) DEF PersistConfirmed, Directs
  <2>2. CASE o # Committed
    BY <1>1, <1>6, <1>7, <2>2, Zenon DEF PersistFailed, ShouldStayAliveAfterConflict, Directs
  <2> QED
    BY <2>1, <2>2, Zenon
<1>14. SettledInv'
  <2>1. \A i \in DOMAIN mailbox' : mailbox'[i].type # "response"
    <3>1. \A i \in DOMAIN mailbox : i # 1 => mailbox[i].type # "response"
      BY <1>1, <1>4, Zenon DEF WriteInv
    <3> QED
      BY <1>1, <1>4, <1>7, <3>1, NoResponseLeft, ZenonT(40)
  <2>2. ASSUME NEW c \in Commands, Turn(c)'
        PROVE  Settled(c, direct.err, eventsCounter)'
    <3>1. Settled(c, o, direct.counter)
      BY <1>2, <1>3, <1>4, <1>10, <2>2, ZenonT(40) DEF SettledInv
    <3>2. PICK k \in Nat : k = eventsCounter'
      BY <1>1, Zenon
    <3>3. Settled(c, o, k)
      BY <1>13, <3>1, <3>2, Zenon DEF Settled
    <3>4. k <= k
      OBVIOUS
    <3>5. Settled(c, o, k)'
      BY <1>1, <1>6, <1>7, <1>8, <1>9, <1>11, <3>3, <3>4, SettledKept, ZenonT(40)
    <3> QED
      BY <1>13, <3>2, <3>5, ZenonT(40) DEF Settled
  <2>3. (direct'.err.kind = "conflict" /\ ~direct'.shutdown) => direct'.err.actual = eventsCounter'
    <3>1. Committed.kind # "conflict"
      BY DEF Committed
    <3> QED
      BY <1>13, <3>1, Zenon
  <2>4. phase' # "persisting"
    BY <1>7
  <2> QED
    BY <2>1, <2>2, <2>3, <2>4, ZenonT(40) DEF SettledInv
<1>15. ToldInv'
  <2>1. eventsCounter <= direct.counter /\ eventsCounter <= eventsCounter
    BY <1>1, <1>2, <1>5, SMTT(30) DEF SettledInv
  <2>2. eventsCounter <= eventsCounter'
    BY <1>13, <2>1, Zenon
  <2> QED
    BY <1>1, <1>2, <1>4, <1>8, <1>9, <2>2, ToldKept, ZenonT(40)
<1>16. PeerInv'
  BY <1>2, <1>8, <1>11, ZenonT(40) DEF PeerInv
<1> QED
  BY <1>10, <1>12, <1>14, <1>15, <1>16, ZenonT(40) DEF RInv

(* Once the outcome of its write is known, a command has no write left. *)
LEMMA NoWriteLeft ==
    ASSUME BaseTypeOK, RequestsInv, OneWriteInv, NEW c \in Commands, NEW outcome, NEW counter,
           Settled(c, outcome, counter), outcome = Committed \/ outcome.kind = "conflict"
    PROVE  \A q \in request \cup abandoned : ~WriteOf(q, c)
<1> SUFFICES ASSUME NEW q \in request \cup abandoned, WriteOf(q, c) PROVE FALSE
  BY Zenon
<1>1. PICK d \in Commands : WriteOf(q, d) /\ MayLand(d)
  BY Zenon DEF OneWriteInv
<1>2. MayLand(c)
  BY <1>1, WriteOwner, Zenon
<1>3. LogOf(c) = {} /\ made[c] # 0
  <2>1. made[c] > 0
    BY <1>2, Zenon DEF MayLand
  <2>2. made[c] # 0
    BY <2>1
  <2> QED
    BY <1>2, <2>2, Zenon DEF MayLand
<1>4. Cardinality({}) = 0
  BY FS_EmptySet, Zenon
<1> QED
  BY <1>3, <1>4, Zenon DEF Settled, Untouched

(* The revision that the caller is told. *)
LEMMA ErrorReplyRev ==
    ASSUME NEW outcome \in Outcomes, outcome # Committed
    PROVE  /\ ErrorReply(outcome).kind = outcome.kind /\ ErrorReply(outcome).state = InitialState
           /\ ErrorReply(outcome).rev = Named(outcome)
           /\ outcome.kind = "error" => Named(outcome) = 0
           /\ outcome.kind \in {"error", "conflict"}
           /\ ErrorReply(outcome) \in Replies
<1>1. outcome.kind \in {"error", "conflict"} /\ (outcome.kind = "error" => Named(outcome) = 0)
  BY DEF Named, Outcomes, Committed, Failed
<1>2. ErrorReply(outcome) \in Replies
  BY <1>1, ReplyTypes, SMTT(30)
<1> QED
  BY <1>1, <1>2, SMTT(30) DEF ErrorReply, Unsent, Named

(* The command whose write was settled is answered. *)
LEMMA ReplyDirectRefinement ==
    ASSUME IInv, IInv', RInv, ReplyDirect
    PROVE  /\ RInv'
           /\ Head(mailbox).id \in Commands /\ Turn(Head(mailbox).id)
           /\ reply[Head(mailbox).id] = Waiting
<1>1. /\ BaseTypeOK /\ BaseTypeOK' /\ TypeOK /\ LogInv /\ RequestsInv /\ ActorInv /\ WriteInv
      /\ mailbox \in Seq(Messages) /\ direct \in Directs /\ eventsCounter \in Nat
      /\ currentState \in States /\ reply \in [Commands \cup Reads -> Replies]
      /\ direct.err \in Outcomes
  BY Zenon DEF IInv, BaseInv, TypeOK, BaseTypeOK, Directs
<1>2. QueuesInv /\ MadeInv /\ OneWriteInv /\ SettledInv /\ ToldInv /\ PeerInv
  BY Zenon DEF RInv
<1>3. PICK c : c = Head(mailbox).id
  BY Zenon
<1>4. PICK answer : answer = IF direct.err = Committed THEN StateReply(currentState, eventsCounter)
                                                       ELSE ErrorReply(direct.err)
  BY Zenon
<1>5. /\ Received("command") /\ phase = "directReplying" /\ Answer(c, answer)
      /\ IF direct.shutdown
         THEN Terminate
         ELSE /\ UnstashAll
              /\ phase' = "processing"
              /\ UNCHANGED <<alive, eventsCounter, writers>>
      /\ UNCHANGED <<durable, declared, made>>
  BY <1>3, <1>4, Zenon DEF ReplyDirect
<1>6. UNCHANGED <<store, journal, published, peerWrites>>
  BY <1>5, Zenon DEF durable
<1>7. Grows
  BY <1>1, <1>6, UnwrittenGrows, ZenonT(40)
<1>8. /\ alive /\ mailbox # << >> /\ Head(mailbox).type = "command" /\ Asks(Head(mailbox))
      /\ Head(mailbox) = mailbox[1] /\ stash = << >>
  BY <1>1, <1>2, <1>5, SMTT(30) DEF Received, Asks, QueuesInv, TurnInv
<1>9. Head(mailbox) \in Messages /\ Head(mailbox) = CommandMsg(c) /\ c \in Commands
  BY <1>1, <1>3, <1>8, AskIds, HeadTailProperties, ZenonT(40)
<1>10. Turn(c) /\ reply[c] = Waiting /\ \A d \in Commands : Turn(d) => d = c
  <2>1. Turn(c)
    BY <1>5, <1>8, <1>9, ZenonT(40) DEF Turn
  <2> QED
    BY <1>1, <1>2, <1>9, <2>1, TurnHeld, ZenonT(40)
<1>11. QueuesInv' /\ (\A x : Held(x)' => Held(x) /\ x # Head(mailbox)) /\ \A d : ~Turn(d)'
  <2>1. CASE direct.shutdown
    BY <1>5, <2>1, ClearedQueues, ZenonT(40) DEF Terminate
  <2>2. CASE ~direct.shutdown
    <3>1. << >> \o Tail(mailbox) = Tail(mailbox)
      BY <1>1, <1>8, SMTT(30)
    <3>2. mailbox' = Tail(mailbox) /\ stash' = << >>
      BY <1>5, <1>8, <2>2, <3>1, ZenonT(40) DEF UnstashAll
    <3> QED
      BY <1>1, <1>2, <1>3, <1>5, <1>8, <2>2, <3>2, AnsweredQueues, ZenonT(40)
  <2> QED
    BY <2>1, <2>2, Zenon
<1>12. request' = {} /\ request = {} /\ abandoned' = abandoned /\ phase' = "processing"
  <2>1. request = {}
    BY <1>1, <1>5, SMTT(30) DEF WriteInv
  <2>2. CASE direct.shutdown
    BY <1>5, <2>1, <2>2, Zenon DEF Terminate
  <2>3. CASE ~direct.shutdown
    BY <1>5, <2>1, <2>3, ZenonT(40) DEF writers
  <2> QED
    BY <2>1, <2>2, <2>3, ZenonT(40)
<1>13. \A d : LogOf(d)' = LogOf(d)
  BY <1>6, Zenon DEF LogOf
<1>14. Settled(c, direct.err, eventsCounter)
  BY <1>2, <1>5, <1>9, <1>10, ZenonT(40) DEF SettledInv
<1>15. \A id \in Commands \cup Reads : reply'[id] = IF id = c THEN answer ELSE reply[id]
  BY <1>1, <1>5, <1>9, ZenonT(40) DEF Answer
<1>16. /\ answer.kind # "unsent"
       /\ answer.kind = "error" \/ direct.err = Committed \/ direct.err.kind = "conflict"
  <2>1. StateReply(currentState, eventsCounter).kind = "state"
    BY Zenon DEF StateReply
  <2>2. "state" # "unsent" /\ "error" # "unsent" /\ "conflict" # "unsent"
    OBVIOUS
  <2> QED
    BY <1>1, <1>4, <2>1, <2>2, ErrorReplyRev, ZenonT(40)
<1>17. MadeInv' /\ OneWriteInv'
  <2>1. \A d \in Commands : reply'[d] = Unsent => reply[d] = Unsent
    BY <1>15, <1>16, WaitingUnsent, ZenonT(40)
  <2>2. \A d \in Commands : (Held(CommandMsg(d))' /\ ~Turn(d)') => (Held(CommandMsg(d)) /\ ~Turn(d))
    BY <1>9, <1>10, <1>11, ZenonT(40)
  <2>3. \A d \in Commands : \/ reply'[d] = reply[d]
                            \/ reply'[d].kind \in {"waiting", "error"}
                            \/ \A q \in request' \cup abandoned' : ~WriteOf(q, d)
    <3>1. \/ answer.kind = "error"
          \/ \A q \in request \cup abandoned : ~WriteOf(q, c)
      BY <1>1, <1>2, <1>9, <1>14, <1>16, NoWriteLeft, ZenonT(40)
    <3> QED
      BY <1>12, <1>15, <3>1, ZenonT(40)
  <2>4. request' \cap abandoned' = {} /\ UNCHANGED <<made, declared>>
    BY <1>5, <1>12, Zenon
  <2> QED
    BY <1>1, <1>2, <1>12, <1>13, <2>1, <2>2, <2>3, <2>4, WritesKept, ZenonT(40)
<1>18. SettledInv'
  BY <1>12, SettlementOver, Zenon
<1>19. ToldInv'
  <2>1. alive' => ~direct.shutdown /\ eventsCounter' = eventsCounter
    BY <1>5, ZenonT(40) DEF Terminate
  <2>2. eventsCounter <= store.rev /\ eventsCounter <= eventsCounter /\ eventsCounter # NoRevision
    BY <1>1, <1>8, StoreAssumption, SMTT(30) DEF ActorInv, Recorded, BaseTypeOK
  <2>3. \/ answer.rev = 0
        \/ answer.rev <= store.rev /\ (alive' => answer.rev <= eventsCounter')
    <3>1. CASE direct.err = Committed
      <4>1. answer.rev = eventsCounter
        BY <1>4, <3>1, ZenonT(40) DEF StateReply
      <4> QED
        BY <2>1, <2>2, <4>1, ZenonT(40)
    <3>2. CASE direct.err # Committed /\ direct.err.kind = "error"
      BY <1>1, <1>4, <3>2, ErrorReplyRev, ZenonT(40)
    <3>3. CASE direct.err # Committed /\ direct.err.kind = "conflict"
      <4>1. answer.rev = Named(direct.err) /\ Named(direct.err) <= store.rev
        BY <1>1, <1>4, <1>14, <3>3, ErrorReplyRev, ZenonT(40) DEF Settled
      <4>2. alive' => direct.err.actual = eventsCounter
        BY <1>2, <1>5, <2>1, <3>3, ZenonT(40) DEF SettledInv
      <4>3. alive' => Named(direct.err) = eventsCounter
        BY <2>2, <4>2, ZenonT(40) DEF Named
      <4> QED
        BY <2>1, <2>2, <4>1, <4>3, ZenonT(40)
    <3> QED
      BY <1>1, <3>1, <3>2, <3>3, ErrorReplyRev, ZenonT(40)
  <2>4. \A id \in Commands \cup Reads :
           \/ reply'[id].rev = reply[id].rev
           \/ reply'[id].rev = 0
           \/ reply'[id].rev <= store.rev /\ (alive' => reply'[id].rev <= eventsCounter')
    BY <1>15, <2>3, ZenonT(40)
  <2>5. alive' => alive /\ eventsCounter <= eventsCounter'
    BY <1>8, <2>1, <2>2, ZenonT(40)
  <2> QED
    BY <1>1, <1>2, <1>7, <2>4, <2>5, ToldKept, ZenonT(40)
<1>20. PeerInv'
  BY <1>2, <1>6, <1>13, ZenonT(40) DEF PeerInv
<1> QED
  BY <1>3, <1>9, <1>10, <1>11, <1>17, <1>18, <1>19, <1>20, ZenonT(40) DEF RInv

LEMMA ActorRefinement ==
    ASSUME IInv, IInv', RInv, Actor
    PROVE  RInv'
<1>1. /\ BaseTypeOK /\ QueuesInv /\ eventsCounter \in Nat /\ currentState \in States
  BY Zenon DEF IInv, RInv, TypeOK, BaseTypeOK
<1>2. "command" \in {"command", "getState"} /\ "getState" \in {"command", "getState"}
  OBVIOUS
<1>3. CASE RejectCommand
  <2>1. ErrorReply(Failed) \in Replies /\ ErrorReply(Failed).rev = 0 /\ ErrorReply(Failed) # Unsent
    <3>1. Failed # Committed
      BY Zenon DEF Failed, Committed
    <3>2. ErrorReply(Failed).kind = "error" /\ Unsent.kind = "unsent" /\ "error" # "unsent"
      BY Zenon DEF ErrorReply, Failed, Unsent
    <3> QED
      BY <3>1, <3>2, ErrorReplyRev, ReplyTypes, ZenonT(40)
  <2> QED
    BY <1>2, <1>3, <2>1, AnsweredRefinement, ZenonT(40) DEF RejectCommand, Processing
<1>4. /\ StateReply(currentState, eventsCounter) \in Replies
      /\ StateReply(currentState, eventsCounter).rev = eventsCounter
      /\ StateReply(currentState, eventsCounter) # Unsent
  BY <1>1, ReplyTypes, SMTT(30) DEF StateReply, Unsent
<1>5. CASE AnswerWithoutEvents
  BY <1>2, <1>4, <1>5, AnsweredRefinement, ZenonT(40) DEF AnswerWithoutEvents, Processing
<1>6. CASE \E n \in 1..MaxEvents : PersistAsync(n)
  BY <1>6, PersistAsyncRefinement, Zenon
<1>7. CASE StashCommand
  BY <1>2, <1>7, StashedRefinement, ZenonT(40) DEF StashCommand
<1>8. CASE HandleGetState
  <2>1. phase \in {"processing", "persisting"}
    <3>1. mailbox # << >> /\ mailbox[1].type = "getState"
      BY <1>1, <1>8, SMTT(30) DEF HandleGetState, Received, BaseTypeOK
    <3>2. phase # "directReplying"
      BY <1>1, <3>1, SMTT(30) DEF QueuesInv, TurnInv
    <3> QED
      BY <3>2, SMTT(30) DEF IInv, TypeOK
  <2>2. CASE phase = "processing"
    <3>1. Consume /\ Answer(Head(mailbox).id, StateReply(currentState, eventsCounter))
      BY <1>8, <2>2, SMTT(30) DEF HandleGetState
    <3> QED
      BY <1>2, <1>4, <1>8, <2>2, <3>1, AnsweredRefinement, ZenonT(40) DEF HandleGetState
  <2>3. CASE phase = "persisting"
    <3>1. Stash /\ UNCHANGED callers
      BY <1>8, <2>3, SMTT(30) DEF HandleGetState, callers
    <3> QED
      BY <1>2, <1>8, <2>3, <3>1, StashedRefinement, ZenonT(40) DEF HandleGetState
  <2> QED
    BY <2>1, <2>2, <2>3, ZenonT(40)
<1>9. CASE HandleDirectPersistResponse
  BY <1>9, HandleDirectPersistResponseRefinement, Zenon
<1>10. CASE ReplyDirect
  BY <1>10, ReplyDirectRefinement, Zenon
<1> QED
  BY <1>3, <1>5, <1>6, <1>7, <1>8, <1>9, <1>10, ZenonT(40) DEF Actor
=============================================================================

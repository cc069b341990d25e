---------------------------- MODULE FundTransfer ----------------------------
(***************************************************************************)
(* The fund-transfer saga of the examples: a client debits the source      *)
(* account, the saga sees the debit and credits the destination; if that   *)
(* fails, or takes too long, it refunds the source.                        *)
(*                                                                         *)
(* The operators are the behavior that module Saga is parameterised by.    *)
(* Every amount is the amount of the transfer, the unit of a balance.      *)
(***************************************************************************)
EXTENDS Saga, Integers, FiniteSetsExt

CONSTANTS
    Source, Destination,
    Funds,          \* the balance of the source at first
    MaxDebits       \* bound on debits, the stranger's included

VARIABLES
    debits,         \* how often the owner's source account was debited
    foreign,        \* how often the stranger's account of that name was
    settled,        \* history: did the saga ever complete as asked by an action?
    disturbed       \* history: since a credit was sent, did the saga restart or
                    \* anything fail, but for an entity that answered with an error?

transferVars == <<vars, debits, foreign, settled, disturbed>>

-----------------------------------------------------------------------------
(***************************************************************************)
(* AccountBehavior.                                                        *)
(***************************************************************************)

\* A balance: what was paid in, less what was taken out.
AccountInitial == Funds

Credit(account) == [to |-> account, kind |-> "credit"]

AccountExecute(balance, command) == balance + 1

AccountEmitted(command) == [kind |-> "credited", account |-> command.to]

\* DebitAccount, sent by a client: not enough funds is an error.
Debit ==
    /\ debits + foreign < MaxDebits
    /\ entities[Source] >= 1
    /\ entities' = [entities EXCEPT ![Source] = @ - 1]
    /\ debits' = debits + 1
    /\ Published(<<[kind |-> "event", tenant |-> Bound,
                    event |-> [kind |-> "debited", account |-> Source]]>>)
    /\ UNCHANGED <<tenantAware, log, stage, memory, mailbox, timer, calls, seen, bounds, foreign>>

\* The same, for another tenant's account of that name.
ForeignDebit ==
    /\ tenantAware
    /\ debits + foreign < MaxDebits
    /\ foreign' = foreign + 1
    /\ Published(<<[kind |-> "event", tenant |-> Stranger,
                    event |-> [kind |-> "debited", account |-> Source]]>>)
    /\ UNCHANGED <<tenantAware, entities, log, stage, memory, mailbox, timer, calls, seen, bounds, debits>>

-----------------------------------------------------------------------------
(***************************************************************************)
(* FundTransferSaga.                                                       *)
(***************************************************************************)

TransferInitial == {}

\* A bug: a debit is handled whatever was recorded before.
TransferHandleEventAgain(event, state) ==
    IF event.event = [kind |-> "debited", account |-> Source]
    THEN [events |-> <<"SourceDebited">>, commands |-> <<Credit(Destination)>>, outcome |-> "none"]
    ELSE NoAction

TransferHandleEvent(event, state) ==
    IF event.event = [kind |-> "debited", account |-> Source] /\ "SourceDebited" \notin state
    THEN [events |-> <<"SourceDebited">>, commands |-> <<Credit(Destination)>>, outcome |-> "none"]
    ELSE NoAction

TransferHandleResult(entity, state) ==
    IF entity = Destination
    THEN [events |-> <<"DestinationCredited">>, commands |-> << >>, outcome |-> "complete"]
    ELSE NoAction

TransferHandleError(entity, state) ==
    [events |-> << >>, commands |-> << >>, outcome |-> "compensate"]

TransferApplyEvent(event, state) == state \cup {event}

TransferCompensate(state) == IF "SourceDebited" \in state THEN <<Credit(Source)>> ELSE << >>

-----------------------------------------------------------------------------
Credits == Len(SelectSeq(sent, LAMBDA s : s.to = Destination))
Refunds == Len(SelectSeq(sent, LAMBDA s : s.to = Source))

\* An entity answers the call with an error.
Refused == call # None /\ call.reply = "awaited" /\ call' = [call EXCEPT !.reply = "error"]

TransferInit ==
    /\ Init
    /\ debits = 0
    /\ foreign = 0
    /\ settled = FALSE
    /\ disturbed = FALSE

TransferNext ==
    /\ \/ Step /\ UNCHANGED <<debits, foreign>>
       \/ Debit
       \/ ForeignDebit
    /\ settled' = (settled \/ (stack # << >> /\ Top.outcome = "complete" /\ status' = "Completed"))
    /\ disturbed' = (disturbed \/ (Credits > 0 /\ bounds' # bounds /\ ~Refused))

Spec == TransferInit /\ [][TransferNext]_transferVars /\ Fairness

-----------------------------------------------------------------------------
(***************************************************************************)
(* Properties.                                                             *)
(***************************************************************************)

(* The destination is credited at most once, only for a debit of the owner's source
   account and only after the debit was recorded, however debits repeat, another
   tenant's events mix in, writes fail and the saga restarts: "it persists its own
   events to track which steps have completed, enabling recovery after restarts". *)
CreditedOnceIfOwed ==
    /\ Credits <= Min({1, debits})
    /\ Credits > 0 => \E i \in DOMAIN log : log[i].event = "SourceDebited"

(* A transfer is credited or refunded and not both, as long as nothing failed and
   the saga did not restart since the credit was sent: an error reply alone leads to
   a refund, and neither a second debit nor the timeout compensates what was done. *)
CreditedOrRefunded ==
    ~disturbed => Credits + Refunds <= 1 \/ (Refunds = 1 /\ entities[Destination] = Funds)

(* Since its last start the saga showed its callers one end at most, never an end it
   left again, no compensation half done, and nothing to another tenant
   (SagaStatus: "a caller sees SagaCompleted or SagaFailed instead"). *)
CallersSeeOneEnd ==
    /\ \A t \in Tenants : seen[t] # {} => t = Bound /\ "Compensating" \notin seen[t]
    /\ stage = "up" => seen[Bound] \cap Final \subseteq {status}

(* A saga with a timeout ends: whatever fails, restarts or is delivered late, some
   handler sets a final status and no later message takes it back. *)
SagaEnds == <>[](stage = "up" /\ status \in Final)

(* A saga that completed is not compensated: "If the saga does not complete within
   this duration, compensation is triggered automatically". *)
CompletedIsNotCompensated == settled => \A i \in DOMAIN sent : ~sent[i].undo
=============================================================================

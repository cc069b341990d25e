----------------------------- MODULE DirectLog -----------------------------
(***************************************************************************)
(* The direct write path implements EntityLog.  The log is the journal,    *)
(* and an answer is the reply without the count of folds.                  *)
(***************************************************************************)
EXTENDS DirectEntity

Answered ==
    [id \in Commands \cup Reads |->
        [kind |-> reply[id].kind, seen |-> reply[id].state.seen, rev |-> reply[id].rev]]

Log == INSTANCE EntityLog WITH
           log <- journal, expects <- declared, decided <- made, answer <- Answered

(* What callers see is an atomic log: a command's events are appended whole and
   once, at the revision it declared; a success shows them, a conflict means that
   they are not in the log and never will be, and no answer shows less than an
   earlier one, through stashing, time-outs, late writes, restarts and other
   writers (processCommandAndReply to replyDirect). *)
ImplementsLog == Log!LogSpec
=============================================================================

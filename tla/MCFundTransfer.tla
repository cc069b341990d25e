--------------------------- MODULE MCFundTransfer ---------------------------
(* Instances of FundTransfer for TLC. *)
EXTENDS FundTransfer
=============================================================================

--------------------------- MODULE MCBatchedEntity ---------------------------
(* Instances of BatchedEntity for TLC. *)
EXTENDS BatchedEntity
=============================================================================

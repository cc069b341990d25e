------------------------ MODULE MCProjectionRunner --------------------------
(* Instances of ProjectionRunner for TLC. *)
EXTENDS ProjectionRunner
=============================================================================

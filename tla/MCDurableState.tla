--------------------------- MODULE MCDurableState ---------------------------
(***************************************************************************)
(* DurableState for TLC: nodes and commands are interchangeable.           *)
(***************************************************************************)
EXTENDS DurableState, TLC

Symmetry == Permutations(Nodes) \cup Permutations(Commands)
=============================================================================

--------------------------- MODULE MCDirectEntity ---------------------------
EXTENDS DirectLog, TLC

\* The commands are interchangeable.
Symmetry == Permutations(Commands)
=============================================================================

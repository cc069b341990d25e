CONSTANTS
    Nodes = {n1, n2}
    Commands = {c1, c2}
    Reads = {r1}
    Declarable = {NoRevision, 0, 1}
    NoRevision = NoRevision
    MaxSpawns = 3
SPECIFICATION Spec
SYMMETRY Symmetry
CHECK_DEADLOCK FALSE
INVARIANTS
    
    
    AnswersAreTrue
    CurrentRevisionIsAdmitted
PROPERTIES
    DeclaredRevisionRespected

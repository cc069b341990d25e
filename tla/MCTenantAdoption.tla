------------------------- MODULE MCTenantAdoption ---------------------------
(* Instances of TenantAdoption for TLC. *)
EXTENDS TenantAdoption, TLC

Job(source, target, write, delete, explicit) ==
    [source |-> source, target |-> target, write |-> write, delete |-> delete, explicit |-> explicit]

Move == Job(0, 1, TRUE, TRUE, TRUE)
Copy == Job(0, 1, TRUE, FALSE, FALSE)
DryRun == Job(0, 1, FALSE, FALSE, FALSE)
Onward == Job(1, 2, TRUE, TRUE, TRUE)
Back == Job(2, 1, TRUE, FALSE, TRUE)
Nowhere == Job(1, 1, TRUE, FALSE, FALSE)

\* A legacy event; one whose field 5 is behind a group and one that has none.
Field(number, wire) == [number |-> number, wire |-> wire, whole |-> TRUE, typed |-> TRUE]
Carries == <<Field(4, 0), Field(5, 2)>>
Hides == <<Field(4, 3), Field(5, 2)>>
Lacks == [p \in 1..2 |-> <<>>]

Legacy(first, second) ==
    [runs |-> <<first, second>>, events |-> {1, 2}, snapshot |-> {}, state |-> {}, unknown |-> <<Carries, Hides>>]
Snapshotted(first, second) ==
    [runs |-> <<first, second>>, events |-> {1, 2}, snapshot |-> {2}, state |-> {}, unknown |-> Lacks]
Durable(first, second) ==
    [runs |-> <<first, second>>, events |-> {}, snapshot |-> {}, state |-> {1}, unknown |-> Lacks]

\* A run and its repetition, a run and the next tenant's, both ways between tenants.
MCPlans ==
    {Legacy(Move, Move), Durable(Move, Move), Snapshotted(Copy, Move), Durable(DryRun, Copy),
     Snapshotted(Move, Onward), Durable(Onward, Back), Durable(Onward, Nowhere)}
=============================================================================

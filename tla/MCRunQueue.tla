----------------------------- MODULE MCRunQueue -----------------------------
EXTENDS RunQueueInv, TLC
FifoPriority == [r \in 1..MaxRuns |-> 0]
ClientSymmetry == Permutations(Clients)
=============================================================================

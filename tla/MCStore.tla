------------------------------ MODULE MCStore ------------------------------
(* Store on a small instance: two jobs that build the same commit, so that the *)
(* index matters, two runners to move a job between, and two clients racing.   *)
EXTENDS Store, TLC

CONSTANTS j1, j2, r1, r2, c1, c2

MCKeyOf == [j \in Jobs |-> "commit"]
Symmetry == Permutations(Runners) \cup Permutations(Clients) \cup Permutations(Jobs)
=============================================================================

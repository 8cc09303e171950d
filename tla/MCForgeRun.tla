----------------------------- MODULE MCForgeRun -----------------------------
(* Small instances of the whole system.                                        *)
EXTENDS ForgeRun

CONSTANTS j1, j2, r1, r2

MCClients == {"sched", "reaper", "cancel"} \cup Runners \cup Jobs
MCLabels == {"linux", "docker"}
MCRunnerLabels == [r \in Runners |-> MCLabels]
KeyPerJob == [j \in Jobs |-> j]
OneKey == [j \in Jobs |-> j1]
Symmetry == Permutations(Runners) \cup Permutations(Jobs)
=============================================================================

----------------------- MODULE MCCapabilityScheduler ------------------------
(* Small instances of CapabilityScheduler: two pools that overlap in one       *)
(* runner, and runners that are all alike.                                     *)
EXTENDS CapabilityScheduler

GpuPool == [r \in Runners |-> IF r = 1 THEN {"linux", "gpu"} ELSE {"linux"}]
AllAlike == [r \in Runners |-> {"linux"}]
=============================================================================

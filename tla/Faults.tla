------------------------------- MODULE Faults -------------------------------
(* What may go wrong in a run, and how often.  Every fault action of the other *)
(* modules is guarded by Fault with its kind:                                  *)
(*   "agent"      a runner's machine dies, and its agent with it               *)
(*   "network"    no heartbeat of a live runner arrives for the whole timeout  *)
(*   "reply"      a runner's request, or the answer to it, is lost on the way, *)
(*                or the connection breaks while it is served                  *)
(*   "client"     whoever cancels a job or delivers a webhook hangs up early   *)
(*   "scheduler"  the scheduler process dies and is restarted                  *)
(*   "api"        the API process dies while it serves a webhook               *)
(*   "redis"      a Redis command fails, or succeeds and its answer is lost    *)
(*   "db"         a SQL statement fails, or commits and its answer is lost     *)
EXTENDS Naturals

CONSTANTS FaultKinds,    \* the kinds of fault a run allows
          MaxFaults,     \* bound: faults in one behaviour
          CrashPoints,   \* where "scheduler" faults may strike: values of sched.pc,
                         \* and "reaping" to allow them while the reaper is at work
          SlowRequests   \* may a request outlast the heartbeat timeout?

ASSUME FaultsAssumption == /\ FaultKinds \subseteq {"agent", "network", "reply", "client",
                                                    "scheduler", "api", "redis", "db"}
                           /\ MaxFaults \in Nat
                           /\ SlowRequests \in BOOLEAN

VARIABLE faults          \* faults so far

Fault(kind) == kind \in FaultKinds /\ faults < MaxFaults /\ faults' = faults + 1
NoFault == UNCHANGED faults
=============================================================================

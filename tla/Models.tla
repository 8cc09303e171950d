------------------------------- MODULE Models -------------------------------
(* The two state machines every other part shares (internal/models): the     *)
(* statuses of a job and of a runner, the moves between them, and the label   *)
(* rule that says which runner may take which job.                            *)
CONSTANTS Jobs,      \* job ids (uuids, never reused)
          Runners,   \* runner ids (uuids, never reused)
          NULL       \* SQL NULL, a nil pointer, the empty id

ASSUME NullAssumption == NULL \notin Runners /\ NULL \notin Jobs

JobStatus == {"QUEUED", "ASSIGNED", "RUNNING", "SUCCESS", "FAILED", "CANCELLED"}

\* Variant: a running job cannot go back to the queue.
jobTransitions_NoRetry ==
  [QUEUED    |-> {"ASSIGNED", "CANCELLED"},
   ASSIGNED  |-> {"RUNNING", "QUEUED", "FAILED", "CANCELLED"},
   RUNNING   |-> {"SUCCESS", "FAILED", "CANCELLED"},
   SUCCESS   |-> {},
   FAILED    |-> {},
   CANCELLED |-> {}]

\* Variant: a job that was given to a runner cannot be cancelled before it starts.
jobTransitions_NoCancelAssigned ==
  [QUEUED    |-> {"ASSIGNED", "CANCELLED"},
   ASSIGNED  |-> {"RUNNING", "QUEUED", "FAILED"},
   RUNNING   |-> {"SUCCESS", "FAILED", "CANCELLED", "QUEUED"},
   SUCCESS   |-> {},
   FAILED    |-> {},
   CANCELLED |-> {}]

jobTransitions ==
  [QUEUED    |-> {"ASSIGNED", "CANCELLED"},
   ASSIGNED  |-> {"RUNNING", "QUEUED", "FAILED", "CANCELLED"},
   RUNNING   |-> {"SUCCESS", "FAILED", "CANCELLED", "QUEUED"},
   SUCCESS   |-> {},
   FAILED    |-> {},
   CANCELLED |-> {}]

\* JobStatus.CanTransitionTo
CanTransitionTo(s, next) == next \in jobTransitions[s]

\* JobStatus.Terminal
Terminal(s) == jobTransitions[s] = {}

RunnerStatus == {"IDLE", "BUSY", "OFFLINE", "DRAINING"}

runnerTransitions ==
  [IDLE     |-> {"BUSY", "OFFLINE", "DRAINING"},
   BUSY     |-> {"IDLE", "OFFLINE", "DRAINING"},
   DRAINING |-> {"OFFLINE", "IDLE"},
   OFFLINE  |-> {"IDLE"}]

\* Runner.CanRun: the runner carries every label the job asks for
CanRun(have, required) == required \subseteq have
=============================================================================

-------------------------------- MODULE Store --------------------------------
(* The database tables and the operations of internal/store.  One SQL         *)
(* statement (or one transaction) is one step; an operation that reads a row   *)
(* first and writes it later keeps what it read in call[c], so every other     *)
(* client may run in between.  Clients are the goroutines that call the store. *)
EXTENDS Models

CONSTANTS Clients,   \* goroutines with at most one store operation under way each
          KeyOf      \* job -> (repository, commit_sha, event_type)

VARIABLES status,        \* jobs.status, "NONE" while the row does not exist
          runner_id,     \* jobs.runner_id
          runnerStatus,  \* runners.status, "NONE" while the row does not exist
          currentJob,    \* runners.current_job_id
          fresh,         \* runners.last_heartbeat is within the heartbeat timeout
          call           \* what an operation under way has read, per client

jobVars == <<status, runner_id>>
runnerVars == <<runnerStatus, currentJob, fresh>>
storeVars == <<status, runner_id, runnerStatus, currentJob, fresh, call>>

Active(s) == s \in {"QUEUED", "ASSIGNED", "RUNNING"}
Exists(j) == status[j] # "NONE"

NoCall == [pc |-> "none", job |-> NULL, to |-> "NONE", seen |-> "NONE", owner |-> NULL]

StoreTypeOK ==
  /\ status \in [Jobs -> JobStatus \cup {"NONE"}]
  /\ runner_id \in [Jobs -> Runners \cup {NULL}]
  /\ runnerStatus \in [Runners -> RunnerStatus \cup {"NONE"}]
  /\ currentJob \in [Runners -> Jobs \cup {NULL}]
  /\ fresh \in [Runners -> BOOLEAN]
  /\ call \in [Clients -> [pc    : {"none", "update", "assign", "release"},
                           job   : Jobs \cup {NULL},
                           to    : JobStatus \cup {"NONE"},
                           seen  : JobStatus \cup {"NONE"},
                           owner : Runners \cup {NULL}]]

StoreInit ==
  /\ status = [j \in Jobs |-> "NONE"]
  /\ runner_id = [j \in Jobs |-> NULL]
  /\ runnerStatus = [r \in Runners |-> "NONE"]
  /\ currentJob = [r \in Runners |-> NULL]
  /\ fresh = [r \in Runners |-> FALSE]
  /\ call = [c \in Clients |-> NoCall]

-----------------------------------------------------------------------------
(* Jobs *)

\* The partial unique index on the unfinished jobs of one key.
jobs_active_unique_WithoutRunning(j) ==
  \A k \in Jobs : KeyOf[k] = KeyOf[j] => status[k] \notin {"QUEUED", "ASSIGNED"}
jobs_active_unique(j) == \A k \in Jobs : KeyOf[k] = KeyOf[j] => ~Active(status[k])

\* CreateJob; ErrDuplicate when the index refuses the row, which changes nothing.
CreateJob(j) ==
  /\ status[j] = "NONE"
  /\ jobs_active_unique(j)
  /\ status' = [status EXCEPT ![j] = "QUEUED"]
  /\ UNCHANGED <<runner_id, runnerStatus, currentJob, fresh, call>>

\* GetJob and the table look-up with which transition and AssignJob begin.  When
\* it fails the operation returns ErrNotFound or ErrInvalidTransition unstarted.
MayMove(j, to) == Exists(j) /\ CanTransitionTo(status[j], to)

\* transition, first half: read the row, check the move.
Transition(c, j, to) ==
  /\ call[c].pc = "none"
  /\ MayMove(j, to)
  /\ call' = [call EXCEPT ![c] = [pc |-> "update", job |-> j, to |-> to,
                                  seen |-> status[j], owner |-> runner_id[j]]]
  /\ UNCHANGED <<status, runner_id, runnerStatus, currentJob, fresh>>

\* StartJob does nothing after its UPDATE; CompleteJob, RequeueJob and CancelJob
\* release the runner of the row they read, when it named one.
ThenReleases_NotOnCancel(op) == op.to \notin {"RUNNING", "CANCELLED"} /\ op.owner # NULL
ThenReleases(op) == op.to # "RUNNING" /\ op.owner # NULL

\* Variants of the next definition: without the check of the status that was
\* read; with runner_id left alone, or set to the empty string, by RequeueJob.
UpdateWith(c, checked, requeuedOwner) ==
  LET op == call[c] IN
  /\ op.pc = "update"
  /\ checked => status[op.job] = op.seen
  /\ status' = [status EXCEPT ![op.job] = op.to]
  /\ runner_id' = [runner_id EXCEPT ![op.job] = IF op.to = "QUEUED" THEN requeuedOwner ELSE @]
  /\ call' = [call EXCEPT ![c] = IF ThenReleases(op) THEN [op EXCEPT !.pc = "release"]
                                                    ELSE NoCall]
  /\ UNCHANGED <<runnerStatus, currentJob, fresh>>
TransitionUpdate_Unchecked(c) == UpdateWith(c, FALSE, NULL)
TransitionUpdate_KeepsOwner(c) == UpdateWith(c, TRUE, call[c].owner)
TransitionUpdate_EmptyOwner(c) == UpdateWith(c, TRUE, "")

\* transition, second half: UPDATE ... WHERE id = $2 AND status = $3.  Only
\* RequeueJob (to QUEUED) writes runner_id.
TransitionUpdate(c) ==
  LET op == call[c] IN
  /\ op.pc = "update"
  /\ status[op.job] = op.seen
  /\ status' = [status EXCEPT ![op.job] = op.to]
  /\ runner_id' = IF op.to = "QUEUED" THEN [runner_id EXCEPT ![op.job] = NULL]
                                      ELSE runner_id
  /\ call' = [call EXCEPT ![c] = IF ThenReleases(op) THEN [op EXCEPT !.pc = "release"]
                                                    ELSE NoCall]
  /\ UNCHANGED <<runnerStatus, currentJob, fresh>>

\* The UPDATE matches no row: "job changed concurrently".
TransitionConflict(c) ==
  /\ call[c].pc = "update"
  /\ status[call[c].job] # call[c].seen
  /\ call' = [call EXCEPT ![c] = NoCall]
  /\ UNCHANGED <<status, runner_id, runnerStatus, currentJob, fresh>>

\* releaseRunner: a statement of its own, on the runner the row named when read.
ReleaseRunner(c) ==
  LET r == call[c].owner IN
  /\ call[c].pc = "release"
  /\ runnerStatus' = [runnerStatus EXCEPT ![r] = IF @ = "BUSY" THEN "IDLE" ELSE @]
  /\ currentJob' = IF runnerStatus[r] = "BUSY" THEN [currentJob EXCEPT ![r] = NULL]
                                               ELSE currentJob
  /\ call' = [call EXCEPT ![c] = NoCall]
  /\ UNCHANGED <<status, runner_id, fresh>>

\* AssignJob, first half: read the job row, check the move.
AssignJob(c, j, r) ==
  /\ call[c].pc = "none"
  /\ MayMove(j, "ASSIGNED")
  /\ call' = [call EXCEPT ![c] = [pc |-> "assign", job |-> j, to |-> "ASSIGNED",
                                  seen |-> status[j], owner |-> r]]
  /\ UNCHANGED <<status, runner_id, runnerStatus, currentJob, fresh>>

\* Both UPDATEs of AssignJob's transaction match their row.
AssignMatches_AnyRunner(c) == status[call[c].job] = call[c].seen
AssignMatches(c) == /\ status[call[c].job] = call[c].seen
                    /\ runnerStatus[call[c].owner] = "IDLE"

\* AssignJob, second half: the transaction commits.
AssignCommit(c) ==
  LET op == call[c] IN
  /\ op.pc = "assign"
  /\ AssignMatches(c)
  /\ status' = [status EXCEPT ![op.job] = "ASSIGNED"]
  /\ runner_id' = [runner_id EXCEPT ![op.job] = op.owner]
  /\ runnerStatus' = [runnerStatus EXCEPT ![op.owner] = "BUSY"]
  /\ currentJob' = [currentJob EXCEPT ![op.owner] = op.job]
  /\ call' = [call EXCEPT ![c] = NoCall]
  /\ UNCHANGED fresh

\* One UPDATE matches no row: the job changed, or the runner is no longer idle.
AssignRollback(c) ==
  /\ call[c].pc = "assign"
  /\ ~AssignMatches(c)
  /\ call' = [call EXCEPT ![c] = NoCall]
  /\ UNCHANGED <<status, runner_id, runnerStatus, currentJob, fresh>>

\* The goroutines C fail or die: no later statement of their operations runs,
\* what the earlier ones wrote stays.  (One statement error is one goroutine; a
\* process that dies takes all of its goroutines along.)
CallsFail(C) ==
  /\ call' = [c \in Clients |-> IF c \in C THEN NoCall ELSE call[c]]
  /\ UNCHANGED <<status, runner_id, runnerStatus, currentJob, fresh>>

-----------------------------------------------------------------------------
(* Runners *)

RegisterRunner(r) ==
  /\ runnerStatus[r] = "NONE"
  /\ runnerStatus' = [runnerStatus EXCEPT ![r] = "IDLE"]
  /\ fresh' = [fresh EXCEPT ![r] = TRUE]
  /\ UNCHANGED <<status, runner_id, currentJob, call>>

\* Variant: every heartbeat makes its runner IDLE.
Heartbeat_AlwaysIdle(r) ==
  /\ runnerStatus[r] # "NONE"
  /\ runnerStatus' = [runnerStatus EXCEPT ![r] = "IDLE"]
  /\ fresh' = [fresh EXCEPT ![r] = TRUE]
  /\ UNCHANGED <<status, runner_id, currentJob, call>>

\* Heartbeat: a reaped runner comes back IDLE.
Heartbeat(r) ==
  /\ runnerStatus[r] # "NONE"
  /\ runnerStatus' = [runnerStatus EXCEPT ![r] = IF @ = "OFFLINE" THEN "IDLE" ELSE @]
  /\ fresh' = [fresh EXCEPT ![r] = TRUE]
  /\ UNCHANGED <<status, runner_id, currentJob, call>>

\* The heartbeat timeout passes without a heartbeat from r.
Silence(r) ==
  /\ fresh[r]
  /\ fresh' = [fresh EXCEPT ![r] = FALSE]
  /\ UNCHANGED <<status, runner_id, runnerStatus, currentJob, call>>

\* IdleRunners: the pool the scheduler chooses from.
IdleRunners == {r \in Runners : runnerStatus[r] = "IDLE" /\ fresh[r]}

\* Variant: silence is not looked at.
Stale_AnyRunner == {r \in Runners : runnerStatus[r] \notin {"NONE", "OFFLINE"}}

\* The stale CTE of ReapOfflineRunners.
Stale == {r \in Runners : runnerStatus[r] \notin {"NONE", "OFFLINE"} /\ ~fresh[r]}

\* ReapOfflineRunners: one statement marks the stale runners OFFLINE and clears
\* their job; the rows it returns, less the ones without a job, are Orphans.
Orphans == {<<r, currentJob[r]>> : r \in {s \in Stale : currentJob[s] # NULL}}

ReapOfflineRunners_KeepsJob ==
  /\ Stale # {}
  /\ runnerStatus' = [r \in Runners |-> IF r \in Stale THEN "OFFLINE" ELSE runnerStatus[r]]
  /\ UNCHANGED <<status, runner_id, currentJob, fresh, call>>

ReapOfflineRunners ==
  /\ Stale # {}
  /\ runnerStatus' = [r \in Runners |-> IF r \in Stale THEN "OFFLINE" ELSE runnerStatus[r]]
  /\ currentJob' = [r \in Runners |-> IF r \in Stale THEN NULL ELSE currentJob[r]]
  /\ UNCHANGED <<status, runner_id, fresh, call>>

-----------------------------------------------------------------------------
(* Any clients, in any order: StartJob, CompleteJob, RequeueJob and CancelJob  *)
(* are Transition to RUNNING, to SUCCESS or FAILED, to QUEUED, to CANCELLED.   *)

StoreNext ==
  \/ \E j \in Jobs : CreateJob(j)
  \/ \E c \in Clients, j \in Jobs, to \in JobStatus \ {"ASSIGNED"} : Transition(c, j, to)
  \/ \E c \in Clients, j \in Jobs, r \in Runners : AssignJob(c, j, r)
  \/ \E c \in Clients : \/ TransitionUpdate(c) \/ TransitionConflict(c)
                        \/ ReleaseRunner(c)
                        \/ AssignCommit(c) \/ AssignRollback(c)
  \/ \E C \in SUBSET Clients : CallsFail(C)
  \/ \E r \in Runners : RegisterRunner(r) \/ Heartbeat(r) \/ Silence(r)
  \/ ReapOfflineRunners

StoreSpec == StoreInit /\ [][StoreNext]_storeVars
-----------------------------------------------------------------------------
(* Properties *)

\* store.go, AssignJob and RequeueJob: a job that was never handed out, or was
\* taken back, names no runner; one that is assigned, running or has a result
\* names the runner it was given to.
OwnerMatchesStatus ==
  \A j \in Jobs :
    /\ status[j] \in {"NONE", "QUEUED"} => runner_id[j] = NULL
    /\ status[j] \in {"ASSIGNED", "RUNNING", "SUCCESS", "FAILED"} => runner_id[j] # NULL

\* store.go, AssignJob, releaseRunner and ReapOfflineRunners: whoever writes a
\* runner's row last, BUSY and a current job go together; a runner that is IDLE
\* or OFFLINE never keeps the job of an earlier lease.
BusyIffHolding ==
  \A r \in Runners : (runnerStatus[r] = "BUSY") <=> (currentJob[r] # NULL)

\* 0001_init.sql, jobs_active_unique: the index is only tested when a row is
\* inserted or moved, yet at no time are two unfinished jobs of one (repository,
\* commit, event) on record, since no move leads from a finished status back.
OneActivePerKey ==
  \A j, k \in Jobs :
    j # k /\ KeyOf[j] = KeyOf[k] => ~(Active(status[j]) /\ Active(status[k]))

\* Every UPDATE under way was checked against the table for the status it names.
CallsAreLegal ==
  \A c \in Clients :
    /\ call[c].pc \in {"update", "assign"}
         => /\ call[c].job # NULL
            /\ call[c].seen \in JobStatus
            /\ CanTransitionTo(call[c].seen, call[c].to)
    /\ call[c].pc = "update" => call[c].to # "ASSIGNED"
    /\ call[c].pc = "assign" => call[c].to = "ASSIGNED"
    /\ call[c].pc \in {"assign", "release"} => call[c].owner # NULL

\* The inductive invariant of the store.
StoreInv == StoreTypeOK /\ OwnerMatchesStatus /\ BusyIffHolding /\ OneActivePerKey
              /\ CallsAreLegal

\* runner.go, runnerTransitions: no statement consults this table, yet every
\* change a statement makes to a runner's status is a move the table allows.
RunnerMoves == \A r \in Runners :
  runnerStatus'[r] # runnerStatus[r]
    => IF runnerStatus[r] = "NONE" THEN runnerStatus'[r] = "IDLE"
       ELSE runnerStatus'[r] \in runnerTransitions[runnerStatus[r]]
RunnerMovesAreLegal == [][RunnerMoves]_storeVars

\* store.go as a whole implements the abstract life of a job: with every read
\* and write of several clients interleaved, a job still moves only along
\* jobTransitions, is handed out only while nobody owns it, and ends once.
Lifecycle == INSTANCE JobLifecycle WITH owner <- runner_id
ImplementsLifecycle == Lifecycle!Spec
=============================================================================

----------------------------- MODULE StoreProofs -----------------------------
(* Store, for any jobs, runners, clients and keys: its invariant is inductive, *)
(* its runner moves are legal, and it implements JobLifecycle.                 *)
EXTENDS Store, TLAPS

CallRecord == [pc    : {"none", "update", "assign", "release"},
               job   : Jobs \cup {NULL},
               to    : JobStatus \cup {"NONE"},
               seen  : JobStatus \cup {"NONE"},
               owner : Runners \cup {NULL}]

\* models/job.go: what the table says, spelled out for the provers.
LEMMA TableFacts ==
  /\ \A s \in JobStatus : jobTransitions[s] \subseteq JobStatus
  /\ \A s \in JobStatus : s \notin {"QUEUED", "ASSIGNED", "RUNNING"} => jobTransitions[s] = {}
  /\ \A s \in JobStatus : "QUEUED" \in jobTransitions[s] => s \in {"ASSIGNED", "RUNNING"}
  /\ \A s \in JobStatus : "ASSIGNED" \in jobTransitions[s] => s = "QUEUED"
  /\ \A s \in JobStatus : "RUNNING" \in jobTransitions[s] => s = "ASSIGNED"
  /\ \A s \in JobStatus : "SUCCESS" \in jobTransitions[s] => s = "RUNNING"
  /\ \A s \in JobStatus : "FAILED" \in jobTransitions[s] => s \in {"ASSIGNED", "RUNNING"}
BY DEF jobTransitions, JobStatus

\* An operation that has not started, or is over, holds nothing.
LEMMA NoCallType == NoCall \in CallRecord
BY DEF NoCall, CallRecord, JobStatus

\* The initial state: empty tables, no operation under way.
LEMMA InitInv == StoreInit => StoreInv
<1> SUFFICES ASSUME StoreInit PROVE StoreInv
    OBVIOUS
<1>1. StoreTypeOK
  BY NoCallType DEF StoreInit, StoreTypeOK, CallRecord
<1>2. OwnerMatchesStatus /\ BusyIffHolding /\ OneActivePerKey
  BY DEF StoreInit, OwnerMatchesStatus, BusyIffHolding, OneActivePerKey, Active
<1>3. CallsAreLegal
  BY DEF StoreInit, CallsAreLegal, NoCall
<1> QED BY <1>1, <1>2, <1>3 DEF StoreInv

\* store.go, CreateJob: the index keeps the new row the only unfinished one.
LEMMA CreateJobInv ==
  ASSUME StoreInv, NEW j \in Jobs, CreateJob(j)
  PROVE  StoreInv'
<1>1. StoreTypeOK'
  BY DEF StoreInv, StoreTypeOK, CreateJob, JobStatus
<1>2. OwnerMatchesStatus'
  BY DEF StoreInv, StoreTypeOK, OwnerMatchesStatus, CreateJob
<1>3. BusyIffHolding' /\ CallsAreLegal'
  BY DEF StoreInv, BusyIffHolding, CallsAreLegal, CreateJob
<1>4. OneActivePerKey'
  BY DEF StoreInv, StoreTypeOK, OneActivePerKey, CreateJob, jobs_active_unique, Active
<1> QED BY <1>1, <1>2, <1>3, <1>4 DEF StoreInv

\* A step that only changes which operations are under way.
LEMMA CallOnlyInv ==
  ASSUME StoreInv, UNCHANGED <<status, runner_id, runnerStatus, currentJob, fresh>>,
         NEW c \in Clients, NEW op \in CallRecord, call' = [call EXCEPT ![c] = op],
         op.pc \in {"update", "assign"} =>
            /\ op.job # NULL /\ op.seen \in JobStatus /\ CanTransitionTo(op.seen, op.to),
         op.pc = "update" => op.to # "ASSIGNED",
         op.pc = "assign" => op.to = "ASSIGNED",
         op.pc \in {"assign", "release"} => op.owner # NULL
  PROVE  StoreInv'
<1>1. StoreTypeOK'
  BY DEF StoreInv, StoreTypeOK, CallRecord
<1>2. OwnerMatchesStatus' /\ BusyIffHolding' /\ OneActivePerKey'
  BY DEF StoreInv, OwnerMatchesStatus, BusyIffHolding, OneActivePerKey, Active
<1>3. CallsAreLegal'
  <2> SUFFICES ASSUME NEW d \in Clients
               PROVE  /\ call'[d].pc \in {"update", "assign"}
                           => /\ call'[d].job # NULL
                              /\ call'[d].seen \in JobStatus
                              /\ CanTransitionTo(call'[d].seen, call'[d].to)
                      /\ call'[d].pc = "update" => call'[d].to # "ASSIGNED"
                      /\ call'[d].pc = "assign" => call'[d].to = "ASSIGNED"
                      /\ call'[d].pc \in {"assign", "release"} => call'[d].owner # NULL
      BY DEF CallsAreLegal
  <2>1. CASE d = c
    <3>1. call'[d] = op
      BY <2>1 DEF StoreInv, StoreTypeOK
    <3> QED BY <3>1
  <2>2. CASE d # c
    <3>1. call'[d] = call[d]
      BY <2>2 DEF StoreInv, StoreTypeOK
    <3> QED BY <3>1 DEF StoreInv, CallsAreLegal
  <2> QED BY <2>1, <2>2
<1> QED BY <1>1, <1>2, <1>3 DEF StoreInv

\* store.go, transition and AssignJob, first half.
LEMMA BeginInv ==
  ASSUME StoreInv, NEW c \in Clients, NEW j \in Jobs,
         \/ \E to \in JobStatus \ {"ASSIGNED"} : Transition(c, j, to)
         \/ \E r \in Runners : AssignJob(c, j, r)
  PROVE  StoreInv'
<1>1. status[j] # "NONE" => status[j] \in JobStatus
  BY DEF StoreInv, StoreTypeOK
<1>2. ASSUME NEW to \in JobStatus \ {"ASSIGNED"}, Transition(c, j, to)
      PROVE  StoreInv'
  <2> DEFINE op == [pc |-> "update", job |-> j, to |-> to,
                    seen |-> status[j], owner |-> runner_id[j]]
  <2>1. op \in CallRecord
    BY DEF StoreInv, StoreTypeOK, CallRecord
  <2>2. CanTransitionTo(op.seen, op.to) /\ op.seen \in JobStatus /\ op.job # NULL
    BY <1>1, <1>2, NullAssumption DEF Transition, MayMove, Exists
  <2>3. call' = [call EXCEPT ![c] = op]
        /\ UNCHANGED <<status, runner_id, runnerStatus, currentJob, fresh>>
    BY <1>2 DEF Transition
  <2> QED BY <2>1, <2>2, <2>3, CallOnlyInv
<1>3. ASSUME NEW r \in Runners, AssignJob(c, j, r)
      PROVE  StoreInv'
  <2> DEFINE op == [pc |-> "assign", job |-> j, to |-> "ASSIGNED",
                    seen |-> status[j], owner |-> r]
  <2>1. op \in CallRecord
    BY DEF StoreInv, StoreTypeOK, CallRecord, JobStatus
  <2>2. /\ CanTransitionTo(op.seen, op.to) /\ op.seen \in JobStatus
        /\ op.job # NULL /\ op.owner # NULL
    BY <1>1, <1>3, NullAssumption DEF AssignJob, MayMove, Exists
  <2>3. call' = [call EXCEPT ![c] = op]
        /\ UNCHANGED <<status, runner_id, runnerStatus, currentJob, fresh>>
    BY <1>3 DEF AssignJob
  <2> QED BY <2>1, <2>2, <2>3, CallOnlyInv
<1> QED BY <1>2, <1>3

\* An operation ends without another statement: a conflict or a rollback.
LEMMA EndInv ==
  ASSUME StoreInv, NEW c \in Clients,
         TransitionConflict(c) \/ AssignRollback(c)
  PROVE  StoreInv'
<1>1. /\ call' = [call EXCEPT ![c] = NoCall]
      /\ UNCHANGED <<status, runner_id, runnerStatus, currentJob, fresh>>
  BY DEF TransitionConflict, AssignRollback
<1>2. NoCall.pc = "none"
  BY DEF NoCall
<1> QED BY <1>1, <1>2, NoCallType, CallOnlyInv

\* Goroutines fail in the middle of their operations.
LEMMA FailInv ==
  ASSUME StoreInv, NEW C \in SUBSET Clients, CallsFail(C)
  PROVE  StoreInv'
<1>1. ASSUME NEW d \in Clients PROVE call'[d] = NoCall \/ call'[d] = call[d]
  BY DEF CallsFail
<1>2. call' \in [Clients -> CallRecord]
  BY NoCallType DEF CallsFail, StoreInv, StoreTypeOK, CallRecord
<1>3. UNCHANGED <<status, runner_id, runnerStatus, currentJob, fresh>>
  BY DEF CallsFail
<1>4. StoreTypeOK'
  BY <1>2, <1>3 DEF StoreInv, StoreTypeOK, CallRecord
<1>5. OwnerMatchesStatus' /\ BusyIffHolding' /\ OneActivePerKey'
  BY <1>3 DEF StoreInv, OwnerMatchesStatus, BusyIffHolding, OneActivePerKey, Active
<1>6. ASSUME NEW d \in Clients PROVE call'[d].pc = "none" \/ call'[d] = call[d]
  BY <1>1 DEF NoCall
<1>7. CallsAreLegal'
  BY <1>6 DEF StoreInv, CallsAreLegal
<1> QED BY <1>4, <1>5, <1>7 DEF StoreInv

\* store.go, transition, second half: the row still has the status that was
\* checked, so the move is one of the table, and the owner it leaves is right.
LEMMA UpdateInv ==
  ASSUME StoreInv, NEW c \in Clients, TransitionUpdate(c)
  PROVE  StoreInv'
<1> DEFINE op == call[c]
           j == call[c].job
<1>1. /\ op \in CallRecord /\ op.pc = "update" /\ j \in Jobs
      /\ op.seen \in JobStatus /\ op.to \in jobTransitions[op.seen]
      /\ op.to # "ASSIGNED" /\ op.to \in JobStatus
      /\ status[j] = op.seen
  BY TableFacts DEF StoreInv, StoreTypeOK, CallRecord, CallsAreLegal, TransitionUpdate,
                    CanTransitionTo
<1>2. /\ status' = [status EXCEPT ![j] = op.to]
      /\ runner_id' = IF op.to = "QUEUED" THEN [runner_id EXCEPT ![j] = NULL] ELSE runner_id
      /\ UNCHANGED <<runnerStatus, currentJob, fresh>>
  BY DEF TransitionUpdate
<1>3. op.seen \in {"QUEUED", "ASSIGNED", "RUNNING"}
  BY <1>1, TableFacts
<1>4. StoreTypeOK'
  <2>1. status' \in [Jobs -> JobStatus \cup {"NONE"}] /\ runner_id' \in [Jobs -> Runners \cup {NULL}]
    BY <1>1, <1>2 DEF StoreInv, StoreTypeOK
  <2>2. [op EXCEPT !.pc = "release"] \in CallRecord
    BY <1>1 DEF CallRecord
  <2>3. call' \in [Clients -> CallRecord]
    BY <2>2, NoCallType DEF StoreInv, StoreTypeOK, CallRecord, TransitionUpdate
  <2> QED BY <1>2, <2>1, <2>3 DEF StoreInv, StoreTypeOK, CallRecord
<1>5. OwnerMatchesStatus'
  <2> SUFFICES ASSUME NEW k \in Jobs
               PROVE  /\ status'[k] \in {"NONE", "QUEUED"} => runner_id'[k] = NULL
                      /\ status'[k] \in {"ASSIGNED", "RUNNING", "SUCCESS", "FAILED"}
                           => runner_id'[k] # NULL
      BY DEF OwnerMatchesStatus
  <2>1. CASE k # j
    <3>1. status'[k] = status[k] /\ runner_id'[k] = runner_id[k]
      BY <1>2, <2>1 DEF StoreInv, StoreTypeOK
    <3> QED BY <3>1 DEF StoreInv, OwnerMatchesStatus
  <2>2. CASE k = j
    <3>1. status'[k] = op.to
      BY <1>1, <1>2, <2>2 DEF StoreInv, StoreTypeOK
    <3>2. CASE op.to = "QUEUED"
      BY <1>1, <1>2, <2>2, <3>1, <3>2 DEF StoreInv, StoreTypeOK
    <3>3. CASE op.to # "QUEUED"
      <4>1. runner_id'[k] = runner_id[j]
        BY <1>2, <2>2, <3>3
      <4>2. op.to \in {"RUNNING", "SUCCESS", "FAILED"} => runner_id[j] # NULL
        <5>1. op.to \in {"RUNNING", "SUCCESS", "FAILED"} => op.seen \in {"ASSIGNED", "RUNNING"}
          BY <1>1, TableFacts
        <5> QED BY <1>1, <5>1 DEF StoreInv, OwnerMatchesStatus
      <4> QED BY <1>1, <3>1, <3>3, <4>1, <4>2 DEF JobStatus
    <3> QED BY <3>2, <3>3
  <2> QED BY <2>1, <2>2
<1>6. BusyIffHolding'
  BY <1>2 DEF StoreInv, BusyIffHolding
<1>7. OneActivePerKey'
  BY <1>1, <1>2, <1>3 DEF StoreInv, StoreTypeOK, OneActivePerKey, Active
<1>8. CallsAreLegal'
  <2>1. ASSUME NEW d \in Clients, d # c PROVE call'[d] = call[d]
    BY <2>1 DEF StoreInv, StoreTypeOK, TransitionUpdate
  <2>2. \/ call'[c] = NoCall
        \/ /\ call'[c] = [op EXCEPT !.pc = "release"]
           /\ op.owner # NULL
    BY DEF StoreInv, StoreTypeOK, TransitionUpdate, ThenReleases
  <2>3. \/ call'[c].pc = "none"
        \/ call'[c].pc = "release" /\ call'[c].owner # NULL
    BY <1>1, <2>2 DEF NoCall, CallRecord
  <2> QED BY <2>1, <2>3 DEF StoreInv, CallsAreLegal
<1> QED BY <1>4, <1>5, <1>6, <1>7, <1>8 DEF StoreInv

\* store.go, releaseRunner.
LEMMA ReleaseInv ==
  ASSUME StoreInv, NEW c \in Clients, ReleaseRunner(c)
  PROVE  StoreInv'
<1>1. call[c].owner \in Runners
  BY DEF StoreInv, StoreTypeOK, CallsAreLegal, ReleaseRunner
<1>2. StoreTypeOK'
  <2>1. call' \in [Clients -> CallRecord]
    BY NoCallType DEF StoreInv, StoreTypeOK, CallRecord, ReleaseRunner
  <2>2. runnerStatus' \in [Runners -> RunnerStatus \cup {"NONE"}]
    BY <1>1 DEF StoreInv, StoreTypeOK, ReleaseRunner, RunnerStatus
  <2>3. currentJob' \in [Runners -> Jobs \cup {NULL}]
    BY <1>1 DEF StoreInv, StoreTypeOK, ReleaseRunner
  <2> QED BY <2>1, <2>2, <2>3 DEF StoreInv, StoreTypeOK, CallRecord, ReleaseRunner
<1>3. OwnerMatchesStatus' /\ OneActivePerKey'
  BY DEF StoreInv, OwnerMatchesStatus, OneActivePerKey, Active, ReleaseRunner
<1>4. BusyIffHolding'
  BY <1>1 DEF StoreInv, StoreTypeOK, BusyIffHolding, ReleaseRunner
<1>5. CallsAreLegal'
  <2>1. ASSUME NEW d \in Clients, d # c PROVE call'[d] = call[d]
    BY <2>1 DEF StoreInv, StoreTypeOK, ReleaseRunner
  <2>2. call'[c].pc = "none"
    BY DEF StoreInv, StoreTypeOK, ReleaseRunner, NoCall
  <2> QED BY <2>1, <2>2 DEF StoreInv, CallsAreLegal
<1> QED BY <1>2, <1>3, <1>4, <1>5 DEF StoreInv

\* store.go, AssignJob, second half: job and runner rows change together.
LEMMA AssignInv ==
  ASSUME StoreInv, NEW c \in Clients, AssignCommit(c)
  PROVE  StoreInv'
<1> DEFINE j == call[c].job
           r == call[c].owner
<1>1. j \in Jobs /\ r \in Runners /\ status[j] = "QUEUED"
  BY TableFacts DEF StoreInv, StoreTypeOK, CallsAreLegal, AssignCommit, AssignMatches,
                    CanTransitionTo
<1>2. StoreTypeOK'
  <2>1. call' \in [Clients -> CallRecord]
    BY NoCallType DEF StoreInv, StoreTypeOK, CallRecord, AssignCommit
  <2>2. /\ status' \in [Jobs -> JobStatus \cup {"NONE"}]
        /\ runner_id' \in [Jobs -> Runners \cup {NULL}]
    BY <1>1 DEF StoreInv, StoreTypeOK, AssignCommit, JobStatus
  <2>3. /\ runnerStatus' \in [Runners -> RunnerStatus \cup {"NONE"}]
        /\ currentJob' \in [Runners -> Jobs \cup {NULL}]
    BY <1>1 DEF StoreInv, StoreTypeOK, AssignCommit, RunnerStatus
  <2> QED BY <2>1, <2>2, <2>3 DEF StoreInv, StoreTypeOK, CallRecord, AssignCommit
<1>3. OwnerMatchesStatus'
  BY <1>1, NullAssumption DEF StoreInv, StoreTypeOK, OwnerMatchesStatus, AssignCommit
<1>4. BusyIffHolding'
  BY <1>1, NullAssumption DEF StoreInv, StoreTypeOK, BusyIffHolding, AssignCommit
<1>5. OneActivePerKey'
  BY <1>1 DEF StoreInv, StoreTypeOK, OneActivePerKey, Active, AssignCommit
<1>6. CallsAreLegal'
  <2>1. ASSUME NEW d \in Clients, d # c PROVE call'[d] = call[d]
    BY <2>1 DEF StoreInv, StoreTypeOK, AssignCommit
  <2>2. call'[c].pc = "none"
    BY DEF StoreInv, StoreTypeOK, AssignCommit, NoCall
  <2> QED BY <2>1, <2>2 DEF StoreInv, CallsAreLegal
<1> QED BY <1>2, <1>3, <1>4, <1>5, <1>6 DEF StoreInv

\* store.go, the statements that write only runner rows, and the clock.
LEMMA RunnerRowsInv ==
  ASSUME StoreInv,
         \/ \E r \in Runners : RegisterRunner(r) \/ Heartbeat(r) \/ Silence(r)
         \/ ReapOfflineRunners
  PROVE  StoreInv'
<1>1. StoreTypeOK'
  BY DEF StoreInv, StoreTypeOK, RegisterRunner, Heartbeat, Silence, ReapOfflineRunners,
         RunnerStatus
<1>2. UNCHANGED <<status, runner_id, call>>
  BY DEF RegisterRunner, Heartbeat, Silence, ReapOfflineRunners
<1>3. OwnerMatchesStatus' /\ OneActivePerKey' /\ CallsAreLegal'
  BY <1>2 DEF StoreInv, OwnerMatchesStatus, OneActivePerKey, Active, CallsAreLegal
<1>4. BusyIffHolding'
  <2>1. CASE ReapOfflineRunners
    BY <2>1 DEF StoreInv, StoreTypeOK, BusyIffHolding, ReapOfflineRunners
  <2>2. CASE \E r \in Runners : RegisterRunner(r) \/ Heartbeat(r) \/ Silence(r)
    BY <2>2 DEF StoreInv, StoreTypeOK, BusyIffHolding, RegisterRunner, Heartbeat, Silence
  <2> QED BY <2>1, <2>2
<1> QED BY <1>1, <1>3, <1>4 DEF StoreInv

\* Every step of every client, and stuttering, keeps the invariant.
LEMMA StoreStepInv == StoreInv /\ [StoreNext]_storeVars => StoreInv'
<1> SUFFICES ASSUME StoreInv, [StoreNext]_storeVars PROVE StoreInv'
    OBVIOUS
<1>1. CASE UNCHANGED storeVars
  BY <1>1 DEF storeVars, StoreInv, StoreTypeOK, OwnerMatchesStatus, BusyIffHolding,
              OneActivePerKey, Active, CallsAreLegal
<1>2. CASE \E j \in Jobs : CreateJob(j)
  BY <1>2, CreateJobInv
<1>3. CASE \E c \in Clients, j \in Jobs, to \in JobStatus \ {"ASSIGNED"} : Transition(c, j, to)
  BY <1>3, BeginInv
<1>4. CASE \E c \in Clients, j \in Jobs, r \in Runners : AssignJob(c, j, r)
  BY <1>4, BeginInv
<1>5. CASE \E c \in Clients : TransitionConflict(c) \/ AssignRollback(c)
  BY <1>5, EndInv
<1>10. CASE \E C \in SUBSET Clients : CallsFail(C)
  BY <1>10, FailInv
<1>6. CASE \E c \in Clients : TransitionUpdate(c)
  BY <1>6, UpdateInv
<1>7. CASE \E c \in Clients : ReleaseRunner(c)
  BY <1>7, ReleaseInv
<1>8. CASE \E c \in Clients : AssignCommit(c)
  BY <1>8, AssignInv
<1>9. CASE \/ \E r \in Runners : RegisterRunner(r) \/ Heartbeat(r) \/ Silence(r)
           \/ ReapOfflineRunners
  BY <1>9, RunnerRowsInv
<1> QED BY <1>1, <1>2, <1>3, <1>4, <1>5, <1>6, <1>7, <1>8, <1>9, <1>10 DEF StoreNext

\* The tables stay well typed whatever the clients do, in any interleaving.
THEOREM StoreTypeCorrect == StoreSpec => []StoreTypeOK
<1>1. StoreInv => StoreTypeOK
  BY DEF StoreInv
<1> QED BY InitInv, StoreStepInv, <1>1, PTL DEF StoreSpec

\* Reads and writes of any number of clients interleaved, a job that is assigned,
\* running or has a result names a runner, and a queued one does not.
THEOREM OwnerCorrect == StoreSpec => []OwnerMatchesStatus
<1>1. StoreInv => OwnerMatchesStatus
  BY DEF StoreInv
<1> QED BY InitInv, StoreStepInv, <1>1, PTL DEF StoreSpec

\* A runner is BUSY exactly while it names a current job, through late releases,
\* reaping and returning heartbeats.
THEOREM BusyCorrect == StoreSpec => []BusyIffHolding
<1>1. StoreInv => BusyIffHolding
  BY DEF StoreInv
<1> QED BY InitInv, StoreStepInv, <1>1, PTL DEF StoreSpec

\* At no time are two unfinished jobs of one commit and event on record.
THEOREM KeysCorrect == StoreSpec => []OneActivePerKey
<1>1. StoreInv => OneActivePerKey
  BY DEF StoreInv
<1> QED BY InitInv, StoreStepInv, <1>1, PTL DEF StoreSpec

\* No statement moves a runner along an edge that runner.go's table lacks.
THEOREM RunnerMovesCorrect == StoreSpec => RunnerMovesAreLegal
<1>1. StoreInv /\ [StoreNext]_storeVars => [RunnerMoves]_storeVars
  <2> SUFFICES ASSUME StoreInv, StoreNext PROVE RunnerMoves
      OBVIOUS
  <2>1. CASE UNCHANGED runnerStatus
    BY <2>1 DEF RunnerMoves
  <2>2. CASE \E c \in Clients : ReleaseRunner(c)
    BY <2>2 DEF StoreInv, StoreTypeOK, ReleaseRunner, RunnerMoves, runnerTransitions
  <2>3. CASE \E c \in Clients : AssignCommit(c)
    BY <2>3 DEF StoreInv, StoreTypeOK, AssignCommit, AssignMatches, RunnerMoves,
                runnerTransitions
  <2>4. CASE \E r \in Runners : RegisterRunner(r) \/ Heartbeat(r)
    BY <2>4 DEF StoreInv, StoreTypeOK, RegisterRunner, Heartbeat, RunnerMoves,
                runnerTransitions
  <2>5. CASE ReapOfflineRunners
    BY <2>5 DEF StoreInv, StoreTypeOK, ReapOfflineRunners, Stale, RunnerMoves,
                runnerTransitions, RunnerStatus
  <2> QED BY <2>1, <2>2, <2>3, <2>4, <2>5
          DEF StoreNext, CreateJob, Transition, AssignJob, TransitionUpdate,
              TransitionConflict, AssignRollback, CallsFail, Silence
<1> QED BY InitInv, StoreStepInv, <1>1, PTL DEF StoreSpec, RunnerMovesAreLegal

-----------------------------------------------------------------------------
(* Store implements JobLifecycle *)

\* A won UPDATE is the abstract move its target status names.
LEMMA UpdateMaps ==
  ASSUME StoreInv, NEW c \in Clients, TransitionUpdate(c)
  PROVE  Lifecycle!Next
<1> DEFINE op == call[c]
           j == call[c].job
<1>1. /\ j \in Jobs /\ op.seen \in JobStatus /\ op.to \in jobTransitions[op.seen]
      /\ op.to # "ASSIGNED" /\ op.to \in JobStatus /\ status[j] = op.seen
  BY TableFacts DEF StoreInv, StoreTypeOK, CallsAreLegal, TransitionUpdate, CanTransitionTo
<1>2. /\ status' = [status EXCEPT ![j] = op.to]
      /\ runner_id' = IF op.to = "QUEUED" THEN [runner_id EXCEPT ![j] = NULL] ELSE runner_id
  BY DEF TransitionUpdate
<1>3. CASE op.to = "RUNNING"
  <2>1. Lifecycle!Start(j)
    BY <1>1, <1>2, <1>3, TableFacts DEF Lifecycle!Start
  <2> QED BY <1>1, <2>1 DEF Lifecycle!Next
<1>4. CASE op.to = "SUCCESS"
  <2>1. Lifecycle!Succeed(j)
    BY <1>1, <1>2, <1>4, TableFacts DEF Lifecycle!Succeed
  <2> QED BY <1>1, <2>1 DEF Lifecycle!Next
<1>5. CASE op.to = "FAILED"
  <2>1. Lifecycle!Fail(j)
    BY <1>1, <1>2, <1>5, TableFacts DEF Lifecycle!Fail
  <2> QED BY <1>1, <2>1 DEF Lifecycle!Next
<1>6. CASE op.to = "QUEUED"
  <2>1. Lifecycle!TakeBack(j)
    BY <1>1, <1>2, <1>6, TableFacts DEF Lifecycle!TakeBack
  <2> QED BY <1>1, <2>1 DEF Lifecycle!Next
<1>7. CASE op.to = "CANCELLED"
  <2>1. Lifecycle!Cancel(j)
    BY <1>1, <1>2, <1>7, TableFacts DEF Lifecycle!Cancel, Lifecycle!Active
  <2> QED BY <1>1, <2>1 DEF Lifecycle!Next
<1> QED BY <1>1, <1>3, <1>4, <1>5, <1>6, <1>7 DEF JobStatus

\* A committed assignment hands out a job nobody owns.
LEMMA AssignMaps ==
  ASSUME StoreInv, NEW c \in Clients, AssignCommit(c)
  PROVE  Lifecycle!Next
<1> DEFINE j == call[c].job
           r == call[c].owner
<1>1. j \in Jobs /\ r \in Runners /\ status[j] = "QUEUED"
  BY TableFacts DEF StoreInv, StoreTypeOK, CallsAreLegal, AssignCommit, AssignMatches,
                    CanTransitionTo
<1>2. runner_id[j] = NULL
  BY <1>1 DEF StoreInv, OwnerMatchesStatus
<1>3. Lifecycle!Hand(j, r)
  BY <1>1, <1>2 DEF AssignCommit, Lifecycle!Hand
<1> QED BY <1>1, <1>3 DEF Lifecycle!Next

\* store.go implements the abstract life of a job: created once per commit,
\* owned by one runner at a time, finished once, for any clients interleaved.
THEOREM StoreImplementsLifecycle == StoreSpec => ImplementsLifecycle
<1>1. StoreInit => Lifecycle!Init
  BY DEF StoreInit, Lifecycle!Init
<1>2. StoreInv /\ [StoreNext]_storeVars => [Lifecycle!Next]_(Lifecycle!vars)
  <2> SUFFICES ASSUME StoreInv, [StoreNext]_storeVars
               PROVE  Lifecycle!Next \/ UNCHANGED <<status, runner_id>>
      BY DEF Lifecycle!vars
  <2>1. CASE \E j \in Jobs : CreateJob(j)
    <3>1. PICK j \in Jobs : CreateJob(j)
      BY <2>1
    <3>2. Lifecycle!Submit(j)
      BY <3>1 DEF CreateJob, jobs_active_unique, Active, Lifecycle!Submit, Lifecycle!Active
    <3> QED BY <3>2 DEF Lifecycle!Next
  <2>2. CASE \E c \in Clients : TransitionUpdate(c)
    BY <2>2, UpdateMaps
  <2>3. CASE \E c \in Clients : AssignCommit(c)
    BY <2>3, AssignMaps
  <2>4. CASE UNCHANGED <<status, runner_id>>
    BY <2>4
  <2> QED BY <2>1, <2>2, <2>3, <2>4
          DEF StoreNext, storeVars, Transition, AssignJob, TransitionConflict, ReleaseRunner,
              AssignRollback, CallsFail, RegisterRunner, Heartbeat, Silence, ReapOfflineRunners
<1> QED BY InitInv, StoreStepInv, <1>1, <1>2, PTL
        DEF StoreSpec, ImplementsLifecycle, Lifecycle!Spec
=============================================================================

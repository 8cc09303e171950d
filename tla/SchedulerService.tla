-------------------------- MODULE SchedulerService --------------------------
(* The scheduler process (internal/scheduler/service.go): the loop that takes  *)
(* a job id from the queue and assigns it, and the reaper goroutine beside it. *)
(* Each store or queue call is a step; sched and reap are what the two         *)
(* goroutines hold in between.                                                 *)
EXTENDS Store, RedisQueue, Faults

CONSTANTS RunnerLabels,  \* runner -> the labels it registered with
          JobLabels      \* the labels every job asks for (api/webhook.go)

VARIABLES sched,  \* Run and assign: [pc, job, runner, ids]
          reap    \* reapLoop: [pc, orphans, job]

SchedPcs == {"recover", "dequeue", "load", "list", "assign", "assigning", "dispatch",
             "undo", "undoing", "requeue", "push", "ack"}

SchedTypeOK ==
  /\ sched \in [pc : SchedPcs, job : Jobs \cup {NULL}, runner : Runners \cup {NULL},
                ids : Seq(Jobs)]
  /\ reap \in [pc : {"off", "tick", "next", "requeueing", "enqueue"},
               orphans : SUBSET (Runners \X Jobs), job : Jobs \cup {NULL}]

SchedInit ==
  /\ sched = [pc |-> "recover", job |-> NULL, runner |-> NULL, ids |-> <<>>]
  /\ reap = [pc |-> "off", orphans |-> {}, job |-> NULL]

-----------------------------------------------------------------------------
(* Run: Recover, start the reaper, then dequeue and assign for ever.           *)

SchedGo(pc) == sched' = [sched EXCEPT !.pc = pc] /\ UNCHANGED reap

\* Back to the top of the loop; the first time, reapLoop is started.
SchedLoop ==
  /\ sched' = [pc |-> "dequeue", job |-> NULL, runner |-> NULL, ids |-> <<>>]
  /\ reap' = [reap EXCEPT !.pc = IF @ = "off" THEN "tick" ELSE @]

\* Recover: LRANGE inflight, then Requeue each id of that snapshot.
Recover ==
  /\ sched.pc = "recover" /\ NoFault
  /\ IF inflight = <<>> THEN SchedLoop
     ELSE /\ sched' = [sched EXCEPT !.pc = "requeue", !.job = Head(inflight),
                                    !.ids = Tail(inflight)]
          /\ UNCHANGED reap
  /\ UNCHANGED <<storeVars, queueVars>>

SchedDequeue ==
  /\ sched.pc = "dequeue" /\ NoFault
  /\ Dequeue
  /\ sched' = [sched EXCEPT !.pc = "load", !.job = Last(pending)]
  /\ UNCHANGED <<reap, storeVars>>

\* assign: a job that is gone or no longer QUEUED is dropped from the queue.
LoadJob ==
  /\ sched.pc = "load" /\ NoFault
  /\ SchedGo(IF status[sched.job] = "QUEUED" THEN "list" ELSE "ack")
  /\ UNCHANGED <<storeVars, queueVars>>

\* IdleRunners and Schedule.  Which of the capable runners wins is
\* CapabilityScheduler's choice; here it may be any of them.
Candidates == {r \in IdleRunners : CanRun(RunnerLabels[r], JobLabels)}

\* Variant: a job that finds no runner is dropped.
ChooseRunner_OrDrop ==
  /\ sched.pc = "list" /\ NoFault
  /\ \/ \E r \in Candidates : sched' = [sched EXCEPT !.pc = "assign", !.runner = r]
     \/ Candidates = {} /\ sched' = [sched EXCEPT !.pc = "ack"]
  /\ UNCHANGED <<reap, storeVars, queueVars>>

ChooseRunner ==
  /\ sched.pc = "list" /\ NoFault
  /\ \/ \E r \in Candidates : sched' = [sched EXCEPT !.pc = "assign", !.runner = r]
     \/ Candidates = {} /\ sched' = [sched EXCEPT !.pc = "requeue"]
  /\ UNCHANGED <<reap, storeVars, queueVars>>

\* AssignJob: read and check, then the transaction.  Any error requeues the id.
BeginAssign ==
  /\ sched.pc = "assign" /\ NoFault
  /\ \/ AssignJob("sched", sched.job, sched.runner) /\ SchedGo("assigning")
     \/ ~MayMove(sched.job, "ASSIGNED") /\ SchedGo("requeue") /\ UNCHANGED storeVars
  /\ UNCHANGED queueVars

FinishAssign ==
  /\ sched.pc = "assigning" /\ NoFault
  /\ \/ AssignCommit("sched") /\ SchedGo("dispatch")
     \/ AssignRollback("sched") /\ SchedGo("requeue")
  /\ UNCHANGED queueVars

DispatchJob ==
  /\ sched.pc = "dispatch" /\ NoFault
  /\ Dispatch(sched.runner, sched.job)
  /\ SchedGo("ack")
  /\ UNCHANGED storeVars

\* Dispatch failed: RequeueJob, whose error is discarded, then requeue the id.
BeginUndo ==
  /\ sched.pc = "undo" /\ NoFault
  /\ \/ Transition("sched", sched.job, "QUEUED") /\ SchedGo("undoing")
     \/ ~MayMove(sched.job, "QUEUED") /\ SchedGo("requeue") /\ UNCHANGED storeVars
  /\ UNCHANGED queueVars

FinishUndo ==
  /\ sched.pc = "undoing" /\ NoFault
  /\ \/ TransitionUpdate("sched") /\ SchedGo("undoing")
     \/ (TransitionConflict("sched") \/ ReleaseRunner("sched")) /\ SchedGo("requeue")
  /\ UNCHANGED queueVars

\* Requeue: LREM, then LPUSH; Recover goes on with the next id of its snapshot.
RequeueAck ==
  /\ sched.pc = "requeue" /\ NoFault
  /\ Ack(sched.job) /\ SchedGo("push")
  /\ UNCHANGED storeVars

RequeuePush ==
  /\ sched.pc = "push" /\ NoFault
  /\ Enqueue(sched.job)
  /\ IF sched.ids = <<>> THEN SchedLoop
     ELSE /\ sched' = [sched EXCEPT !.pc = "requeue", !.job = Head(sched.ids),
                                    !.ids = Tail(sched.ids)]
          /\ UNCHANGED reap
  /\ UNCHANGED storeVars

AckJob ==
  /\ sched.pc = "ack" /\ NoFault
  /\ Ack(sched.job) /\ SchedLoop
  /\ UNCHANGED storeVars

SchedStep == \/ Recover \/ SchedDequeue \/ LoadJob \/ ChooseRunner \/ BeginAssign
             \/ FinishAssign \/ DispatchJob \/ BeginUndo \/ FinishUndo
             \/ RequeueAck \/ RequeuePush \/ AckJob

-----------------------------------------------------------------------------
(* reapLoop *)

ReapGo(rest) == reap' = [pc |-> IF rest = {} THEN "tick" ELSE "next", orphans |-> rest,
                         job |-> NULL]

ReapTick ==
  /\ reap.pc = "tick" /\ NoFault
  /\ ReapOfflineRunners
  /\ ReapGo(Orphans)
  /\ UNCHANGED <<sched, queueVars>>

\* The next orphan, in the map's random order: RequeueJob, first half.
ReapNext ==
  /\ reap.pc = "next" /\ NoFault
  /\ \E p \in reap.orphans :
       \/ /\ Transition("reaper", p[2], "QUEUED")
          /\ reap' = [pc |-> "requeueing", orphans |-> reap.orphans \ {p}, job |-> p[2]]
       \/ ~MayMove(p[2], "QUEUED") /\ ReapGo(reap.orphans \ {p}) /\ UNCHANGED storeVars
  /\ UNCHANGED <<sched, queueVars>>

\* Variant: the job goes back to QUEUED and its id is not enqueued.
ReapRequeue_NoEnqueue ==
  /\ reap.pc = "requeueing" /\ NoFault
  /\ \/ TransitionUpdate("reaper") /\ UNCHANGED reap
     \/ (ReleaseRunner("reaper") \/ TransitionConflict("reaper")) /\ ReapGo(reap.orphans)
  /\ UNCHANGED <<sched, queueVars>>

\* RequeueJob, second half; when it fails the orphan is given up.
ReapRequeue ==
  /\ reap.pc = "requeueing" /\ NoFault
  /\ \/ TransitionUpdate("reaper") /\ UNCHANGED reap
     \/ ReleaseRunner("reaper") /\ reap' = [reap EXCEPT !.pc = "enqueue"]
     \/ TransitionConflict("reaper") /\ ReapGo(reap.orphans)
  /\ UNCHANGED <<sched, queueVars>>

ReapEnqueue ==
  /\ reap.pc = "enqueue" /\ NoFault
  /\ Enqueue(reap.job)
  /\ ReapGo(reap.orphans)
  /\ UNCHANGED <<sched, storeVars>>

ReapStep == ReapTick \/ ReapNext \/ ReapRequeue \/ ReapEnqueue

-----------------------------------------------------------------------------
(* Faults of the scheduler *)

\* The process dies: both goroutines and their operations are gone, Redis and the
\* database keep what they have, and the next instance begins with Recover.
SchedCrash ==
  /\ Fault("scheduler")
  /\ sched.pc \in CrashPoints
  /\ reap.pc \in {"off", "tick"} \/ "reaping" \in CrashPoints
  /\ CallsFail({"sched", "reaper"})
  /\ sched' = [pc |-> "recover", job |-> NULL, runner |-> NULL, ids |-> <<>>]
  /\ reap' = [pc |-> "off", orphans |-> {}, job |-> NULL]
  /\ UNCHANGED queueVars

\* A Redis command fails, or went through and its answer is lost.  Recover,
\* Requeue and Ack give up; Dispatch is undone, also when its LPUSH went through
\* and only EXPIRE failed; a BLMOVE whose answer is lost has moved the id; the
\* reaper gives the orphan up.
SchedRedisFails ==
  /\ Fault("redis")
  /\ \/ sched.pc \in {"recover", "requeue", "push", "ack"} /\ SchedLoop /\ UNCHANGED queueVars
     \/ sched.pc = "requeue" /\ SchedLoop /\ Ack(sched.job)
     \/ sched.pc = "push" /\ SchedLoop /\ Enqueue(sched.job)
     \/ sched.pc = "dispatch" /\ SchedGo("undo") /\ UNCHANGED queueVars
     \/ sched.pc = "dispatch" /\ SchedGo("undo") /\ Dispatch(sched.runner, sched.job)
     \/ sched.pc = "dequeue" /\ Dequeue /\ UNCHANGED <<sched, reap>>
     \/ reap.pc = "enqueue" /\ ReapGo(reap.orphans) /\ UNCHANGED <<sched, queueVars>>
  /\ UNCHANGED storeVars

\* A statement fails.  A job that cannot be loaded is dropped from the queue; any
\* other error requeues the id, also when the COMMIT went through and only its
\* answer was lost; the reaper gives the orphan up, and with it all the rows of a
\* ReapOfflineRunners that went through and could not be read.
SchedDbFails ==
  /\ Fault("db")
  /\ \/ sched.pc = "load" /\ SchedGo("ack") /\ UNCHANGED storeVars
     \/ sched.pc \in {"list", "assign", "undo"} /\ SchedGo("requeue") /\ UNCHANGED storeVars
     \/ sched.pc \in {"assigning", "undoing"} /\ CallsFail({"sched"}) /\ SchedGo("requeue")
     \/ sched.pc = "assigning" /\ AssignCommit("sched") /\ SchedGo("requeue")
     \/ reap.pc = "tick" /\ ReapOfflineRunners /\ UNCHANGED <<sched, reap>>
     \/ /\ reap.pc = "next" /\ UNCHANGED <<sched, storeVars>>
        /\ \E p \in reap.orphans : ReapGo(reap.orphans \ {p})
     \/ /\ reap.pc = "requeueing" /\ UNCHANGED sched
        /\ CallsFail({"reaper"}) /\ ReapGo(reap.orphans)
  /\ UNCHANGED queueVars

SchedFault == SchedCrash \/ SchedRedisFails \/ SchedDbFails
=============================================================================

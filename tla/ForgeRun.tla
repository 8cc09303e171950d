------------------------------ MODULE ForgeRun ------------------------------
(* The whole system: webhook deliveries and cancellations arrive at the API,   *)
(* the scheduler process assigns and reaps, runners poll, build and report,    *)
(* and they meet only in the database and in Redis.                            *)
EXTENDS SchedulerService, RunnerAgent

\* The goroutines that use the store are named after what they serve, each its own.
ASSUME ClientsAssumption ==
  /\ Clients = {"sched", "reaper", "cancel"} \cup Runners \cup Jobs
  /\ {"sched", "reaper", "cancel"} \cap (Runners \cup Jobs) = {} /\ Runners \cap Jobs = {}

schedVars == <<sched, reap>>
vars == <<storeVars, queueVars, schedVars, apiVars, agentVars, faults>>

TypeOK == StoreTypeOK /\ QueueTypeOK /\ SchedTypeOK /\ ApiTypeOK /\ AgentTypeOK
            /\ faults \in 0..MaxFaults

Init == StoreInit /\ QueueInit /\ SchedInit /\ ApiInit /\ AgentInit /\ faults = 0

-----------------------------------------------------------------------------
(* The steps of each process leave the other processes' local state alone.     *)

Scheduler == (SchedStep \/ SchedFault) /\ UNCHANGED <<apiVars, agentVars>>
Reaper == ReapStep /\ UNCHANGED <<apiVars, agentVars>>
Webhooks(j) == (WebhookCreates(j) \/ HookStep(j) \/ HookFault(j))
                 /\ UNCHANGED <<schedVars, agentVars>>
Cancels == ((\E j \in Jobs : CancelBegins(j)) \/ CancelStep \/ CancelFails)
             /\ UNCHANGED <<schedVars, agentVars>>
Requests(r) == (ReqStep(r) \/ ReportFails(r) \/ RequestCut(r)) /\ UNCHANGED <<schedVars, agentVars>>
Agent(r) == (AgentStep(r) \/ BuildStep(r) \/ HeartbeatStep(r) \/ AgentFault(r)
               \/ FallsSilent(r) \/ MailboxDropped(r))
              /\ UNCHANGED schedVars

Next == \/ Scheduler \/ Reaper \/ Cancels
        \/ \E j \in Jobs : Webhooks(j)
        \/ \E r \in Runners : Requests(r) \/ Agent(r)

(* Every goroutine that can go on goes on: nothing in the code makes one wait  *)
(* for ever, and time passes for a dead runner too.  Nobody has to push or to  *)
(* cancel, no fault has to happen, and a build that nobody stops may take as   *)
(* long as it likes; one whose context was cancelled ends.                     *)
Fairness ==
  /\ WF_vars(SchedStep /\ UNCHANGED <<apiVars, agentVars>>)
  /\ WF_vars(Reaper)
  /\ WF_vars(CancelStep /\ UNCHANGED <<schedVars, agentVars>>)
  /\ \A j \in Jobs : WF_vars(HookStep(j) /\ UNCHANGED <<schedVars, agentVars>>)
  /\ \A r \in Runners :
       /\ WF_vars(ReqStep(r) /\ UNCHANGED <<schedVars, agentVars>>)
       /\ WF_vars(AgentStep(r) /\ UNCHANGED schedVars)
       /\ WF_vars(HeartbeatSent(r) /\ UNCHANGED schedVars)
       /\ WF_vars(HeartbeatAnswered(r) /\ UNCHANGED schedVars)
       /\ WF_vars(agent[r].abandoned /\ BuildStep(r) /\ UNCHANGED schedVars)
       /\ WF_vars(agent[r].pc = "dead" /\ FallsSilent(r) /\ UNCHANGED schedVars)

\* The job timeout: every build ends.
BuildsEnd == \A r \in Runners : WF_vars(BuildStep(r) /\ UNCHANGED schedVars)

Spec == Init /\ [][Next]_vars /\ Fairness

-----------------------------------------------------------------------------
(* Safety *)

Dead(r) == agent[r].pc = "dead"

\* r is dead and the reaper will find, or is about to handle, its job j.
ToBeReaped(r, j) == /\ Dead(r)
                    /\ \/ runnerStatus[r] = "BUSY" /\ currentJob[r] = j
                       \/ <<r, j>> \in reap.orphans
                       \/ call["reaper"].pc = "update" /\ call["reaper"].job = j

\* service.go, assign and reapLoop; webhook.go: a QUEUED job is never forgotten.
\* Its id waits in pending, or in inflight while the scheduler works on it or will
\* recover it, or is in the hands of a goroutine that is about to push it.
QueuedJobIsQueued ==
  \A j \in Jobs : status[j] = "QUEUED" =>
    \/ j \in ToSet(pending)
    \/ /\ j \in ToSet(inflight)
       /\ sched.pc = "recover" \/ sched.job = j \/ j \in ToSet(sched.ids)
    \/ hook[j] # "none"
    \/ sched.job = j /\ sched.pc \in {"requeue", "push"}
    \/ reap.job = j /\ reap.pc \in {"requeueing", "enqueue"}

\* service.go, assign; runners.go, handlePollJob: an ASSIGNED job is on its way
\* to the runner its row names, or is back with the scheduler, or the runner died.
AssignedJobIsDelivered ==
  \A j \in Jobs : status[j] = "ASSIGNED" =>
    LET r == runner_id[j] IN
    \/ sched.job = j /\ sched.pc \in {"dispatch", "undo", "undoing"}
    \/ j \in ToSet(mailbox[r])
    \/ agent[r].pc = "start" /\ agent[r].job = j
    \/ ToBeReaped(r, j)

\* agent.go, execute and reportResult: a RUNNING job is being built or reported
\* by the runner its row names, or that runner died and the reaper will see it.
RunningJobIsExecuted ==
  \A j \in Jobs : status[j] = "RUNNING" =>
    LET r == runner_id[j] IN
    \/ agent[r].pc \in {"start", "checkout", "exec", "report"} /\ agent[r].job = j
    \/ ToBeReaped(r, j)
    \/ Dead(r) /\ req[r].pc \in {"owns", "begin", "store"} /\ req[r].job = j

\* store.go, releaseRunner: a runner is BUSY only with an unfinished job that
\* names it, or while the operation that finished the job is about to release it, or
\* when it is dead and the reaper will take it out; otherwise the scheduler would never
\* use that runner again.  The one exception is a cancel that read the job before its
\* runner was given up: it overwrites the lease of the next (NoSilentOverwrite) and
\* releases the former.
BusyRunnerIsReleased ==
  \A r \in Runners : runnerStatus[r] = "BUSY" =>
    \/ runner_id[currentJob[r]] = r /\ Active(status[currentJob[r]])
    \/ \E c \in Clients : call[c].pc = "release" /\ call[c].owner = r
    \/ Dead(r)
    \/ status[currentJob[r]] = "CANCELLED" /\ \E q \in Runners : runnerStatus[q] = "OFFLINE"

\* store.go, AssignJob ("so the two can never disagree about who owns the job"):
\* the runner that a job under way names is recorded as holding that job, so it is
\* given no second one, or it died and the reaper is about to take the job back.
RowsAgree ==
  \A j \in Jobs : status[j] \in {"ASSIGNED", "RUNNING"} =>
    currentJob[runner_id[j]] = j \/ ToBeReaped(runner_id[j], j)

\* runners.go, leaseLost; docs/architecture.md: two runners never build one job
\* at the same time.
NoDoubleExecution ==
  \A j \in Jobs : \A r, s \in Runners : Executing(r, j) /\ Executing(s, j) => r = s

\* jobs.go, handleJobResult; agent.go, execute: whatever is lost, repeated or
\* late, a job is recorded as SUCCESS only if a build of that very job passed.
SuccessWasEarned ==
  \A j \in Jobs : status[j] = "SUCCESS" => \E r \in Runners : <<r, j, "SUCCESS">> \in verdicts

\* jobs.go, handleJobStart: runnerOwnsJob reads the job before StartJob does, and nothing
\* ties the two together, yet a runner that was told to start builds a job that is its
\* own, for as long as the job is under way.
OwnerBuilds ==
  \A r \in Runners, j \in Jobs : Executing(r, j) /\ Active(status[j]) => runner_id[j] = r

\* jobs.go, handleJobResult: a result on record is what the runner that the row names
\* got from its build of that job, and not what a former holder sent late.
ResultIsTheHolders ==
  \A j \in Jobs : status[j] \in {"SUCCESS", "FAILED"} => <<runner_id[j], j, status[j]>> \in verdicts

\* service.go, assign: until it acknowledges or requeues the id it works on, that
\* id stays in the inflight list, so that a crash can be recovered from.
WorkIsInflight ==
  sched.pc \in {"load", "list", "assign", "assigning", "dispatch", "undo", "undoing", "ack"}
    => sched.job \in ToSet(inflight)

-----------------------------------------------------------------------------
(* What the steps and whole behaviours do *)

\* store.go, transition; docs/architecture.md: an UPDATE takes effect only on the
\* job that was read.  A job that was taken back and handed to another runner in
\* between is another lease: it has another runner to stop and to release.
NoSilentOverwrite ==
  [][\A c \in Clients :
       call[c].pc = "update" /\ call'[c] # call[c] /\ status' # status
         => runner_id[call[c].job] = call[c].owner]_vars

\* The job is unfinished and its row names r.
Holds(r, j) == Active(status[j]) /\ runner_id[j] = r

\* agent.go, abandon: no result is reported for an abandoned job because the job
\* already has a final status or belongs to another runner.
AbandonedJobHasMovedOn ==
  [][\A r \in Runners :
       agent[r].abandoned /\ agent[r].pc \in {"checkout", "exec"} /\ agent'[r].pc = "poll"
         => ~Holds(r, agent[r].job)]_vars

\* runners.go, handleHeartbeat; agent.go, heartbeatLoop: a build that was
\* cancelled, finished or given to another runner is eventually stopped, however
\* long it would have gone on, unless the job comes back to the same runner.
LostLeaseStopsWork ==
  \A r \in Runners, j \in Jobs :
    Executing(r, j) /\ ~Holds(r, j) ~> (~Executing(r, j) \/ Holds(r, j))

\* service.go, reapLoop: every job that was accepted is eventually finished, even
\* when the runner that holds it dies.
EveryJobFinishes ==
  BuildsEnd => \A j \in Jobs : Exists(j) ~> (Exists(j) /\ Terminal(status[j]))

\* A user who wants a job gone asks again until it is.
UserInsists == \A j \in Jobs : WF_vars(CancelBegins(j) /\ UNCHANGED <<schedVars, agentVars>>)

\* jobs.go, handleCancelJob: whatever single failure left a job behind (QUEUED with its
\* id lost, ASSIGNED to a runner that was never told, RUNNING with its result lost),
\* cancelling it ends it, and with it the claim on its repository and commit.
CancelRescues == UserInsists => \A j \in Jobs : Exists(j) ~> (Exists(j) /\ Terminal(status[j]))

\* webhook.go, handleWebhook: "a retry must not start a second build" of one commit
\* and event.
NoSecondBuild == \A v, w \in verdicts : KeyOf[v[2]] = KeyOf[w[2]] => v[2] = w[2]
=============================================================================

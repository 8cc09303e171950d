------------------------------ MODULE ApiServer ------------------------------
(* The handlers of internal/api that change state.  Each runs on a goroutine   *)
(* of its own, so every store and queue call in it is a step: the webhook      *)
(* handler of job j is client j of the store, the handler that serves runner   *)
(* r's start or result is client r, and one user cancels jobs.  All of them    *)
(* pass r.Context() on, which net/http cancels when the other end hangs up: no *)
(* later statement of that handler succeeds, not even one that tidies up.      *)
EXTENDS Store, RedisQueue, Faults

VARIABLES hook,   \* job -> where the webhook handler that made it is
          req     \* runner -> its start or result request: [pc, job, to]

apiVars == <<hook, req>>

\* "ok" and "refused" are the answers on their way back to the runner.
ReqPcs == {"none", "owns", "begin", "store", "ok", "refused"}
NoReq == [pc |-> "none", job |-> NULL, to |-> "NONE"]

ApiTypeOK ==
  /\ hook \in [Jobs -> {"none", "enqueue", "fail", "failing"}]
  /\ req \in [Runners -> [pc : ReqPcs, job : Jobs \cup {NULL},
                          to : {"NONE", "RUNNING", "SUCCESS", "FAILED"}]]

ApiInit == /\ hook = [j \in Jobs |-> "none"]
           /\ req = [r \in Runners |-> NoReq]

-----------------------------------------------------------------------------
(* handleWebhook: create the row, then put the id into the queue.              *)

HookGo(j, pc) == hook' = [hook EXCEPT ![j] = pc] /\ UNCHANGED req

\* A verified event with a commit to build; a duplicate changes nothing.
WebhookCreates(j) ==
  /\ CreateJob(j) /\ HookGo(j, "enqueue") /\ NoFault
  /\ UNCHANGED queueVars

WebhookEnqueues(j) ==
  /\ hook[j] = "enqueue"
  /\ Enqueue(j) /\ HookGo(j, "none") /\ NoFault
  /\ UNCHANGED storeVars

\* Enqueue returned an error, whether or not the LPUSH took effect.
WebhookEnqueueFails(j) ==
  /\ Fault("redis")
  /\ hook[j] = "enqueue" /\ HookGo(j, "fail")
  /\ Enqueue(j) \/ UNCHANGED queueVars
  /\ UNCHANGED storeVars

\* CompleteJob(FAILED), its error discarded.
WebhookFailsJob(j) ==
  /\ hook[j] = "fail" /\ NoFault
  /\ \/ Transition(j, j, "FAILED") /\ HookGo(j, "failing")
     \/ ~MayMove(j, "FAILED") /\ HookGo(j, "none") /\ UNCHANGED storeVars
  /\ UNCHANGED queueVars

WebhookFailing(j) ==
  /\ hook[j] = "failing" /\ NoFault
  /\ \/ TransitionUpdate(j) /\ UNCHANGED apiVars
     \/ (TransitionConflict(j) \/ ReleaseRunner(j)) /\ HookGo(j, "none")
  /\ UNCHANGED queueVars

\* The API process dies, GitHub hangs up (after which both Enqueue and CompleteJob
\* fail), or the statement under way fails: nothing more happens.
WebhookDies(j) ==
  /\ hook[j] # "none"
  /\ \E kind \in {"client", IF hook[j] = "enqueue" THEN "api" ELSE "db"} : Fault(kind)
  /\ CallsFail({j}) /\ HookGo(j, "none")
  /\ UNCHANGED queueVars

HookStep(j) == WebhookEnqueues(j) \/ WebhookFailsJob(j) \/ WebhookFailing(j)
HookFault(j) == WebhookEnqueueFails(j) \/ WebhookDies(j)

-----------------------------------------------------------------------------
(* handleCancelJob; 404 and 409 change nothing.                                *)

CancelBegins(j) == /\ Transition("cancel", j, "CANCELLED") /\ NoFault
                   /\ UNCHANGED <<apiVars, queueVars>>

CancelStep == /\ TransitionUpdate("cancel") \/ TransitionConflict("cancel")
                   \/ ReleaseRunner("cancel")
              /\ NoFault /\ UNCHANGED <<apiVars, queueVars>>

\* A statement fails, or the user hangs up; the runner may be left unreleased.
CancelFails == /\ call["cancel"].pc # "none" /\ \E kind \in {"db", "client"} : Fault(kind)
               /\ CallsFail({"cancel"}) /\ UNCHANGED <<apiVars, queueVars>>

-----------------------------------------------------------------------------
(* handleJobStart (to RUNNING) and handleJobResult (to SUCCESS or FAILED).     *)

ReqGo(r, pc) == req' = [req EXCEPT ![r].pc = pc] /\ UNCHANGED hook

\* runnerOwnsJob: 403 unless the row names this runner, now.
OwnsCheck(r) ==
  /\ req[r].pc = "owns" /\ NoFault
  /\ ReqGo(r, IF runner_id[req[r].job] = r THEN "begin" ELSE "refused")
  /\ UNCHANGED <<storeVars, queueVars>>

\* StartJob or CompleteJob, first half; 409 when the move is illegal by now.
ReportBegins(r) ==
  /\ req[r].pc = "begin" /\ NoFault
  /\ \/ Transition(r, req[r].job, req[r].to) /\ ReqGo(r, "store")
     \/ ~MayMove(req[r].job, req[r].to) /\ ReqGo(r, "refused") /\ UNCHANGED storeVars
  /\ UNCHANGED queueVars

\* Second half: 200 after the last statement, 409 on a conflict.
ReportStored(r) ==
  /\ req[r].pc = "store" /\ NoFault
  /\ \/ /\ TransitionUpdate(r)
        /\ ReqGo(r, IF ThenReleases(call[r]) THEN "store" ELSE "ok")
     \/ ReleaseRunner(r) /\ ReqGo(r, "ok")
     \/ TransitionConflict(r) /\ ReqGo(r, "refused")
  /\ UNCHANGED queueVars

\* A statement of the handler fails: 403 or 500.
ReportFails(r) ==
  /\ Fault("db")
  /\ req[r].pc \in {"owns", "begin", "store"}
  /\ CallsFail({r}) /\ ReqGo(r, "refused")
  /\ UNCHANGED queueVars

ReqStep(r) == OwnsCheck(r) \/ ReportBegins(r) \/ ReportStored(r)

-----------------------------------------------------------------------------
(* handleHeartbeat reads the job for its answer after the store's Heartbeat.   *)

\* leaseLost: runner r must stop working on job j.
leaseLost_OnlyTerminal(r, j) == Terminal(status[j])
leaseLost(r, j) == Terminal(status[j]) \/ runner_id[j] # r
=============================================================================

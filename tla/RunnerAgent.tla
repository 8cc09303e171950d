----------------------------- MODULE RunnerAgent -----------------------------
(* The runner agent (internal/runner/agent.go): one goroutine polls for a job  *)
(* and executes it, another sends heartbeats and learns from the answers that  *)
(* a job was taken away.  A restarted agent registers under a new runner id.   *)
EXTENDS ApiServer

VARIABLES agent,     \* runner -> Run and execute: [pc, job, abandoned]
          hb,        \* runner -> the job named in a heartbeat that awaits its answer
          verdicts   \* history: <<runner, job, outcome>> of every build that ended

agentVars == <<agent, hb, verdicts>>

AgentPcs == {"new", "poll", "start", "checkout", "exec", "report", "dead"}

AgentTypeOK ==
  /\ agent \in [Runners -> [pc : AgentPcs, job : Jobs \cup {NULL}, abandoned : BOOLEAN]]
  /\ hb \in [Runners -> Jobs \cup {NULL}]
  /\ verdicts \subseteq Runners \X Jobs \X {"SUCCESS", "FAILED"}

AgentInit ==
  /\ agent = [r \in Runners |-> [pc |-> "new", job |-> NULL, abandoned |-> FALSE]]
  /\ hb = [r \in Runners |-> NULL]
  /\ verdicts = {}

Alive(r) == agent[r].pc \notin {"new", "dead"}

\* a.active: what currentJob returns to the heartbeat loop.  It is also set while
\* a failed checkout is reported, where an answer has no effect any more.
HasActive(r) == agent[r].pc \in {"start", "checkout", "exec"}

\* The build runs on r's machine.
Executing(r, j) == agent[r].pc \in {"checkout", "exec"} /\ agent[r].job = j

-----------------------------------------------------------------------------
(* Run, register and poll                                                      *)

Register(r) ==
  /\ agent[r].pc = "new" /\ NoFault
  /\ RegisterRunner(r)
  /\ agent' = [agent EXCEPT ![r].pc = "poll"]
  /\ UNCHANGED <<hb, verdicts, apiVars, queueVars>>

Post(r, j, to) == req' = [req EXCEPT ![r] = [pc |-> "owns", job |-> j, to |-> to]]
                  /\ UNCHANGED hook

\* handlePollJob pops the mailbox and answers with the job, whatever its status
\* is by now; execute makes it active and posts start.
Poll(r) ==
  /\ agent[r].pc = "poll" /\ NoFault
  /\ Receive(r)
  /\ agent' = [agent EXCEPT ![r] = [pc |-> "start", job |-> Received(r), abandoned |-> FALSE]]
  /\ Post(r, Received(r), "RUNNING")
  /\ UNCHANGED <<hb, verdicts, storeVars>>

\* The id has left the mailbox and the answer never arrives.
PollAnswerLost(r) ==
  /\ agent[r].pc = "poll" /\ Fault("reply")
  /\ Receive(r)
  /\ UNCHANGED <<agentVars, apiVars, storeVars>>

-----------------------------------------------------------------------------
(* execute *)

\* execute returns, the job is no longer active, and the agent polls again.
BackToPoll(r) ==
  /\ agent' = [agent EXCEPT ![r] = [pc |-> "poll", job |-> NULL, abandoned |-> FALSE]]
  /\ hb' = [hb EXCEPT ![r] = NULL]

\* Variant: the outcome of the build is not looked at.
ReportResult_AlwaysPassed(r, outcome) ==
  /\ agent' = [agent EXCEPT ![r].pc = "report"]
  /\ hb' = [hb EXCEPT ![r] = NULL]
  /\ verdicts' = verdicts \cup {<<r, agent[r].job, outcome>>}
  /\ Post(r, agent[r].job, "SUCCESS")

\* reportResult, once: an error is logged and the result is not sent again.
ReportResult(r, outcome) ==
  /\ agent' = [agent EXCEPT ![r].pc = "report"]
  /\ hb' = [hb EXCEPT ![r] = NULL]
  /\ verdicts' = verdicts \cup {<<r, agent[r].job, outcome>>}
  /\ Post(r, agent[r].job, outcome)

\* The answer to start: any error ends execute without a word to anybody.
StartAnswered(r) ==
  /\ agent[r].pc = "start" /\ NoFault
  /\ \/ /\ req[r].pc = "ok"
        /\ agent' = [agent EXCEPT ![r].pc = "checkout"] /\ UNCHANGED hb
     \/ req[r].pc = "refused" /\ BackToPoll(r)
  /\ req' = [req EXCEPT ![r] = NoReq]
  /\ UNCHANGED <<verdicts, hook, storeVars, queueVars>>

StartAnswerLost(r) ==
  /\ agent[r].pc = "start" /\ req[r].pc = "ok" /\ Fault("reply")
  /\ BackToPoll(r)
  /\ req' = [req EXCEPT ![r] = NoReq]
  /\ UNCHANGED <<verdicts, hook, storeVars, queueVars>>

\* prepareWorkspace under the job's context: it cannot succeed once the job was
\* abandoned, and its failure is reported only if the job was not.
CheckoutEnds(r) ==
  /\ agent[r].pc = "checkout" /\ NoFault
  /\ \/ /\ ~agent[r].abandoned
        /\ agent' = [agent EXCEPT ![r].pc = "exec"] /\ UNCHANGED <<hb, verdicts, apiVars>>
     \/ ~agent[r].abandoned /\ ReportResult(r, "FAILED")
     \/ agent[r].abandoned /\ BackToPoll(r) /\ UNCHANGED <<verdicts, apiVars>>
  /\ UNCHANGED <<storeVars, queueVars>>

\* forgerun.yml cannot be read: reported even when the job was just abandoned.
SpecUnreadable(r) ==
  /\ agent[r].pc = "exec" /\ NoFault
  /\ ReportResult(r, "FAILED")
  /\ UNCHANGED <<storeVars, queueVars>>

\* Execute returns: exit code 0 is SUCCESS; any other exit code, the job timeout
\* and an error are FAILED; nothing is reported for an abandoned job.
ExecutionEnds(r) ==
  /\ agent[r].pc = "exec" /\ NoFault
  /\ \/ /\ ~agent[r].abandoned
        /\ \E outcome \in {"SUCCESS", "FAILED"} : ReportResult(r, outcome)
     \/ agent[r].abandoned /\ BackToPoll(r) /\ UNCHANGED <<verdicts, apiVars>>
  /\ UNCHANGED <<storeVars, queueVars>>

\* Whatever the answer to the result was, the agent goes on.
ResultAnswered(r) ==
  /\ agent[r].pc = "report" /\ req[r].pc \in {"ok", "refused"} /\ NoFault
  /\ BackToPoll(r)
  /\ req' = [req EXCEPT ![r] = NoReq]
  /\ UNCHANGED <<verdicts, hook, storeVars, queueVars>>

-----------------------------------------------------------------------------
(* heartbeatLoop *)

\* The heartbeat reaches the store; its body names the active job.
HeartbeatSent(r) ==
  /\ Alive(r) /\ hb[r] = NULL /\ NoFault
  /\ Heartbeat(r)
  /\ hb' = [hb EXCEPT ![r] = IF HasActive(r) THEN agent[r].job ELSE NULL]
  /\ UNCHANGED <<agent, verdicts, apiVars, queueVars>>

\* The handler looks at the lease and the agent acts on its answer.
HeartbeatAnswered(r) ==
  /\ hb[r] # NULL /\ NoFault
  /\ agent' = [agent EXCEPT ![r].abandoned = @ \/ leaseLost(r, hb[r])]
  /\ hb' = [hb EXCEPT ![r] = NULL]
  /\ UNCHANGED <<verdicts, apiVars, storeVars, queueVars>>

\* leaseLost could not read the job and answers as if the lease were lost.
LeaseUnreadable(r) ==
  /\ hb[r] # NULL /\ Fault("db")
  /\ agent' = [agent EXCEPT ![r].abandoned = TRUE]
  /\ hb' = [hb EXCEPT ![r] = NULL]
  /\ UNCHANGED <<verdicts, apiVars, storeVars, queueVars>>

-----------------------------------------------------------------------------
(* Faults of a runner.  The request of an agent that dies may be served to its *)
(* end, for all that the API can see, or be cut off.                           *)

\* A start or a result never reaches the API, or the connection breaks while it is
\* served and the context of its handler ends: what was written stays, the rest is
\* left out, the release of the runner too.  To a live agent it is an error.
RequestCut(r) ==
  /\ req[r].pc \in {"owns", "begin", "store"}
  /\ (agent[r].pc = "dead" /\ NoFault) \/ Fault("reply")
  /\ CallsFail({r}) /\ ReqGo(r, "refused")
  /\ UNCHANGED queueVars

AgentDies(r) ==
  /\ Alive(r) /\ Fault("agent")
  /\ agent' = [agent EXCEPT ![r] = [pc |-> "dead", job |-> NULL, abandoned |-> FALSE]]
  /\ hb' = [hb EXCEPT ![r] = NULL]
  /\ UNCHANGED <<verdicts, apiVars, storeVars, queueVars>>

\* No request or store operation that concerns r is under way.
Quiet(r) ==
  /\ req[r].pc \notin {"owns", "begin", "store"}
  /\ \A c \in Clients : call[c].pc # "none" => call[c].owner # r

\* The heartbeat timeout passes in silence.  Unless SlowRequests, requests are
\* over long before that.
FallsSilent(r) ==
  /\ SlowRequests \/ Quiet(r)
  /\ \/ agent[r].pc = "dead" /\ NoFault
     \/ Alive(r) /\ Fault("network")
  /\ Silence(r)
  /\ UNCHANGED <<agentVars, apiVars, queueVars>>

\* The mailbox of a runner that never comes back is dropped after an hour.
MailboxDropped(r) ==
  /\ agent[r].pc = "dead" /\ NoFault
  /\ MailboxExpires(r)
  /\ UNCHANGED <<agentVars, apiVars, storeVars>>

\* A build ends by itself: only the job timeout bounds how long that takes.
BuildStep(r) == CheckoutEnds(r) \/ SpecUnreadable(r) \/ ExecutionEnds(r)
AgentStep(r) == Register(r) \/ Poll(r) \/ StartAnswered(r) \/ ResultAnswered(r)
HeartbeatStep(r) == HeartbeatSent(r) \/ HeartbeatAnswered(r)
AgentFault(r) == PollAnswerLost(r) \/ StartAnswerLost(r) \/ LeaseUnreadable(r) \/ AgentDies(r)
=============================================================================

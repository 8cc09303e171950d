---------------------------- MODULE CommitStatus ----------------------------
(* The commit status that GitHub shows for one commit while its jobs live: the *)
(* API's handlers start a goroutine (Server.report) per change, each with 15   *)
(* seconds and a few attempts, and nothing orders these goroutines.  The jobs  *)
(* move as JobLifecycle allows, which is what Store implements.                *)
EXTENDS JobLifecycle, FiniteSetsExt, Naturals

CONSTANTS MaxTakeBacks,   \* bound: how often a job is taken back from its runner
          Attempts,       \* of send
          FaultKinds,     \* of "5xx" (a quick failure, 429 too), "hang" (the HTTP client's ten
                          \* seconds pass), "refused" (a 4xx), "db" (the handler cannot read
                          \* the job back, also because its runner hung up), "api" (it dies)
          MaxFaults       \* bound: faults in one behaviour

Kinds == {"5xx", "hang", "refused", "db", "api"}

ASSUME StatusAssumption ==
  /\ MaxTakeBacks \in Nat /\ Attempts \in Nat \ {0} /\ MaxFaults \in Nat
  /\ FaultKinds \subseteq Kinds

VARIABLES started,   \* how often each job was started
          reports,   \* reports that a handler will make or a goroutine makes
          shown,     \* what GitHub shows: the last status it accepted
          posted,    \* history: all it accepted
          faults     \* how many of each kind so far

jobVars == <<status, owner, started>>
statusVars == <<jobVars, reports, shown, posted, faults>>

AllFaults == MapThenSumSet(LAMBDA kind : faults[kind], Kinds)
Fault(kind) == /\ kind \in FaultKinds /\ AllFaults < MaxFaults
               /\ faults' = [faults EXCEPT ![kind] = @ + 1]
NoFault == UNCHANGED faults

Budget == 3          \* the 15 seconds of report's context, in units of five
HangCost == 2        \* http.Client{Timeout: 10 * time.Second}

\* A report for job j that is about to be started by its handler.
Report(j, what, state) ==
  [job |-> j, what |-> what, state |-> state, pc |-> "spawn", tries |-> 0, left |-> Budget]

StatusTypeOK ==
  /\ started \in [Jobs -> 0..(MaxTakeBacks + 1)]
  /\ \A p \in reports : /\ p.job \in Jobs /\ p.state \in {"pending", "success", "failure"}
                        /\ p.pc \in {"spawn", "token", "post"}
                        /\ p.tries < Attempts /\ p.left \in 1..Budget
  /\ shown \in posted \cup {[job |-> NULL, state |-> "none"]}
  /\ faults \in [Kinds -> 0..MaxFaults] /\ AllFaults <= MaxFaults

StatusInit == /\ Init /\ started = [j \in Jobs |-> 0]
              /\ reports = {} /\ shown = [job |-> NULL, state |-> "none"] /\ posted = {}
              /\ faults = [kind \in Kinds |-> 0]

-----------------------------------------------------------------------------
(* The handlers: what happens to a job, and the report it leads to             *)

\* handleWebhook.
Queued(j) == /\ Submit(j) /\ UNCHANGED started
             /\ reports' = reports \cup {Report(j, 0, "pending")}

\* handleJobStart.
Started(j) == /\ Start(j) /\ started' = [started EXCEPT ![j] = @ + 1]
              /\ reports' = reports \cup {Report(j, started'[j], "pending")}

\* Mutant: a result that comes too late for its job is reported all the same.
Result_Unchecked(j) ==
  \/ /\ Succeed(j) \/ (status[j] = "CANCELLED" /\ owner[j] # NULL /\ UNCHANGED <<status, owner>>)
     /\ reports' = reports \cup {Report(j, 9, "success")}
     /\ UNCHANGED started
  \/ /\ Fail(j) /\ UNCHANGED started
     /\ reports' = reports \cup {Report(j, 9, "failure")}

\* handleJobResult: only a result that CompleteJob accepted is reported.
Result(j) ==
  /\ \/ Succeed(j) /\ reports' = reports \cup {Report(j, 9, "success")}
     \/ Fail(j) /\ reports' = reports \cup {Report(j, 9, "failure")}
  /\ UNCHANGED started

\* The scheduler, the reaper and handleCancelJob report nothing.
Unreported(j) == /\ \/ \E r \in Runners : Hand(j, r)
                    \/ TakeBack(j) /\ started[j] <= MaxTakeBacks
                    \/ Cancel(j)
                 /\ UNCHANGED <<started, reports>>

Life(j) == (Queued(j) \/ Started(j) \/ Result(j) \/ Unreported(j))
             /\ UNCHANGED <<shown, posted>> /\ NoFault

-----------------------------------------------------------------------------
(* Server.report, SetStatus and send *)

Becomes(p, q) == reports' = (reports \ {p}) \cup {q}
Drops(p) == reports' = reports \ {p}

\* The handler starts the goroutine; after start and result it reads the job again first.
Spawn(p) == p.pc = "spawn" /\ Becomes(p, [p EXCEPT !.pc = "token"])
              /\ UNCHANGED <<jobVars, shown, posted>> /\ NoFault

\* The handler gets no further: GetJob fails, or the runner has hung up and r.Context()
\* has ended, after the UPDATE or after the release.  No report.
SpawnFails(p) == p.pc = "spawn" /\ p.what # 0 /\ Fault("db") /\ Drops(p)
                   /\ UNCHANGED <<jobVars, shown, posted>>

\* SetStatus has its token, cached or new.
GetToken(p) == p.pc = "token" /\ Becomes(p, [p EXCEPT !.pc = "post", !.tries = 0])
                 /\ UNCHANGED <<jobVars, shown, posted>> /\ NoFault

Accepted(p) == /\ shown' = [job |-> p.job, state |-> p.state]
               /\ posted' = posted \cup {[job |-> p.job, state |-> p.state]}

\* postStatus succeeds.
Post(p) == p.pc = "post" /\ Accepted(p) /\ Drops(p) /\ UNCHANGED jobVars /\ NoFault

\* Mutant: a single attempt.
Retry_Never(p, cost) == Drops(p)

\* send: another attempt, if one is left and the context has time for it.
Retry(p, cost) ==
  IF p.tries + 1 < Attempts /\ p.left > cost
    THEN Becomes(p, [p EXCEPT !.tries = @ + 1, !.left = @ - cost])
    ELSE Drops(p)

RequestFails(p) == /\ p.pc \in {"token", "post"}
                   /\ \/ Fault("5xx") /\ Retry(p, 0)
                      \/ Fault("hang") /\ Retry(p, HangCost)
                      \/ Fault("refused") /\ Drops(p)
                   /\ UNCHANGED <<jobVars, shown, posted>>

\* GitHub took the status, the answer did not come in time.
AnswerLost(p) == p.pc = "post" /\ Fault("hang") /\ Accepted(p) /\ Retry(p, HangCost)
                   /\ UNCHANGED jobVars

\* The API dies, and its goroutines with it.
ApiDies == Fault("api") /\ reports' = {} /\ UNCHANGED <<jobVars, shown, posted>>

ReportStep(p) == Spawn(p) \/ GetToken(p) \/ Post(p)

StatusNext == \/ \E j \in Jobs : Life(j)
              \/ \E p \in reports : ReportStep(p) \/ SpawnFails(p) \/ RequestFails(p) \/ AnswerLost(p)
              \/ ApiDies

\* Goroutines go on; nobody has to push, build or cancel.
StatusSpec == /\ StatusInit /\ [][StatusNext]_statusVars
              /\ WF_statusVars(\E p \in reports : ReportStep(p))

-----------------------------------------------------------------------------
(* Properties *)

Outcome(j) == CASE status[j] = "SUCCESS" -> "success" [] status[j] = "FAILED" -> "failure"
                [] OTHER -> "none"

\* jobs.go, handleJobResult: GitHub never shows success or failure for a job that
\* did not end that way, whatever is late, repeated or lost.
NoFalseOutcome == shown.state \in {"success", "failure"} => shown.state = Outcome(shown.job)

\* The API lives, its database answers, GitHub refuses nothing, at most one request
\* hangs, and fewer requests fail than send makes.
Survivable == /\ \A kind \in {"refused", "db", "api"} : faults[kind] = 0
              /\ faults["hang"] <= 1 /\ AllFaults < Attempts

\* client.go, send: failures that pass quickly, also together with a request that
\* hangs, do not keep the outcome of a job from reaching GitHub.
OutcomeIsPosted ==
  \A j \in Jobs : Outcome(j) # "none" ~> ([job |-> j, state |-> Outcome(j)] \in posted \/ ~Survivable)

\* docs/reference.md: the result is reported "back to GitHub": when the job is over
\* and no report is under way, GitHub shows how it ended.
OutcomeIsShown ==
  \A j \in Jobs : Outcome(j) # "none" /\ reports = {} => shown = [job |-> j, state |-> Outcome(j)]
=============================================================================

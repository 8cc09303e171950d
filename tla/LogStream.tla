------------------------------ MODULE LogStream ------------------------------
(* The output of one job on its way to the jobs table: logStreamer in the      *)
(* runner, the log requests, handleJobLogs and AppendLogs.  The job may be     *)
(* taken back and built again: each attempt has a streamer of its own.         *)
EXTENDS Naturals, SequencesExt

CONSTANTS Runners, NULL,
          MaxAttempts,   \* bound: how often the job is assigned
          MaxLines,      \* bound: lines that one attempt writes
          ChunkCap,      \* lines that fit into the 1 MiB of one request
          FaultKinds,    \* of "lost" (a request), "late" (an answer, beyond the
                         \* client's timeout), "death" and "silence" (of a runner)
          MaxFaults      \* bound: faults in one behaviour

ASSUME LogAssumption == /\ NULL \notin Runners
                        /\ MaxAttempts \in Nat /\ MaxLines \in Nat
                        /\ ChunkCap \in Nat /\ MaxFaults \in Nat
                        /\ FaultKinds \subseteq {"lost", "late", "death", "silence"}

VARIABLES owner,      \* jobs.runner_id
          finished,   \* the job has a final status
          stream,     \* the streamer of each attempt, and where its execute is
          posts,      \* log requests that may still reach the table
          logs,       \* jobs.logs, as the lines in it
          log_seq,    \* jobs.log_seq
          accepted,   \* history: the lines the server answered 202 for
          faults

job == <<owner, finished>>
table == <<logs, log_seq, accepted>>
logVars == <<job, stream, posts, table, faults>>

Attempts == 1..MaxAttempts
Lines == Attempts \X (1..MaxLines)     \* <<a, n>>: line n that attempt a wrote

Fault(kind) == kind \in FaultKinds /\ faults < MaxFaults /\ faults' = faults + 1
NoFault == UNCHANGED faults

LogTypeOK ==
  /\ owner \in Runners \cup {NULL} /\ finished \in BOOLEAN
  /\ \A a \in Attempts :
       stream[a] \in [pc : {"none", "assigned", "running", "closing", "closed", "dead"},
                      host : Runners \cup {NULL}, written : 0..MaxLines, buf : Seq(Lines),
                      seq : 0..MaxLines, sendMu : {"free", "ticker", "close"}]
  /\ \A p \in posts : p \in [att : Attempts, seq : 1..MaxLines, chunk : Seq(Lines),
                             at : {"sent", "owned"}]
  /\ logs \in Seq(Lines) /\ log_seq \in 0..MaxLines
  /\ accepted \subseteq Lines /\ faults \in 0..MaxFaults

LogInit == /\ owner = NULL /\ finished = FALSE
           /\ stream = [a \in Attempts |-> [pc |-> "none", host |-> NULL, written |-> 0,
                                            buf |-> <<>>, seq |-> 0, sendMu |-> "free"]]
           /\ posts = {} /\ logs = <<>> /\ log_seq = 0 /\ accepted = {} /\ faults = 0

-----------------------------------------------------------------------------
(* The runner.  An agent executes one job at a time.                           *)

Over(a) == stream[a].pc \in {"closed", "dead"}

\* AssignJob gives the job to a runner that has not died.
Assign(a, r) ==
  /\ ~finished /\ owner = NULL /\ stream[a].pc = "none"
  /\ \A b \in Attempts : b < a => stream[b].pc # "none"
  /\ \A b \in Attempts : stream[b].host = r => stream[b].pc # "dead"
  /\ owner' = r
  /\ stream' = [stream EXCEPT ![a].pc = "assigned", ![a].host = r]
  /\ UNCHANGED <<finished, posts, table>> /\ NoFault

\* Agent.execute up to newLogStreamer, once the runner is done with what it did
\* before: the new streamer counts from 0, whatever log_seq the row already has.
Begin(a) ==
  /\ stream[a].pc = "assigned" /\ ~finished /\ owner = stream[a].host
  /\ \A b \in Attempts : b # a /\ stream[b].host = owner => stream[b].pc \in {"closed", "assigned"}
  /\ stream' = [stream EXCEPT ![a].pc = "running"]
  /\ UNCHANGED <<job, posts, table>> /\ NoFault

\* logStreamer.Write, by the executor or by execute itself.
Write(a) ==
  /\ stream[a].pc = "running" /\ stream[a].written < MaxLines
  /\ stream' = [stream EXCEPT ![a].written = @ + 1,
                              ![a].buf = Append(@, <<a, stream[a].written + 1>>)]
  /\ UNCHANGED <<job, posts, table>> /\ NoFault

\* logStreamer.flush: takes the whole buffer and sends it, under sendMu.
Flush(a, who) ==
  /\ stream[a].sendMu = "free" /\ stream[a].buf # <<>>
  /\ stream' = [stream EXCEPT ![a].buf = <<>>, ![a].seq = @ + 1, ![a].sendMu = who]
  /\ posts' = posts \cup {[att |-> a, seq |-> stream[a].seq + 1, chunk |-> stream[a].buf,
                           at |-> "sent"]}
  /\ UNCHANGED <<job, table>> /\ NoFault

\* The ticker goroutine; a tick taken before done was closed may flush after it.
Tick(a) == stream[a].pc \in {"running", "closing"} /\ Flush(a, "ticker")

\* Execute has returned, or the checkout failed: execute or abandon calls Close.
CloseBegins(a) ==
  /\ stream[a].pc = "running"
  /\ stream' = [stream EXCEPT ![a].pc = "closing"]
  /\ UNCHANGED <<job, posts, table>> /\ NoFault

\* Mutant: Close returns at once when the buffer is empty, sendMu or not.
CloseFlush_NoWait(a) ==
  /\ stream[a].pc = "closing"
  /\ \/ Flush(a, "close")
     \/ /\ stream[a].buf = <<>>
        /\ stream' = [stream EXCEPT ![a].pc = "closed"]
        /\ UNCHANGED <<job, posts, table>> /\ NoFault

\* Close waits for sendMu, and has nothing to do when the ticker took it all.
CloseFlush(a) ==
  /\ stream[a].pc = "closing"
  /\ \/ Flush(a, "close")
     \/ /\ stream[a].sendMu = "free" /\ stream[a].buf = <<>>
        /\ stream' = [stream EXCEPT ![a].pc = "closed"]
        /\ UNCHANGED <<job, posts, table>> /\ NoFault

\* flush returns: whatever send met, sendMu is free and nothing is sent again.
Returned(a) ==
  [stream EXCEPT ![a].sendMu = "free",
                 ![a].pc = IF stream[a].sendMu = "close" THEN "closed" ELSE @]

\* shipLogs still waits for the answer to p.
Awaits(p) == stream[p.att].sendMu # "free" /\ stream[p.att].seq = p.seq
               /\ stream[p.att].pc # "dead"

\* The answer to p reaches the runner, unless it gave up on it.
Answer(p) == /\ posts' = posts \ {p}
             /\ stream' = IF Awaits(p) THEN Returned(p.att) ELSE stream

\* Nothing of the request that a waits for is under way any more.
Lost(a) == \A p \in posts : ~(p.att = a /\ p.seq = stream[a].seq)

\* Mutant: the timeout is that of the job's context, which ended with the build.
GiveUp_OnlyWhileRunning(a) ==
  /\ stream[a].sendMu # "free" /\ stream[a].pc = "running" /\ Lost(a)
  /\ stream' = Returned(a)
  /\ UNCHANGED <<job, posts, table>> /\ NoFault

\* The HTTP client's timeout: of a request that is lost already, or of a slow one
\* that is still on its way.
GiveUp(a) ==
  /\ stream[a].sendMu # "free" /\ stream[a].pc # "dead" /\ Lost(a)
  /\ stream' = Returned(a)
  /\ UNCHANGED <<job, posts, table>> /\ NoFault
GiveUpEarly(a) ==
  /\ stream[a].sendMu # "free" /\ stream[a].pc # "dead" /\ ~Lost(a) /\ Fault("late")
  /\ stream' = Returned(a)
  /\ UNCHANGED <<job, posts, table>>

-----------------------------------------------------------------------------
(* The control plane *)

\* handleJobLogs: not the runner of this job, or a chunk beyond the cap.
Refuse(p) ==
  /\ p.at = "sent"
  /\ owner # stream[p.att].host \/ Len(p.chunk) > ChunkCap
  /\ Answer(p)
  /\ UNCHANGED <<job, table>> /\ NoFault

\* runnerOwnsJob says yes; the UPDATE comes later.
Admit(p) ==
  /\ p.at = "sent" /\ owner = stream[p.att].host /\ Len(p.chunk) <= ChunkCap
  /\ posts' = (posts \ {p}) \cup {[p EXCEPT !.at = "owned"]}
  /\ UNCHANGED <<job, stream, table>> /\ NoFault

\* Mutant: every chunk is appended.
IsNew_Always(p) == TRUE

\* The guard of the UPDATE in AppendLogs.
IsNew(p) == p.seq > log_seq

\* AppendLogs, and the 202 of handleJobLogs whether or not a row was written.
AppendLogs(p) ==
  /\ p.at = "owned" /\ Answer(p)
  /\ IF IsNew(p) THEN logs' = logs \o p.chunk /\ log_seq' = p.seq
                 ELSE UNCHANGED <<logs, log_seq>>
  /\ accepted' = accepted \cup ToSet(p.chunk)
  /\ UNCHANGED job /\ NoFault

\* RequeueJob clears runner_id and keeps logs and log_seq; the runner is dead, or
\* only silent.
Requeue ==
  /\ ~finished /\ owner # NULL
  /\ \/ NoFault /\ \E a \in Attempts : stream[a].host = owner /\ stream[a].pc = "dead"
     \/ Fault("silence")
  /\ owner' = NULL
  /\ UNCHANGED <<finished, stream, posts, table>>

\* CancelJob at any time, or CompleteJob once the agent closed the stream; both
\* keep runner_id.
Finish ==
  /\ ~finished /\ finished' = TRUE
  /\ UNCHANGED <<owner, stream, posts, table>> /\ NoFault

-----------------------------------------------------------------------------
(* Faults *)

\* A request is lost before it takes effect, or the UPDATE fails.
PostLost(p) == Fault("lost") /\ posts' = posts \ {p} /\ UNCHANGED <<job, stream, table>>

\* The agent's machine dies; what it sent may still arrive.
AgentDies(a) ==
  /\ stream[a].pc \in {"assigned", "running", "closing"} /\ Fault("death")
  /\ stream' = [stream EXCEPT ![a].pc = "dead"]
  /\ UNCHANGED <<job, posts, table>>

RunnerStep(a) == Tick(a) \/ CloseFlush(a) \/ GiveUp(a)
Serve == \E p \in posts : Refuse(p) \/ Admit(p) \/ AppendLogs(p)

LogNext ==
  \/ \E a \in Attempts :
       \/ RunnerStep(a) \/ Begin(a) \/ Write(a) \/ CloseBegins(a) \/ GiveUpEarly(a) \/ AgentDies(a)
       \/ \E r \in Runners : Assign(a, r)
  \/ Serve \/ Requeue \/ Finish
  \/ \E p \in posts : PostLost(p)

\* Requests are served, the client's timeout expires, Close goes on when it can.
LogFairness == WF_logVars(Serve)
                 /\ \A a \in Attempts : WF_logVars(CloseFlush(a)) /\ WF_logVars(GiveUp(a))

LogSpec == LogInit /\ [][LogNext]_logVars /\ LogFairness

-----------------------------------------------------------------------------
(* Properties *)

\* logstream.go, sendMu; store.go, AppendLogs: the lines of one attempt are stored
\* in the order they were written and none twice, even when a request overtakes
\* one that the client gave up on.
LogsInOrder ==
  \A i, k \in DOMAIN logs :
    i < k /\ logs[i][1] = logs[k][1] => logs[i][2] < logs[k][2]

\* logstream.go, Close: "so the tail of a build is never lost".  When Close has
\* returned and nothing went wrong, the table has every line of the build.
EveryLineIsKept ==
  \A a \in Attempts : stream[a].pc = "closed" /\ faults = 0 =>
    \A n \in 1..stream[a].written : <<a, n>> \in ToSet(logs)

\* store.go, AppendLogs: when nothing was written, "this chunk already landed", so
\* whatever the server answered 202 for is in the table.
AcceptedIsStored == accepted \subseteq ToSet(logs)

\* agent.go, execute: Close is called before the result is reported, so it must
\* return, whatever happens to the requests it waits for.
CloseReturns == \A a \in Attempts : stream[a].pc = "closing" ~> Over(a)
=============================================================================

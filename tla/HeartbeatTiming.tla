-------------------------- MODULE HeartbeatTiming ---------------------------
(* The timing of one runner's heartbeats: the agent's loop waits, sends, waits *)
(* for the answer; the reaper looks at the row on a ticker of its own.  Time   *)
(* is discrete, in units of which a second has Second; the rest of the project *)
(* abstracts it to the flag `fresh' of a runner's row.                         *)
EXTENDS Integers

CONSTANTS AgentTimeout,    \* HEARTBEAT_TIMEOUT as the runner's process reads it
          ServerTimeout,   \* HEARTBEAT_TIMEOUT as the scheduler's process reads it
          Second,          \* units in a second
          Delay,           \* bound: how long a request takes that does not hang
          HTTPTimeout,     \* of the agent's HTTP client
          MaxAge,          \* bound: clocks stop counting here
          FaultKinds,      \* of "hang" (a request never arrives, its connection stays open) and "death"
          MaxFaults        \* bound: faults in one behaviour

ASSUME TimingAssumption ==
  /\ AgentTimeout \in Nat /\ ServerTimeout \in Nat /\ Second \in Nat \ {0}
  /\ Delay \in Nat /\ HTTPTimeout \in Nat /\ MaxAge \in Nat /\ MaxFaults \in Nat
  /\ FaultKinds \subseteq {"hang", "death"}

\* A duration the ticker and the timers can be set to: time.NewTicker panics at 0.
ASSUME PeriodAssumption == ServerTimeout >= 2

VARIABLES phase,    \* of heartbeatLoop: "wait", "request" (sent), "answer" (handled by
                    \* the API), "hung", or "dead" with its process
          left,     \* what is left of the wait or of the time the request takes
          age,      \* now() - last_heartbeat in the runner's row
          listed,   \* the row's status is not OFFLINE
          toReap,   \* until the reaper's next tick
          active,   \* agent.active is set: a job is being executed
          owed,     \* time since that job was cancelled, -1 when it was not
          named,    \* the request under way names that job
          told,     \* the answer under way says cancel
          missed,   \* history: a heartbeat hung and none has been answered since
          faults

agentVars == <<phase, left, active, named, told, missed>>
timingVars == <<agentVars, age, listed, toReap, owed, faults>>

Fault(kind) == kind \in FaultKinds /\ faults < MaxFaults /\ faults' = faults + 1
NoFault == UNCHANGED faults

-----------------------------------------------------------------------------
(* Intervals *)

\* Mutant: the runner waits out the whole timeout.
Idle_Whole == AgentTimeout

\* heartbeatLoop: the wait of a runner without a job.
Idle == AgentTimeout \div 3

\* heartbeatLoop: the wait of a runner with a job.
Busy == IF Idle < 5 * Second THEN Idle ELSE 5 * Second

Interval(working) == IF working THEN Busy ELSE Idle

\* ReapOfflineRunners: the timeout, cut to whole seconds.
Limit == (ServerTimeout \div Second) * Second

\* reapLoop's ticker.
ReapPeriod == ServerTimeout \div 2

ClocksOK ==
  /\ phase \in {"wait", "request", "answer", "hung", "dead"}
  /\ left \in Nat /\ age \in Nat /\ toReap \in 0..ReapPeriod
  /\ owed \in Nat \cup {-1} /\ faults \in 0..MaxFaults

FlagsOK == /\ listed \in BOOLEAN /\ active \in BOOLEAN
           /\ named \in BOOLEAN /\ told \in BOOLEAN /\ missed \in BOOLEAN

TimingTypeOK == ClocksOK /\ FlagsOK

\* RegisterRunner has just written the row; the scheduler is anywhere in its period.
TimingInit ==
  /\ phase = "wait" /\ left = Idle /\ active = FALSE /\ named = FALSE /\ told = FALSE
  /\ missed = FALSE
  /\ age = 0 /\ listed = TRUE /\ toReap \in 0..ReapPeriod /\ owed = -1 /\ faults = 0

-----------------------------------------------------------------------------
(* The agent and the API *)

\* heartbeatLoop: the wait is over, the request goes out.
Send == /\ phase = "wait" /\ left = 0
        /\ \/ phase' = "request" /\ left' = Delay /\ UNCHANGED missed /\ NoFault
           \/ phase' = "hung" /\ left' = HTTPTimeout /\ missed' = TRUE /\ Fault("hang")
        /\ named' = active
        /\ UNCHANGED <<age, listed, toReap, active, owed, told>>

\* handleHeartbeat: Heartbeat writes the row, leaseLost looks at the job.
Handled == /\ phase = "request" /\ phase' = "answer"
           /\ age' = 0 /\ listed' = TRUE /\ told' = (named /\ owed >= 0)
           /\ UNCHANGED <<left, toReap, active, named, missed, owed>> /\ NoFault

\* Mutant: the answer is only looked at when the request failed.
Answered_Ignored == /\ phase = "answer" /\ phase' = "wait" /\ told' = FALSE /\ missed' = FALSE
                    /\ left' = Interval(active)
                    /\ UNCHANGED <<age, listed, toReap, active, named, owed>> /\ NoFault

\* heartbeatLoop: the answer is here; a cancelled job is stopped.  The next wait is
\* as long as the state at this moment says.
Answered == /\ phase = "answer" /\ phase' = "wait" /\ told' = FALSE /\ missed' = FALSE
            /\ active' = (active /\ ~told) /\ owed' = (IF told THEN -1 ELSE owed)
            /\ left' = Interval(active')
            /\ UNCHANGED <<age, listed, toReap, named>> /\ NoFault

\* http.Client{Timeout: 40 * time.Second}: "heartbeat failed", and the loop goes on.
GivenUp == /\ phase = "hung" /\ left = 0 /\ phase' = "wait" /\ left' = Interval(active)
           /\ UNCHANGED <<age, listed, toReap, active, owed, named, told, missed>> /\ NoFault

\* execute: setActive, then clearActive when the build has ended.  An answer about a
\* job that is over stops nothing.
JobBegins == /\ phase # "dead" /\ ~active /\ active' = TRUE
             /\ UNCHANGED <<phase, left, named, told, missed, age, listed, toReap, owed>> /\ NoFault
JobEnds == /\ phase # "dead" /\ active /\ active' = FALSE /\ owed' = -1
           /\ named' = FALSE /\ told' = FALSE
           /\ UNCHANGED <<phase, left, missed, age, listed, toReap>> /\ NoFault

\* handleCancelJob: the job's row is CANCELLED, the runner does not know.
Cancel == /\ phase # "dead" /\ active /\ owed = -1 /\ owed' = 0
          /\ UNCHANGED <<agentVars, age, listed, toReap>> /\ NoFault

\* The runner's process ends.
Dies == /\ phase # "dead" /\ Fault("death") /\ phase' = "dead" /\ left' = 0
        /\ active' = FALSE /\ named' = FALSE /\ told' = FALSE /\ owed' = -1
        /\ UNCHANGED <<missed, age, listed, toReap>>

-----------------------------------------------------------------------------
(* The reaper and time *)

\* Mutant: the reaper comes round once per timeout.
Reap_OncePerTimeout == /\ toReap = 0 /\ toReap' = ServerTimeout
                       /\ IF age > Limit THEN listed' = FALSE ELSE UNCHANGED listed
                       /\ UNCHANGED <<agentVars, age, owed>> /\ NoFault

\* ReapOfflineRunners, on reapLoop's tick.
Reap == /\ toReap = 0 /\ toReap' = ReapPeriod
        /\ IF age > Limit THEN listed' = FALSE ELSE UNCHANGED listed
        /\ UNCHANGED <<agentVars, age, owed>> /\ NoFault

Later(clock) == IF clock < MaxAge THEN clock + 1 ELSE clock

\* Time passes; no timer is overrun.
Tick == /\ toReap > 0 /\ toReap' = toReap - 1
        /\ IF phase = "dead" THEN left' = left ELSE left > 0 /\ left' = left - 1
        /\ age' = Later(age)
        /\ owed' = (IF owed = -1 THEN -1 ELSE Later(owed))
        /\ UNCHANGED <<phase, active, named, told, missed, listed>> /\ NoFault

TimingNext == \/ Send \/ Handled \/ Answered \/ GivenUp \/ Dies
              \/ JobBegins \/ JobEnds \/ Cancel
              \/ Reap \/ Tick

TimingSpec == TimingInit /\ [][TimingNext]_timingVars

-----------------------------------------------------------------------------
(* Properties *)

\* agent.go, heartbeatLoop, against store.go, ReapOfflineRunners: a runner that is alive
\* and whose requests are answered is never marked OFFLINE, for all that its
\* timeout is cut to seconds and its own answers come late; one whose request hung
\* is listed again with the next answer.
LiveRunnerIsKept == phase # "dead" /\ ~missed => listed

\* service.go, reapLoop: a runner that is still listed has been silent for at most one
\* and a half timeouts, wherever the ticker was when it fell silent.
SilenceIsSeen == listed => age <= Limit + ServerTimeout \div 2

\* agent.go, heartbeatLoop: a cancelled build is told to stop within one idle interval,
\* although the wait may have been chosen before the build began, unless a
\* heartbeat hung.
CancelIsHeeded == ~missed => owed <= Idle + 2 * Delay

\* agent.go, heartbeatLoop: heartbeats go out "well inside the server's timeout", so a
\* live runner is listed even when one of them hangs.
HungRunnerIsKept == phase # "dead" => listed

\* agent.go, heartbeatLoop: "the shorter interval while a job is running, which bounds how
\* long a cancelled build keeps burning CPU".
CancelWithinBusyInterval == owed <= Busy + 2 * Delay
=============================================================================

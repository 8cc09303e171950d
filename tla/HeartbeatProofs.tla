-------------------------- MODULE HeartbeatProofs ---------------------------
(* Proofs about HeartbeatTiming: for which timeouts a live runner is kept, and *)
(* how long a silent one can go unseen.                                        *)
EXTENDS HeartbeatTiming, TLAPS

\* The intervals the agent and the reaper compute from their timeouts.
LEMMA Durations == /\ Idle \in Nat /\ Busy \in Nat /\ Busy <= Idle
                   /\ Limit \in Nat /\ ReapPeriod \in Nat
<1>1. Idle \in Nat
  BY TimingAssumption DEF Idle
<1>2. Busy \in Nat /\ Busy <= Idle
  BY <1>1, TimingAssumption DEF Busy
<1>3. ServerTimeout \div Second \in Nat
  BY TimingAssumption
<1>4. Limit \in Nat
  BY <1>3, TimingAssumption, SMT DEF Limit
<1>5. ReapPeriod \in Nat
  BY TimingAssumption DEF ReapPeriod
<1> QED
  BY <1>1, <1>2, <1>4, <1>5

-----------------------------------------------------------------------------
(* Types *)

\* Every clock is a natural number and no phase is outside heartbeatLoop's.
LEMMA ClocksStep == ClocksOK /\ [TimingNext]_timingVars => ClocksOK'
<1> SUFFICES ASSUME ClocksOK, [TimingNext]_timingVars PROVE ClocksOK'
  OBVIOUS
<1> USE Durations, TimingAssumption DEF ClocksOK, NoFault, Fault
<1>1. CASE Send
  BY <1>1 DEF Send
<1>2. CASE Handled
  BY <1>2 DEF Handled
<1>3. CASE Answered
  <2>1. left' \in Nat
    BY <1>3 DEF Answered, Interval
  <2>2. owed' \in Nat \cup {-1}
    BY <1>3 DEF Answered
  <2> QED
    BY <1>3, <2>1, <2>2 DEF Answered
<1>4. CASE GivenUp
  BY <1>4 DEF GivenUp, Interval
<1>5. CASE Dies
  BY <1>5 DEF Dies
<1>6. CASE JobBegins \/ JobEnds \/ Cancel
  BY <1>6 DEF JobBegins, JobEnds, Cancel, agentVars
<1>7. CASE Reap
  BY <1>7 DEF Reap, agentVars
<1>8. CASE Tick
  BY <1>8 DEF Tick, Later
<1>9. CASE UNCHANGED timingVars
  BY <1>9 DEF timingVars, agentVars
<1> QED
  BY <1>1, <1>2, <1>3, <1>4, <1>5, <1>6, <1>7, <1>8, <1>9 DEF TimingNext

\* The flags stay flags.
LEMMA FlagsStep == FlagsOK /\ [TimingNext]_timingVars => FlagsOK'
<1> SUFFICES ASSUME FlagsOK, [TimingNext]_timingVars PROVE FlagsOK'
  OBVIOUS
<1> USE DEF FlagsOK
<1>1. CASE Send \/ GivenUp
  BY <1>1, Zenon DEF Send, GivenUp
<1>2. CASE Handled
  BY <1>2, Zenon DEF Handled
<1>3. CASE Answered
  BY <1>3, Zenon DEF Answered
<1>4. CASE Dies
  BY <1>4, Zenon DEF Dies
<1>5. CASE JobBegins \/ JobEnds \/ Cancel
  BY <1>5, Zenon DEF JobBegins, JobEnds, Cancel, agentVars
<1>6. CASE Reap
  BY <1>6, Zenon DEF Reap, agentVars
<1>7. CASE Tick
  BY <1>7, Zenon DEF Tick
<1>8. CASE UNCHANGED timingVars
  BY <1>8, Zenon DEF timingVars, agentVars
<1> QED
  BY <1>1, <1>2, <1>3, <1>4, <1>5, <1>6, <1>7, <1>8 DEF TimingNext

\* The row has just been written and the loop begins its first wait.
LEMMA TypesInit == TimingInit => TimingTypeOK
<1> SUFFICES ASSUME TimingInit PROVE TimingTypeOK
  OBVIOUS
<1>1. ClocksOK
  BY Durations, TimingAssumption DEF TimingInit, ClocksOK
<1>2. FlagsOK
  BY Zenon DEF TimingInit, FlagsOK
<1> QED
  BY <1>1, <1>2 DEF TimingTypeOK

\* agent.go, service.go: types, whatever hangs and whenever the runner dies.
THEOREM TimingTypes == TimingSpec => []TimingTypeOK
<1>1. TimingTypeOK /\ [TimingNext]_timingVars => TimingTypeOK'
  BY ClocksStep, FlagsStep DEF TimingTypeOK
<1> QED
  BY <1>1, TypesInit, PTL DEF TimingSpec

-----------------------------------------------------------------------------
(* How long a silent runner goes unseen *)

\* The age the reaper has let pass, and what has gone by since its last tick.
SeenInTime == listed => age + toReap <= Limit + ReapPeriod

\* A step of time moves both clocks; a tick of the reaper has looked at the age.
LEMMA SeenStep == TimingTypeOK /\ SeenInTime /\ [TimingNext]_timingVars => SeenInTime'
<1> SUFFICES ASSUME TimingTypeOK, SeenInTime, [TimingNext]_timingVars PROVE SeenInTime'
  OBVIOUS
<1> USE Durations DEF TimingTypeOK, ClocksOK, SeenInTime
<1>1. CASE Handled
  BY <1>1 DEF Handled
<1>2. CASE Reap
  <2>1. age' = age /\ toReap' = ReapPeriod
    BY <1>2 DEF Reap
  <2>2. CASE age > Limit
    BY <1>2, <2>2, Zenon DEF Reap
  <2>3. CASE ~(age > Limit)
    BY <2>1, <2>3
  <2> QED
    BY <2>2, <2>3
<1>3. CASE Tick
  BY <1>3 DEF Tick, Later
<1>4. CASE Send \/ Answered \/ GivenUp \/ Dies \/ JobBegins \/ JobEnds \/ Cancel
  BY <1>4 DEF Send, Answered, GivenUp, Dies, JobBegins, JobEnds, Cancel
<1>5. CASE UNCHANGED timingVars
  BY <1>5 DEF timingVars
<1> QED
  BY <1>1, <1>2, <1>3, <1>4, <1>5 DEF TimingNext

\* service.go, reapLoop: for every timeout, whatever hangs and whenever the runner
\* dies, a listed runner has been silent for at most Limit and half a timeout.
THEOREM SilenceSeen == TimingSpec => []SilenceIsSeen
<1>1. TimingInit => SeenInTime
  BY Durations DEF TimingInit, SeenInTime
<1>2. TimingTypeOK /\ SeenInTime => SilenceIsSeen
  BY Durations DEF TimingTypeOK, ClocksOK, SeenInTime, SilenceIsSeen, ReapPeriod
<1> QED
  BY <1>1, <1>2, SeenStep, TimingTypes, PTL DEF TimingSpec

-----------------------------------------------------------------------------
(* Which timeouts keep a live runner listed *)

\* How old the row can be at each point of heartbeatLoop: a row written early in one
\* request is renewed at the latest at the end of the next, unless that one hangs; an
\* answer makes up for it.
AgeInLoop ==
  /\ phase = "wait" => left <= Idle
  /\ phase = "request" => left <= Delay
  /\ phase = "answer" => left <= Delay /\ age + left <= Delay /\ listed
  /\ ~missed => /\ phase # "hung"
                /\ phase = "wait" => age + left <= Delay + Idle
                /\ phase = "request" => age + left <= Idle + 2 * Delay
  /\ LiveRunnerIsKept

\* The bound of each phase leads to that of the next one.
LEMMA AgeStep ==
  ASSUME Idle + 2 * Delay <= Limit
  PROVE  TimingTypeOK /\ AgeInLoop /\ [TimingNext]_timingVars => AgeInLoop'
<1> SUFFICES ASSUME TimingTypeOK, AgeInLoop, [TimingNext]_timingVars PROVE AgeInLoop'
  OBVIOUS
<1> USE Durations, TimingAssumption DEF TimingTypeOK, ClocksOK, AgeInLoop, LiveRunnerIsKept
<1>1. CASE Send
  BY <1>1 DEF Send, Fault
<1>2. CASE Handled
  BY <1>2 DEF Handled
<1>3. CASE Answered
  BY <1>3 DEF Answered, Interval
<1>4. CASE GivenUp
  BY <1>4 DEF GivenUp, Interval
<1>5. CASE Dies
  BY <1>5 DEF Dies
<1>6. CASE JobBegins \/ JobEnds \/ Cancel
  BY <1>6 DEF JobBegins, JobEnds, Cancel, agentVars
<1>7. CASE Reap
  BY <1>7 DEF Reap, agentVars
<1>8. CASE Tick
  BY <1>8 DEF Tick, Later
<1>9. CASE UNCHANGED timingVars
  BY <1>9 DEF timingVars, agentVars
<1> QED
  BY <1>1, <1>2, <1>3, <1>4, <1>5, <1>6, <1>7, <1>8, <1>9 DEF TimingNext

\* agent.go, heartbeatLoop: a live runner stays listed, or is listed again with the first
\* answer after requests that hung, for every pair of timeouts where a third of the
\* runner's own, and two requests, fit into the whole seconds of the server's.
THEOREM LiveRunnerKept ==
  ASSUME Idle + 2 * Delay <= Limit
  PROVE  TimingSpec => []LiveRunnerIsKept
<1>1. TimingInit => AgeInLoop
  BY Durations, TimingAssumption DEF TimingInit, AgeInLoop, LiveRunnerIsKept
<1>2. TimingTypeOK /\ AgeInLoop /\ [TimingNext]_timingVars => AgeInLoop'
  BY AgeStep
<1>3. AgeInLoop => LiveRunnerIsKept
  BY DEF AgeInLoop
<1> QED
  BY <1>1, <1>2, <1>3, TimingTypes, PTL DEF TimingSpec

-----------------------------------------------------------------------------
(* How soon a cancelled build is told *)

\* An answer that says nothing of the cancellation is one that was under way when the
\* job was cancelled, so little time has passed; any other answer is the last one the
\* build waits for.
Unaware == (phase = "request" /\ ~named) \/ (phase = "answer" /\ ~told)

HeedInLoop ==
  /\ phase = "wait" => left <= Idle
  /\ phase \in {"request", "answer"} => left <= Delay
  /\ phase = "hung" => missed
  /\ owed >= 0 =>
       /\ active /\ phase # "dead"
       /\ Unaware => owed + left <= Delay
       /\ ~missed => /\ phase = "wait" => owed + left <= Idle + Delay
                     /\ phase \in {"request", "answer"} => owed + left <= Idle + 2 * Delay

\* agent.go, heartbeatLoop: the bound of each phase leads to that of the next one.
LEMMA HeedStep ==
  TimingTypeOK /\ HeedInLoop /\ [TimingNext]_timingVars => HeedInLoop'
<1> SUFFICES ASSUME TimingTypeOK, HeedInLoop, [TimingNext]_timingVars PROVE HeedInLoop'
  OBVIOUS
<1> USE Durations, TimingAssumption DEF TimingTypeOK, ClocksOK, FlagsOK, HeedInLoop, Unaware
<1>1. CASE Send
  BY <1>1 DEF Send, Fault
<1>2. CASE Handled
  BY <1>2 DEF Handled
<1>3. CASE Answered
  BY <1>3 DEF Answered, Interval
<1>4. CASE GivenUp
  BY <1>4 DEF GivenUp, Interval
<1>5. CASE Dies
  BY <1>5 DEF Dies
<1>6. CASE JobBegins \/ JobEnds \/ Cancel
  BY <1>6 DEF JobBegins, JobEnds, Cancel, agentVars
<1>7. CASE Reap
  BY <1>7 DEF Reap, agentVars
<1>8. CASE Tick
  BY <1>8 DEF Tick, Later
<1>9. CASE UNCHANGED timingVars
  BY <1>9 DEF timingVars, agentVars
<1> QED
  BY <1>1, <1>2, <1>3, <1>4, <1>5, <1>6, <1>7, <1>8, <1>9 DEF TimingNext

\* agent.go, heartbeatLoop: a cancelled build is told to stop within one idle interval and
\* two requests, for every timeout, unless a heartbeat hung.
THEOREM CancelHeeded == TimingSpec => []CancelIsHeeded
<1>1. TimingInit => HeedInLoop
  BY Durations, TimingAssumption DEF TimingInit, HeedInLoop, Unaware
<1>2. TimingTypeOK /\ HeedInLoop => CancelIsHeeded
  BY Durations, TimingAssumption DEF TimingTypeOK, ClocksOK, HeedInLoop, CancelIsHeeded
<1> QED
  BY <1>1, <1>2, HeedStep, TimingTypes, PTL DEF TimingSpec

-----------------------------------------------------------------------------
(* Which timeouts keep a live runner listed although requests hang *)

\* What the requests that hung, and the waits after them, have cost so far.
Lost == faults * (Idle + HTTPTimeout)

\* How old the row can be at each point of heartbeatLoop, with that time lost.
HungInLoop ==
  /\ phase = "wait" => age + left <= Delay + Idle + Lost
  /\ phase = "request" => left <= Delay /\ age + left <= Idle + 2 * Delay + Lost
  /\ phase = "answer" => age + left <= Delay
  /\ phase = "hung" => age + left <= Delay + Lost
  /\ HungRunnerIsKept

\* Multiplication, once and for all.
LEMMA LostFacts ==
  ASSUME ClocksOK, ClocksOK'
  PROVE  /\ Lost \in Nat /\ Lost' \in Nat
         /\ faults' = faults => Lost' = Lost
         /\ faults' = faults + 1 => Lost' = Lost + Idle + HTTPTimeout
         /\ Lost <= MaxFaults * (Idle + HTTPTimeout)
<1> DEFINE unit == Idle + HTTPTimeout
<1>1. unit \in Nat /\ faults \in Nat /\ faults' \in Nat /\ MaxFaults \in Nat /\ faults <= MaxFaults
  BY Durations, TimingAssumption DEF ClocksOK
<1>2. Lost = faults * unit /\ Lost' = faults' * unit
  BY DEF Lost, Idle
<1> HIDE DEF unit
<1>3. ASSUME NEW m \in Nat, NEW n \in Nat
      PROVE  /\ m * unit \in Nat /\ (m + 1) * unit = m * unit + unit
             /\ m <= n => m * unit <= n * unit
  BY <1>1, SMT
<1>4. Lost <= MaxFaults * unit
  BY <1>1, <1>2, <1>3
<1>5. faults' = faults + 1 => Lost' = Lost + unit
  BY <1>1, <1>2, <1>3
<1>6. Lost \in Nat /\ Lost' \in Nat /\ (faults' = faults => Lost' = Lost)
  BY <1>1, <1>2, <1>3
<1>7. ASSUME faults' = faults + 1 PROVE Lost' = Lost + Idle + HTTPTimeout
  BY <1>5, <1>6, <1>7, Durations, TimingAssumption DEF unit
<1> QED BY <1>4, <1>6, <1>7 DEF unit

\* Whatever that time is, the bound of each phase leads to that of the next one.
LEMMA HungStep ==
  ASSUME TimingTypeOK, TimingTypeOK', HungInLoop, [TimingNext]_timingVars,
         Lost \in Nat, Lost' \in Nat, Idle + 2 * Delay + Lost <= Limit,
         faults' = faults => Lost' = Lost,
         faults' = faults + 1 => Lost' = Lost + Idle + HTTPTimeout
  PROVE  HungInLoop'
<1> HIDE DEF Lost
<1> USE Durations, TimingAssumption
    DEF TimingTypeOK, ClocksOK, HungInLoop, HungRunnerIsKept, NoFault, Fault
<1>1. CASE Send
  <2>1. CASE phase' = "hung"
    BY <1>1, <2>1 DEF Send
  <2>2. CASE phase' = "request"
    BY <1>1, <2>2 DEF Send
  <2> QED BY <1>1, <2>1, <2>2 DEF Send
<1>2. CASE Handled
  BY <1>2 DEF Handled
<1>3. CASE Answered
  BY <1>3 DEF Answered, Interval
<1>4. CASE GivenUp
  BY <1>4 DEF GivenUp, Interval
<1>5. CASE Dies
  BY <1>5 DEF Dies
<1>6. CASE JobBegins \/ JobEnds \/ Cancel
  BY <1>6 DEF JobBegins, JobEnds, Cancel, agentVars
<1>7. CASE Reap
  BY <1>7 DEF Reap, agentVars
<1>8. CASE Tick
  <2>1. Lost' = Lost /\ phase' = phase /\ listed' = listed /\ age' \in {age, age + 1}
    BY <1>8 DEF Tick, Later
  <2>2. phase # "dead" => left > 0 /\ left' = left - 1
    BY <1>8 DEF Tick
  <2>3. ASSUME NEW e \in {age, age + 1}, age' = e, phase # "dead",
               NEW b \in Nat, age + left <= b
        PROVE  age' + left' <= b
    BY <2>2, <2>3
  <2>4. ASSUME NEW b \in Nat, phase # "dead", age + left <= b
        PROVE  age' + left' <= b
    BY <2>1, <2>3, <2>4
  <2>5. Delay + Idle + Lost \in Nat /\ Idle + 2 * Delay + Lost \in Nat /\ Delay + Lost \in Nat
    OBVIOUS
  <2>6. CASE phase = "wait"
    <3>1. age + left <= Delay + Idle + Lost
      BY <2>6
    <3>2. age' + left' <= Delay + Idle + Lost
      BY <2>4, <2>5, <2>6, <3>1
    <3> QED BY <2>1, <2>6, <3>2
  <2>7. CASE phase = "request"
    <3>1. left <= Delay /\ age + left <= Idle + 2 * Delay + Lost
      BY <2>7
    <3>2. left' <= Delay
      BY <2>2, <2>7, <3>1
    <3>3. age' + left' <= Idle + 2 * Delay + Lost
      BY <2>4, <2>5, <2>7, <3>1
    <3> QED BY <2>1, <2>7, <3>2, <3>3
  <2>8. CASE phase = "answer"
    BY <2>1, <2>4, <2>8
  <2>9. CASE phase = "hung"
    <3>1. age + left <= Delay + Lost
      BY <2>9
    <3>2. age' + left' <= Delay + Lost
      BY <2>4, <2>5, <2>9, <3>1
    <3> QED BY <2>1, <2>9, <3>2
  <2> QED BY <2>1, <2>6, <2>7, <2>8, <2>9
<1>9. CASE UNCHANGED timingVars
  BY <1>9 DEF timingVars, agentVars
<1> QED
  BY <1>1, <1>2, <1>3, <1>4, <1>5, <1>6, <1>7, <1>8, <1>9 DEF TimingNext

\* agent.go, heartbeatLoop: a live runner stays listed although any MaxFaults of its
\* heartbeats hang until the client gives up, one after the other or not, for every
\* pair of timeouts where that many more waits and client timeouts still fit into
\* the whole seconds of the server's.
THEOREM HungRunnerKept ==
  ASSUME Idle + 2 * Delay + MaxFaults * (Idle + HTTPTimeout) <= Limit
  PROVE  TimingSpec => []HungRunnerIsKept
<1>1. TimingInit => HungInLoop
  BY Durations, TimingAssumption DEF TimingInit, HungInLoop, HungRunnerIsKept, Lost
<1>2. ASSUME TimingTypeOK, TimingTypeOK', HungInLoop, [TimingNext]_timingVars PROVE HungInLoop'
  <2>1. MaxFaults * (Idle + HTTPTimeout) \in Nat
    BY Durations, TimingAssumption, SMT
  <2>2. ClocksOK /\ ClocksOK'
    BY <1>2 DEF TimingTypeOK
  <2>3. Lost \in Nat /\ Lost' \in Nat /\ Idle + 2 * Delay + Lost <= Limit
    BY <2>1, <2>2, LostFacts, Durations, TimingAssumption
  <2> QED BY <1>2, <2>2, <2>3, LostFacts, HungStep
<1>3. HungInLoop => HungRunnerIsKept
  BY DEF HungInLoop
<1> QED
  BY <1>1, <1>2, <1>3, TimingTypes, PTL DEF TimingSpec
=============================================================================

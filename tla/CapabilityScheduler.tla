------------------------ MODULE CapabilityScheduler -------------------------
(* Which runner gets the next job: IdleRunners supplies the pool, Schedule     *)
(* picks from it, AssignJob notes the time.  Times are modelled by their order *)
(* (`recent'), a runner's ID by a number.  One scheduler process, as in        *)
(* SchedulerService, which leaves this choice open.                            *)
EXTENDS SequencesExt, Integers

CONSTANTS Runners,     \* IDs, compared by <
          LabelsOf,    \* the labels of each runner
          Needs,       \* the sets of labels that jobs require
          NULL,        \* no runner
          Unreliable   \* may runners fall silent

ASSUME ChoiceAssumption ==
  /\ Runners \subseteq Nat /\ Unreliable \in BOOLEAN
  /\ NULL \notin Nat               \* neither an ID nor a time
  /\ DOMAIN LabelsOf = Runners

VARIABLES status,    \* of each runner, "NONE" before it registered
          fresh,     \* last_heartbeat is within the timeout
          recent,    \* runners with a last_assigned_at, the earliest first
          waiting,   \* history: IDLE runners in the order in which they became idle
          pick,      \* the scheduler between Schedule and AssignJob
          passed     \* history: how often (of 0, 1, more) each runner was given a job
                     \* past another since that one is idle

choiceVars == <<status, fresh, recent, waiting, pick, passed>>

NoPick == [runner |-> NULL, need |-> {}, pool |-> {}]

Nobody == [r \in Runners |-> 0]

Position(seq, r) == CHOOSE i \in DOMAIN seq : seq[i] = r
In(seq, r) == \E i \in DOMAIN seq : seq[i] = r

ChoiceTypeOK ==
  /\ status \in [Runners -> {"NONE", "IDLE", "BUSY", "OFFLINE"}]
  /\ fresh \in [Runners -> BOOLEAN] /\ recent \in Seq(Runners) /\ waiting \in Seq(Runners)
  /\ passed \in [Runners -> [Runners -> 0..2]]
  /\ \A r \in Runners : In(waiting, r) <=> status[r] = "IDLE"
  /\ \A r \in Runners : status[r] = "BUSY" => In(recent, r)
  /\ IsInjective(recent) /\ IsInjective(waiting)
  /\ \/ pick = NoPick
     \/ /\ pick \in [runner : Runners, need : Needs, pool : SUBSET Runners]
        /\ pick.runner \in pick.pool

ChoiceInit ==
  /\ status = [r \in Runners |-> "NONE"] /\ fresh = [r \in Runners |-> TRUE]
  /\ recent = <<>> /\ waiting = <<>> /\ pick = NoPick /\ passed = [r \in Runners |-> Nobody]

-----------------------------------------------------------------------------
(* Schedule *)

LastAssigned(r) == IF In(recent, r) THEN Position(recent, r) ELSE NULL

\* Mutant: Before turned round.
lessRecentlyUsed_Latest(a, b) ==
  IF LastAssigned(a) = NULL \/ LastAssigned(b) = NULL
    THEN LastAssigned(a) = NULL /\ (LastAssigned(b) # NULL \/ a < b)
    ELSE LastAssigned(b) < LastAssigned(a)

\* A runner that never had a job goes first, the smaller ID before the other.
lessRecentlyUsed(a, b) ==
  IF LastAssigned(a) = NULL \/ LastAssigned(b) = NULL
    THEN LastAssigned(a) = NULL /\ (LastAssigned(b) # NULL \/ a < b)
    ELSE LastAssigned(a) < LastAssigned(b)

CanRun(r, need) == need \subseteq LabelsOf[r]

\* Mutant: first fit.
Schedule_FirstFit(need, candidates) ==
  FoldLeft(LAMBDA best, r : IF CanRun(r, need) /\ best = NULL THEN r ELSE best,
           NULL, candidates)

\* The loop over the candidates; NULL stands for ErrNoRunner.
Schedule(need, candidates) ==
  FoldLeft(LAMBDA best, r : IF CanRun(r, need) /\ (best = NULL \/ lessRecentlyUsed(r, best))
                              THEN r ELSE best,
           NULL, candidates)

\* IdleRunners: WHERE status = 'IDLE' and the last heartbeat is recent.
Pool == {r \in Runners : status[r] = "IDLE" /\ fresh[r]}

\* IdleRunners: ORDER BY last_assigned_at ASC NULLS FIRST, ties in any order.
IdleRunners == {seq \in SetToSeqs(Pool) : \A i, k \in DOMAIN seq :
                  i < k => LastAssigned(seq[i]) = NULL
                           \/ (LastAssigned(seq[k]) # NULL /\ LastAssigned(seq[i]) < LastAssigned(seq[k]))}

-----------------------------------------------------------------------------
(* Steps *)

Leaves(r) == /\ waiting' = RemoveFirst(waiting, r)
             /\ passed' = [passed EXCEPT ![r] = Nobody]
Joins(r) == waiting' = Append(waiting, r) /\ UNCHANGED passed

\* RegisterRunner: a new row, IDLE, never assigned.
Register(r) == /\ status[r] = "NONE" /\ status' = [status EXCEPT ![r] = "IDLE"]
               /\ Joins(r) /\ UNCHANGED <<fresh, recent, pick>>

\* assign: the candidates are read and one is chosen.  Without one the job goes back.
Choose(need) ==
  /\ pick = NoPick
  /\ \E seq \in IdleRunners :
       /\ Schedule(need, seq) # NULL
       /\ pick' = [runner |-> Schedule(need, seq), need |-> need, pool |-> Pool]
  /\ UNCHANGED <<status, fresh, recent, waiting, passed>>

\* Mutant: last_assigned_at is set once and for all.
AssignedNow_Once(r) == recent' = (IF In(recent, r) THEN recent ELSE Append(recent, r))

\* AssignJob: last_assigned_at = now().
AssignedNow(r) == recent' = Append(RemoveFirst(recent, r), r)

\* AssignJob commits: every other runner of the pool that could have run the job, and
\* is idle still, was passed over.
Assign ==
  /\ pick # NoPick /\ status[pick.runner] = "IDLE"
  /\ LET r == pick.runner
         over == {q \in pick.pool \ {r} : CanRun(q, pick.need) /\ status[q] = "IDLE"}
     IN /\ status' = [status EXCEPT ![r] = "BUSY"] /\ AssignedNow(r)
        /\ waiting' = RemoveFirst(waiting, r)
        /\ passed' = [q \in Runners |-> IF q = r THEN Nobody
                        ELSE IF q \in over THEN [passed[q] EXCEPT ![r] = IF @ = 0 THEN 1 ELSE 2]
                        ELSE passed[q]]
  /\ pick' = NoPick /\ UNCHANGED fresh

\* AssignJob rolls back: "runner is no longer idle".
AssignFails == /\ pick # NoPick /\ status[pick.runner] # "IDLE" /\ pick' = NoPick
               /\ UNCHANGED <<status, fresh, recent, waiting, passed>>

\* releaseRunner.
Release(r) == /\ status[r] = "BUSY" /\ status' = [status EXCEPT ![r] = "IDLE"]
              /\ Joins(r) /\ UNCHANGED <<fresh, recent, pick>>

\* A runner's heartbeats do not arrive, and it is out of the pool.
FallsSilent(r) == /\ Unreliable /\ status[r] # "NONE" /\ fresh[r] /\ fresh' = [fresh EXCEPT ![r] = FALSE]
                  /\ passed' = [passed EXCEPT ![r] = Nobody]
                  /\ UNCHANGED <<status, recent, waiting, pick>>

\* ReapOfflineRunners.
Reap(r) == /\ ~fresh[r] /\ status[r] \in {"IDLE", "BUSY"}
           /\ status' = [status EXCEPT ![r] = "OFFLINE"] /\ Leaves(r)
           /\ UNCHANGED <<fresh, recent, pick>>

\* Heartbeat: the row is recent again, and IDLE if it was OFFLINE.
Heartbeat(r) == /\ ~fresh[r] /\ fresh' = [fresh EXCEPT ![r] = TRUE]
                /\ IF status[r] = "OFFLINE"
                     THEN status' = [status EXCEPT ![r] = "IDLE"] /\ Joins(r)
                     ELSE UNCHANGED <<status, waiting, passed>>
                /\ UNCHANGED <<recent, pick>>

ChoiceNext == \/ \E need \in Needs : Choose(need)
              \/ Assign \/ AssignFails
              \/ \E r \in Runners : \/ Register(r) \/ Release(r)
                                    \/ FallsSilent(r) \/ Reap(r) \/ Heartbeat(r)

\* The scheduler finishes what it began, builds end, and jobs of every kind keep coming.
ChoiceSpec ==
  /\ ChoiceInit /\ [][ChoiceNext]_choiceVars
  /\ WF_choiceVars(Assign \/ AssignFails)
  /\ \A r \in Runners : WF_choiceVars(Release(r))
  /\ \A need \in Needs : SF_choiceVars(Choose(need))

-----------------------------------------------------------------------------
(* Properties *)

\* scheduler.go, Schedule: whatever order the database returned the pool in, the choice
\* is the same: the runner that can run the job and was assigned least recently, or
\* never (then the smallest ID); there is none only when the pool has none.
ChoiceIsLeastRecent ==
  \A need \in Needs : \A seq \in SetToSeqs(Pool) :
    LET able == {r \in Pool : need \subseteq LabelsOf[r]}
        new  == {r \in able : ~In(recent, r)}
        best == CASE able = {} -> NULL
                  [] new # {}  -> CHOOSE r \in new : \A q \in new : r <= q
                  [] OTHER     -> CHOOSE r \in able : \A q \in able : Position(recent, r) <= Position(recent, q)
    IN Schedule(need, seq) = best

\* architecture.md, "LRU spreads load": while a runner waits in the pool, no other
\* runner is given a job past it twice.
PassedOverOnce == \A r \in Runners : \A q \in Runners : passed[r][q] <= 1

\* scheduler.go: once runners no longer fall silent, a runner that stays in the pool
\* is given a job, as long as jobs it can run keep coming.
EveryRunnerWorks ==
  <>[][\A r \in Runners : ~FallsSilent(r)]_choiceVars => \A r \in Runners : []<>(r \notin Pool)

\* scheduler.go, CapabilityScheduler: "we take the one idle the longest", here among
\* runners that have all had a job.
IdleLongestWins ==
  pick # NoPick /\ status[pick.runner] = "IDLE" =>
    \A r \in pick.pool \ {pick.runner} :
      CanRun(r, pick.need) /\ status[r] = "IDLE" /\ In(recent, pick.runner) /\ In(recent, r)
        => Position(waiting, pick.runner) < Position(waiting, r)
=============================================================================

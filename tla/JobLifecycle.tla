---------------------------- MODULE JobLifecycle ----------------------------
(* What the control plane promises about one build job, with no word about   *)
(* how: a job is created once, is owned by at most one runner at a time, and  *)
(* ends exactly once.  Store is shown to implement this specification.        *)
CONSTANTS Jobs,      \* job ids
          Runners,   \* runner ids
          KeyOf,     \* job -> (repository, commit, event) it builds
          NULL

VARIABLES status,    \* job -> where it is in its life, "NONE" before its row exists
          owner      \* job -> the runner the job is recorded against

vars == <<status, owner>>

Active(j) == status[j] \in {"QUEUED", "ASSIGNED", "RUNNING"}

Init == /\ status = [j \in Jobs |-> "NONE"]
        /\ owner = [j \in Jobs |-> NULL]

\* A job is accepted only while no unfinished job builds the same thing.
Submit(j) == /\ status[j] = "NONE"
             /\ \A k \in Jobs : KeyOf[k] = KeyOf[j] => ~Active(k)
             /\ status' = [status EXCEPT ![j] = "QUEUED"]
             /\ UNCHANGED owner

\* An unowned, queued job is handed to one runner.
Hand(j, r) == /\ status[j] = "QUEUED"
              /\ owner[j] = NULL
              /\ status' = [status EXCEPT ![j] = "ASSIGNED"]
              /\ owner' = [owner EXCEPT ![j] = r]

Start(j) == /\ status[j] = "ASSIGNED"
            /\ status' = [status EXCEPT ![j] = "RUNNING"]
            /\ UNCHANGED owner

\* Only a running job can succeed; a job that has a runner can fail.
Succeed(j) == /\ status[j] = "RUNNING"
              /\ status' = [status EXCEPT ![j] = "SUCCESS"]
              /\ UNCHANGED owner

Fail(j) == /\ status[j] \in {"ASSIGNED", "RUNNING"}
           /\ status' = [status EXCEPT ![j] = "FAILED"]
           /\ UNCHANGED owner

\* A job is taken back from its runner, and then has no owner.
TakeBack(j) == /\ status[j] \in {"ASSIGNED", "RUNNING"}
               /\ status' = [status EXCEPT ![j] = "QUEUED"]
               /\ owner' = [owner EXCEPT ![j] = NULL]

Cancel(j) == /\ Active(j)
             /\ status' = [status EXCEPT ![j] = "CANCELLED"]
             /\ UNCHANGED owner

Next == \E j \in Jobs : \/ Submit(j) \/ Start(j) \/ Succeed(j) \/ Fail(j)
                        \/ TakeBack(j) \/ Cancel(j)
                        \/ \E r \in Runners : Hand(j, r)

Spec == Init /\ [][Next]_vars
=============================================================================

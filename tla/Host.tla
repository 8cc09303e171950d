-------------------------------- MODULE Host --------------------------------
(* One machine that runs several agents (cmd/runner: "one machine can host     *)
(* several runners"), and one job that is attempted on it more than once.  The *)
(* workspace and the container are named after the job alone, so the attempts  *)
(* share them: prepareWorkspace, DockerExecutor.Execute and the cleanup of     *)
(* Agent.execute.                                                              *)
EXTENDS Naturals

CONSTANTS MaxAttempts,   \* bound: how often the job comes to this machine
          FaultKinds,    \* of "death" (of an agent), "silence" (a live agent is
                         \* reaped), "docker" (a container is not removed) and
                         \* "files" (os.RemoveAll returns an error)
          MaxFaults      \* bound: faults in one behaviour

ASSUME HostAssumption == /\ MaxAttempts \in Nat /\ MaxFaults \in Nat
                         /\ FaultKinds \subseteq {"death", "silence", "docker", "files"}

VARIABLES lease,       \* the attempt that the control plane waits for, or 0
          final,       \* the job's final status, "none" before
          att,         \* each attempt: where it is, its job context, its outcome; history:
                       \* were all earlier attempts over when it began (alone), and did
                       \* its os.RemoveAll leave the directory as it was or a part of it
          dir,         \* the directory forgerun-<job id>
          container,   \* the container forgerun-<job id>
          faults

hostVars == <<lease, final, att, dir, container, faults>>

Attempts == 1..MaxAttempts

Fault(kind) == kind \in FaultKinds /\ faults < MaxFaults /\ faults' = faults + 1
NoFault == UNCHANGED faults

NoDir == [exists |-> FALSE, remote |-> FALSE, fetched |-> FALSE, files |-> {}]
NoContainer == [by |-> 0, running |-> FALSE]

\* The phases of execute in which the job is active, in order.
Checkout == {"mkdir", "init", "remote", "fetch", "checkout"}
Execute == {"image", "create", "creating", "start", "wait"}

HostTypeOK ==
  /\ lease \in 0..MaxAttempts
  /\ final \in {"none", "SUCCESS", "FAILED", "CANCELLED"}
  /\ att \in [Attempts -> [pc : {"none", "undo", "remove", "report", "fail", "clean", "done",
                                  "dead"} \cup Checkout \cup Execute,
                           ctx : {"live", "cancelled", "expired"},
                           result : {"none", "SUCCESS", "FAILED"}, alone : BOOLEAN,
                           removal : {"none", "kept", "part"}]]
  /\ dir \in [exists : BOOLEAN, remote : BOOLEAN, fetched : BOOLEAN, files : SUBSET Attempts]
  /\ dir.remote \/ dir.fetched \/ dir.files # {} => dir.exists
  /\ container \in [by : 0..MaxAttempts, running : BOOLEAN]
  /\ faults \in 0..MaxFaults

HostInit == /\ lease = 0 /\ final = "none"
            /\ att = [n \in Attempts |-> [pc |-> "none", ctx |-> "live", result |-> "none",
                                          alone |-> FALSE, removal |-> "none"]]
            /\ dir = NoDir /\ container = NoContainer /\ faults = 0

-----------------------------------------------------------------------------
(* The control plane, as far as one job can tell                               *)

control == <<lease, final>>
machine == <<dir, container>>

\* The job is assigned, delivered and started; each attempt is by an agent of its
\* own or by one whose earlier attempts are over.
Receive(n) ==
  /\ lease = 0 /\ final = "none" /\ att[n].pc = "none"
  /\ \A m \in Attempts : m < n => att[m].pc # "none"
  /\ lease' = n
  /\ att' = [att EXCEPT ![n].pc = "mkdir",
                        ![n].alone = \A m \in Attempts : m < n => att[m].pc \in {"done", "dead"}]
  /\ UNCHANGED <<final, machine>> /\ NoFault

\* The reaper takes the job of a dead agent, or of one that was only silent.
TakenBack ==
  /\ lease # 0 /\ final = "none"
  /\ IF att[lease].pc = "dead" THEN NoFault ELSE Fault("silence")
  /\ lease' = 0
  /\ UNCHANGED <<final, att, machine>>

Cancelled ==
  /\ lease # 0 /\ final = "none"
  /\ final' = "CANCELLED"
  /\ UNCHANGED <<lease, att, machine>> /\ NoFault

\* The answer to a heartbeat says the lease is lost: the job's context is cancelled.
LeaseLost(n) ==
  /\ att[n].pc \in Checkout \cup Execute \cup {"undo"} /\ att[n].ctx = "live"
  /\ lease # n \/ final # "none"
  /\ att' = [att EXCEPT ![n].ctx = "cancelled"]
  /\ UNCHANGED <<control, machine>> /\ NoFault

-----------------------------------------------------------------------------
(* os.RemoveAll takes one entry after the other; when it cannot go on (files   *)
(* that a container wrote as root, an I/O error) it returns an error, which    *)
(* its callers ignore or log, and when the agent dies it just stops.           *)

\* What may be left of directory d on the way.
Remains(d) ==
  {[exists |-> TRUE, remote |-> rem, fetched |-> fet, files |-> fs] :
     rem \in {d.remote, FALSE}, fet \in {d.fetched, FALSE}, fs \in SUBSET d.files}

RemoveSome(n) ==
  /\ att[n].pc \in {"undo", "clean"} /\ dir.exists
  /\ dir' \in Remains(dir) \ {dir}
  /\ att' = [att EXCEPT ![n].removal = "part"]
  /\ UNCHANGED <<control, container>> /\ NoFault

\* It returns, with everything gone or with an error, and the attempt is at pc.
RemoveAll(n, pc) ==
  /\ \/ dir' = NoDir /\ NoFault
        /\ att' = [att EXCEPT ![n].pc = pc, ![n].removal = "none"]
     \/ /\ dir.exists /\ UNCHANGED dir /\ Fault("files")
        /\ att' = [att EXCEPT ![n].pc = pc, ![n].removal = IF @ = "part" THEN @ ELSE "kept"]
  /\ UNCHANGED <<control, container>>

-----------------------------------------------------------------------------
(* prepareWorkspace.  A command that starts when the context has ended fails;  *)
(* one that is done before it is killed might as well have been done before.   *)

Goes(n, pc) == att' = [att EXCEPT ![n].pc = pc]

\* execute after an error: an abandoned job is not reported.
Fails(n, pc, abandonedPc) ==
  att' = [att EXCEPT ![n].pc = IF att[n].ctx = "cancelled" THEN abandonedPc ELSE pc,
                     ![n].result = "FAILED"]

\* MkdirAll succeeds on a directory that is there already.
Mkdir(n) ==
  /\ att[n].pc = "mkdir" /\ Goes(n, "init")
  /\ dir' = [dir EXCEPT !.exists = TRUE]
  /\ UNCHANGED <<control, container>> /\ NoFault

\* git init is content with a repository that is there already.
GitInit(n) ==
  /\ att[n].pc = "init" /\ att[n].ctx = "live" /\ dir.exists /\ Goes(n, "remote")
  /\ UNCHANGED <<control, machine>> /\ NoFault

\* Mutant: "remote origin already exists" is not an error.
RemoteAdd_Reuse(n) ==
  /\ att[n].pc = "remote" /\ att[n].ctx = "live" /\ dir.exists /\ Goes(n, "fetch")
  /\ dir' = [dir EXCEPT !.remote = TRUE]
  /\ UNCHANGED <<control, container>> /\ NoFault

\* git remote add fails when the remote is there already.
RemoteAdd(n) ==
  /\ att[n].pc = "remote" /\ att[n].ctx = "live" /\ dir.exists /\ ~dir.remote /\ Goes(n, "fetch")
  /\ dir' = [dir EXCEPT !.remote = TRUE]
  /\ UNCHANGED <<control, container>> /\ NoFault

\* git fetch of the commit, or of the branch when that is refused.
GitFetch(n) ==
  /\ att[n].pc = "fetch" /\ att[n].ctx = "live" /\ dir.remote /\ Goes(n, "checkout")
  /\ dir' = [dir EXCEPT !.fetched = TRUE]
  /\ UNCHANGED <<control, container>> /\ NoFault

GitCheckout(n) ==
  /\ att[n].pc = "checkout" /\ att[n].ctx = "live" /\ dir.fetched /\ Goes(n, "image")
  /\ dir' = [dir EXCEPT !.files = @ \cup {n}]
  /\ UNCHANGED <<control, container>> /\ NoFault

\* A git command fails: its directory is gone, the remote is there already, the
\* context has ended, or the other end of a fetch does not answer.
GitFails(n) == \/ att[n].pc \in Checkout \ {"mkdir"} /\ (~dir.exists \/ att[n].ctx # "live")
               \/ att[n].pc = "remote" /\ dir.remote
               \/ att[n].pc \in {"fetch", "checkout"}

\* Mutant: a failed fetch or checkout does not clean up behind it.
CheckoutFails_Leaves(n) ==
  /\ GitFails(n)
  /\ IF att[n].pc \in {"init", "remote"} THEN Fails(n, "undo", "undo") ELSE Fails(n, "fail", "done")
  /\ UNCHANGED <<control, machine>> /\ NoFault

\* Every error path of prepareWorkspace removes the directory.
CheckoutFails(n) ==
  /\ GitFails(n) /\ Fails(n, "undo", "undo")
  /\ UNCHANGED <<control, machine>> /\ NoFault

\* It does so before execute looks whether the job was abandoned.
UndoCheckout(n) ==
  /\ att[n].pc = "undo"
  /\ RemoveAll(n, IF att[n].ctx = "cancelled" THEN "done" ELSE "fail")

\* forgerun.yml is unreadable: reported, and the deferred RemoveAll runs later.
SpecUnreadable(n) ==
  /\ att[n].pc = "image" /\ Fails(n, "report", "report")
  /\ UNCHANGED <<control, machine>> /\ NoFault

-----------------------------------------------------------------------------
(* DockerExecutor.Execute.  An error before the container exists, with or      *)
(* without the context having ended, leaves through EarlyError.                *)

\* The deadline that Execute puts on its context.
Expires(n) ==
  /\ att[n].pc \in Execute /\ att[n].ctx = "live"
  /\ att' = [att EXCEPT ![n].ctx = "expired"]
  /\ UNCHANGED <<control, machine>> /\ NoFault

EarlyError(n) == Fails(n, "report", "clean")

EnsureImage(n) ==
  /\ att[n].pc = "image"
  /\ \/ att[n].ctx = "live" /\ Goes(n, "create")
     \/ EarlyError(n)
  /\ UNCHANGED <<control, machine>> /\ NoFault

CreateSent(n) ==
  /\ att[n].pc = "create"
  /\ IF att[n].ctx = "live" THEN Goes(n, "creating") ELSE EarlyError(n)
  /\ UNCHANGED <<control, machine>> /\ NoFault

\* Mutant: "the name is in use" is not an error, and the container found is used.
ContainerCreate_Reuses(n) ==
  /\ att[n].pc = "creating" /\ att[n].ctx = "live" /\ Goes(n, "start")
  /\ container' = IF container = NoContainer THEN [by |-> n, running |-> FALSE] ELSE container
  /\ UNCHANGED <<control, dir>> /\ NoFault

\* The name is free, and the answer arrives in time.
ContainerCreate(n) ==
  /\ att[n].pc = "creating" /\ att[n].ctx = "live" /\ Goes(n, "start")
  /\ container = NoContainer
  /\ container' = [by |-> n, running |-> FALSE]
  /\ UNCHANGED <<control, dir>> /\ NoFault

\* The name is taken or the daemon refuses; when the context ends during the call,
\* it returns an error although the daemon may go on and create the container.
CreateFails(n) ==
  /\ att[n].pc = "creating" /\ EarlyError(n)
  /\ \/ UNCHANGED container
     \/ /\ att[n].ctx # "live" /\ container = NoContainer
        /\ container' = [by |-> n, running |-> FALSE]
  /\ UNCHANGED <<control, dir>> /\ NoFault

ContainerStart(n) ==
  /\ att[n].pc = "start"
  /\ \/ att[n].ctx = "live" /\ Goes(n, "wait") /\ container' = [container EXCEPT !.running = TRUE]
     \/ /\ att' = [att EXCEPT ![n].pc = "remove", ![n].result = "FAILED"]
        /\ UNCHANGED container
  /\ UNCHANGED <<control, dir>> /\ NoFault

\* The container exits with some code, or ContainerWait fails.
ContainerExits(n) ==
  /\ att[n].pc = "wait"
  /\ \E res \in {"SUCCESS", "FAILED"} :
       att' = [att EXCEPT ![n].pc = "remove", ![n].result = res]
  /\ container' = [container EXCEPT !.running = FALSE]
  /\ UNCHANGED <<control, dir>> /\ NoFault

\* Mutant: the select has no case for a cancellation, only for the deadline.
Stopped_OnlyByDeadline(n) ==
  /\ att[n].pc = "wait" /\ att[n].ctx = "expired"
  /\ att' = [att EXCEPT ![n].pc = "remove", ![n].result = "FAILED"]
  /\ UNCHANGED <<control, machine>> /\ NoFault

\* case <-ctx.Done(), for the deadline and for a cancellation.
Stopped(n) ==
  /\ att[n].pc = "wait" /\ att[n].ctx # "live"
  /\ att' = [att EXCEPT ![n].pc = "remove", ![n].result = "FAILED"]
  /\ UNCHANGED <<control, machine>> /\ NoFault

\* The deferred ContainerRemove, by the id that ContainerCreate returned, whose
\* error is ignored; then Execute returns.
ContainerRemove(n) ==
  /\ att[n].pc = "remove"
  /\ Goes(n, IF att[n].ctx = "cancelled" THEN "clean" ELSE "report")
  /\ \/ container' = (IF container.by = n THEN NoContainer ELSE container) /\ NoFault
     \/ Fault("docker") /\ UNCHANGED container
  /\ UNCHANGED <<control, dir>>

-----------------------------------------------------------------------------
(* The end of Agent.execute *)

\* reportResult; then execute returns, and after a checkout removes the directory.
Report(n) ==
  /\ att[n].pc \in {"report", "fail"}
  /\ final' = IF lease = n /\ final = "none" THEN att[n].result ELSE final
  /\ Goes(n, IF att[n].pc = "report" THEN "clean" ELSE "done")
  /\ UNCHANGED <<lease, machine>> /\ NoFault

\* The deferred os.RemoveAll.
Clean(n) ==
  /\ att[n].pc = "clean" /\ RemoveAll(n, "done")

\* The agent dies; what there is of directory and container stays, and the container runs on.
AgentDies(n) ==
  /\ att[n].pc \notin {"none", "done", "dead"} /\ Fault("death")
  /\ Goes(n, "dead")
  /\ UNCHANGED <<control, machine>>

\* Steps that the attempt takes by itself, whatever its build does.
Step(n) == \/ Mkdir(n) \/ GitInit(n) \/ RemoteAdd(n) \/ GitFetch(n) \/ GitCheckout(n)
           \/ CheckoutFails(n) \/ UndoCheckout(n) \/ SpecUnreadable(n) \/ EnsureImage(n)
           \/ CreateSent(n) \/ ContainerCreate(n) \/ CreateFails(n) \/ ContainerStart(n)
           \/ Stopped(n) \/ ContainerRemove(n) \/ Report(n) \/ Clean(n)

HostNext == \/ TakenBack \/ Cancelled
            \/ \E n \in Attempts : \/ Receive(n) \/ LeaseLost(n) \/ Step(n) \/ Expires(n)
                                   \/ RemoveSome(n) \/ ContainerExits(n) \/ AgentDies(n)

\* An attempt goes on by itself; a build may run as long as its deadline lets it,
\* and nobody has to push, cancel or die.
HostSpec == HostInit /\ [][HostNext]_hostVars /\ \A n \in Attempts : WF_hostVars(Step(n))

-----------------------------------------------------------------------------
(* Properties *)

\* What an attempt that began when all earlier ones had returned or died, and still
\* has the job, finds in its directory while it builds.
Builds(n, files) == att[n].pc \in Execute /\ att[n].alone /\ lease = n => dir.files = files

\* workspace.go: such an attempt has its own files and none of an earlier one ("a runner
\* never carries repository state"), whatever a dead agent or a refused removal left
\* behind, unless an os.RemoveAll stopped half way.
NoStateCarriedOver ==
  \A n \in Attempts : (\A m \in Attempts : att[m].removal # "part") => Builds(n, {n})

\* workspace.go; agent.go, execute: when every attempt has returned, whatever its
\* outcome, a directory is left only by an os.RemoveAll that returned an error.
NoDirectoryLeft ==
  (\A n \in Attempts : att[n].pc \in {"none", "done"} /\ att[n].removal = "none") => ~dir.exists

\* docker.go, Execute: from its creation to its removal, the container that an
\* attempt waits for is its own, although all attempts use one name.
OwnContainer ==
  \A n \in Attempts : att[n].pc \in {"start", "wait", "remove"} => container.by = n

\* docker.go, Execute: a cancelled attempt stops, however long its build would run.
AbandonedStops ==
  \A n \in Attempts : att[n].ctx = "cancelled" ~> att[n].pc \in {"done", "dead"}

\* workspace.go: "prepareWorkspace creates a fresh directory", so git starts in one
\* without an earlier repository.
FreshWorkspace ==
  \A n \in Attempts : att[n].pc = "init" => ~dir.remote

\* The same without the condition: what an unfinished removal left is never built with.
NothingLeftToFind == \A n \in Attempts : Builds(n, {n})

\* docker.go: "Cleanup runs even if the job is cancelled or the context expired", so
\* no container is left when every attempt has returned and no removal failed.
NoContainerLeft ==
  (\A n \in Attempts : att[n].pc \in {"none", "done"}) /\ faults = 0
    => container = NoContainer

\* docs/security.md: the directory "is deleted when the job ends"; while the attempt
\* that holds the job builds, its directory is there.
WorkspaceStays ==
  \A n \in Attempts : att[n].pc \in Execute /\ lease = n /\ final = "none" => dir.exists
=============================================================================

----------------------------- MODULE HostProofs -----------------------------
(* What a machine that hosts several agents promises about the directory and   *)
(* the container that all attempts of a job share, for any number of attempts  *)
(* and faults.                                                                 *)
EXTENDS Host, TLAPS

Places == {"none", "undo", "remove", "report", "fail", "clean", "done", "dead"}
            \cup Checkout \cup Execute

Att == [pc : Places, ctx : {"live", "cancelled", "expired"},
        result : {"none", "SUCCESS", "FAILED"}, alone : BOOLEAN,
        removal : {"none", "kept", "part"}]

Over == {"done", "dead"}

\* Where an attempt owes the machine a removal of the directory, or died owing it.
Owing == (Checkout \ {"mkdir"}) \cup Execute \cup {"undo", "remove", "report", "clean", "dead"}

Owes(n) == att[n].pc \in Owing \/ att[n].removal # "none"

DirIsOwed == dir.exists => \E n \in Attempts : Owes(n)

\* No removal left a part of the directory, which is then filled in the order of
\* prepareWorkspace.
Whole == \A n \in Attempts : att[n].removal # "part"

Intact == Whole => (dir.files # {} => dir.fetched) /\ (dir.fetched => dir.remote)

\* Attempts come in order, and the latest one holds the lease, if any does.
InOrder ==
  \A n \in Attempts : att[n].pc # "none" => \A m \in Attempts : m < n => att[m].pc # "none"

LatestHasLease ==
  lease # 0 => /\ att[lease].pc # "none"
               /\ \A m \in Attempts : m > lease => att[m].pc = "none"

AloneStays ==
  \A n \in Attempts : att[n].alone => \A m \in Attempts : m < n => att[m].pc \in Over

\* An attempt that got past "git remote add" found no files, and has its own later.
FilesAreOwn ==
  \A n \in Attempts : Whole /\ att[n].alone /\ lease = n =>
    /\ att[n].pc \in {"fetch", "checkout"} => dir.files = {}
    /\ att[n].pc \in Execute => dir.files = {n}

HostInv == HostTypeOK /\ DirIsOwed /\ Intact /\ InOrder /\ LatestHasLease /\ AloneStays
             /\ FilesAreOwn /\ OwnContainer

-----------------------------------------------------------------------------
(* The shape of a step                                                         *)

\* Attempt n is at pc now; the others are where they were.
Moves(n, pc) ==
  /\ att' \in [Attempts -> Att]
  /\ att'[n].pc = pc /\ att'[n].alone = att[n].alone
  /\ \A m \in Attempts : m # n => att'[m] = att[m]

\* It removed nothing on the way.
Moved(n, pc) == Moves(n, pc) /\ att'[n].removal = att[n].removal

\* agent.go, execute: the ways in which the model moves an attempt.
LEMMA MoveFacts ==
  ASSUME HostTypeOK, NEW n \in Attempts, NEW pc \in Places
  PROVE  /\ att' = [att EXCEPT ![n].pc = pc] => Moved(n, pc)
         /\ \A res \in {"SUCCESS", "FAILED"} :
              att' = [att EXCEPT ![n].pc = pc, ![n].result = res] => Moved(n, pc)
         /\ \A ctx \in {"cancelled", "expired"} :
              att' = [att EXCEPT ![n].ctx = ctx] => Moved(n, att[n].pc)
<1>0. att \in [Attempts -> Att] /\ att[n] \in Att BY DEF HostTypeOK, Att, Places
<1>1. ASSUME NEW k \in Att, k.alone = att[n].alone, k.removal = att[n].removal,
             att' = [att EXCEPT ![n] = k]
      PROVE  Moved(n, k.pc)
  BY <1>0, <1>1 DEF Moved, Moves
<1>2. ASSUME att' = [att EXCEPT ![n].pc = pc] PROVE Moved(n, pc)
  <2> DEFINE k == [att[n] EXCEPT !.pc = pc]
  <2>1. k \in Att /\ k.alone = att[n].alone /\ k.removal = att[n].removal /\ k.pc = pc BY <1>0 DEF Att
  <2>2. att' = [att EXCEPT ![n] = k] BY <1>2
  <2> HIDE DEF k
  <2> QED BY <1>1, <2>1, <2>2
<1>3. ASSUME NEW res \in {"SUCCESS", "FAILED"},
             att' = [att EXCEPT ![n].pc = pc, ![n].result = res]
      PROVE  Moved(n, pc)
  <2> DEFINE k == [att[n] EXCEPT !.pc = pc, !.result = res]
  <2>1. k \in Att /\ k.alone = att[n].alone /\ k.removal = att[n].removal /\ k.pc = pc BY <1>0 DEF Att
  <2>2. att' = [att EXCEPT ![n] = k] BY <1>3, <1>0
  <2> HIDE DEF k
  <2> QED BY <1>1, <2>1, <2>2
<1>4. ASSUME NEW ctx \in {"cancelled", "expired"}, att' = [att EXCEPT ![n].ctx = ctx]
      PROVE  Moved(n, att[n].pc)
  <2> DEFINE k == [att[n] EXCEPT !.ctx = ctx]
  <2>1. k \in Att /\ k.alone = att[n].alone /\ k.removal = att[n].removal /\ k.pc = att[n].pc BY <1>0 DEF Att
  <2>2. att' = [att EXCEPT ![n] = k] BY <1>4
  <2> HIDE DEF k
  <2> QED BY <1>1, <2>1, <2>2
<1> QED BY <1>2, <1>3, <1>4

\* agent.go, execute; workspace.go: an attempt that removes nothing leaves the
\* directory whole or not, as it was.
LEMMA WholeStays ==
  ASSUME NEW n \in Attempts, NEW pc, Moved(n, pc)
  PROVE  /\ Whole' <=> Whole
         /\ Intact /\ UNCHANGED dir => Intact'
<1>1. Whole' <=> Whole BY DEF Moved, Moves, Whole
<1> QED BY <1>1 DEF Intact

\* What a step of attempt n may do to the directory and to the container.
DirStep(n, pc) ==
  /\ dir'.exists => pc \in Owing \/ att'[n].removal # "none" \/ (~Owes(n) /\ dir.exists)
  /\ pc \in Execute \cup {"fetch", "checkout"} => att'[n].removal = att[n].removal
  /\ Whole /\ pc \in {"fetch", "checkout"} =>
       dir'.files = {} \/ (att[n].pc \in {"fetch", "checkout"} /\ dir'.files = dir.files)
  /\ Whole /\ pc \in Execute =>
       \/ att[n].pc \in Execute /\ dir'.files = dir.files
       \/ att[n].pc = "checkout" /\ dir'.files = dir.files \cup {n}

ContainerStep(n, pc) ==
  /\ pc \in {"start", "wait", "remove"} => container'.by = n
  /\ container.by \notin {0, n} => container'.by = container.by

RestTyped ==
  /\ final' \in {"none", "SUCCESS", "FAILED", "CANCELLED"}
  /\ dir' \in [exists : BOOLEAN, remote : BOOLEAN, fetched : BOOLEAN, files : SUBSET Attempts]
  /\ dir'.remote \/ dir'.fetched \/ dir'.files # {} => dir'.exists
  /\ container' \in [by : 0..MaxAttempts, running : BOOLEAN]
  /\ faults' \in 0..MaxFaults

\* agent.go, execute; workspace.go; docker.go: a step of one attempt that treats
\* directory and container so keeps the invariant, whatever the others do.
LEMMA AttemptKeeps ==
  ASSUME HostInv, NEW n \in Attempts, NEW pc \in Places, Moves(n, pc),
         att[n].pc \notin {"none", "done", "dead"}, pc # "none",
         UNCHANGED lease, RestTyped, Intact', DirStep(n, pc), ContainerStep(n, pc)
  PROVE  HostInv'
<1>0. lease \in 0..MaxAttempts /\ MaxAttempts \in Nat
  BY HostAssumption DEF HostInv, HostTypeOK
<1>1. HostTypeOK' BY <1>0 DEF RestTyped, HostTypeOK, Moves, Att, Places
<1>2. DirIsOwed' BY DEF HostInv, DirIsOwed, Owes, DirStep, Moves
<1>3. LatestHasLease'
  BY <1>0 DEF HostInv, LatestHasLease, Moves, Attempts
<1>o. InOrder' BY DEF HostInv, InOrder, Moves
<1>4. AloneStays' BY DEF HostInv, AloneStays, Moves, Over
<1>5. FilesAreOwn'
  <2> SUFFICES ASSUME NEW m \in Attempts, Whole', att'[m].alone, lease = m
               PROVE  /\ att'[m].pc \in {"fetch", "checkout"} => dir'.files = {}
                      /\ att'[m].pc \in Execute => dir'.files = {m}
    BY DEF FilesAreOwn
  <2>1. m = n
    <3>1. m # n => att[m].alone BY DEF Moves
    <3>2. m \in Nat /\ n \in Nat /\ m # 0 BY <1>0 DEF Attempts
    <3>3. m # n => att[n].pc \in Over \/ att[n].pc = "none"
      BY <3>1, <3>2 DEF HostInv, AloneStays, LatestHasLease
    <3> QED BY <3>3 DEF Over
  <2>2. att[n].alone BY <2>1 DEF Moves
  <2>w. att'[n].removal = att[n].removal => Whole BY DEF Whole, Moves
  <2>3. Whole => /\ att[n].pc \in {"fetch", "checkout"} => dir.files = {}
                 /\ att[n].pc \in Execute => dir.files = {n}
    BY <2>1, <2>2 DEF HostInv, FilesAreOwn
  <2> QED BY <2>1, <2>w, <2>3 DEF DirStep, Moves
<1>6. OwnContainer'
  <2> SUFFICES ASSUME NEW m \in Attempts, att'[m].pc \in {"start", "wait", "remove"}
               PROVE  container'.by = m
    BY DEF OwnContainer
  <2>1. m # 0 BY <1>0 DEF Attempts
  <2> QED BY <2>1 DEF HostInv, OwnContainer, ContainerStep, Moves
<1> QED BY <1>1, <1>2, <1>3, <1>o, <1>4, <1>5, <1>6 DEF HostInv

-----------------------------------------------------------------------------
(* Each step has that shape                                                    *)

\* docker.go, agent.go: a fault counts once.
LEMMA FaultsTyped ==
  ASSUME HostTypeOK, NoFault \/ \E kind : Fault(kind)
  PROVE  faults' \in 0..MaxFaults
  BY HostAssumption DEF HostTypeOK, NoFault, Fault

\* workspace.go, prepareWorkspace: every step, and every failure, keeps the invariant.
LEMMA CheckoutInv ==
  ASSUME HostInv, NEW n \in Attempts,
         \/ Mkdir(n) \/ GitInit(n) \/ RemoteAdd(n) \/ GitFetch(n) \/ GitCheckout(n)
         \/ CheckoutFails(n)
  PROVE  HostInv'
<1>t. HostTypeOK /\ att[n].pc \in Places BY DEF HostInv, HostTypeOK, Places
<1>f. /\ UNCHANGED <<lease, final, container>> /\ faults' \in 0..MaxFaults
      /\ att[n].pc \in Checkout
  BY <1>t, FaultsTyped DEF Mkdir, GitInit, RemoteAdd, GitFetch, GitCheckout, CheckoutFails,
                          GitFails, Checkout, control, machine
<1>g. att[n].pc \notin {"none", "done", "dead"} BY <1>f DEF Checkout
<1>d. dir \in [exists : BOOLEAN, remote : BOOLEAN, fetched : BOOLEAN, files : SUBSET Attempts]
  BY <1>t DEF HostTypeOK
<1>c. \A pc \in Checkout \cup {"undo", "image"} : ContainerStep(n, pc)
  BY <1>f DEF ContainerStep, Checkout
<1>p. Checkout \cup {"undo", "image"} \subseteq Places BY DEF Places, Execute
<1>i. Intact /\ \A pc \in Places : Moved(n, pc) =>
        Moves(n, pc) /\ att'[n].removal = att[n].removal /\ (Whole' <=> Whole)
  BY WholeStays DEF HostInv, Moved
<1>1. CASE Mkdir(n)
  <2>1. Moved(n, "init") BY <1>t, <1>1, MoveFacts DEF Mkdir, Goes, Places, Checkout
  <2>2. dir' = [dir EXCEPT !.exists = TRUE] BY <1>1 DEF Mkdir
  <2>3. RestTyped BY <2>2, <1>d, <1>t, <1>f DEF HostTypeOK, RestTyped
  <2>i. Intact' BY <1>i, <1>p, <1>d, <2>1, <2>2 DEF Intact, Checkout
  <2>4. DirStep(n, "init") BY DEF DirStep, Owing, Checkout, Execute
  <2> QED BY <2>1, <2>3, <2>4, <2>i, <1>f, <1>g, <1>c, <1>p, <1>i, AttemptKeeps DEF Checkout
<1>2. CASE GitInit(n)
  <2>1. Moved(n, "remote") BY <1>t, <1>2, MoveFacts DEF GitInit, Goes, Places, Checkout
  <2>2. UNCHANGED dir BY <1>2 DEF GitInit, machine
  <2>3. RestTyped BY <2>2, <1>t, <1>f DEF HostTypeOK, RestTyped
  <2>i. Intact' BY <1>i, <2>1, <2>2, WholeStays
  <2>4. DirStep(n, "remote") BY DEF DirStep, Owing, Checkout, Execute
  <2> QED BY <2>1, <2>3, <2>4, <2>i, <1>f, <1>g, <1>c, <1>p, <1>i, AttemptKeeps DEF Checkout
<1>3. CASE RemoteAdd(n)
  <2>1. Moved(n, "fetch") BY <1>t, <1>3, MoveFacts DEF RemoteAdd, Goes, Places, Checkout
  <2>2. dir' = [dir EXCEPT !.remote = TRUE] /\ ~dir.remote /\ dir.exists BY <1>3 DEF RemoteAdd
  <2>3. Whole => dir.files = {} BY <2>2, <1>i DEF Intact
  <2>4. dir'.files = dir.files /\ RestTyped
    BY <2>2, <1>d, <1>t, <1>f DEF HostTypeOK, RestTyped
  <2>i. Intact' BY <1>i, <1>p, <1>d, <2>1, <2>2 DEF Intact, Checkout
  <2>5. DirStep(n, "fetch") BY <1>i, <1>p, <2>1, <2>3, <2>4 DEF DirStep, Owing, Checkout, Execute
  <2> QED BY <2>1, <2>4, <2>5, <2>i, <1>f, <1>g, <1>c, <1>p, <1>i, AttemptKeeps DEF Checkout
<1>4. CASE GitFetch(n)
  <2>1. Moved(n, "checkout") BY <1>t, <1>4, MoveFacts DEF GitFetch, Goes, Places, Checkout
  <2>2. dir' = [dir EXCEPT !.fetched = TRUE] /\ dir.remote /\ att[n].pc = "fetch" BY <1>4 DEF GitFetch
  <2>3. dir'.files = dir.files /\ RestTyped
    BY <2>2, <1>d, <1>t, <1>f DEF HostTypeOK, RestTyped
  <2>i. Intact' BY <1>i, <1>p, <1>d, <2>1, <2>2 DEF Intact, Checkout
  <2>4. DirStep(n, "checkout")
    BY <1>i, <1>p, <2>1, <2>2, <2>3 DEF DirStep, Owing, Checkout, Execute
  <2> QED BY <2>1, <2>3, <2>4, <2>i, <1>f, <1>g, <1>c, <1>p, <1>i, AttemptKeeps DEF Checkout
<1>5. CASE GitCheckout(n)
  <2>1. Moved(n, "image") BY <1>t, <1>5, MoveFacts DEF GitCheckout, Goes, Places, Execute
  <2>2. dir' = [dir EXCEPT !.files = @ \cup {n}] /\ dir.fetched /\ att[n].pc = "checkout"
    BY <1>5 DEF GitCheckout
  <2>3. dir'.files = dir.files \cup {n} /\ RestTyped
    BY <2>2, <1>d, <1>t, <1>f DEF HostTypeOK, RestTyped
  <2>i. Intact' BY <1>i, <1>p, <1>d, <2>1, <2>2 DEF Intact
  <2>4. DirStep(n, "image") BY <1>i, <1>p, <2>1, <2>2, <2>3 DEF DirStep, Owing, Execute
  <2> QED BY <2>1, <2>3, <2>4, <2>i, <1>f, <1>g, <1>c, <1>p, <1>i, AttemptKeeps
<1>6. CASE CheckoutFails(n)
  <2>1. Moved(n, "undo") BY <1>t, <1>6, MoveFacts DEF CheckoutFails, Fails, Places
  <2>2. UNCHANGED dir BY <1>6 DEF CheckoutFails, machine
  <2>3. RestTyped BY <2>2, <1>t, <1>f DEF HostTypeOK, RestTyped
  <2>i. Intact' BY <1>i, <2>1, <2>2, WholeStays
  <2>4. DirStep(n, "undo") BY DEF DirStep, Owing, Execute
  <2> QED BY <2>1, <2>3, <2>4, <2>i, <1>f, <1>g, <1>c, <1>p, <1>i, AttemptKeeps
<1> QED BY <1>1, <1>2, <1>3, <1>4, <1>5, <1>6

\* docker.go, Execute: every step of it keeps the invariant, with the deadline, the
\* cancellation, the conflict over the name and the failed removal.
LEMMA ExecuteInv ==
  ASSUME HostInv, NEW n \in Attempts,
         \/ LeaseLost(n) \/ Expires(n) \/ SpecUnreadable(n) \/ EnsureImage(n) \/ CreateSent(n)
         \/ ContainerCreate(n) \/ CreateFails(n) \/ ContainerStart(n) \/ ContainerExits(n)
         \/ Stopped(n) \/ ContainerRemove(n)
  PROVE  HostInv'
<1>t. HostTypeOK /\ att[n].pc \in Places /\ n # 0 /\ n \in 0..MaxAttempts
  BY HostAssumption DEF HostInv, HostTypeOK, Places, Attempts
<1>f. /\ UNCHANGED <<lease, final, dir>> /\ faults' \in 0..MaxFaults
  BY <1>t, FaultsTyped
     DEF LeaseLost, Expires, SpecUnreadable, EnsureImage, CreateSent, ContainerCreate, CreateFails,
         ContainerStart, ContainerExits, Stopped, ContainerRemove, control, machine
<1>g. att[n].pc \in Checkout \cup Execute \cup {"undo", "remove"}
  BY DEF LeaseLost, Expires, SpecUnreadable, EnsureImage, CreateSent, ContainerCreate, CreateFails,
         ContainerStart, ContainerExits, Stopped, ContainerRemove, Execute
<1>h. att[n].pc \notin {"none", "done", "dead"} BY <1>g DEF Checkout, Execute
<1>d. container \in [by : 0..MaxAttempts, running : BOOLEAN]
  BY <1>t DEF HostTypeOK
<1>o. att[n].pc \in {"start", "wait", "remove"} => container.by = n BY DEF HostInv, OwnContainer
<1>r. container' \in [by : 0..MaxAttempts, running : BOOLEAN] => RestTyped
  BY <1>t, <1>f DEF HostTypeOK, RestTyped
<1>i. \A pc \in Places : Moved(n, pc) =>
        Moves(n, pc) /\ att'[n].removal = att[n].removal /\ Intact'
  BY <1>f, WholeStays DEF HostInv, Moved
<1>1. ASSUME NEW pc \in Execute \cup {"remove", "report", "clean"}, Moved(n, pc),
             att[n].pc \in Execute \cup {"remove"},
             pc \in Execute => att[n].pc \in Execute,
             container' \in [by : 0..MaxAttempts, running : BOOLEAN], ContainerStep(n, pc)
      PROVE  HostInv'
  <2>1. pc \in Places /\ pc # "none" BY DEF Places, Execute
  <2>2. DirStep(n, pc) BY <1>1, <2>1, <1>f, <1>i DEF DirStep, Owing, Execute
  <2> QED BY <1>1, <2>1, <2>2, <1>f, <1>h, <1>r, <1>i, AttemptKeeps
<1>2. CASE LeaseLost(n) \/ Expires(n)
  <2>1. Moved(n, att[n].pc) /\ UNCHANGED container
    BY <1>2, <1>t, MoveFacts DEF LeaseLost, Expires, machine
  <2>2. DirStep(n, att[n].pc)
    <3>1. att[n].pc \in Checkout \cup Execute \cup {"undo"} BY <1>2 DEF LeaseLost, Expires
    <3> QED BY <1>t, <1>f, <1>i, <2>1, <3>1 DEF DirStep, Owes, Owing, Checkout, Execute
  <2>3. ContainerStep(n, att[n].pc) BY <2>1, <1>o DEF ContainerStep
  <2> QED BY <2>1, <2>2, <2>3, <1>d, <1>t, <1>f, <1>h, <1>r, <1>i, AttemptKeeps
<1>3. CASE SpecUnreadable(n) \/ EnsureImage(n) \/ CreateSent(n)
  <2>1. PICK pc \in {"create", "creating", "report", "clean"} : Moved(n, pc)
    BY <1>3, <1>t, MoveFacts
       DEF SpecUnreadable, EnsureImage, CreateSent, EarlyError, Fails, Goes, Places, Execute
  <2>2. UNCHANGED container /\ att[n].pc \in Execute
    BY <1>3 DEF SpecUnreadable, EnsureImage, CreateSent, machine, Execute
  <2>3. ContainerStep(n, pc) BY <2>2 DEF ContainerStep
  <2> QED BY <1>1, <1>d, <2>1, <2>2, <2>3 DEF Execute
<1>4. CASE ContainerCreate(n)
  <2>1. Moved(n, "start") BY <1>4, <1>t, MoveFacts DEF ContainerCreate, Goes, Places, Execute
  <2>2. /\ container = NoContainer /\ container' = [by |-> n, running |-> FALSE]
        /\ att[n].pc \in Execute
    BY <1>4 DEF ContainerCreate, Execute
  <2>3. container.by = 0 /\ container'.by = n BY <2>2 DEF NoContainer
  <2>4. container' \in [by : 0..MaxAttempts, running : BOOLEAN] BY <2>2, <1>t
  <2>5. ContainerStep(n, "start") BY <2>3 DEF ContainerStep
  <2> QED BY <1>1, <2>1, <2>2, <2>4, <2>5 DEF Execute
<1>5. CASE CreateFails(n)
  <2>1. PICK pc \in {"report", "clean"} : Moved(n, pc)
    BY <1>5, <1>t, MoveFacts DEF CreateFails, EarlyError, Fails, Places
  <2>2. /\ att[n].pc \in Execute
        /\ \/ UNCHANGED container
           \/ container = NoContainer /\ container' = [by |-> n, running |-> FALSE]
    BY <1>5 DEF CreateFails, Execute
  <2>3. container'.by = container.by \/ container.by = 0 BY <2>2 DEF NoContainer
  <2>4. container' \in [by : 0..MaxAttempts, running : BOOLEAN]
    <3>1. [by |-> n, running |-> FALSE] \in [by : 0..MaxAttempts, running : BOOLEAN] BY <1>t
    <3> QED BY <2>2, <3>1, <1>d
  <2>5. ContainerStep(n, pc) BY <2>3 DEF ContainerStep
  <2> QED BY <1>1, <2>1, <2>2, <2>4, <2>5 DEF Execute
<1>6. CASE ContainerStart(n) \/ ContainerExits(n) \/ Stopped(n)
  <2>1. PICK pc \in {"wait", "remove"} : Moved(n, pc)
    BY <1>6, <1>t, MoveFacts DEF ContainerStart, ContainerExits, Stopped, Goes, Places, Execute
  <2>2. /\ att[n].pc \in {"start", "wait"}
        /\ \/ UNCHANGED container
           \/ container' = [container EXCEPT !.running = TRUE]
           \/ container' = [container EXCEPT !.running = FALSE]
    BY <1>6 DEF ContainerStart, ContainerExits, Stopped, machine
  <2>3. container'.by = container.by /\ container' \in [by : 0..MaxAttempts, running : BOOLEAN]
    BY <2>2, <1>d
  <2>4. ContainerStep(n, pc) BY <2>2, <2>3, <1>o DEF ContainerStep
  <2> QED BY <1>1, <2>1, <2>2, <2>3, <2>4 DEF Execute
<1>7. CASE ContainerRemove(n)
  <2>1. PICK pc \in {"report", "clean"} : Moved(n, pc)
    BY <1>7, <1>t, MoveFacts DEF ContainerRemove, Goes, Places
  <2>2. /\ att[n].pc = "remove"
        /\ UNCHANGED container \/ (container.by = n /\ container' = NoContainer)
    BY <1>7 DEF ContainerRemove
  <2>3. container' \in [by : 0..MaxAttempts, running : BOOLEAN]
    <3>1. NoContainer \in [by : 0..MaxAttempts, running : BOOLEAN]
      BY HostAssumption DEF NoContainer
    <3> QED BY <2>2, <3>1, <1>d
  <2>4. ContainerStep(n, pc) BY <2>2 DEF ContainerStep
  <2> QED BY <1>1, <2>1, <2>2, <2>3, <2>4 DEF Execute
<1> QED BY <1>2, <1>3, <1>4, <1>5, <1>6, <1>7

\* agent.go, execute: its report, and the death of an agent, keep the invariant.
LEMMA EndInv ==
  ASSUME HostInv, NEW n \in Attempts, Report(n) \/ AgentDies(n)
  PROVE  HostInv'
<1>t. HostTypeOK /\ att[n].pc \in Places BY DEF HostInv, HostTypeOK, Places
<1>f. UNCHANGED <<lease, dir, container>> /\ faults' \in 0..MaxFaults
  BY <1>t, FaultsTyped DEF Report, AgentDies, control, machine
<1>g. att[n].pc \notin {"none", "done", "dead"} BY DEF Report, AgentDies
<1>c. \A pc \in {"clean", "done", "dead"} : ContainerStep(n, pc) BY <1>f DEF ContainerStep
<1>i. \A pc \in Places : Moved(n, pc) =>
        Moves(n, pc) /\ att'[n].removal = att[n].removal /\ Intact'
  BY <1>f, WholeStays DEF HostInv, Moved
<1>1. CASE Report(n)
  <2>1. PICK pc \in {"clean", "done"} : Moved(n, pc) /\ (pc = "done" => att[n].pc = "fail")
    BY <1>1, <1>t, MoveFacts DEF Report, Goes, Places
  <2>2. final' \in {final, att[n].result} BY <1>1 DEF Report
  <2>3. RestTyped BY <2>2, <1>t, <1>f, <1>1 DEF RestTyped, HostTypeOK, Report
  <2>4. DirStep(n, pc)
    BY <1>f, <1>i, <2>1 DEF DirStep, Owes, Owing, Checkout, Execute, Places
  <2> QED BY <2>1, <2>3, <2>4, <1>c, <1>f, <1>g, <1>i, AttemptKeeps DEF Places
<1>2. CASE AgentDies(n)
  <2>1. Moved(n, "dead") BY <1>2, <1>t, MoveFacts DEF AgentDies, Goes, Places
  <2>2. UNCHANGED final BY <1>2 DEF AgentDies, control
  <2>3. RestTyped BY <2>2, <1>t, <1>f DEF RestTyped, HostTypeOK
  <2>4. DirStep(n, "dead") BY DEF DirStep, Owing, Execute
  <2> QED BY <2>1, <2>3, <2>4, <1>c, <1>f, <1>g, <1>i, AttemptKeeps DEF Places
<1> QED BY <1>1, <1>2

\* agent.go, execute; workspace.go: what is left of a directory is a directory with
\* no more in it.
LEMMA RemainsTyped ==
  ASSUME HostTypeOK, NEW d \in Remains(dir)
  PROVE  /\ d \in [exists : BOOLEAN, remote : BOOLEAN, fetched : BOOLEAN, files : SUBSET Attempts]
         /\ d.exists
<1>1. PICK rem \in {dir.remote, FALSE}, fet \in {dir.fetched, FALSE}, fs \in SUBSET dir.files :
        d = [exists |-> TRUE, remote |-> rem, fetched |-> fet, files |-> fs]
  BY DEF Remains
<1>2. dir \in [exists : BOOLEAN, remote : BOOLEAN, fetched : BOOLEAN, files : SUBSET Attempts]
  BY DEF HostTypeOK
<1>3. dir.remote \in BOOLEAN /\ dir.fetched \in BOOLEAN /\ dir.files \subseteq Attempts BY <1>2
<1>4. rem \in BOOLEAN /\ fet \in BOOLEAN /\ fs \in SUBSET Attempts BY <1>1, <1>3
<1> QED BY <1>1, <1>4

\* agent.go, execute; workspace.go: how os.RemoveAll moves the attempt that calls it.
LEMMA RemovalMoves ==
  ASSUME HostTypeOK, NEW n \in Attempts, NEW pc \in Places, NEW r \in {"none", "kept", "part"}
  PROVE  /\ att' = [att EXCEPT ![n].removal = r] => Moves(n, att[n].pc) /\ att'[n].removal = r
         /\ att' = [att EXCEPT ![n].pc = pc, ![n].removal = r] => Moves(n, pc) /\ att'[n].removal = r
<1>0. att \in [Attempts -> Att] /\ att[n] \in Att BY DEF HostTypeOK, Att, Places
<1>1. ASSUME NEW k \in Att, k.alone = att[n].alone, att' = [att EXCEPT ![n] = k]
      PROVE  Moves(n, k.pc) /\ att'[n] = k
  BY <1>0, <1>1 DEF Moves
<1>2. ASSUME att' = [att EXCEPT ![n].removal = r]
      PROVE  Moves(n, att[n].pc) /\ att'[n].removal = r
  <2> DEFINE k == [att[n] EXCEPT !.removal = r]
  <2>1. k \in Att /\ k.alone = att[n].alone /\ k.removal = r /\ k.pc = att[n].pc BY <1>0 DEF Att
  <2>2. att' = [att EXCEPT ![n] = k] BY <1>2
  <2> HIDE DEF k
  <2> QED BY <1>1, <2>1, <2>2
<1>3. ASSUME att' = [att EXCEPT ![n].pc = pc, ![n].removal = r]
      PROVE  Moves(n, pc) /\ att'[n].removal = r
  <2> DEFINE k == [att[n] EXCEPT !.pc = pc, !.removal = r]
  <2>1. k \in Att /\ k.alone = att[n].alone /\ k.removal = r /\ k.pc = pc BY <1>0 DEF Att
  <2>2. att' = [att EXCEPT ![n] = k] BY <1>3, <1>0
  <2> HIDE DEF k
  <2> QED BY <1>1, <2>1, <2>2
<1> QED BY <1>2, <1>3

\* agent.go, execute; workspace.go: os.RemoveAll keeps the invariant on its way, when
\* it is done and when it gives up; whatever it leaves is on record as its own.
LEMMA RemovalInv ==
  ASSUME HostInv, NEW n \in Attempts, RemoveSome(n) \/ UndoCheckout(n) \/ Clean(n)
  PROVE  HostInv'
<1>t. HostTypeOK /\ att[n].pc \in Places /\ att[n].removal \in {"none", "kept", "part"}
  BY DEF HostInv, HostTypeOK, Places
<1>f. UNCHANGED <<lease, final, container>> /\ faults' \in 0..MaxFaults
  BY <1>t, FaultsTyped DEF RemoveSome, UndoCheckout, Clean, RemoveAll, control
<1>g. att[n].pc \in {"undo", "clean"} BY DEF RemoveSome, UndoCheckout, Clean
<1>c. \A pc \in {"undo", "clean", "fail", "done"} : pc \in Places /\ ContainerStep(n, pc)
  BY <1>f DEF ContainerStep, Places
<1>1. CASE RemoveSome(n)
  <2>1. Moves(n, att[n].pc) /\ att'[n].removal = "part"
    BY <1>1, <1>t, RemovalMoves DEF RemoveSome
  <2>2. dir' \in Remains(dir) BY <1>1 DEF RemoveSome
  <2>3. RestTyped
    BY <2>2, <1>t, <1>f, RemainsTyped DEF RestTyped, HostTypeOK
  <2>i. Intact' BY <2>1 DEF Intact, Whole
  <2>4. DirStep(n, att[n].pc) BY <1>g, <2>1 DEF DirStep, Owing, Execute
  <2> QED BY <2>1, <2>3, <2>4, <2>i, <1>c, <1>f, <1>g, AttemptKeeps
<1>2. ASSUME NEW pc \in {"fail", "done"}, RemoveAll(n, pc) PROVE HostInv'
  <2>p. pc \in Places BY <1>c
  <2>1. CASE dir' = NoDir /\ att' = [att EXCEPT ![n].pc = pc, ![n].removal = "none"]
    <3>1. Moves(n, pc) BY <2>1, <2>p, <1>t, RemovalMoves
    <3>2. ~dir'.exists /\ dir'.files = {} /\ ~dir'.fetched /\ RestTyped
      BY <2>1, <1>t, <1>f DEF NoDir, RestTyped, HostTypeOK
    <3>i. Intact' BY <3>2 DEF Intact
    <3>4. DirStep(n, pc) BY <1>2, <3>2 DEF DirStep, Execute
    <3> QED BY <1>2, <3>1, <3>2, <3>4, <3>i, <1>c, <1>f, <1>g, <2>p, AttemptKeeps
  <2>2. ASSUME UNCHANGED dir,
               att' = [att EXCEPT ![n].pc = pc,
                                  ![n].removal = IF att[n].removal = "part"
                                                   THEN att[n].removal ELSE "kept"]
        PROVE  HostInv'
    <3> DEFINE r == IF att[n].removal = "part" THEN att[n].removal ELSE "kept"
    <3>0. r \in {"none", "kept", "part"} /\ r # "none" /\ (r = "part" <=> att[n].removal = "part")
      OBVIOUS
    <3>u. att' = [att EXCEPT ![n].pc = pc, ![n].removal = r] BY <2>2
    <3> HIDE DEF r
    <3>1. Moves(n, pc) /\ att'[n].removal = r BY <3>u, <3>0, <2>p, <1>t, RemovalMoves
    <3>w. Whole' => Whole BY <3>0, <3>1 DEF Whole, Moves
    <3>2. RestTyped BY <2>2, <1>t, <1>f DEF RestTyped, HostTypeOK
    <3>i. Intact' BY <2>2, <3>w DEF HostInv, Intact
    <3>4. DirStep(n, pc) BY <1>2, <3>0, <3>1 DEF DirStep, Execute
    <3> QED BY <1>2, <3>1, <3>2, <3>4, <3>i, <1>c, <1>f, <1>g, <2>p, AttemptKeeps
  <2> QED BY <1>2, <2>1, <2>2 DEF RemoveAll
<1> QED BY <1>1, <1>2 DEF UndoCheckout, Clean

\* scheduler, reaper and user: what the control plane does to the job keeps the
\* invariant; a new attempt begins only when no other holds the lease.
LEMMA ControlInv ==
  ASSUME HostInv, TakenBack \/ Cancelled \/ \E n \in Attempts : Receive(n)
  PROVE  HostInv'
<1>t. HostTypeOK BY DEF HostInv
<1>f. faults' \in 0..MaxFaults BY <1>t, FaultsTyped DEF TakenBack, Cancelled, Receive
<1>1. CASE TakenBack
  <2>1. lease' = 0 /\ UNCHANGED <<final, att, dir, container>> BY <1>1 DEF TakenBack, machine
  <2>2. HostTypeOK' BY <2>1, <1>f, <1>t, HostAssumption DEF HostTypeOK
  <2>3. FilesAreOwn' BY <2>1, HostAssumption DEF FilesAreOwn, Attempts
  <2> QED BY <2>1, <2>2, <2>3 DEF HostInv, DirIsOwed, Owes, Intact, Whole, InOrder, LatestHasLease, AloneStays, OwnContainer
<1>2. CASE Cancelled
  <2>1. final' = "CANCELLED" /\ UNCHANGED <<lease, att, dir, container>>
    BY <1>2 DEF Cancelled, machine
  <2>2. HostTypeOK' BY <2>1, <1>f, <1>t DEF HostTypeOK
  <2> QED BY <2>1, <2>2 DEF HostInv, DirIsOwed, Owes, Intact, Whole, InOrder, LatestHasLease, AloneStays, OwnContainer,
                               FilesAreOwn
<1>3. ASSUME NEW n \in Attempts, Receive(n) PROVE HostInv'
  <2> DEFINE alone == \A m \in Attempts : m < n => att[m].pc \in {"done", "dead"}
             k == [att[n] EXCEPT !.pc = "mkdir", !.alone = alone]
  <2>1. /\ lease' = n /\ UNCHANGED <<final, dir, container>>
        /\ lease = 0 /\ att[n].pc = "none"
        /\ \A m \in Attempts : m < n => att[m].pc # "none"
        /\ att' = [att EXCEPT ![n].pc = "mkdir", ![n].alone = alone]
    BY <1>3 DEF Receive, machine
  <2>2. att \in [Attempts -> Att] /\ att[n] \in Att BY <1>t DEF HostTypeOK, Att, Places
  <2>3. alone \in BOOLEAN OBVIOUS
  <2> HIDE DEF alone
  <2>4. k \in Att /\ k.pc = "mkdir" /\ k.alone = alone /\ k.removal = att[n].removal
    BY <2>2, <2>3 DEF Att, Places, Checkout
  <2>5. att' = [att EXCEPT ![n] = k] BY <2>1, <2>2
  <2> HIDE DEF k
  <2>6. /\ att' \in [Attempts -> Att] /\ att'[n].pc = "mkdir" /\ att'[n].alone = alone
        /\ att'[n].removal = att[n].removal
        /\ \A m \in Attempts : m # n => att'[m] = att[m]
    BY <2>2, <2>4, <2>5
  <2>n. n \in Nat /\ n # 0 /\ n \in 0..MaxAttempts /\ Attempts \subseteq Nat
    BY HostAssumption DEF Attempts
  <2>7. HostTypeOK' BY <2>1, <2>6, <2>n, <1>t, <1>f DEF HostTypeOK, Att, Places
  <2>8. DirIsOwed'
    BY <2>1, <2>6 DEF HostInv, DirIsOwed, Owes, Owing, Checkout, Execute
  <2>i. Intact' BY <2>1, <2>6 DEF HostInv, Intact, Whole
  <2>9. LatestHasLease'
    <3>1. ASSUME NEW m \in Attempts, m > n PROVE att'[m].pc = "none"
      BY <3>1, <2>1, <2>6, <2>n DEF HostInv, InOrder
    <3> QED BY <3>1, <2>1, <2>6 DEF LatestHasLease
  <2>o. InOrder' BY <2>1, <2>6, <2>n DEF HostInv, InOrder
  <2>10. AloneStays'
    BY <2>1, <2>6, <2>n DEF HostInv, AloneStays, Over, alone
  <2>11. FilesAreOwn'
    BY <2>1, <2>6 DEF FilesAreOwn, Execute
  <2>12. OwnContainer' BY <2>1, <2>6 DEF HostInv, OwnContainer
  <2> QED BY <2>7, <2>8, <2>i, <2>9, <2>o, <2>10, <2>11, <2>12 DEF HostInv
<1> QED BY <1>1, <1>2, <1>3

\* agent.go, workspace.go, docker.go: the invariant holds at all times.
LEMMA HostInvariance == HostSpec => []HostInv
<1>1. HostInit => HostInv
  <2> SUFFICES ASSUME HostInit PROVE HostInv OBVIOUS
  <2>1. /\ lease = 0 /\ final = "none" /\ dir = NoDir /\ container = NoContainer /\ faults = 0
        /\ att \in [Attempts -> Att] /\ \A n \in Attempts : att[n].pc = "none" /\ ~att[n].alone
    BY DEF HostInit, Att, Places
  <2>2. /\ dir \in [exists : BOOLEAN, remote : BOOLEAN, fetched : BOOLEAN, files : SUBSET Attempts]
        /\ ~dir.exists /\ ~dir.remote /\ ~dir.fetched /\ dir.files = {}
    BY <2>1 DEF NoDir
  <2>3. container \in [by : 0..MaxAttempts, running : BOOLEAN]
    BY <2>1, HostAssumption DEF NoContainer
  <2>4. HostTypeOK BY <2>1, <2>2, <2>3, HostAssumption DEF HostTypeOK, Att, Places
  <2> QED BY <2>1, <2>2, <2>4
          DEF HostInv, DirIsOwed, Intact, InOrder, LatestHasLease, AloneStays, FilesAreOwn, OwnContainer
<1>2. HostInv /\ [HostNext]_hostVars => HostInv'
  <2> SUFFICES ASSUME HostInv, [HostNext]_hostVars PROVE HostInv' OBVIOUS
  <2>1. CASE UNCHANGED hostVars
    BY <2>1 DEF hostVars, HostInv, HostTypeOK, DirIsOwed, Owes, Intact, Whole, InOrder, LatestHasLease, AloneStays, FilesAreOwn,
                OwnContainer
  <2> QED BY <2>1, CheckoutInv, ExecuteInv, EndInv, RemovalInv, ControlInv DEF HostNext, Step
<1> QED BY <1>1, <1>2, PTL DEF HostSpec

\* docker.go, Execute: from its creation to its removal the container that an attempt
\* waits for is its own, for any number of attempts that share its name.
THEOREM OwnContainerAlways == HostSpec => []OwnContainer
<1>1. HostInv => OwnContainer BY DEF HostInv
<1> QED BY <1>1, HostInvariance, PTL

\* agent.go, execute; workspace.go: when every attempt has returned, on whichever
\* path, the directory is gone, unless the os.RemoveAll of one of them returned an error.
THEOREM DirectoryIsRemoved == HostSpec => []NoDirectoryLeft
<1>1. HostInv => NoDirectoryLeft
  BY DEF HostInv, DirIsOwed, Owes, NoDirectoryLeft, Owing, Checkout, Execute
<1> QED BY <1>1, HostInvariance, PTL

\* workspace.go: an attempt that begins when all earlier ones are over builds with its own
\* files and none of theirs, whatever a dead agent or a refused removal left behind, unless
\* a removal stopped half way.
THEOREM NothingCarriedOver == HostSpec => []NoStateCarriedOver
<1>1. HostInv => NoStateCarriedOver
  BY DEF HostInv, FilesAreOwn, NoStateCarriedOver, Builds, Whole
<1> QED BY <1>1, HostInvariance, PTL

-----------------------------------------------------------------------------
(* Without a wrong guess of the reaper nobody removes the directory of another *)

Settled == {"none", "done", "dead"}
NeedsDir == (Checkout \ {"mkdir"}) \cup Execute

\* Only the attempt that holds the job is at work, and has its directory.
HolderOnly ==
  \A n \in Attempts : /\ att[n].pc \notin Settled => lease = n
                      /\ att[n].pc \in NeedsDir => dir.exists

\* agent.go, execute: a step of the attempt at work, as far as the directory goes.
LEMMA WorkKeeps ==
  ASSUME HolderOnly, NEW n \in Attempts, NEW pc, Moves(n, pc), att[n].pc \notin Settled,
         UNCHANGED lease, pc \in NeedsDir => dir'.exists
  PROVE  HolderOnly'
<1>1. \A m \in Attempts : m # n => att'[m].pc \in Settled
  BY DEF HolderOnly, Moves
<1>2. lease = n BY DEF HolderOnly
<1>3. \A pc2 \in Settled : pc2 \notin NeedsDir BY DEF Settled, NeedsDir, Checkout, Execute
<1> QED BY <1>1, <1>2, <1>3 DEF HolderOnly, Moves

\* workspace.go, docker.go, agent.go: every step, when only dead agents lose their jobs.
LEMMA StepHolder ==
  ASSUME "silence" \notin FaultKinds, HostInv, HolderOnly, HostNext
  PROVE  HolderOnly'
<1>t. HostTypeOK BY DEF HostInv
<1>d. dir \in [exists : BOOLEAN, remote : BOOLEAN, fetched : BOOLEAN, files : SUBSET Attempts]
  BY <1>t DEF HostTypeOK
<1>1. CASE TakenBack
  <2>1. lease' = 0 /\ UNCHANGED <<att, dir>> /\ lease # 0 /\ att[lease].pc = "dead"
    BY <1>1 DEF TakenBack, machine, Fault
  <2>2. \A n \in Attempts : att[n].pc \in Settled BY <2>1 DEF HolderOnly, Settled
  <2> QED BY <2>1, <2>2 DEF HolderOnly
<1>2. CASE Cancelled
  BY <1>2 DEF Cancelled, machine, HolderOnly
<1>3. ASSUME NEW n \in Attempts, Receive(n) PROVE HolderOnly'
  <2>1. /\ lease = 0 /\ lease' = n /\ UNCHANGED dir
        /\ att' = [att EXCEPT ![n].pc = "mkdir",
                     ![n].alone = \A m \in Attempts : m < n => att[m].pc \in {"done", "dead"}]
    BY <1>3 DEF Receive, machine
  <2>2. att \in [Attempts -> Att] /\ 0 \notin Attempts
    BY <1>t, HostAssumption DEF HostTypeOK, Att, Places, Attempts
  <2>3. att'[n].pc = "mkdir" /\ \A m \in Attempts : m # n => att'[m] = att[m]
    BY <2>1, <2>2 DEF Att
  <2>4. \A m \in Attempts : att[m].pc \in Settled BY <2>1, <2>2 DEF HolderOnly
  <2>5. \A pc \in Settled \cup {"mkdir"} : pc \notin NeedsDir
    BY DEF Settled, NeedsDir, Checkout, Execute
  <2> QED BY <2>1, <2>3, <2>4, <2>5 DEF HolderOnly
<1>4. ASSUME NEW n \in Attempts, LeaseLost(n) \/ Expires(n) PROVE HolderOnly'
  <2>1. Moved(n, att[n].pc) /\ UNCHANGED <<lease, dir>> /\ att[n].pc \notin Settled
    BY <1>4, <1>t, MoveFacts
       DEF LeaseLost, Expires, control, machine, HostTypeOK, Places, Settled, Checkout, Execute
  <2>2. att[n].pc \in NeedsDir => dir'.exists BY <2>1 DEF HolderOnly
  <2> QED BY <2>1, <2>2, WorkKeeps DEF Moved
<1>5. ASSUME NEW n \in Attempts,
             Mkdir(n) \/ GitInit(n) \/ RemoteAdd(n) \/ GitFetch(n) \/ GitCheckout(n)
      PROVE  HolderOnly'
  <2>1. PICK pc \in {"init", "remote", "fetch", "checkout", "image"} : Moved(n, pc)
    BY <1>5, <1>t, MoveFacts
       DEF Mkdir, GitInit, RemoteAdd, GitFetch, GitCheckout, Goes, Places, Checkout, Execute
  <2>2. UNCHANGED lease /\ att[n].pc \in Checkout
    BY <1>5 DEF Mkdir, GitInit, RemoteAdd, GitFetch, GitCheckout, control, Checkout
  <2>3. dir'.exists
    <3>1. Mkdir(n) \/ dir.exists
      BY <1>5, <1>t DEF GitInit, RemoteAdd, GitFetch, GitCheckout, HostTypeOK
    <3> QED BY <1>5, <1>d, <3>1 DEF Mkdir, GitInit, RemoteAdd, GitFetch, GitCheckout, machine
  <2>4. att[n].pc \notin Settled BY <2>2 DEF Checkout, Settled
  <2> QED BY <2>1, <2>2, <2>3, <2>4, WorkKeeps DEF Moved
<1>6. ASSUME NEW n \in Attempts, CheckoutFails(n) \/ Report(n) \/ AgentDies(n)
      PROVE  HolderOnly'
  <2>1. PICK pc \in {"undo", "clean", "done", "dead"} : Moved(n, pc)
    BY <1>6, <1>t, MoveFacts DEF CheckoutFails, Fails, Report, AgentDies, Goes, Places
  <2>2. UNCHANGED lease /\ att[n].pc \notin Settled
    BY <1>6 DEF CheckoutFails, GitFails, Report, AgentDies, control, Checkout, Settled
  <2>3. pc \notin NeedsDir BY <2>1 DEF NeedsDir, Checkout, Execute
  <2> QED BY <2>1, <2>2, <2>3, WorkKeeps DEF Moved
<1>7. ASSUME NEW n \in Attempts,
             \/ SpecUnreadable(n) \/ EnsureImage(n) \/ CreateSent(n) \/ ContainerCreate(n)
             \/ CreateFails(n) \/ ContainerStart(n) \/ ContainerExits(n) \/ Stopped(n)
             \/ ContainerRemove(n)
      PROVE  HolderOnly'
  <2>1. PICK pc \in {"create", "creating", "start", "wait", "remove", "report", "clean"} : Moved(n, pc)
    <3>1. CASE SpecUnreadable(n) \/ EnsureImage(n) \/ CreateSent(n) \/ CreateFails(n)
      BY <3>1, <1>t, MoveFacts
         DEF SpecUnreadable, EnsureImage, CreateSent, CreateFails, EarlyError, Fails, Goes, Places, Execute
    <3>2. CASE ContainerCreate(n) \/ ContainerStart(n) \/ ContainerExits(n) \/ Stopped(n)
                 \/ ContainerRemove(n)
      BY <3>2, <1>t, MoveFacts
         DEF ContainerCreate, ContainerStart, ContainerExits, Stopped, ContainerRemove, Goes, Places, Execute
    <3> QED BY <1>7, <3>1, <3>2
  <2>2. /\ UNCHANGED <<lease, dir>> /\ att[n].pc \in Execute \cup {"remove"}
        /\ att[n].pc = "remove" => ContainerRemove(n)
    BY <1>7 DEF SpecUnreadable, EnsureImage, CreateSent, ContainerCreate, CreateFails, ContainerStart,
                ContainerExits, Stopped, ContainerRemove, control, machine, Execute
  <2>3. att[n].pc \notin Settled BY <2>2 DEF Settled, Execute
  <2>4. pc \in NeedsDir => dir'.exists
    <3>1. att[n].pc \in Execute => dir.exists BY DEF HolderOnly, NeedsDir
    <3>2. CASE ContainerRemove(n)
      <4>1. PICK pc2 \in {"report", "clean"} : Moved(n, pc2)
        BY <3>2, <1>t, MoveFacts DEF ContainerRemove, Goes, Places
      <4> QED BY <2>1, <4>1 DEF Moved, Moves, NeedsDir, Checkout, Execute
    <3> QED BY <2>2, <3>1, <3>2
  <2> QED BY <2>1, <2>2, <2>3, <2>4, WorkKeeps DEF Moved
<1>8. ASSUME NEW n \in Attempts, RemoveSome(n) \/ UndoCheckout(n) \/ Clean(n)
      PROVE  HolderOnly'
  <2>0. att[n].removal \in {"none", "kept", "part"} BY <1>t DEF HostTypeOK
  <2>1. PICK pc \in {"undo", "clean", "fail", "done"} : Moves(n, pc)
    <3>1. CASE RemoveSome(n) BY <3>1, <1>t, RemovalMoves DEF RemoveSome, Places
    <3>2. ASSUME NEW pc \in {"fail", "done"}, RemoveAll(n, pc) PROVE Moves(n, pc)
      BY <3>2, <2>0, <1>t, RemovalMoves DEF RemoveAll, Places
    <3> QED BY <1>8, <3>1, <3>2 DEF UndoCheckout, Clean
  <2>2. UNCHANGED lease /\ att[n].pc \notin Settled
    BY <1>8 DEF RemoveSome, UndoCheckout, Clean, RemoveAll, control, Settled
  <2>3. pc \notin NeedsDir BY <2>1 DEF NeedsDir, Checkout, Execute
  <2> QED BY <2>1, <2>2, <2>3, WorkKeeps
<1> QED BY <1>1, <1>2, <1>3, <1>4, <1>5, <1>6, <1>7, <1>8 DEF HostNext, Step

\* docs/security.md; agent.go, execute: the directory of the attempt that holds the job stays
\* until that attempt removes it, for any number of attempts and of deaths, when no
\* live agent is taken for a dead one.
THEOREM WorkspaceIsKept ==
  ASSUME "silence" \notin FaultKinds
  PROVE  HostSpec => []WorkspaceStays
<1>1. HostInit => HolderOnly
  <2> SUFFICES ASSUME HostInit PROVE HolderOnly OBVIOUS
  <2>1. \A n \in Attempts : att[n].pc = "none" BY DEF HostInit
  <2> QED BY <2>1 DEF HolderOnly, Settled, NeedsDir, Checkout, Execute
<1>2. HostInv /\ HolderOnly /\ [HostNext]_hostVars => HolderOnly'
  <2> SUFFICES ASSUME HostInv, HolderOnly, [HostNext]_hostVars PROVE HolderOnly' OBVIOUS
  <2>1. CASE UNCHANGED hostVars BY <2>1 DEF hostVars, HolderOnly
  <2> QED BY <2>1, StepHolder
<1>3. HolderOnly => WorkspaceStays BY DEF HolderOnly, WorkspaceStays, NeedsDir
<1> QED BY <1>1, <1>2, <1>3, HostInvariance, PTL DEF HostSpec
=============================================================================

--------------------------- MODULE ForgeRunProofs ---------------------------
(* ForgeRun, for any number of jobs and runners and any faults.                *)
EXTENDS ForgeRun, StoreProofs, SequenceTheorems, WellFoundedInduction

-----------------------------------------------------------------------------
(* The lists of Redis *)

\* redis.go, LPUSH: the list gains the new id and keeps the others.
LEMMA ConsFacts ==
  ASSUME NEW S, NEW e \in S, NEW s \in Seq(S)
  PROVE  Cons(e, s) \in Seq(S) /\ ToSet(Cons(e, s)) = {e} \cup ToSet(s)
<1> DEFINE t == Cons(e, s)
<1>1. <<e>> \in Seq(S) /\ Len(<<e>>) = 1 /\ <<e>>[1] = e
  OBVIOUS
<1>2. Len(s) \in Nat /\ DOMAIN s = 1..Len(s)
  BY LenProperties
<1>3. /\ t \in Seq(S) /\ Len(t) = 1 + Len(s)
      /\ \A i \in 1..(1 + Len(s)) : t[i] = IF i <= 1 THEN <<e>>[i] ELSE s[i - 1]
  BY <1>1, ConcatProperties DEF Cons
<1>4. DOMAIN t = 1..(1 + Len(s))
  BY <1>3, LenProperties
<1> HIDE DEF t
<1>5. t[1] = e /\ \A i \in 1..Len(s) : t[i + 1] = s[i]
  BY <1>1, <1>2, <1>3
<1>6. ToSet(t) \subseteq {e} \cup ToSet(s)
  <2> SUFFICES ASSUME NEW i \in 1..(1 + Len(s)), i # 1 PROVE t[i] \in ToSet(s)
      BY <1>4, <1>5 DEF ToSet
  <2>1. i - 1 \in 1..Len(s) /\ t[i] = s[i - 1]
    BY <1>2, <1>3
  <2> QED BY <1>2, <2>1 DEF ToSet
<1>7. {e} \cup ToSet(s) \subseteq ToSet(t)
  <2>1. 1 \in DOMAIN t /\ \A i \in 1..Len(s) : i + 1 \in DOMAIN t
    BY <1>2, <1>4
  <2> QED BY <1>2, <1>5, <2>1 DEF ToSet
<1> QED BY <1>3, <1>6, <1>7 DEF t

\* redis.go, LMOVE and BRPOP take an id from the right end: the list is that id and
\* the rest.
LEMMA FrontFacts ==
  ASSUME NEW S, NEW s \in Seq(S), s # <<>>
  PROVE  /\ Front(s) \in Seq(S) /\ Last(s) \in S
         /\ ToSet(s) = ToSet(Front(s)) \cup {Last(s)}
<1>1. Len(s) \in Nat \ {0} /\ DOMAIN s = 1..Len(s) /\ \A i \in 1..Len(s) : s[i] \in S
  BY EmptySeq, LenProperties, ElementOfSeq
<1>2. /\ Front(s) \in Seq(S) /\ Len(Front(s)) = Len(s) - 1
      /\ \A i \in 1..(Len(s) - 1) : Front(s)[i] = s[i]
  BY <1>1, SubSeqProperties DEF Front
<1>3. DOMAIN Front(s) = 1..(Len(s) - 1)
  BY <1>2, LenProperties
<1>4. 1..Len(s) = 1..(Len(s) - 1) \cup {Len(s)}
  BY <1>1
<1> QED BY <1>1, <1>2, <1>3, <1>4 DEF ToSet, Last

\* redis.go, Recover goes through the ids of LRANGE from the left: they are the first
\* and the rest.
LEMMA TailFacts ==
  ASSUME NEW S, NEW s \in Seq(S), s # <<>>
  PROVE  /\ Head(s) \in S /\ Tail(s) \in Seq(S)
         /\ ToSet(s) = {Head(s)} \cup ToSet(Tail(s))
<1>1. /\ Head(s) \in S /\ Tail(s) \in Seq(S) /\ Len(Tail(s)) = Len(s) - 1
      /\ \A i \in 1..(Len(s) - 1) : Tail(s)[i] = s[i + 1]
  BY HeadTailProperties
<1>2. Len(s) \in Nat \ {0} /\ DOMAIN s = 1..Len(s) /\ Head(s) = s[1]
  BY EmptySeq, LenProperties
<1>3. DOMAIN Tail(s) = 1..(Len(s) - 1)
  BY <1>1, LenProperties
<1>4. ToSet(s) \subseteq {Head(s)} \cup ToSet(Tail(s))
  <2> SUFFICES ASSUME NEW i \in 1..Len(s), i # 1 PROVE s[i] \in ToSet(Tail(s))
      BY <1>2 DEF ToSet
  <2>1. i - 1 \in 1..(Len(s) - 1) /\ Tail(s)[i - 1] = s[i]
    BY <1>1, <1>2
  <2> QED BY <1>3, <2>1 DEF ToSet
<1>5. {Head(s)} \cup ToSet(Tail(s)) \subseteq ToSet(s)
  <2>1. 1 \in DOMAIN s /\ \A i \in 1..(Len(s) - 1) : i + 1 \in DOMAIN s
    BY <1>2
  <2> QED BY <1>1, <1>2, <1>3, <2>1 DEF ToSet
<1> QED BY <1>1, <1>4, <1>5

\* redis.go, LREM looks for the first occurrence: among some positions there is one.
LEMMA MinFacts ==
  ASSUME NEW I, I \subseteq Nat, I # {}
  PROVE  Min(I) \in I
<1> DEFINE less == {ss \in Nat \X Nat : ss[1] < ss[2]}
<1>1. IsWellFoundedOn(less, Nat)
  BY NatLessThanWellFounded DEF OpToRel
<1> HIDE DEF less
<1>2. PICK x \in I : \A y \in I : ~ (<<y, x>> \in less)
  BY <1>1, WFMin
<1>3. ASSUME NEW y \in I PROVE x <= y
  <2>1. x \in Nat /\ y \in Nat
    OBVIOUS
  <2>2. y < x => <<y, x>> \in less
    BY <2>1, Zenon DEF less
  <2> QED BY <1>2, <2>1, <2>2
<1> QED BY <1>3 DEF Min

\* redis.go, LREM of one occurrence: no other id leaves the list, and none is added.
LEMMA RemoveFirstFacts ==
  ASSUME NEW S, NEW e, NEW s \in Seq(S)
  PROVE  /\ RemoveFirst(s, e) \in Seq(S)
         /\ ToSet(s) \ {e} \subseteq ToSet(RemoveFirst(s, e))
         /\ ToSet(RemoveFirst(s, e)) \subseteq ToSet(s)
<1>1. CASE ~ \E i \in 1..Len(s) : s[i] = e
  BY <1>1 DEF RemoveFirst
<1>2. CASE \E i \in 1..Len(s) : s[i] = e
  <2> DEFINE I == {i \in 1..Len(s) : s[i] = e}
             n == Min(I)
             t == SubSeq(s, 1, n - 1)
             u == SubSeq(s, n + 1, Len(s))
             w == t \o u
  <2>1. Len(s) \in Nat /\ DOMAIN s = 1..Len(s) /\ \A i \in 1..Len(s) : s[i] \in S
    BY LenProperties, ElementOfSeq
  <2>2. I \subseteq Nat /\ I # {}
    BY <1>2, <2>1
  <2>3. n \in 1..Len(s) /\ s[n] = e
    BY <2>2, MinFacts
  <2>4. RemoveFirst(s, e) = t \o u
    BY <1>2, <2>2 DEF RemoveFirst, RemoveAt, SelectInSeq
  <2> HIDE DEF I, n
  <2>5. t \in Seq(S) /\ Len(t) = n - 1 /\ \A i \in 1..(n - 1) : t[i] = s[i]
    <3>1. 1 \in Int /\ n - 1 \in Int /\ \A i \in 1..(n - 1) : s[i] \in S
      BY <2>1, <2>3
    <3>2. /\ t \in Seq(S) /\ Len(t) = IF 1 <= n - 1 THEN n - 1 - 1 + 1 ELSE 0
          /\ \A i \in 1..(n - 1 - 1 + 1) : t[i] = s[1 + i - 1]
      BY <3>1, SubSeqProperties
    <3> HIDE DEF t
    <3> QED BY <3>2, <2>1, <2>3
  <2>6. /\ u \in Seq(S) /\ Len(u) = Len(s) - n
        /\ \A i \in 1..(Len(s) - n) : u[i] = s[n + i]
    <3>1. n + 1 \in Int /\ Len(s) \in Int /\ \A i \in (n + 1)..Len(s) : s[i] \in S
      BY <2>1, <2>3
    <3>2. /\ u \in Seq(S) /\ Len(u) = IF n + 1 <= Len(s) THEN Len(s) - (n + 1) + 1 ELSE 0
          /\ \A i \in 1..(Len(s) - (n + 1) + 1) : u[i] = s[(n + 1) + i - 1]
      BY <3>1, SubSeqProperties
    <3> HIDE DEF u
    <3>3. Len(u) = Len(s) - n
      <4>1. Len(u) = IF n + 1 <= Len(s) THEN Len(s) - (n + 1) + 1 ELSE 0
        BY <3>2
      <4>2. n \in Nat /\ Len(s) \in Nat /\ n <= Len(s)
        BY <2>1, <2>3
      <4> QED BY <4>1, <4>2
    <3>4. ASSUME NEW i \in 1..(Len(s) - n) PROVE u[i] = s[n + i]
      <4>1. i \in 1..(Len(s) - (n + 1) + 1) /\ (n + 1) + i - 1 = n + i
        BY <2>1, <2>3
      <4> QED BY <3>2, <4>1
    <3> QED BY <3>2, <3>3, <3>4
  <2> HIDE DEF t, u
  <2>7. /\ w \in Seq(S) /\ Len(w) = Len(s) - 1
        /\ \A i \in 1..(Len(s) - 1) : w[i] = IF i <= n - 1 THEN t[i] ELSE u[i - (n - 1)]
    <3>1. /\ w \in Seq(S) /\ Len(w) = Len(t) + Len(u)
          /\ \A i \in 1..(Len(t) + Len(u)) : w[i] = IF i <= Len(t) THEN t[i] ELSE u[i - Len(t)]
      BY <2>5, <2>6, ConcatProperties
    <3> HIDE DEF w
    <3>2. Len(t) + Len(u) = Len(s) - 1
      BY <2>1, <2>3, <2>5, <2>6
    <3> QED BY <2>5, <3>1, <3>2
  <2> HIDE DEF w
  <2>8. DOMAIN w = 1..(Len(s) - 1)
    BY <2>7, LenProperties
  <2>9. \A i \in 1..(Len(s) - 1) : w[i] = IF i <= n - 1 THEN s[i] ELSE s[i + 1]
    <3> TAKE i \in 1..(Len(s) - 1)
    <3>1. CASE i <= n - 1
      BY <2>1, <2>3, <2>5, <2>7, <3>1
    <3>2. CASE ~(i <= n - 1)
      <4>1. w[i] = u[i - (n - 1)]
        BY <2>7, <3>2
      <4>2. i - (n - 1) \in 1..(Len(s) - n) /\ n + (i - (n - 1)) = i + 1
        BY <2>1, <2>3, <3>2
      <4> QED BY <2>6, <3>2, <4>1, <4>2
    <3> QED BY <3>1, <3>2
  <2>10. ToSet(w) \subseteq ToSet(s)
    <3> SUFFICES ASSUME NEW i \in 1..(Len(s) - 1) PROVE w[i] \in ToSet(s)
        BY <2>8 DEF ToSet
    <3> QED BY <2>1, <2>3, <2>9 DEF ToSet
  <2>11. ToSet(s) \ {e} \subseteq ToSet(w)
    <3> SUFFICES ASSUME NEW k \in 1..Len(s), s[k] # e PROVE s[k] \in ToSet(w)
        BY <2>1 DEF ToSet
    <3>1. CASE k < n
      <4>1. k \in 1..(Len(s) - 1) /\ w[k] = s[k]
        BY <2>1, <2>3, <2>9, <3>1
      <4> QED BY <4>1, <2>8 DEF ToSet
    <3>2. CASE k > n
      <4>1. k - 1 \in 1..(Len(s) - 1) /\ w[k - 1] = s[k]
        BY <2>1, <2>3, <2>9, <3>2
      <4> QED BY <4>1, <2>8 DEF ToSet
    <3> QED BY <2>1, <2>3, <3>1, <3>2
  <2> QED BY <2>4, <2>7, <2>10, <2>11 DEF w
<1> QED BY <1>1, <1>2
-----------------------------------------------------------------------------
(* Types *)

\* What the goroutines of the scheduler, the handlers and the agents hold while
\* they are between two steps.
SchedHolds ==
  /\ sched.pc \notin {"recover", "dequeue"} => sched.job \in Jobs
  /\ sched.pc \in {"assign", "assigning", "dispatch", "undo", "undoing"}
       => sched.runner \in Runners
  /\ reap.pc \in {"requeueing", "enqueue"} => reap.job \in Jobs
ReqHolds ==
  \A r \in Runners : req[r].pc \in {"owns", "begin", "store"}
    => req[r].job \in Jobs /\ req[r].to \in {"RUNNING", "SUCCESS", "FAILED"}
AgentHolds ==
  \A r \in Runners : agent[r].pc \in {"start", "checkout", "exec", "report"}
    => agent[r].job \in Jobs

TypeInv == StoreInv /\ TypeOK /\ SchedHolds /\ ReqHolds /\ AgentHolds

\* redis.go: each command leaves lists of job ids.
LEMMA QueueTypes ==
  ASSUME QueueTypeOK
  PROVE  /\ \A j \in Jobs : Enqueue(j) \/ Ack(j) => QueueTypeOK'
         /\ Dequeue => QueueTypeOK' /\ Last(pending) \in Jobs
         /\ \A r \in Runners, j \in Jobs : Dispatch(r, j) => QueueTypeOK'
         /\ \A r \in Runners : MailboxExpires(r) => QueueTypeOK'
         /\ \A r \in Runners : Receive(r) => QueueTypeOK' /\ Received(r) \in Jobs
<1>1. /\ pending \in Seq(Jobs) /\ inflight \in Seq(Jobs)
      /\ mailbox \in [Runners -> Seq(Jobs)]
  BY DEF QueueTypeOK
<1>2. ASSUME NEW j \in Jobs, Enqueue(j) PROVE QueueTypeOK'
  BY <1>1, <1>2, ConsFacts DEF Enqueue, QueueTypeOK
<1>3. ASSUME Dequeue PROVE QueueTypeOK' /\ Last(pending) \in Jobs
  <2>1. Front(pending) \in Seq(Jobs) /\ Last(pending) \in Jobs
    BY <1>1, <1>3, FrontFacts DEF Dequeue
  <2>2. Cons(Last(pending), inflight) \in Seq(Jobs)
    BY <1>1, <2>1, ConsFacts
  <2> QED BY <1>1, <1>3, <2>1, <2>2 DEF Dequeue, QueueTypeOK
<1>4. ASSUME NEW j \in Jobs, Ack(j) PROVE QueueTypeOK'
  BY <1>1, <1>4, RemoveFirstFacts DEF Ack, QueueTypeOK
<1>5. ASSUME NEW r \in Runners, NEW j \in Jobs, Dispatch(r, j) PROVE QueueTypeOK'
  BY <1>1, <1>5, ConsFacts DEF Dispatch, QueueTypeOK
<1>6. ASSUME NEW r \in Runners, MailboxExpires(r) PROVE QueueTypeOK'
  BY <1>1, <1>6 DEF MailboxExpires, QueueTypeOK
<1>7. ASSUME NEW r \in Runners, Receive(r) PROVE QueueTypeOK' /\ Received(r) \in Jobs
  BY <1>1, <1>7, FrontFacts DEF Receive, Received, QueueTypeOK
<1> QED BY <1>2, <1>3, <1>4, <1>5, <1>6, <1>7

\* service.go, Run and assign: the loop goes on with well-typed ids.
LEMMA SchedTypes ==
  ASSUME TypeInv, SchedStep
  PROVE  SchedTypeOK' /\ SchedHolds' /\ QueueTypeOK' /\ faults' \in 0..MaxFaults
<1> USE DEF TypeInv, TypeOK
<1>1. /\ sched \in [pc : SchedPcs, job : Jobs \cup {NULL}, runner : Runners \cup {NULL},
                    ids : Seq(Jobs)]
      /\ reap \in [pc : {"off", "tick", "next", "requeueing", "enqueue"},
                   orphans : SUBSET (Runners \X Jobs), job : Jobs \cup {NULL}]
      /\ QueueTypeOK /\ SchedHolds
  BY DEF SchedTypeOK
<1>2. ASSUME SchedLoop PROVE SchedTypeOK' /\ SchedHolds'
  BY <1>1, <1>2, EmptySeq DEF SchedLoop, SchedTypeOK, SchedHolds, SchedPcs
<1>3. ASSUME NEW pc \in SchedPcs, SchedGo(pc), sched.job \in Jobs, pc = "list" \/ pc = "ack"
               \/ pc = "requeue" \/ pc = "push" \/ sched.runner \in Runners
      PROVE  SchedTypeOK' /\ SchedHolds'
  BY <1>1, <1>3 DEF SchedGo, SchedTypeOK, SchedHolds, SchedPcs
<1>4. CASE Recover
  <2>1. inflight # <<>> => Head(inflight) \in Jobs /\ Tail(inflight) \in Seq(Jobs)
    BY <1>1, TailFacts DEF QueueTypeOK
  <2> QED BY <1>1, <1>2, <1>4, <2>1 DEF Recover, SchedTypeOK, SchedHolds, SchedPcs, QueueTypeOK, queueVars, NoFault
<1>5. CASE SchedDequeue
  BY <1>1, <1>5, QueueTypes DEF SchedDequeue, SchedTypeOK, SchedHolds, SchedPcs, NoFault
<1>6. CASE LoadJob
  BY <1>1, <1>3, <1>6 DEF LoadJob, SchedHolds, SchedPcs, QueueTypeOK, queueVars, NoFault
<1>7. CASE ChooseRunner
  BY <1>1, <1>7 DEF ChooseRunner, Candidates, IdleRunners, SchedTypeOK, SchedHolds, SchedPcs, QueueTypeOK, queueVars, NoFault
<1>8. CASE BeginAssign
  BY <1>1, <1>3, <1>8 DEF BeginAssign, SchedHolds, SchedPcs, QueueTypeOK, queueVars, NoFault
<1>9. CASE FinishAssign
  BY <1>1, <1>3, <1>9 DEF FinishAssign, SchedHolds, SchedPcs, QueueTypeOK, queueVars, NoFault
<1>10. CASE DispatchJob
  BY <1>1, <1>3, <1>10, QueueTypes DEF DispatchJob, SchedHolds, SchedPcs, NoFault
<1>11. CASE BeginUndo
  BY <1>1, <1>3, <1>11 DEF BeginUndo, SchedHolds, SchedPcs, QueueTypeOK, queueVars, NoFault
<1>12. CASE FinishUndo
  BY <1>1, <1>3, <1>12 DEF FinishUndo, SchedHolds, SchedPcs, QueueTypeOK, queueVars, NoFault
<1>13. CASE RequeueAck
  BY <1>1, <1>3, <1>13, QueueTypes DEF RequeueAck, SchedHolds, SchedPcs, NoFault
<1>14. CASE RequeuePush
  <2>1. sched.job \in Jobs /\ Enqueue(sched.job) /\ QueueTypeOK'
    BY <1>1, <1>14, QueueTypes DEF RequeuePush, SchedHolds
  <2>2. sched.ids # <<>> => Head(sched.ids) \in Jobs /\ Tail(sched.ids) \in Seq(Jobs)
    BY <1>1, TailFacts
  <2> QED BY <1>1, <1>2, <1>14, <2>1, <2>2 DEF RequeuePush, SchedTypeOK, SchedHolds, SchedPcs, NoFault
<1>15. CASE AckJob
  BY <1>1, <1>2, <1>15, QueueTypes DEF AckJob, SchedHolds, NoFault
<1> QED BY <1>4, <1>5, <1>6, <1>7, <1>8, <1>9, <1>10, <1>11, <1>12, <1>13, <1>14, <1>15
        DEF SchedStep

\* service.go, reapLoop.
LEMMA ReapTypes ==
  ASSUME TypeInv, ReapStep
  PROVE  SchedTypeOK' /\ SchedHolds' /\ QueueTypeOK' /\ faults' \in 0..MaxFaults
<1> USE DEF TypeInv, TypeOK
<1>1. /\ sched \in [pc : SchedPcs, job : Jobs \cup {NULL}, runner : Runners \cup {NULL},
                    ids : Seq(Jobs)]
      /\ reap \in [pc : {"off", "tick", "next", "requeueing", "enqueue"},
                   orphans : SUBSET (Runners \X Jobs), job : Jobs \cup {NULL}]
      /\ QueueTypeOK /\ SchedHolds
  BY DEF SchedTypeOK
<1>2. ASSUME NEW rest \in SUBSET (Runners \X Jobs), ReapGo(rest), UNCHANGED sched
      PROVE  SchedTypeOK' /\ SchedHolds'
  BY <1>1, <1>2 DEF ReapGo, SchedTypeOK, SchedHolds
<1>3. CASE ReapTick
  <2>1. Orphans \subseteq Runners \X Jobs
    BY DEF Orphans, Stale, StoreTypeOK
  <2> QED BY <1>1, <1>2, <1>3, <2>1 DEF ReapTick, QueueTypeOK, queueVars, NoFault
<1>4. CASE ReapNext
  <2>1. PICK p \in reap.orphans :
          \/ reap' = [pc |-> "requeueing", orphans |-> reap.orphans \ {p}, job |-> p[2]]
          \/ ReapGo(reap.orphans \ {p})
    BY <1>4 DEF ReapNext
  <2>2. p[2] \in Jobs /\ reap.orphans \ {p} \in SUBSET (Runners \X Jobs)
    BY <1>1
  <2>3. CASE reap' = [pc |-> "requeueing", orphans |-> reap.orphans \ {p}, job |-> p[2]]
    BY <1>1, <1>4, <2>2, <2>3
       DEF ReapNext, SchedTypeOK, SchedHolds, QueueTypeOK, queueVars, NoFault
  <2>4. CASE ReapGo(reap.orphans \ {p})
    BY <1>1, <1>2, <1>4, <2>2, <2>4 DEF ReapNext, QueueTypeOK, queueVars, NoFault
  <2> QED BY <2>1, <2>3, <2>4
<1>5. CASE ReapRequeue
  <2>1. \/ UNCHANGED reap \/ reap' = [reap EXCEPT !.pc = "enqueue"] \/ ReapGo(reap.orphans)
    BY <1>5 DEF ReapRequeue
  <2>2. reap.pc = "requeueing" /\ reap.job \in Jobs /\ UNCHANGED <<sched, queueVars, faults>>
    BY <1>1, <1>5 DEF ReapRequeue, SchedHolds, NoFault
  <2>3. ReapGo(reap.orphans) => SchedTypeOK' /\ SchedHolds'
    BY <1>1, <1>2, <2>2
  <2> QED BY <1>1, <2>1, <2>2, <2>3
          DEF SchedTypeOK, SchedHolds, QueueTypeOK, queueVars
<1>6. CASE ReapEnqueue
  BY <1>1, <1>2, <1>6, QueueTypes DEF ReapEnqueue, SchedHolds, NoFault
<1> QED BY <1>3, <1>4, <1>5, <1>6 DEF ReapStep

\* service.go: a crash or a failed command leaves the two goroutines in good order.
LEMMA SchedFaultTypes ==
  ASSUME TypeInv, SchedFault
  PROVE  SchedTypeOK' /\ SchedHolds' /\ QueueTypeOK' /\ faults' \in 0..MaxFaults
<1> USE DEF TypeInv, TypeOK
<1>1. /\ sched \in [pc : SchedPcs, job : Jobs \cup {NULL}, runner : Runners \cup {NULL},
                    ids : Seq(Jobs)]
      /\ reap \in [pc : {"off", "tick", "next", "requeueing", "enqueue"},
                   orphans : SUBSET (Runners \X Jobs), job : Jobs \cup {NULL}]
      /\ QueueTypeOK /\ SchedHolds
  BY DEF SchedTypeOK
<1>2. faults' \in 0..MaxFaults
  BY FaultsAssumption DEF SchedFault, SchedCrash, SchedRedisFails, SchedDbFails, Fault
<1>3. ASSUME SchedLoop PROVE SchedTypeOK' /\ SchedHolds'
  BY <1>1, <1>3, EmptySeq DEF SchedLoop, SchedTypeOK, SchedHolds, SchedPcs
<1>4. ASSUME NEW pc \in {"undo", "requeue", "ack"}, SchedGo(pc), sched.job \in Jobs,
             pc = "undo" => sched.runner \in Runners
      PROVE  SchedTypeOK' /\ SchedHolds'
  BY <1>1, <1>4 DEF SchedGo, SchedTypeOK, SchedHolds, SchedPcs
<1>5. ASSUME NEW rest \in SUBSET (Runners \X Jobs), ReapGo(rest), UNCHANGED sched
      PROVE  SchedTypeOK' /\ SchedHolds'
  BY <1>1, <1>5 DEF ReapGo, SchedTypeOK, SchedHolds
<1>6. UNCHANGED <<sched, reap>> => SchedTypeOK' /\ SchedHolds'
  BY DEF SchedTypeOK, SchedHolds
<1>7. UNCHANGED queueVars => QueueTypeOK'
  BY DEF QueueTypeOK, queueVars
<1>8. CASE SchedCrash
  BY <1>1, <1>2, <1>7, <1>8, EmptySeq DEF SchedCrash, SchedTypeOK, SchedHolds, SchedPcs
<1>9. CASE SchedRedisFails
  <2>1. QueueTypeOK'
    BY <1>1, <1>7, <1>9, QueueTypes DEF SchedRedisFails, SchedHolds
  <2>2. SchedTypeOK' /\ SchedHolds'
    BY <1>1, <1>3, <1>4, <1>5, <1>6, <1>9 DEF SchedRedisFails, SchedHolds
  <2> QED BY <1>2, <2>1, <2>2
<1>10. CASE SchedDbFails
  <2>1. QueueTypeOK'
    BY <1>7, <1>10 DEF SchedDbFails
  <2>2. SchedTypeOK' /\ SchedHolds'
    BY <1>1, <1>4, <1>5, <1>6, <1>10 DEF SchedDbFails, SchedHolds
  <2> QED BY <1>2, <2>1, <2>2
<1> QED BY <1>8, <1>9, <1>10 DEF SchedFault

\* webhook.go, jobs.go and runners.go: the handlers.
LEMMA ApiTypes ==
  ASSUME TypeInv,
         \/ \E j \in Jobs : WebhookCreates(j) \/ HookStep(j) \/ HookFault(j) \/ CancelBegins(j)
         \/ CancelStep \/ CancelFails
         \/ \E r \in Runners : ReqStep(r) \/ ReportFails(r) \/ RequestCut(r)
  PROVE  ApiTypeOK' /\ ReqHolds' /\ QueueTypeOK' /\ faults' \in 0..MaxFaults
<1> USE DEF TypeInv, TypeOK
<1>1. /\ hook \in [Jobs -> {"none", "enqueue", "fail", "failing"}]
      /\ req \in [Runners -> [pc : ReqPcs, job : Jobs \cup {NULL},
                              to : {"NONE", "RUNNING", "SUCCESS", "FAILED"}]]
      /\ QueueTypeOK /\ ReqHolds /\ faults \in 0..MaxFaults
  BY DEF ApiTypeOK
<1>2. UNCHANGED queueVars => QueueTypeOK'
  BY DEF QueueTypeOK, queueVars
<1>3. ASSUME NEW j \in Jobs, NEW pc \in {"none", "enqueue", "fail", "failing"}, HookGo(j, pc)
      PROVE  ApiTypeOK' /\ ReqHolds'
  BY <1>1, <1>3 DEF HookGo, ApiTypeOK, ReqHolds
<1>4. ASSUME NEW r \in Runners, NEW pc \in ReqPcs, ReqGo(r, pc),
             req[r].pc \in {"owns", "begin", "store"} \/ pc \in {"ok", "refused"}
      PROVE  ApiTypeOK' /\ ReqHolds'
  BY <1>1, <1>4 DEF ReqGo, ApiTypeOK, ReqHolds, ReqPcs
<1>5. UNCHANGED apiVars => ApiTypeOK' /\ ReqHolds'
  BY DEF apiVars, ApiTypeOK, ReqHolds
<1>6. ASSUME NEW j \in Jobs, WebhookCreates(j) \/ HookStep(j)
      PROVE  ApiTypeOK' /\ ReqHolds' /\ QueueTypeOK' /\ faults' \in 0..MaxFaults
  BY <1>1, <1>2, <1>3, <1>5, <1>6, QueueTypes
     DEF WebhookCreates, HookStep, WebhookEnqueues, WebhookFailsJob, WebhookFailing, NoFault
<1>7. ASSUME NEW j \in Jobs, HookFault(j)
      PROVE  ApiTypeOK' /\ ReqHolds' /\ QueueTypeOK' /\ faults' \in 0..MaxFaults
  <2>1. faults' \in 0..MaxFaults
    BY <1>1, <1>7, FaultsAssumption DEF HookFault, WebhookEnqueueFails, WebhookDies, Fault
  <2> QED BY <1>1, <1>2, <1>3, <1>7, <2>1, QueueTypes
          DEF HookFault, WebhookEnqueueFails, WebhookDies
<1>8. CASE (\E j \in Jobs : CancelBegins(j)) \/ CancelStep \/ CancelFails
  <2>1. faults' \in 0..MaxFaults
    BY <1>1, <1>8, FaultsAssumption DEF CancelBegins, CancelStep, CancelFails, Fault, NoFault
  <2> QED BY <1>2, <1>5, <1>8, <2>1 DEF CancelBegins, CancelStep, CancelFails
<1>9. ASSUME NEW r \in Runners, ReqStep(r) \/ ReportFails(r) \/ RequestCut(r)
      PROVE  ApiTypeOK' /\ ReqHolds' /\ QueueTypeOK' /\ faults' \in 0..MaxFaults
  <2>1. faults' \in 0..MaxFaults
    BY <1>1, <1>9, FaultsAssumption
       DEF ReqStep, OwnsCheck, ReportBegins, ReportStored, ReportFails, RequestCut, Fault,
           NoFault
  <2>2. QueueTypeOK'
    BY <1>2, <1>9 DEF ReqStep, OwnsCheck, ReportBegins, ReportStored, ReportFails, RequestCut
  <2>3. PICK pc \in ReqPcs : ReqGo(r, pc) /\ req[r].pc \in {"owns", "begin", "store"}
    BY <1>9 DEF ReqStep, OwnsCheck, ReportBegins, ReportStored, ReportFails, RequestCut, ReqPcs
  <2> QED BY <1>4, <2>1, <2>2, <2>3
<1> QED BY <1>6, <1>7, <1>8, <1>9

\* agent.go: the agents and the requests they post.
LEMMA AgentTypes ==
  ASSUME TypeInv, NEW r \in Runners, Agent(r)
  PROVE  /\ ApiTypeOK' /\ ReqHolds' /\ AgentTypeOK' /\ AgentHolds'
         /\ QueueTypeOK' /\ faults' \in 0..MaxFaults
<1> USE DEF TypeInv, TypeOK
<1>1. /\ hook \in [Jobs -> {"none", "enqueue", "fail", "failing"}]
      /\ req \in [Runners -> [pc : ReqPcs, job : Jobs \cup {NULL},
                              to : {"NONE", "RUNNING", "SUCCESS", "FAILED"}]]
      /\ agent \in [Runners -> [pc : AgentPcs, job : Jobs \cup {NULL}, abandoned : BOOLEAN]]
      /\ hb \in [Runners -> Jobs \cup {NULL}]
      /\ verdicts \subseteq Runners \X Jobs \X {"SUCCESS", "FAILED"}
      /\ ApiTypeOK /\ AgentTypeOK
      /\ QueueTypeOK /\ ReqHolds /\ AgentHolds /\ faults \in 0..MaxFaults
  BY DEF ApiTypeOK, AgentTypeOK
<1>2. UNCHANGED queueVars => QueueTypeOK'
  BY DEF QueueTypeOK, queueVars
<1>3. UNCHANGED apiVars => ApiTypeOK' /\ ReqHolds'
  BY DEF apiVars, ApiTypeOK, ReqHolds
<1>4. UNCHANGED agentVars => AgentTypeOK' /\ AgentHolds'
  BY DEF agentVars, AgentTypeOK, AgentHolds
<1>5. ASSUME NEW j \in Jobs, NEW to \in {"RUNNING", "SUCCESS", "FAILED"}, Post(r, j, to)
      PROVE  ApiTypeOK' /\ ReqHolds'
  BY <1>1, <1>5 DEF Post, ApiTypeOK, ReqHolds, ReqPcs
<1>6. ASSUME req' = [req EXCEPT ![r] = NoReq], UNCHANGED hook
      PROVE  ApiTypeOK' /\ ReqHolds'
  BY <1>1, <1>6 DEF NoReq, ApiTypeOK, ReqHolds, ReqPcs
<1>7. ASSUME BackToPoll(r), UNCHANGED verdicts
      PROVE  AgentTypeOK' /\ AgentHolds'
  BY <1>1, <1>7 DEF BackToPoll, AgentTypeOK, AgentHolds, AgentPcs
<1>8. ASSUME NEW outcome \in {"SUCCESS", "FAILED"}, ReportResult(r, outcome),
             agent[r].pc \in {"checkout", "exec"}
      PROVE  ApiTypeOK' /\ ReqHolds' /\ AgentTypeOK' /\ AgentHolds'
  <2>1. agent[r].job \in Jobs
    BY <1>1, <1>8 DEF AgentHolds
  <2>2. ApiTypeOK' /\ ReqHolds'
    BY <1>5, <1>8, <2>1 DEF ReportResult
  <2> QED BY <1>1, <1>8, <2>1, <2>2 DEF ReportResult, AgentTypeOK, AgentHolds, AgentPcs
<1>8a. ASSUME NEW b \in BOOLEAN, agent' = [agent EXCEPT ![r].abandoned = b],
              hb' = [hb EXCEPT ![r] = NULL], UNCHANGED verdicts
       PROVE  AgentTypeOK' /\ AgentHolds'
  <2>1. [agent[r] EXCEPT !.abandoned = b]
          \in [pc : AgentPcs, job : Jobs \cup {NULL}, abandoned : BOOLEAN]
    BY <1>1
  <2>2. \A q \in Runners : agent'[q].pc = agent[q].pc /\ agent'[q].job = agent[q].job
    BY <1>1, <1>8a
  <2>3. AgentTypeOK'
    BY <1>1, <1>8a, <2>1 DEF AgentTypeOK
  <2> QED BY <1>1, <2>2, <2>3 DEF AgentHolds
<1>9. CASE Register(r)
  BY <1>1, <1>2, <1>3, <1>9 DEF Register, AgentTypeOK, AgentHolds, AgentPcs, NoFault
<1>10. CASE Poll(r)
  <2>1. Received(r) \in Jobs /\ QueueTypeOK'
    BY <1>1, <1>10, QueueTypes DEF Poll
  <2>2. ApiTypeOK' /\ ReqHolds'
    BY <1>5, <1>10, <2>1 DEF Poll
  <2> QED BY <1>1, <1>10, <2>1, <2>2 DEF Poll, AgentTypeOK, AgentHolds, AgentPcs, NoFault
<1>11. CASE StartAnswered(r)
  <2>1. agent' = [agent EXCEPT ![r].pc = "checkout"] /\ UNCHANGED <<hb, verdicts>>
          => AgentTypeOK' /\ AgentHolds'
    BY <1>1, <1>11 DEF StartAnswered, AgentTypeOK, AgentHolds, AgentPcs
  <2> QED BY <1>1, <1>2, <1>6, <1>7, <1>11, <2>1 DEF StartAnswered, NoFault
<1>12. CASE ResultAnswered(r)
  BY <1>1, <1>2, <1>6, <1>7, <1>12 DEF ResultAnswered, NoFault
<1>13. CASE CheckoutEnds(r)
  <2>1. agent' = [agent EXCEPT ![r].pc = "exec"] /\ UNCHANGED <<hb, verdicts>>
          => AgentTypeOK' /\ AgentHolds'
    BY <1>1, <1>13 DEF CheckoutEnds, AgentTypeOK, AgentHolds, AgentPcs
  <2> QED BY <1>1, <1>2, <1>3, <1>7, <1>8, <1>13, <2>1 DEF CheckoutEnds, NoFault
<1>14. CASE SpecUnreadable(r) \/ ExecutionEnds(r)
  BY <1>1, <1>2, <1>3, <1>7, <1>8, <1>14 DEF SpecUnreadable, ExecutionEnds, NoFault
<1>15. CASE HeartbeatStep(r)
  <2>1. HeartbeatSent(r) => AgentTypeOK' /\ AgentHolds'
    BY <1>1 DEF HeartbeatSent, AgentTypeOK, AgentHolds
  <2>2. HeartbeatAnswered(r) => AgentTypeOK' /\ AgentHolds'
    BY <1>1, <1>8a DEF HeartbeatAnswered
  <2> QED BY <1>1, <1>2, <1>3, <1>15, <2>1, <2>2
          DEF HeartbeatStep, HeartbeatSent, HeartbeatAnswered, NoFault
<1>16. CASE PollAnswerLost(r)
  <2>1. QueueTypeOK' /\ faults' \in 0..MaxFaults
    BY <1>1, <1>16, QueueTypes, FaultsAssumption DEF PollAnswerLost, Fault
  <2> QED BY <1>3, <1>4, <1>16, <2>1 DEF PollAnswerLost
<1>17. CASE StartAnswerLost(r)
  <2>1. faults' \in 0..MaxFaults
    BY <1>1, <1>17, FaultsAssumption DEF StartAnswerLost, Fault
  <2> QED BY <1>2, <1>6, <1>7, <1>17, <2>1 DEF StartAnswerLost
<1>19. CASE LeaseUnreadable(r) \/ AgentDies(r)
  <2>1. faults' \in 0..MaxFaults
    BY <1>1, <1>19, FaultsAssumption DEF LeaseUnreadable, AgentDies, Fault
  <2>2. LeaseUnreadable(r) => AgentTypeOK' /\ AgentHolds'
    BY <1>1, <1>8a DEF LeaseUnreadable
  <2>3. AgentDies(r) => AgentTypeOK' /\ AgentHolds'
    BY <1>1 DEF AgentDies, AgentTypeOK, AgentHolds, AgentPcs
  <2> QED BY <1>2, <1>3, <1>19, <2>1, <2>2, <2>3 DEF LeaseUnreadable, AgentDies
<1>20. CASE FallsSilent(r)
  <2>1. faults' \in 0..MaxFaults
    BY <1>1, <1>20, FaultsAssumption DEF FallsSilent, Fault, NoFault
  <2> QED BY <1>2, <1>3, <1>4, <1>20, <2>1 DEF FallsSilent
<1>21. CASE MailboxDropped(r)
  BY <1>1, <1>3, <1>4, <1>21, QueueTypes DEF MailboxDropped, NoFault
<1> QED BY <1>9, <1>10, <1>11, <1>12, <1>13, <1>14, <1>15, <1>16, <1>17, <1>19, <1>20, <1>21
        DEF Agent, AgentStep, BuildStep, AgentFault

\* Every step of every process is one operation of the store, or none.
LEMMA StepUsesStore ==
  ASSUME TypeInv, [Next]_vars
  PROVE  [StoreNext]_storeVars
<1> USE DEF TypeInv, TypeOK
<1>1. /\ "sched" \in Clients /\ "reaper" \in Clients /\ "cancel" \in Clients
      /\ Runners \subseteq Clients /\ Jobs \subseteq Clients
  BY ClientsAssumption
<1>2. ASSUME NEW c \in Clients, NEW j \in Jobs, NEW to \in JobStatus \ {"ASSIGNED"},
             Transition(c, j, to)
      PROVE  StoreNext
  BY <1>2 DEF StoreNext
<1>3. ASSUME NEW c \in Clients,
             TransitionUpdate(c) \/ TransitionConflict(c) \/ ReleaseRunner(c)
               \/ AssignCommit(c) \/ AssignRollback(c)
      PROVE  StoreNext
  BY <1>3 DEF StoreNext
<1>4. ASSUME NEW C \in SUBSET Clients, CallsFail(C) PROVE StoreNext
  BY <1>4 DEF StoreNext
<1>5. ASSUME SchedStep PROVE [StoreNext]_storeVars
  <2>1. BeginAssign => [StoreNext]_storeVars
    BY <1>1 DEF BeginAssign, SchedHolds, StoreNext
  <2>2. BeginUndo => [StoreNext]_storeVars
    BY <1>1, <1>2 DEF BeginUndo, SchedHolds, JobStatus
  <2> QED BY <1>1, <1>3, <1>5, <2>1, <2>2
          DEF SchedStep, Recover, SchedDequeue, LoadJob, ChooseRunner, FinishAssign,
              DispatchJob, FinishUndo, RequeueAck, RequeuePush, AckJob
<1>6. ASSUME SchedFault PROVE [StoreNext]_storeVars
  BY <1>1, <1>3, <1>4, <1>6
     DEF SchedFault, SchedCrash, SchedRedisFails, SchedDbFails, StoreNext
<1>7. ASSUME ReapStep PROVE [StoreNext]_storeVars
  <2>1. ReapNext => [StoreNext]_storeVars
    <3>1. \A p \in reap.orphans : p[2] \in Jobs
      BY DEF SchedTypeOK
    <3> QED BY <1>1, <1>2, <3>1 DEF ReapNext, JobStatus
  <2> QED BY <1>1, <1>3, <1>7, <2>1 DEF ReapStep, ReapTick, ReapRequeue, ReapEnqueue, StoreNext
<1>8. ASSUME NEW j \in Jobs, WebhookCreates(j) \/ HookStep(j) \/ HookFault(j)
      PROVE  [StoreNext]_storeVars
  <2>1. WebhookFailsJob(j) => [StoreNext]_storeVars
    BY <1>1, <1>2 DEF WebhookFailsJob, JobStatus
  <2>2. WebhookCreates(j) => StoreNext
    BY DEF WebhookCreates, StoreNext
  <2>3. WebhookFailing(j) \/ WebhookDies(j) => StoreNext
    BY <1>1, <1>3, <1>4 DEF WebhookFailing, WebhookDies
  <2> QED BY <1>8, <2>1, <2>2, <2>3
          DEF HookStep, HookFault, WebhookEnqueues, WebhookEnqueueFails
<1>9. ASSUME (\E j \in Jobs : CancelBegins(j)) \/ CancelStep \/ CancelFails
      PROVE  StoreNext
  <2>1. "CANCELLED" \in JobStatus \ {"ASSIGNED"}
    BY DEF JobStatus
  <2> QED BY <1>1, <1>2, <1>3, <1>4, <1>9, <2>1 DEF CancelBegins, CancelStep, CancelFails
<1>10. ASSUME NEW r \in Runners, ReqStep(r) \/ ReportFails(r) \/ RequestCut(r)
       PROVE  [StoreNext]_storeVars
  <2>1. ReportBegins(r) => [StoreNext]_storeVars
    BY <1>1, <1>2 DEF ReportBegins, ReqHolds, JobStatus
  <2>2. ReportStored(r) \/ ReportFails(r) \/ RequestCut(r) => StoreNext
    BY <1>1, <1>3, <1>4 DEF ReportStored, ReportFails, RequestCut
  <2> QED BY <1>10, <2>1, <2>2 DEF ReqStep, OwnsCheck
<1>11. ASSUME NEW r \in Runners, Agent(r) PROVE [StoreNext]_storeVars
  <2>1. Register(r) \/ HeartbeatSent(r) \/ FallsSilent(r) => StoreNext
    BY DEF Register, HeartbeatSent, FallsSilent, StoreNext
  <2> QED BY <1>11, <2>1
          DEF Agent, AgentStep, BuildStep, HeartbeatStep, AgentFault, Poll, StartAnswered,
              ResultAnswered, CheckoutEnds, SpecUnreadable, ExecutionEnds, HeartbeatAnswered,
              PollAnswerLost, StartAnswerLost, LeaseUnreadable, AgentDies,
              MailboxDropped
<1>12. UNCHANGED vars => UNCHANGED storeVars
  BY DEF vars
<1> QED BY <1>5, <1>6, <1>7, <1>8, <1>9, <1>10, <1>11, <1>12
        DEF Next, Scheduler, Reaper, Cancels, Webhooks, Requests

\* Init: empty tables and lists, every process at its beginning.
LEMMA InitTypes == Init => TypeInv
<1> SUFFICES ASSUME Init PROVE TypeInv
    OBVIOUS
<1>1. StoreInv
  BY InitInv DEF Init
<1>2. QueueTypeOK
  BY EmptySeq DEF Init, QueueInit, QueueTypeOK
<1>3. SchedTypeOK /\ SchedHolds
  BY EmptySeq DEF Init, SchedInit, SchedTypeOK, SchedHolds, SchedPcs
<1>4. ApiTypeOK /\ ReqHolds
  BY DEF Init, ApiInit, ApiTypeOK, ReqHolds, NoReq, ReqPcs
<1>5. AgentTypeOK /\ AgentHolds
  BY DEF Init, AgentInit, AgentTypeOK, AgentHolds, AgentPcs
<1>6. faults \in 0..MaxFaults
  BY FaultsAssumption DEF Init
<1> QED BY <1>1, <1>2, <1>3, <1>4, <1>5, <1>6 DEF TypeInv, TypeOK, StoreInv

\* Every step keeps every process, list and table well typed.
LEMMA StepTypes == TypeInv /\ [Next]_vars => TypeInv'
<1> SUFFICES ASSUME TypeInv, [Next]_vars PROVE TypeInv'
    OBVIOUS
<1>1. StoreInv' /\ StoreTypeOK'
  BY StepUsesStore, StoreStepInv DEF TypeInv, StoreInv
<1>2. UNCHANGED schedVars => SchedTypeOK' /\ SchedHolds'
  BY DEF TypeInv, TypeOK, schedVars, SchedTypeOK, SchedHolds
<1>3. UNCHANGED apiVars => ApiTypeOK' /\ ReqHolds'
  BY DEF TypeInv, TypeOK, apiVars, ApiTypeOK, ReqHolds
<1>4. UNCHANGED agentVars => AgentTypeOK' /\ AgentHolds'
  BY DEF TypeInv, TypeOK, agentVars, AgentTypeOK, AgentHolds
<1>5. CASE Scheduler
  BY <1>1, <1>3, <1>4, <1>5, SchedTypes, SchedFaultTypes DEF Scheduler, TypeInv, TypeOK
<1>6. CASE Reaper
  BY <1>1, <1>3, <1>4, <1>6, ReapTypes DEF Reaper, TypeInv, TypeOK
<1>7. CASE Cancels \/ (\E j \in Jobs : Webhooks(j)) \/ \E r \in Runners : Requests(r)
  <2>1. ApiTypeOK' /\ ReqHolds' /\ QueueTypeOK' /\ faults' \in 0..MaxFaults
    BY <1>7, ApiTypes DEF Cancels, Webhooks, Requests
  <2> QED BY <1>1, <1>2, <1>4, <1>7, <2>1 DEF Cancels, Webhooks, Requests, TypeInv, TypeOK
<1>8. CASE \E r \in Runners : Agent(r)
  BY <1>1, <1>2, <1>8, AgentTypes DEF Agent, TypeInv, TypeOK
<1>9. CASE UNCHANGED vars
  <2>1. QueueTypeOK' /\ faults' \in 0..MaxFaults
    BY <1>9 DEF vars, queueVars, TypeInv, TypeOK, QueueTypeOK
  <2> QED BY <1>1, <1>2, <1>3, <1>4, <1>9, <2>1 DEF vars, TypeInv, TypeOK
<1> QED BY <1>5, <1>6, <1>7, <1>8, <1>9 DEF Next

\* The tables, the lists and what every goroutine holds stay well typed.
THEOREM TypeCorrect == Spec => []TypeOK
<1>1. TypeInv => TypeOK
  BY DEF TypeInv
<1> QED BY InitTypes, StepTypes, <1>1, PTL DEF Spec

\* The scheduler, the reaper, the handlers and the agents, interleaved in any way
\* and with any faults, change the tables only by operations of the store.
THEOREM SystemUsesStore == Spec => StoreSpec
<1>1. Init => StoreInit
  BY DEF Init
<1>2. TypeInv /\ [Next]_vars => [StoreNext]_storeVars
  BY StepUsesStore
<1> QED BY InitTypes, StepTypes, <1>1, <1>2, PTL DEF Spec, StoreSpec

\* The whole system implements the abstract life of a job.
THEOREM SystemImplementsLifecycle == Spec => ImplementsLifecycle
  BY SystemUsesStore, StoreImplementsLifecycle

\* So the tables of the whole system keep what the store promises: owners fit
\* statuses, a runner is BUSY exactly while it holds a job, a commit has one
\* unfinished job, and runners move as their table allows.
THEOREM TablesCorrect ==
  Spec => []OwnerMatchesStatus /\ []BusyIffHolding /\ []OneActivePerKey /\ RunnerMovesAreLegal
  BY SystemUsesStore, OwnerCorrect, BusyCorrect, KeysCorrect, RunnerMovesCorrect

-----------------------------------------------------------------------------
(* Crash safety of the queue *)

\* service.go, assign: only the scheduler's loop takes ids out of inflight, and only
\* when it is about to let go of them.
LEMMA StepInflight == TypeInv /\ WorkIsInflight /\ [Next]_vars => WorkIsInflight'
<1> SUFFICES ASSUME TypeInv, WorkIsInflight, [Next]_vars PROVE WorkIsInflight'
    OBVIOUS
<1> USE DEF WorkIsInflight
<1>1. UNCHANGED <<sched, inflight>> => WorkIsInflight'
  OBVIOUS
<1>2. /\ sched \in [pc : SchedPcs, job : Jobs \cup {NULL}, runner : Runners \cup {NULL},
                    ids : Seq(Jobs)]
      /\ pending \in Seq(Jobs) /\ inflight \in Seq(Jobs)
  BY DEF TypeInv, TypeOK, SchedTypeOK, QueueTypeOK
<1>3. SchedLoop => WorkIsInflight'
  BY DEF SchedLoop
<1>4. ASSUME NEW pc, SchedGo(pc), UNCHANGED inflight,
             \/ pc \in {"requeue", "push"}
             \/ sched.pc \in {"load", "list", "assign", "assigning", "dispatch", "undo", "undoing"}
      PROVE  WorkIsInflight'
  BY <1>2, <1>4 DEF SchedGo
<1>5. ASSUME Dequeue, sched' = [sched EXCEPT !.pc = "load", !.job = Last(pending)]
      PROVE  WorkIsInflight'
  <2>1. Last(pending) \in ToSet(Cons(Last(pending), inflight))
    <3>1. Last(pending) \in Jobs
      BY <1>2, <1>5, FrontFacts DEF Dequeue
    <3> QED BY <1>2, <3>1, ConsFacts
  <2> QED BY <1>2, <1>5, <2>1 DEF Dequeue
<1>6. CASE SchedStep
  <2>1. Recover \/ RequeuePush \/ AckJob => WorkIsInflight'
    BY <1>2, <1>3 DEF Recover, RequeuePush, AckJob
  <2>2. SchedDequeue => WorkIsInflight'
    BY <1>5 DEF SchedDequeue
  <2>3. ChooseRunner => WorkIsInflight'
    BY <1>2 DEF ChooseRunner, queueVars
  <2>4. RequeueAck => WorkIsInflight'
    BY <1>2 DEF RequeueAck, SchedGo
  <2> QED BY <1>4, <1>6, <2>1, <2>2, <2>3, <2>4
          DEF SchedStep, LoadJob, BeginAssign, FinishAssign, DispatchJob, BeginUndo, FinishUndo,
              Dispatch, queueVars
<1>7. CASE SchedFault
  <2>1. SchedCrash => WorkIsInflight'
    BY DEF SchedCrash
  <2>2. SchedRedisFails => WorkIsInflight'
    BY <1>1, <1>3, <1>4 DEF SchedRedisFails, Dequeue, Dispatch, queueVars
  <2>3. SchedDbFails => WorkIsInflight'
    BY <1>1, <1>4 DEF SchedDbFails, queueVars
  <2> QED BY <1>7, <2>1, <2>2, <2>3 DEF SchedFault
<1>8. CASE Reaper
  BY <1>1, <1>8
     DEF Reaper, ReapStep, ReapTick, ReapNext, ReapRequeue, ReapEnqueue, Enqueue, queueVars
<1>9. CASE Cancels \/ (\E j \in Jobs : Webhooks(j)) \/ \E r \in Runners : Requests(r)
  BY <1>1, <1>9
     DEF Cancels, Webhooks, Requests, CancelBegins, CancelStep, CancelFails, WebhookCreates,
         HookStep, HookFault, WebhookEnqueues, WebhookFailsJob, WebhookFailing,
         WebhookEnqueueFails, WebhookDies, ReqStep, OwnsCheck, ReportBegins, ReportStored,
         ReportFails, RequestCut, Enqueue, queueVars, schedVars
<1>10. CASE \E r \in Runners : Agent(r)
  BY <1>1, <1>10
     DEF Agent, AgentStep, BuildStep, HeartbeatStep, AgentFault, Register, Poll, StartAnswered,
         ResultAnswered, CheckoutEnds, SpecUnreadable, ExecutionEnds, HeartbeatSent,
         HeartbeatAnswered, PollAnswerLost, StartAnswerLost, LeaseUnreadable,
         AgentDies, FallsSilent, MailboxDropped, Receive, MailboxExpires, queueVars, schedVars
<1>11. CASE UNCHANGED vars
  BY <1>1, <1>11 DEF vars, queueVars, schedVars
<1> QED BY <1>6, <1>7, <1>8, <1>9, <1>10, <1>11 DEF Next, Scheduler

\* Whatever fails or dies, and wherever: the id the scheduler works on is in the
\* inflight list, where the next instance finds it.
THEOREM InflightCorrect == Spec => []WorkIsInflight
<1>1. Init => WorkIsInflight
  BY DEF Init, SchedInit, WorkIsInflight
<1> QED BY InitTypes, StepTypes, StepInflight, <1>1, PTL DEF Spec

-----------------------------------------------------------------------------
(* A SUCCESS was earned *)

Passed(j) == \E r \in Runners : <<r, j, "SUCCESS">> \in verdicts

\* A recorded SUCCESS, and one that an UPDATE or a request is about to record.
RowsEarned == \A j \in Jobs : status[j] = "SUCCESS" => Passed(j)
CallsEarned == \A c \in Clients : call[c].to = "SUCCESS" => Passed(call[c].job)
ReportsEarned == \A r \in Runners :
                   req[r].to \in {"SUCCESS", "FAILED"} => <<r, req[r].job, req[r].to>> \in verdicts
Earned == RowsEarned /\ CallsEarned /\ ReportsEarned

\* store.go, transition, first half: the UPDATE to come is as good as its request.
LEMMA TransitionEarned ==
  ASSUME TypeInv, RowsEarned, CallsEarned, verdicts \subseteq verdicts',
         NEW c \in Clients, NEW j \in Jobs, NEW to \in JobStatus, Transition(c, j, to),
         to = "SUCCESS" => Passed(j)
  PROVE  RowsEarned' /\ CallsEarned'
<1>1. call \in [Clients -> CallRecord]
  BY DEF TypeInv, TypeOK, StoreTypeOK, CallRecord
<1>2. call'[c].to = to /\ call'[c].job = j
  BY <1>1 DEF Transition
<1>3. \A d \in Clients : d # c => call'[d] = call[d]
  BY <1>1 DEF Transition
<1>4. status' = status
  BY DEF Transition
<1> QED BY <1>2, <1>3, <1>4 DEF RowsEarned, CallsEarned, Passed

\* Every other operation writes a SUCCESS only when an earned call says so.
LEMMA OthersEarned ==
  ASSUME TypeInv, RowsEarned, CallsEarned, verdicts \subseteq verdicts',
         \/ UNCHANGED storeVars
         \/ \E j \in Jobs : CreateJob(j)
         \/ \E c \in Clients, j \in Jobs, r \in Runners : AssignJob(c, j, r)
         \/ \E c \in Clients : \/ TransitionUpdate(c) \/ TransitionConflict(c)
                               \/ ReleaseRunner(c)
                               \/ AssignCommit(c) \/ AssignRollback(c)
         \/ \E C \in SUBSET Clients : CallsFail(C)
         \/ \E r \in Runners : RegisterRunner(r) \/ Heartbeat(r) \/ Silence(r)
         \/ ReapOfflineRunners
  PROVE  RowsEarned' /\ CallsEarned'
<1>1. call \in [Clients -> CallRecord] /\ status \in [Jobs -> JobStatus \cup {"NONE"}]
  BY DEF TypeInv, TypeOK, StoreTypeOK, CallRecord
<1>2. ASSUME \A d \in Clients : \/ call'[d].to # "SUCCESS"
                                \/ call'[d].to = call[d].to /\ call'[d].job = call[d].job
      PROVE  CallsEarned'
  BY <1>2 DEF CallsEarned, Passed
<1>3. ASSUME \A j \in Jobs : status'[j] # "SUCCESS" \/ status'[j] = status[j]
      PROVE  RowsEarned'
  BY <1>3 DEF RowsEarned, Passed
<1>4. CASE \E c \in Clients, j \in Jobs, r \in Runners : AssignJob(c, j, r)
  <2>1. UNCHANGED status
    BY <1>4 DEF AssignJob
  <2>2. \A d \in Clients : call'[d].to # "SUCCESS" \/ call'[d] = call[d]
    BY <1>1, <1>4 DEF AssignJob
  <2> QED BY <1>2, <1>3, <2>1, <2>2
<1>5. ASSUME NEW c \in Clients, TransitionUpdate(c) PROVE RowsEarned' /\ CallsEarned'
  <2>1. call[c].job \in Jobs /\ call[c] \in CallRecord
    BY <1>1, <1>5, NullAssumption DEF TypeInv, StoreInv, CallsAreLegal, TransitionUpdate, CallRecord
  <2>2. \A j \in Jobs : status'[j] = status[j] \/ (j = call[c].job /\ status'[j] = call[c].to)
    <3>1. status' = [status EXCEPT ![call[c].job] = call[c].to]
      BY <1>5 DEF TransitionUpdate
    <3>2. status \in [Jobs -> JobStatus \cup {"NONE"}] /\ call[c].job \in Jobs
      BY <1>1, <2>1
    <3> QED BY <3>1, <3>2
  <2>3. RowsEarned'
    BY <2>2 DEF RowsEarned, CallsEarned, Passed
  <2>4. call'[c].to # "SUCCESS" \/ (call'[c].to = call[c].to /\ call'[c].job = call[c].job)
    <3>1. call'[c] = NoCall \/ call'[c] = [call[c] EXCEPT !.pc = "release"]
      BY <1>1, <1>5 DEF TransitionUpdate
    <3>2. CASE call'[c] = NoCall
      BY <3>2 DEF NoCall
    <3>3. CASE call'[c] = [call[c] EXCEPT !.pc = "release"]
      BY <2>1, <3>3 DEF CallRecord
    <3> QED BY <3>1, <3>2, <3>3
  <2>5. \A d \in Clients : d # c => call'[d] = call[d]
    BY <1>1, <1>5 DEF TransitionUpdate
  <2> QED BY <1>2, <2>3, <2>4, <2>5
<1>6. ASSUME NEW c \in Clients, TransitionConflict(c) \/ ReleaseRunner(c) \/ AssignRollback(c)
      PROVE  RowsEarned' /\ CallsEarned'
  <2>1. UNCHANGED status /\ call' = [call EXCEPT ![c] = NoCall]
    BY <1>6 DEF TransitionConflict, ReleaseRunner, AssignRollback
  <2>2. \A d \in Clients : call'[d] = NoCall \/ call'[d] = call[d]
    BY <1>1, <2>1
  <2>3. \A d \in Clients : call'[d].to # "SUCCESS" \/ call'[d] = call[d]
    BY <2>2 DEF NoCall
  <2> QED BY <1>2, <1>3, <2>1, <2>3
<1>7. ASSUME NEW c \in Clients, AssignCommit(c) PROVE RowsEarned' /\ CallsEarned'
  <2>1. /\ status' = [status EXCEPT ![call[c].job] = "ASSIGNED"]
        /\ call' = [call EXCEPT ![c] = NoCall]
    BY <1>7 DEF AssignCommit
  <2>2. \A d \in Clients : call'[d] = NoCall \/ call'[d] = call[d]
    BY <1>1, <2>1
  <2>3. \A d \in Clients : call'[d].to # "SUCCESS" \/ call'[d] = call[d]
    BY <2>2 DEF NoCall
  <2>4. \A j \in Jobs : status'[j] # "SUCCESS" \/ status'[j] = status[j]
    BY <1>1, <2>1
  <2> QED BY <1>2, <1>3, <2>3, <2>4
<1>8. ASSUME NEW C \in SUBSET Clients, CallsFail(C) PROVE RowsEarned' /\ CallsEarned'
  <2>1. \A d \in Clients : call'[d] = NoCall \/ call'[d] = call[d]
    BY <1>8 DEF CallsFail
  <2>2. \A d \in Clients : call'[d].to # "SUCCESS" \/ call'[d] = call[d]
    BY <2>1 DEF NoCall
  <2> QED BY <1>2, <1>3, <1>8, <2>2 DEF CallsFail
<1>9. ASSUME NEW j \in Jobs, CreateJob(j) PROVE RowsEarned' /\ CallsEarned'
  <2>1. \A k \in Jobs : status'[k] # "SUCCESS" \/ status'[k] = status[k]
    BY <1>1, <1>9 DEF CreateJob
  <2> QED BY <1>2, <1>3, <1>9, <2>1 DEF CreateJob
<1>10. ASSUME UNCHANGED <<status, call>> PROVE RowsEarned' /\ CallsEarned'
  BY <1>2, <1>3, <1>10
<1> QED BY <1>4, <1>5, <1>6, <1>7, <1>8, <1>9, <1>10
        DEF storeVars, RegisterRunner, Heartbeat, Silence, ReapOfflineRunners

\* agent.go, execute and reportResult: a result is posted with its verdict.
LEMMA StepReports ==
  ASSUME TypeInv, ReportsEarned, [Next]_vars
  PROVE  ReportsEarned' /\ verdicts \subseteq verdicts'
<1>1. req \in [Runners -> [pc : ReqPcs, job : Jobs \cup {NULL},
                           to : {"NONE", "RUNNING", "SUCCESS", "FAILED"}]]
  BY DEF TypeInv, TypeOK, ApiTypeOK
<1>2. ASSUME verdicts \subseteq verdicts',
             \A r \in Runners : \/ req'[r].to \notin {"SUCCESS", "FAILED"}
                                \/ req'[r].to = req[r].to /\ req'[r].job = req[r].job
      PROVE  ReportsEarned'
  BY <1>2 DEF ReportsEarned
<1>3. ASSUME UNCHANGED <<req, verdicts>> PROVE ReportsEarned' /\ verdicts \subseteq verdicts'
  BY <1>3 DEF ReportsEarned
<1>4. ASSUME NEW r \in Runners, NEW pc, ReqGo(r, pc), UNCHANGED verdicts
      PROVE  ReportsEarned' /\ verdicts \subseteq verdicts'
  BY <1>1, <1>4 DEF ReqGo, ReportsEarned
<1>5. ASSUME NEW r \in Runners, req' = [req EXCEPT ![r] = NoReq], UNCHANGED verdicts
      PROVE  ReportsEarned' /\ verdicts \subseteq verdicts'
  BY <1>1, <1>5 DEF NoReq, ReportsEarned
<1>6. ASSUME NEW r \in Runners, Poll(r) PROVE ReportsEarned' /\ verdicts \subseteq verdicts'
  BY <1>1, <1>6 DEF Poll, Post, ReportsEarned
<1>7. ASSUME NEW r \in Runners, NEW outcome, ReportResult(r, outcome)
      PROVE  ReportsEarned' /\ verdicts \subseteq verdicts'
  BY <1>1, <1>7 DEF ReportResult, Post, ReportsEarned
<1>8. ASSUME NEW r \in Runners, Agent(r) PROVE ReportsEarned' /\ verdicts \subseteq verdicts'
  <2>1. BuildStep(r) => ReportsEarned' /\ verdicts \subseteq verdicts'
    BY <1>3, <1>7 DEF BuildStep, CheckoutEnds, SpecUnreadable, ExecutionEnds, apiVars
  <2> QED BY <1>3, <1>4, <1>5, <1>6, <1>8, <2>1
          DEF Agent, AgentStep, HeartbeatStep, AgentFault, Register, StartAnswered,
              ResultAnswered, HeartbeatSent, HeartbeatAnswered, PollAnswerLost,
              StartAnswerLost, LeaseUnreadable, AgentDies, FallsSilent,
              MailboxDropped, apiVars, agentVars
<1>9. ASSUME NEW r \in Runners, Requests(r)
      PROVE  ReportsEarned' /\ verdicts \subseteq verdicts'
  <2>1. \E pc \in ReqPcs : ReqGo(r, pc)
    BY <1>9
       DEF Requests, ReqStep, OwnsCheck, ReportBegins, ReportStored, ReportFails, RequestCut, ReqPcs
  <2> QED BY <1>4, <1>9, <2>1 DEF Requests, agentVars
<1>10. CASE Scheduler \/ Reaper \/ Cancels \/ (\E j \in Jobs : Webhooks(j)) \/ UNCHANGED vars
  <2>1. UNCHANGED <<req, verdicts>>
    BY <1>10
       DEF Scheduler, Reaper, Cancels, Webhooks, CancelBegins, CancelStep, CancelFails,
           WebhookCreates, HookStep, HookFault, WebhookEnqueues, WebhookFailsJob,
           WebhookFailing, WebhookEnqueueFails, WebhookDies, HookGo, vars, apiVars, agentVars
  <2> QED BY <1>3, <2>1
<1> QED BY <1>8, <1>9, <1>10 DEF Next

\* Every step of every process keeps what is recorded, and what is on its way to be
\* recorded, earned.
LEMMA StepEarned == TypeInv /\ Earned /\ [Next]_vars => Earned'
<1> SUFFICES ASSUME TypeInv, Earned, [Next]_vars PROVE Earned'
    OBVIOUS
<1>1. ReportsEarned' /\ verdicts \subseteq verdicts' /\ RowsEarned /\ CallsEarned
  BY StepReports DEF Earned
<1>2. /\ "sched" \in Clients /\ "reaper" \in Clients /\ "cancel" \in Clients
      /\ Runners \subseteq Clients /\ Jobs \subseteq Clients
  BY ClientsAssumption
<1>3. ASSUME NEW c \in Clients, NEW j \in Jobs, NEW to \in {"QUEUED", "FAILED", "CANCELLED"},
             Transition(c, j, to)
      PROVE  RowsEarned' /\ CallsEarned'
  BY <1>1, <1>3, TransitionEarned DEF JobStatus
<1>4. ASSUME NEW r \in Runners, ReportBegins(r) PROVE RowsEarned' /\ CallsEarned'
  <2>1. req[r].job \in Jobs /\ req[r].to \in JobStatus
    BY <1>4 DEF ReportBegins, TypeInv, ReqHolds, JobStatus
  <2>2. req[r].to = "SUCCESS" => Passed(req[r].job)
    BY DEF Earned, ReportsEarned, Passed
  <2>3. CASE Transition(r, req[r].job, req[r].to)
    BY <1>1, <1>2, <2>1, <2>2, <2>3, TransitionEarned
  <2> QED BY <1>1, <1>4, <2>3, OthersEarned DEF ReportBegins
<1>5. ASSUME SchedStep \/ SchedFault PROVE RowsEarned' /\ CallsEarned'
  <2>1. BeginUndo => RowsEarned' /\ CallsEarned'
    BY <1>1, <1>2, <1>3, OthersEarned DEF BeginUndo, TypeInv, SchedHolds
  <2>2. BeginAssign => RowsEarned' /\ CallsEarned'
    BY <1>1, <1>2, OthersEarned DEF BeginAssign, TypeInv, SchedHolds
  <2> QED BY <1>1, <1>2, <1>5, <2>1, <2>2, OthersEarned
          DEF SchedStep, SchedFault, Recover, SchedDequeue, LoadJob, ChooseRunner, FinishAssign,
              DispatchJob, FinishUndo, RequeueAck, RequeuePush, AckJob, SchedCrash,
              SchedRedisFails, SchedDbFails
<1>6. ASSUME ReapStep PROVE RowsEarned' /\ CallsEarned'
  <2>1. ReapNext => RowsEarned' /\ CallsEarned'
    <3>1. \A p \in reap.orphans : p[2] \in Jobs
      BY DEF TypeInv, TypeOK, SchedTypeOK
    <3> QED BY <1>1, <1>2, <1>3, <3>1, OthersEarned DEF ReapNext
  <2> QED BY <1>1, <1>2, <1>6, <2>1, OthersEarned
          DEF ReapStep, ReapTick, ReapRequeue, ReapEnqueue
<1>7. ASSUME NEW j \in Jobs, WebhookCreates(j) \/ HookStep(j) \/ HookFault(j)
      PROVE  RowsEarned' /\ CallsEarned'
  <2>1. WebhookFailsJob(j) => RowsEarned' /\ CallsEarned'
    BY <1>1, <1>2, <1>3, OthersEarned DEF WebhookFailsJob
  <2> QED BY <1>1, <1>2, <1>7, <2>1, OthersEarned
          DEF WebhookCreates, HookStep, HookFault, WebhookEnqueues, WebhookFailing,
              WebhookEnqueueFails, WebhookDies
<1>8. ASSUME (\E j \in Jobs : CancelBegins(j)) \/ CancelStep \/ CancelFails
      PROVE  RowsEarned' /\ CallsEarned'
  BY <1>1, <1>2, <1>3, <1>8, OthersEarned DEF CancelBegins, CancelStep, CancelFails
<1>9. ASSUME NEW r \in Runners, ReqStep(r) \/ ReportFails(r) \/ RequestCut(r)
      PROVE  RowsEarned' /\ CallsEarned'
  BY <1>1, <1>2, <1>4, <1>9, OthersEarned
     DEF ReqStep, OwnsCheck, ReportStored, ReportFails, RequestCut
<1>10. ASSUME NEW r \in Runners, Agent(r) PROVE RowsEarned' /\ CallsEarned'
  BY <1>1, <1>10, OthersEarned
     DEF Agent, AgentStep, BuildStep, HeartbeatStep, AgentFault, Register, Poll, StartAnswered,
         ResultAnswered, CheckoutEnds, SpecUnreadable, ExecutionEnds, HeartbeatSent,
         HeartbeatAnswered, PollAnswerLost, StartAnswerLost, LeaseUnreadable,
         AgentDies, FallsSilent, MailboxDropped
<1>11. UNCHANGED vars => RowsEarned' /\ CallsEarned'
  BY <1>1, OthersEarned DEF vars
<1> QED BY <1>1, <1>5, <1>6, <1>7, <1>8, <1>9, <1>10, <1>11
        DEF Earned, Next, Scheduler, Reaper, Cancels, Webhooks, Requests

\* A job is recorded as SUCCESS only if some runner's build of that job passed, with
\* any number of jobs, runners and faults of any kind.
THEOREM SuccessCorrect == Spec => []SuccessWasEarned
<1>1. Init => Earned
  BY DEF Init, StoreInit, ApiInit, NoCall, NoReq, Earned, RowsEarned, CallsEarned, ReportsEarned
<1>2. Earned => SuccessWasEarned
  BY DEF Earned, RowsEarned, Passed, SuccessWasEarned
<1> QED BY InitTypes, StepTypes, StepEarned, <1>1, <1>2, PTL DEF Spec

-----------------------------------------------------------------------------
(* No QUEUED job is forgotten *)

\* The faults after which a QUEUED job may be left behind: the API process dies or
\* GitHub hangs up between CreateJob and Enqueue, a Redis command or a statement fails,
\* or the scheduler dies between LREM and LPUSH or while it reaps.  Every other fault
\* is allowed below: agents and the scheduler die, heartbeats, requests and answers
\* are lost, a runner's connection breaks half way through a handler, requests are slow.
QueueIsSafe == /\ FaultKinds \cap {"api", "client", "redis", "db"} = {}
               /\ CrashPoints \cap {"push", "reaping"} = {}

\* Where the id of a QUEUED job is: in pending; in inflight, with the scheduler or
\* for Recover to find; or with the one goroutine that is about to push it.
OnItsWay(j) ==
  \/ j \in ToSet(pending)
  \/ /\ j \in ToSet(inflight)
     /\ \/ sched.pc = "recover"
        \/ sched.pc \in {"load", "list", "assign", "assigning", "requeue"} /\ sched.job = j
        \/ j \in ToSet(sched.ids)
  \/ hook[j] = "enqueue"
  \/ sched.pc = "push" /\ sched.job = j
  \/ reap.pc = "requeueing" /\ call["reaper"].pc = "release" /\ reap.job = j
  \/ reap.pc = "enqueue" /\ reap.job = j

\* Only the reaper takes a job back, and then goes on to release and to push it.
OnlyReaperRequeues ==
  /\ \A c \in Clients : call[c].pc = "update" /\ call[c].to = "QUEUED" => c = "reaper"
  /\ sched.pc \notin {"undo", "undoing"}
ReaperRequeues ==
  reap.pc = "requeueing" =>
    /\ call["reaper"].pc \in {"update", "release"}
    /\ call["reaper"].job = reap.job /\ call["reaper"].to = "QUEUED"
    /\ call["reaper"].owner # NULL
\* The transaction of the scheduler is about the job it works on.
SchedAssigns ==
  sched.pc = "assigning" => call["sched"].pc = "assign" /\ call["sched"].job = sched.job
\* Only while it requeues does the scheduler hold ids that Recover has read.
IdsOfRecover == sched.pc \notin {"requeue", "push"} => sched.ids = <<>>

QueueInv == /\ OnlyReaperRequeues /\ ReaperRequeues /\ SchedAssigns /\ IdsOfRecover
            /\ \A j \in Jobs : status[j] = "QUEUED" => OnItsWay(j)

\* store.go: an operation of another client leaves the reaper's alone and takes no
\* job back.
LEMMA OutsiderOp ==
  ASSUME TypeInv, OnlyReaperRequeues, NEW c \in Clients \ {"reaper"},
         \/ \E j \in Jobs, to \in JobStatus \ {"QUEUED", "ASSIGNED"} : Transition(c, j, to)
         \/ \E j \in Jobs, r \in Runners : AssignJob(c, j, r)
         \/ TransitionUpdate(c) \/ TransitionConflict(c) \/ ReleaseRunner(c)
         \/ AssignCommit(c) \/ AssignRollback(c) \/ CallsFail({c})
  PROVE  /\ \A d \in Clients : d # c => call'[d] = call[d]
         /\ \A d \in Clients : call'[d].pc = "update" /\ call'[d].to = "QUEUED" => d = "reaper"
         /\ \A j \in Jobs : status'[j] = "QUEUED" => status[j] = "QUEUED"
<1>1. call \in [Clients -> CallRecord] /\ status \in [Jobs -> JobStatus \cup {"NONE"}]
  BY DEF TypeInv, TypeOK, StoreTypeOK, CallRecord
<1>3. ASSUME NEW op, call' = [call EXCEPT ![c] = op], op.pc # "update" \/ op.to # "QUEUED"
      PROVE  /\ \A d \in Clients : d # c => call'[d] = call[d]
             /\ \A d \in Clients :
                  call'[d].pc = "update" /\ call'[d].to = "QUEUED" => d = "reaper"
  BY <1>1, <1>3 DEF OnlyReaperRequeues
<1>4. NoCall.pc # "update"
  BY DEF NoCall
<1>5. CASE \E j \in Jobs, to \in JobStatus \ {"QUEUED", "ASSIGNED"} : Transition(c, j, to)
  <2>1. PICK j \in Jobs, to \in JobStatus \ {"QUEUED", "ASSIGNED"} : Transition(c, j, to)
    BY <1>5
  <2> DEFINE op == [pc |-> "update", job |-> j, to |-> to, seen |-> status[j],
                    owner |-> runner_id[j]]
  <2>2. call' = [call EXCEPT ![c] = op] /\ status' = status
    BY <2>1 DEF Transition
  <2>3. op.to # "QUEUED"
    OBVIOUS
  <2> HIDE DEF op
  <2> QED BY <1>3, <2>2, <2>3
<1>6. CASE \E j \in Jobs, r \in Runners : AssignJob(c, j, r)
  <2>1. PICK j \in Jobs, r \in Runners : AssignJob(c, j, r)
    BY <1>6
  <2> DEFINE op == [pc |-> "assign", job |-> j, to |-> "ASSIGNED", seen |-> status[j],
                    owner |-> r]
  <2>2. call' = [call EXCEPT ![c] = op] /\ status' = status
    BY <2>1 DEF AssignJob
  <2>3. op.to # "QUEUED"
    OBVIOUS
  <2> HIDE DEF op
  <2> QED BY <1>3, <2>2, <2>3
<1>7. CASE TransitionUpdate(c)
  <2> DEFINE op == IF ThenReleases(call[c]) THEN [call[c] EXCEPT !.pc = "release"] ELSE NoCall
  <2>1. /\ call' = [call EXCEPT ![c] = op]
        /\ status' = [status EXCEPT ![call[c].job] = call[c].to]
        /\ call[c].pc = "update"
    BY <1>7 DEF TransitionUpdate
  <2>2. op.pc # "update"
    BY <1>1, <1>4 DEF CallRecord
  <2>3. call[c].to # "QUEUED"
    BY <2>1 DEF OnlyReaperRequeues
  <2>4. \A j \in Jobs : status'[j] = "QUEUED" => status[j] = "QUEUED"
    BY <1>1, <2>1, <2>3
  <2> HIDE DEF op
  <2> QED BY <1>3, <2>1, <2>2, <2>4
<1>8. CASE TransitionConflict(c) \/ ReleaseRunner(c) \/ AssignRollback(c)
  BY <1>3, <1>4, <1>8 DEF TransitionConflict, ReleaseRunner, AssignRollback
<1>9. CASE AssignCommit(c)
  <2>1. call' = [call EXCEPT ![c] = NoCall] /\ status' = [status EXCEPT ![call[c].job] = "ASSIGNED"]
    BY <1>9 DEF AssignCommit
  <2>2. \A j \in Jobs : status'[j] = "QUEUED" => status[j] = "QUEUED"
    BY <1>1, <2>1
  <2> QED BY <1>3, <1>4, <2>1, <2>2
<1>10. CASE CallsFail({c})
  BY <1>1, <1>4, <1>10 DEF CallsFail, OnlyReaperRequeues
<1> QED BY <1>5, <1>6, <1>7, <1>8, <1>9, <1>10

\* What the handlers and the agents may do to the queue and to the reaper's work.
OutsiderLeaves ==
  /\ UNCHANGED <<sched, reap, inflight>>
  /\ call'["reaper"] = call["reaper"] /\ call'["sched"] = call["sched"]
  /\ \A d \in Clients : call'[d].pc = "update" /\ call'[d].to = "QUEUED" => d = "reaper"
  /\ ToSet(pending) \subseteq ToSet(pending')
  /\ \A j \in Jobs : status'[j] = "QUEUED" => status[j] = "QUEUED" \/ hook'[j] = "enqueue"
  /\ \A j \in Jobs : hook[j] = "enqueue" => hook'[j] = "enqueue" \/ j \in ToSet(pending')

\* webhook.go: the new row is followed by its push.
LEMMA WebhookOutside ==
  ASSUME QueueIsSafe, TypeInv, OnlyReaperRequeues, NEW j \in Jobs, Webhooks(j)
  PROVE  OutsiderLeaves
<1>1. /\ {"sched", "reaper"} \subseteq Clients \ {j}
      /\ j \in Clients \ {"reaper"} /\ "FAILED" \in JobStatus \ {"QUEUED", "ASSIGNED"}
  BY ClientsAssumption DEF JobStatus
<1>2. /\ hook \in [Jobs -> {"none", "enqueue", "fail", "failing"}] /\ pending \in Seq(Jobs)
      /\ status \in [Jobs -> JobStatus \cup {"NONE"}]
  BY DEF TypeInv, TypeOK, ApiTypeOK, QueueTypeOK, StoreTypeOK
<1>3. UNCHANGED <<sched, reap>>
  BY DEF Webhooks, schedVars
<1>4. UNCHANGED storeVars => /\ call'["reaper"] = call["reaper"] /\ call'["sched"] = call["sched"] /\ UNCHANGED status
                             /\ \A d \in Clients : call'[d].pc = "update" /\ call'[d].to = "QUEUED"
                                                     => d = "reaper"
  BY DEF storeVars, OnlyReaperRequeues
<1>5. CASE WebhookCreates(j)
  <2>1. UNCHANGED <<call, pending, inflight>>
    BY <1>5 DEF WebhookCreates, CreateJob, queueVars
  <2>2. \A k \in Jobs : k # j => status'[k] = status[k]
    BY <1>2, <1>5 DEF WebhookCreates, CreateJob
  <2>3. hook'[j] = "enqueue" /\ \A k \in Jobs : k # j => hook'[k] = hook[k]
    BY <1>2, <1>5 DEF WebhookCreates, HookGo
  <2> QED BY <1>3, <2>1, <2>2, <2>3 DEF OutsiderLeaves, OnlyReaperRequeues
<1>6. CASE WebhookEnqueues(j)
  <2>1. ToSet(pending') = {j} \cup ToSet(pending) /\ inflight' = inflight
    BY <1>2, <1>6, ConsFacts DEF WebhookEnqueues, Enqueue
  <2>2. \A k \in Jobs : k # j => hook'[k] = hook[k]
    BY <1>2, <1>6 DEF WebhookEnqueues, HookGo
  <2> QED BY <1>3, <1>4, <1>6, <2>1, <2>2 DEF WebhookEnqueues, OutsiderLeaves
<1>7. CASE WebhookFailsJob(j) \/ WebhookFailing(j)
  <2>1. UNCHANGED <<pending, inflight>>
    BY <1>7 DEF WebhookFailsJob, WebhookFailing, queueVars
  <2>2. \A k \in Jobs : hook[k] = "enqueue" => hook'[k] = "enqueue"
    BY <1>2, <1>7 DEF WebhookFailsJob, WebhookFailing, HookGo, apiVars
  <2>3. /\ call'["reaper"] = call["reaper"] /\ call'["sched"] = call["sched"]
        /\ \A d \in Clients : call'[d].pc = "update" /\ call'[d].to = "QUEUED" => d = "reaper"
        /\ \A k \in Jobs : status'[k] = "QUEUED" => status[k] = "QUEUED"
    BY <1>1, <1>4, <1>7, OutsiderOp DEF WebhookFailsJob, WebhookFailing
  <2> QED BY <1>3, <2>1, <2>2, <2>3 DEF OutsiderLeaves
<1> QED BY <1>5, <1>6, <1>7
        DEF Webhooks, HookStep, HookFault, WebhookEnqueueFails, WebhookDies, Fault, QueueIsSafe

\* jobs.go, runners.go and agent.go.
LEMMA OthersOutside ==
  ASSUME QueueIsSafe, TypeInv, OnlyReaperRequeues,
         Cancels \/ \E r \in Runners : Requests(r) \/ Agent(r)
  PROVE  OutsiderLeaves
<1>1. /\ {"sched", "reaper"} \subseteq Clients \ {"cancel"}
      /\ \A r \in Runners : {"sched", "reaper"} \subseteq Clients \ {r}
      /\ "cancel" \in Clients \ {"reaper"} /\ \A r \in Runners : r \in Clients \ {"reaper"}
      /\ {"RUNNING", "SUCCESS", "FAILED", "CANCELLED"} \subseteq JobStatus \ {"QUEUED", "ASSIGNED"}
  BY ClientsAssumption DEF JobStatus
<1>2. UNCHANGED <<sched, reap>>
  BY DEF Cancels, Requests, Agent, schedVars
<1>3. UNCHANGED <<call, status>>
        => /\ call'["reaper"] = call["reaper"] /\ call'["sched"] = call["sched"]
           /\ \A d \in Clients : call'[d].pc = "update" /\ call'[d].to = "QUEUED" => d = "reaper"
           /\ \A k \in Jobs : status'[k] = "QUEUED" => status[k] = "QUEUED"
  BY DEF OnlyReaperRequeues
<1>4. CASE Cancels
  <2>1. ~CancelFails
    BY DEF CancelFails, Fault, QueueIsSafe
  <2>2. UNCHANGED <<pending, inflight, hook>>
    BY <1>4 DEF Cancels, CancelBegins, CancelStep, CancelFails, queueVars, apiVars
  <2>3. /\ call'["reaper"] = call["reaper"] /\ call'["sched"] = call["sched"]
        /\ \A d \in Clients : call'[d].pc = "update" /\ call'[d].to = "QUEUED" => d = "reaper"
        /\ \A k \in Jobs : status'[k] = "QUEUED" => status[k] = "QUEUED"
    BY <1>1, <1>4, <2>1, OutsiderOp DEF Cancels, CancelBegins, CancelStep
  <2> QED BY <1>2, <2>2, <2>3 DEF OutsiderLeaves
<1>5. ASSUME NEW r \in Runners, Requests(r) PROVE OutsiderLeaves
  <2>1. ~ReportFails(r)
    BY DEF ReportFails, Fault, QueueIsSafe
  <2>2. UNCHANGED <<pending, inflight, hook>>
    BY <1>5 DEF Requests, ReqStep, OwnsCheck, ReportBegins, ReportStored, ReportFails, RequestCut,
                ReqGo, queueVars
  <2>3. req[r].pc = "begin" => req[r].job \in Jobs /\ req[r].to \in JobStatus \ {"QUEUED", "ASSIGNED"}
    BY <1>1 DEF TypeInv, ReqHolds
  <2>4. /\ call'["reaper"] = call["reaper"] /\ call'["sched"] = call["sched"]
        /\ \A d \in Clients : call'[d].pc = "update" /\ call'[d].to = "QUEUED" => d = "reaper"
        /\ \A k \in Jobs : status'[k] = "QUEUED" => status[k] = "QUEUED"
    BY <1>1, <1>3, <1>5, <2>1, <2>3, OutsiderOp
       DEF Requests, ReqStep, OwnsCheck, ReportBegins, ReportStored, RequestCut, storeVars
  <2> QED BY <1>2, <2>2, <2>4 DEF OutsiderLeaves
<1>6. ASSUME NEW r \in Runners, Agent(r) PROVE OutsiderLeaves
  <2>1. UNCHANGED <<pending, inflight, hook, status, call>>
    BY <1>6
       DEF Agent, AgentStep, BuildStep, HeartbeatStep, AgentFault, Register, Poll, StartAnswered,
           ResultAnswered, CheckoutEnds, SpecUnreadable, ExecutionEnds, HeartbeatSent,
           HeartbeatAnswered, PollAnswerLost, StartAnswerLost, LeaseUnreadable,
           AgentDies, FallsSilent, MailboxDropped, Receive, MailboxExpires, ReportResult, Post,
           ReqGo, RegisterRunner, Heartbeat, Silence, queueVars, apiVars, storeVars
  <2> QED BY <1>2, <1>3, <2>1 DEF OutsiderLeaves
<1> QED BY <1>4, <1>5, <1>6

\* What the outsiders leave, and stuttering, keeps every QUEUED job on its way.
LEMMA OutsiderQueue ==
  ASSUME QueueInv, OutsiderLeaves
  PROVE  QueueInv'
<1>1. OnlyReaperRequeues' /\ ReaperRequeues' /\ SchedAssigns' /\ IdsOfRecover'
  BY DEF QueueInv, OutsiderLeaves, OnlyReaperRequeues, ReaperRequeues, SchedAssigns,
         IdsOfRecover
<1>2. ASSUME NEW j \in Jobs, status'[j] = "QUEUED" PROVE OnItsWay(j)'
  BY <1>2 DEF QueueInv, OutsiderLeaves, OnItsWay
<1> QED BY <1>1, <1>2 DEF QueueInv

\* service.go, Run and assign: between BLMOVE and LREM the id is in inflight, between
\* LREM and LPUSH it is in the hands of the loop.
LEMMA SchedQueue ==
  ASSUME QueueIsSafe, TypeInv, QueueInv, SchedStep, UNCHANGED apiVars
  PROVE  QueueInv'
<1>1. /\ sched \in [pc : SchedPcs, job : Jobs \cup {NULL}, runner : Runners \cup {NULL},
                    ids : Seq(Jobs)]
      /\ pending \in Seq(Jobs) /\ inflight \in Seq(Jobs) /\ SchedHolds
  BY DEF TypeInv, TypeOK, SchedTypeOK, QueueTypeOK
<1>2. "sched" \in Clients \ {"reaper"} /\ "reaper" \in Clients
  BY ClientsAssumption
<1>3. /\ reap \in [pc : {"off", "tick", "next", "requeueing", "enqueue"},
                   orphans : SUBSET (Runners \X Jobs), job : Jobs \cup {NULL}]
      /\ UNCHANGED hook
  BY DEF TypeInv, TypeOK, SchedTypeOK, apiVars
<1>4. /\ call'["reaper"] = call["reaper"]
      /\ \A d \in Clients : call'[d].pc = "update" /\ call'[d].to = "QUEUED" => d = "reaper"
      /\ \A j \in Jobs : status'[j] = "QUEUED" => status[j] = "QUEUED"
  <2>1. UNCHANGED storeVars =>
          /\ call'["reaper"] = call["reaper"]
          /\ \A d \in Clients : call'[d].pc = "update" /\ call'[d].to = "QUEUED" => d = "reaper"
          /\ \A j \in Jobs : status'[j] = "QUEUED" => status[j] = "QUEUED"
    BY DEF QueueInv, OnlyReaperRequeues, storeVars
  <2>2. ~BeginUndo /\ ~FinishUndo
    BY DEF QueueInv, OnlyReaperRequeues, BeginUndo, FinishUndo
  <2>3. BeginAssign => (\E j \in Jobs, r \in Runners : AssignJob("sched", j, r)) \/ UNCHANGED storeVars
    BY <1>1 DEF BeginAssign, SchedHolds
  <2>4. OnlyReaperRequeues
    BY DEF QueueInv
  <2> QED BY <1>2, <2>1, <2>2, <2>3, <2>4, OutsiderOp
          DEF SchedStep, Recover, SchedDequeue, LoadJob, ChooseRunner, FinishAssign,
              DispatchJob, RequeueAck, RequeuePush, AckJob
<1>5. reap' = reap \/ (reap.pc = "off" /\ reap'.pc = "tick")
  BY <1>3
     DEF SchedStep, Recover, SchedDequeue, LoadJob, ChooseRunner, BeginAssign, FinishAssign,
         DispatchJob, BeginUndo, FinishUndo, RequeueAck, RequeuePush, AckJob, SchedGo, SchedLoop
<1>6. ReaperRequeues'
  BY <1>4, <1>5 DEF QueueInv, ReaperRequeues
<1>7a. SchedAssigns'
  <2>1. ASSUME sched'.pc = "assigning"
        PROVE  AssignJob("sched", sched.job, sched.runner) /\ sched'.job = sched.job
    <3>1. SchedLoop => sched'.pc = "dequeue"
      BY DEF SchedLoop
    <3>2. ASSUME NEW pc, SchedGo(pc) PROVE sched'.pc = pc /\ sched'.job = sched.job
      BY <1>1, <3>2 DEF SchedGo
    <3>3. ~(Recover \/ SchedDequeue \/ ChooseRunner \/ RequeuePush \/ AckJob)
      BY <1>1, <2>1, <3>1
         DEF Recover, SchedDequeue, ChooseRunner, RequeuePush, AckJob
    <3>4. ~(LoadJob \/ FinishAssign \/ DispatchJob \/ RequeueAck)
      BY <2>1, <3>2 DEF LoadJob, FinishAssign, DispatchJob, RequeueAck
    <3>5. ~(BeginUndo \/ FinishUndo)
      BY DEF QueueInv, OnlyReaperRequeues, BeginUndo, FinishUndo
    <3>6. BeginAssign
      BY <3>3, <3>4, <3>5 DEF SchedStep
    <3> QED BY <2>1, <3>2, <3>6 DEF BeginAssign
  <2>2. call \in [Clients -> CallRecord]
    BY DEF TypeInv, TypeOK, StoreTypeOK, CallRecord
  <2> QED BY <1>2, <2>1, <2>2 DEF AssignJob, SchedAssigns
<1>7. sched'.pc \notin {"undo", "undoing"} /\ IdsOfRecover'
  <2>1. sched.pc \notin {"undo", "undoing"} /\ IdsOfRecover
    BY DEF QueueInv, OnlyReaperRequeues
  <2>2. SchedLoop => sched'.pc \notin {"undo", "undoing"} /\ IdsOfRecover'
    BY DEF SchedLoop, IdsOfRecover
  <2>3. ASSUME NEW pc \in SchedPcs \ {"undo", "undoing"}, SchedGo(pc),
               pc \in {"requeue", "push"} \/ sched.ids = <<>>
        PROVE  sched'.pc \notin {"undo", "undoing"} /\ IdsOfRecover'
    BY <1>1, <2>3 DEF SchedGo, IdsOfRecover
  <2>4. Recover \/ RequeuePush => sched'.pc \notin {"undo", "undoing"} /\ IdsOfRecover'
    BY <1>1, <2>2 DEF Recover, RequeuePush, IdsOfRecover
  <2>5. SchedDequeue \/ ChooseRunner => sched'.pc \notin {"undo", "undoing"} /\ IdsOfRecover'
    BY <1>1, <2>1 DEF SchedDequeue, ChooseRunner, IdsOfRecover
  <2>6. LoadJob \/ BeginAssign \/ FinishAssign \/ DispatchJob \/ RequeueAck
          => sched'.pc \notin {"undo", "undoing"} /\ IdsOfRecover'
    BY <2>1, <2>3
       DEF LoadJob, BeginAssign, FinishAssign, DispatchJob, RequeueAck, IdsOfRecover, SchedPcs
  <2>7. AckJob => sched'.pc \notin {"undo", "undoing"} /\ IdsOfRecover'
    BY <2>2 DEF AckJob
  <2> QED BY <2>1, <2>4, <2>5, <2>6, <2>7 DEF SchedStep, BeginUndo, FinishUndo
<1>8. ASSUME NEW j \in Jobs, status'[j] = "QUEUED" PROVE OnItsWay(j)'
  <2>1. OnItsWay(j) /\ status[j] = "QUEUED"
    BY <1>4, <1>8 DEF QueueInv
  <2>2. ASSUME \/ hook[j] = "enqueue"
               \/ reap.pc = "requeueing" /\ call["reaper"].pc = "release" /\ reap.job = j
               \/ reap.pc = "enqueue" /\ reap.job = j
        PROVE  OnItsWay(j)'
    BY <1>3, <1>4, <1>5, <2>2 DEF OnItsWay
  <2>3. ASSUME j \in ToSet(pending), UNCHANGED pending PROVE OnItsWay(j)'
    BY <2>3 DEF OnItsWay
  <2>4. IdsOfRecover /\ sched.pc \notin {"undo", "undoing"}
    BY DEF QueueInv, OnlyReaperRequeues
  <2>5. ToSet(<<>>) = {}
    BY DEF ToSet
  <2>6. CASE Recover
    <3>1. UNCHANGED <<pending, inflight>> /\ sched.pc = "recover"
      BY <2>6 DEF Recover, queueVars
    <3>2. CASE j \in ToSet(inflight)
      <4>1. inflight # <<>> /\ ToSet(inflight) = {Head(inflight)} \cup ToSet(Tail(inflight))
        BY <1>1, <2>5, <3>2, TailFacts
      <4>2. sched'.pc = "requeue" /\ sched'.job = Head(inflight) /\ sched'.ids = Tail(inflight)
        BY <1>1, <2>6, <4>1 DEF Recover
      <4> QED BY <3>1, <3>2, <4>1, <4>2 DEF OnItsWay
    <3> QED BY <2>1, <2>2, <2>3, <3>1, <3>2 DEF OnItsWay
  <2>7. CASE SchedDequeue
    <3>1. pending # <<>> /\ ToSet(pending) = ToSet(Front(pending)) \cup {Last(pending)}
             /\ Last(pending) \in Jobs
      BY <1>1, <2>7, FrontFacts DEF SchedDequeue, Dequeue
    <3>2. ToSet(inflight') = {Last(pending)} \cup ToSet(inflight) /\ pending' = Front(pending)
      BY <1>1, <2>7, <3>1, ConsFacts DEF SchedDequeue, Dequeue
    <3>3. sched.pc = "dequeue" /\ sched'.pc = "load" /\ sched'.job = Last(pending)
      BY <1>1, <2>7 DEF SchedDequeue
    <3>4. ~(j \in ToSet(sched.ids))
      BY <2>4, <2>5, <3>3 DEF IdsOfRecover
    <3> QED BY <2>1, <2>2, <3>1, <3>2, <3>3, <3>4 DEF OnItsWay
  <2>8. CASE LoadJob
    <3>1. UNCHANGED <<pending, inflight>> /\ sched.pc = "load"
      BY <2>8 DEF LoadJob, queueVars
    <3>2. sched'.job = sched.job /\ sched'.ids = sched.ids
            /\ (sched.job = j => sched'.pc = "list")
      BY <1>1, <2>1, <2>8 DEF LoadJob, SchedGo
    <3> QED BY <2>1, <2>2, <3>1, <3>2 DEF OnItsWay
  <2>9. CASE ChooseRunner
    <3>1. UNCHANGED <<pending, inflight>> /\ sched.pc = "list"
      BY <2>9 DEF ChooseRunner, queueVars
    <3>2. sched'.job = sched.job /\ sched'.ids = sched.ids /\ sched'.pc \in {"assign", "requeue"}
      BY <1>1, <2>9 DEF ChooseRunner
    <3> QED BY <2>1, <2>2, <3>1, <3>2 DEF OnItsWay
  <2>10. CASE BeginAssign
    <3>1. UNCHANGED <<pending, inflight>> /\ sched.pc = "assign"
      BY <2>10 DEF BeginAssign, queueVars
    <3>2. /\ sched'.job = sched.job /\ sched'.ids = sched.ids
          /\ sched'.pc \in {"assigning", "requeue"}
      BY <1>1, <2>10 DEF BeginAssign, SchedGo
    <3> QED BY <2>1, <2>2, <3>1, <3>2 DEF OnItsWay
  <2>11. CASE FinishAssign
    <3>1. UNCHANGED <<pending, inflight>> /\ sched.pc = "assigning"
      BY <2>11 DEF FinishAssign, queueVars
    <3>2. /\ sched'.job = sched.job /\ sched'.ids = sched.ids
          /\ sched'.pc = "requeue" \/ AssignCommit("sched")
      BY <1>1, <2>11 DEF FinishAssign, SchedGo
    <3>2a. status \in [Jobs -> JobStatus \cup {"NONE"}]
      BY DEF TypeInv, TypeOK, StoreTypeOK
    <3>3. CASE AssignCommit("sched")
      \* the committed job is not QUEUED any more
      <4>1. status'[sched.job] = "ASSIGNED"
        <5>1. call["sched"].job = sched.job /\ sched.job \in Jobs
          BY <1>1, <3>1 DEF QueueInv, SchedAssigns, SchedHolds
        <5> QED BY <3>2a, <3>3, <5>1 DEF AssignCommit
      <4> QED BY <1>8, <2>1, <2>2, <3>1, <3>2, <4>1 DEF OnItsWay
    <3> QED BY <2>1, <2>2, <3>1, <3>2, <3>3 DEF OnItsWay
  <2>12. CASE DispatchJob
    <3>1. UNCHANGED <<pending, inflight>> /\ sched.pc = "dispatch" /\ sched.ids = <<>>
      BY <2>4, <2>12 DEF DispatchJob, Dispatch, IdsOfRecover
    <3> QED BY <2>1, <2>2, <2>3, <2>5, <3>1 DEF OnItsWay
  <2>13. CASE RequeueAck
    <3>1. /\ UNCHANGED pending /\ sched.pc = "requeue" /\ inflight' = RemoveFirst(inflight, sched.job)
          /\ sched'.pc = "push" /\ sched'.job = sched.job /\ sched'.ids = sched.ids
      BY <1>1, <2>13 DEF RequeueAck, Ack, SchedGo
    <3>2. ToSet(inflight) \ {sched.job} \subseteq ToSet(inflight')
      BY <1>1, <3>1, RemoveFirstFacts
    <3>3. CASE sched.job = j
      BY <3>1, <3>3 DEF OnItsWay
    <3>4. CASE sched.job # j
      BY <2>1, <2>2, <3>1, <3>2, <3>4 DEF OnItsWay
    <3> QED BY <3>3, <3>4
  <2>14. CASE RequeuePush
    <3>1. /\ sched.pc = "push" /\ UNCHANGED inflight
          /\ ToSet(pending') = {sched.job} \cup ToSet(pending)
      BY <1>1, <2>14, ConsFacts DEF RequeuePush, Enqueue, SchedHolds
    <3>2. CASE j \in ToSet(inflight) /\ j \in ToSet(sched.ids)
      <4>1. /\ sched.ids # <<>>
            /\ ToSet(sched.ids) = {Head(sched.ids)} \cup ToSet(Tail(sched.ids))
        BY <1>1, <2>5, <3>2, TailFacts
      <4>2. sched'.pc = "requeue" /\ sched'.job = Head(sched.ids) /\ sched'.ids = Tail(sched.ids)
        BY <1>1, <2>14, <4>1 DEF RequeuePush
      <4> QED BY <3>1, <3>2, <4>1, <4>2 DEF OnItsWay
    <3> QED BY <2>1, <2>2, <3>1, <3>2 DEF OnItsWay
  <2>15. CASE AckJob
    <3>1. UNCHANGED pending /\ sched.pc = "ack" /\ sched.ids = <<>>
      BY <2>4, <2>15 DEF AckJob, Ack, IdsOfRecover
    <3> QED BY <2>1, <2>2, <2>3, <2>5, <3>1 DEF OnItsWay
  <2> QED BY <2>4, <2>6, <2>7, <2>8, <2>9, <2>10, <2>11, <2>12, <2>13, <2>14, <2>15
          DEF SchedStep, BeginUndo, FinishUndo
<1> QED BY <1>4, <1>6, <1>7a, <1>7, <1>8 DEF QueueInv, OnlyReaperRequeues

\* service.go, reapLoop: a job that RequeueJob took back is pushed by the same goroutine.
LEMMA ReapQueue ==
  ASSUME QueueIsSafe, TypeInv, QueueInv, ReapStep, UNCHANGED apiVars
  PROVE  QueueInv'
<1>1. /\ reap \in [pc : {"off", "tick", "next", "requeueing", "enqueue"},
                   orphans : SUBSET (Runners \X Jobs), job : Jobs \cup {NULL}]
      /\ pending \in Seq(Jobs) /\ SchedHolds
      /\ call \in [Clients -> CallRecord] /\ status \in [Jobs -> JobStatus \cup {"NONE"}]
  BY DEF TypeInv, TypeOK, SchedTypeOK, QueueTypeOK, StoreTypeOK, CallRecord
<1>2. "reaper" \in Clients /\ "sched" \in Clients
  BY ClientsAssumption
<1>3. UNCHANGED <<sched, inflight, hook>>
  BY DEF ReapStep, ReapTick, ReapNext, ReapRequeue, ReapEnqueue, Enqueue, queueVars, apiVars
<1>4. IdsOfRecover' /\ sched'.pc \notin {"undo", "undoing"}
  BY <1>3 DEF QueueInv, OnlyReaperRequeues, IdsOfRecover
<1>5. ASSUME NEW op, call' = [call EXCEPT !["reaper"] = op] \/ UNCHANGED call
      PROVE  /\ OnlyReaperRequeues' /\ SchedAssigns' /\ IdsOfRecover'
             /\ \A d \in Clients : d # "reaper" => call'[d] = call[d]
  BY <1>1, <1>2, <1>3, <1>4, <1>5 DEF QueueInv, OnlyReaperRequeues, SchedAssigns
<1>6. ASSUME NEW rest, ReapGo(rest) PROVE ReaperRequeues'
  BY <1>6 DEF ReapGo, ReaperRequeues
<1>7. ASSUME NEW j \in Jobs, OnItsWay(j), reap.pc \notin {"requeueing", "enqueue"},
             ToSet(pending) \subseteq ToSet(pending')
      PROVE  OnItsWay(j)'
  BY <1>3, <1>7 DEF OnItsWay
<1>8. CASE ReapTick
  <2>1. reap.pc = "tick" /\ ReapGo(Orphans) /\ UNCHANGED <<pending, status, call>>
    BY <1>8 DEF ReapTick, ReapOfflineRunners, queueVars
  <2> QED BY <1>5, <1>6, <1>7, <2>1 DEF QueueInv
<1>9. CASE ReapNext
  <2>1. reap.pc = "next" /\ UNCHANGED <<pending, status>>
    BY <1>9 DEF ReapNext, Transition, storeVars, queueVars
  <2>2. PICK p \in reap.orphans :
          \/ /\ Transition("reaper", p[2], "QUEUED")
             /\ reap' = [pc |-> "requeueing", orphans |-> reap.orphans \ {p}, job |-> p[2]]
          \/ ReapGo(reap.orphans \ {p}) /\ UNCHANGED storeVars
    BY <1>9 DEF ReapNext
  <2>3. p[2] \in Jobs
    BY <1>1
  <2>4. \A j \in Jobs : status'[j] = "QUEUED" => OnItsWay(j)'
    BY <1>7, <2>1 DEF QueueInv
  <2>5. CASE ReapGo(reap.orphans \ {p}) /\ UNCHANGED storeVars
    BY <1>5, <1>6, <2>4, <2>5 DEF storeVars, QueueInv
  <2>6. CASE /\ Transition("reaper", p[2], "QUEUED")
             /\ reap' = [pc |-> "requeueing", orphans |-> reap.orphans \ {p}, job |-> p[2]]
    <3> DEFINE op == [pc |-> "update", job |-> p[2], to |-> "QUEUED", seen |-> status[p[2]],
                      owner |-> runner_id[p[2]]]
    <3>1. call' = [call EXCEPT !["reaper"] = op]
      BY <2>6 DEF Transition
    <3>2. runner_id[p[2]] # NULL
      <4>1. status[p[2]] \in JobStatus /\ "QUEUED" \in jobTransitions[status[p[2]]]
        BY <1>1, <2>3, <2>6 DEF Transition, MayMove, Exists, CanTransitionTo
      <4>2. status[p[2]] \in {"ASSIGNED", "RUNNING"}
        BY <4>1, TableFacts
      <4> QED BY <2>3, <4>2 DEF TypeInv, StoreInv, OwnerMatchesStatus
    <3>3. /\ op.pc = "update" /\ op.job = p[2] /\ op.to = "QUEUED" /\ op.owner # NULL
      BY <3>2
    <3> HIDE DEF op
    <3>4. call'["reaper"] = op
      BY <1>1, <1>2, <3>1
    <3>5. ReaperRequeues'
      BY <2>6, <3>3, <3>4 DEF ReaperRequeues
    <3> QED BY <1>5, <2>4, <3>1, <3>5 DEF QueueInv
  <2> QED BY <2>2, <2>5, <2>6
<1>10. CASE ReapRequeue
  <2>1. /\ reap.pc = "requeueing" /\ UNCHANGED pending /\ reap.job \in Jobs
        /\ call["reaper"].job = reap.job /\ call["reaper"].to = "QUEUED"
        /\ call["reaper"].owner # NULL /\ call["reaper"] \in CallRecord
    BY <1>1, <1>2, <1>10 DEF ReapRequeue, queueVars, QueueInv, ReaperRequeues, SchedHolds
  <2>2. ASSUME NEW j \in Jobs, OnItsWay(j), j # reap.job \/ call["reaper"].pc # "release"
        PROVE  OnItsWay(j)'
    BY <1>3, <2>1, <2>2 DEF OnItsWay
  <2>3. CASE TransitionUpdate("reaper") /\ UNCHANGED reap
    <3> DEFINE op == [call["reaper"] EXCEPT !.pc = "release"]
    <3>1. /\ call' = [call EXCEPT !["reaper"] = op] /\ call["reaper"].pc = "update"
          /\ status' = [status EXCEPT ![reap.job] = "QUEUED"]
      BY <2>1, <2>3 DEF TransitionUpdate, ThenReleases
    <3>2. /\ op.pc = "release" /\ op.job = reap.job /\ op.to = "QUEUED" /\ op.owner # NULL
      BY <2>1 DEF CallRecord
    <3> HIDE DEF op
    <3>3. call'["reaper"] = op
      BY <1>1, <1>2, <3>1
    <3>4. ReaperRequeues'
      BY <2>3, <3>2, <3>3 DEF ReaperRequeues
    <3>5. ASSUME NEW j \in Jobs, status'[j] = "QUEUED" PROVE OnItsWay(j)'
      <4>1. CASE j = reap.job
        BY <2>1, <2>3, <3>2, <3>3, <4>1 DEF OnItsWay
      <4>2. CASE j # reap.job
        <5>1. status[j] = "QUEUED"
          BY <1>1, <2>1, <3>1, <3>5, <4>2
        <5> QED BY <2>2, <4>2, <5>1 DEF QueueInv
      <4> QED BY <4>1, <4>2
    <3> QED BY <1>5, <3>1, <3>4, <3>5 DEF QueueInv
  <2>4. CASE ReleaseRunner("reaper") /\ reap' = [reap EXCEPT !.pc = "enqueue"]
    <3>1. call' = [call EXCEPT !["reaper"] = NoCall] /\ UNCHANGED status
      BY <2>4 DEF ReleaseRunner
    <3>2. reap'.pc = "enqueue" /\ reap'.job = reap.job
      BY <1>1, <2>4
    <3>3. ASSUME NEW j \in Jobs, status'[j] = "QUEUED" PROVE OnItsWay(j)'
      <4>1. CASE j = reap.job
        BY <3>2, <4>1 DEF OnItsWay
      <4> QED BY <2>2, <3>1, <3>3, <4>1 DEF QueueInv
    <3>4. ReaperRequeues'
      BY <3>2 DEF ReaperRequeues
    <3> QED BY <1>5, <3>1, <3>3, <3>4 DEF QueueInv
  <2>5. CASE TransitionConflict("reaper") /\ ReapGo(reap.orphans)
    <3>1. /\ call' = [call EXCEPT !["reaper"] = NoCall] /\ UNCHANGED status
          /\ call["reaper"].pc = "update"
      BY <2>5 DEF TransitionConflict
    <3>2. ASSUME NEW j \in Jobs, status'[j] = "QUEUED" PROVE OnItsWay(j)'
      BY <2>2, <3>1, <3>2 DEF QueueInv
    <3> QED BY <1>5, <1>6, <2>5, <3>1, <3>2 DEF QueueInv
  <2> QED BY <1>10, <2>3, <2>4, <2>5 DEF ReapRequeue
<1>11. CASE ReapEnqueue
  <2>1. /\ ToSet(pending') = {reap.job} \cup ToSet(pending) /\ reap.pc = "enqueue"
        /\ ReapGo(reap.orphans) /\ UNCHANGED <<status, call>>
    BY <1>1, <1>11, ConsFacts DEF ReapEnqueue, Enqueue, SchedHolds, storeVars
  <2>2. ASSUME NEW j \in Jobs, status'[j] = "QUEUED" PROVE OnItsWay(j)'
    <3>1. OnItsWay(j)
      BY <2>1, <2>2 DEF QueueInv
    <3> QED BY <1>3, <2>1, <3>1 DEF OnItsWay
  <2> QED BY <1>5, <1>6, <2>1, <2>2 DEF QueueInv
<1> QED BY <1>8, <1>9, <1>10, <1>11 DEF ReapStep

\* service.go: the process dies while no id is in its hands alone; Recover finds the rest.
LEMMA CrashQueue ==
  ASSUME QueueIsSafe, TypeInv, QueueInv, SchedFault, UNCHANGED apiVars
  PROVE  QueueInv'
<1>1. SchedCrash
  BY DEF SchedFault, SchedRedisFails, SchedDbFails, Fault, QueueIsSafe
<1>2. /\ sched.pc # "push" /\ reap.pc \in {"off", "tick"} /\ UNCHANGED <<queueVars, status, hook>>
      /\ sched'.pc = "recover" /\ sched'.ids = <<>> /\ reap'.pc = "off"
  BY <1>1 DEF SchedCrash, CallsFail, QueueIsSafe, apiVars
<1>3. \A d \in Clients : call'[d] = NoCall \/ call'[d] = call[d]
  BY <1>1 DEF SchedCrash, CallsFail
<1>4. OnlyReaperRequeues' /\ ReaperRequeues' /\ SchedAssigns' /\ IdsOfRecover'
  <2>1. \A d \in Clients : call'[d].pc # "update" \/ call'[d] = call[d]
    BY <1>3 DEF NoCall
  <2> QED BY <1>2, <2>1
          DEF QueueInv, OnlyReaperRequeues, ReaperRequeues, SchedAssigns, IdsOfRecover
<1>5. ASSUME NEW j \in Jobs, status'[j] = "QUEUED" PROVE OnItsWay(j)'
  BY <1>2, <1>5 DEF QueueInv, OnItsWay, queueVars
<1> QED BY <1>4, <1>5 DEF QueueInv

\* Every step, as long as the faults are of the kinds that keep the queue safe.
LEMMA StepQueue ==
  ASSUME QueueIsSafe
  PROVE  TypeInv /\ QueueInv /\ [Next]_vars => QueueInv'
<1> SUFFICES ASSUME TypeInv, QueueInv, [Next]_vars PROVE QueueInv'
    OBVIOUS
<1>1. CASE Scheduler
  BY <1>1, SchedQueue, CrashQueue DEF Scheduler, apiVars
<1>2. CASE Reaper
  BY <1>2, ReapQueue DEF Reaper, apiVars
<1>3. CASE Cancels \/ \E r \in Runners : Requests(r) \/ Agent(r)
  BY <1>3, OthersOutside, OutsiderQueue DEF QueueInv
<1>4. CASE \E j \in Jobs : Webhooks(j)
  BY <1>4, WebhookOutside, OutsiderQueue DEF QueueInv
<1>5. CASE UNCHANGED vars
  <2>1. OutsiderLeaves
    BY <1>5 DEF vars, storeVars, queueVars, schedVars, apiVars, OutsiderLeaves, QueueInv,
                OnlyReaperRequeues
  <2> QED BY <2>1, OutsiderQueue
<1> QED BY <1>1, <1>2, <1>3, <1>4, <1>5 DEF Next

\* No QUEUED job is forgotten, with any number of jobs and runners, of deaths and
\* restarts, lost heartbeats, requests and answers, and however slow the requests.
THEOREM QueuedCorrect ==
  ASSUME QueueIsSafe
  PROVE  Spec => []QueuedJobIsQueued
<1>1. Init => QueueInv
  BY DEF Init, StoreInit, SchedInit, QueueInv, OnlyReaperRequeues, ReaperRequeues, SchedAssigns,
         IdsOfRecover, NoCall
<1>2. QueueInv => QueuedJobIsQueued
  BY DEF QueueInv, OnItsWay, QueuedJobIsQueued
<1>3. TypeInv /\ QueueInv /\ [Next]_vars => QueueInv'
  BY StepQueue
<1> QED BY InitTypes, StepTypes, <1>1, <1>2, <1>3, PTL DEF Spec

-----------------------------------------------------------------------------
(* The effects of the store's operations *)

\* store.go: what the tables and the operations under way are made of.
LEMMA StoreFacts ==
  ASSUME TypeInv
  PROVE  /\ status \in [Jobs -> JobStatus \cup {"NONE"}]
         /\ runner_id \in [Jobs -> Runners \cup {NULL}]
         /\ runnerStatus \in [Runners -> RunnerStatus \cup {"NONE"}]
         /\ currentJob \in [Runners -> Jobs \cup {NULL}]
         /\ call \in [Clients -> CallRecord]
         /\ OwnerMatchesStatus /\ BusyIffHolding
         /\ \A c \in Clients :
              /\ call[c] \in CallRecord
              /\ call[c].pc \in {"update", "assign"} => call[c].job \in Jobs
              /\ call[c].pc \in {"assign", "release"} => call[c].owner \in Runners
              /\ call[c].pc = "update" => call[c].seen \in {"QUEUED", "ASSIGNED", "RUNNING"}
              /\ call[c].pc = "update" /\ call[c].to = "QUEUED"
                   => call[c].seen \in {"ASSIGNED", "RUNNING"}
              /\ call[c].pc = "update" /\ call[c].to = "RUNNING" => call[c].seen = "ASSIGNED"
              /\ call[c].pc = "assign" => call[c].seen = "QUEUED"
<1>1. StoreTypeOK /\ OwnerMatchesStatus /\ BusyIffHolding /\ CallsAreLegal
  BY DEF TypeInv, StoreInv
<1>2. call \in [Clients -> CallRecord]
  BY <1>1 DEF StoreTypeOK, CallRecord
<1>3. ASSUME NEW c \in Clients, call[c].pc \in {"update", "assign"}
      PROVE  /\ call[c].seen \in JobStatus /\ call[c].to \in jobTransitions[call[c].seen]
             /\ call[c].job \in Jobs
             /\ call[c].pc = "assign" => call[c].to = "ASSIGNED"
  BY <1>1, <1>2, <1>3 DEF CallsAreLegal, CanTransitionTo, CallRecord
<1>4. ASSUME NEW c \in Clients
      PROVE  /\ call[c] \in CallRecord
             /\ call[c].pc \in {"assign", "release"} => call[c].owner \in Runners
  BY <1>1, <1>2 DEF CallsAreLegal, CallRecord
<1>5. ASSUME NEW c \in Clients
      PROVE  /\ call[c].pc = "update" => call[c].seen \in {"QUEUED", "ASSIGNED", "RUNNING"}
             /\ call[c].pc = "update" /\ call[c].to = "QUEUED"
                   => call[c].seen \in {"ASSIGNED", "RUNNING"}
             /\ call[c].pc = "update" /\ call[c].to = "RUNNING" => call[c].seen = "ASSIGNED"
             /\ call[c].pc = "assign" => call[c].seen = "QUEUED"
  <2>1. CASE call[c].pc \in {"update", "assign"}
    <3>1. /\ call[c].seen \in JobStatus /\ call[c].to \in jobTransitions[call[c].seen]
          /\ call[c].pc = "assign" => call[c].to = "ASSIGNED"
      BY <1>3, <2>1
    <3>2. call[c].seen \in {"QUEUED", "ASSIGNED", "RUNNING"}
      BY <3>1, TableFacts
    <3>3. /\ call[c].to = "QUEUED" => call[c].seen \in {"ASSIGNED", "RUNNING"}
          /\ call[c].to = "RUNNING" => call[c].seen = "ASSIGNED"
          /\ call[c].to = "ASSIGNED" => call[c].seen = "QUEUED"
      BY <3>1, TableFacts
    <3> QED BY <3>1, <3>2, <3>3
  <2> QED BY <2>1
<1> QED BY <1>1, <1>2, <1>3, <1>4, <1>5 DEF StoreTypeOK

\* Only client c goes on, and the rows stay as they are.
OnlyCall(c) ==
  /\ \A d \in Clients : d # c => call'[d] = call[d]
  /\ UNCHANGED <<status, runner_id, runnerStatus, currentJob>>

\* store.go, transition, first half.
LEMMA BeginEffect ==
  ASSUME TypeInv, NEW c \in Clients, NEW j \in Jobs, NEW to \in JobStatus, Transition(c, j, to)
  PROVE  /\ OnlyCall(c) /\ UNCHANGED fresh /\ call[c].pc = "none"
         /\ call'[c].pc = "update" /\ call'[c].job = j /\ call'[c].to = to
         /\ call'[c].seen = status[j] /\ call'[c].owner = runner_id[j]
         /\ status[j] \in {"QUEUED", "ASSIGNED", "RUNNING"}
         /\ to = "RUNNING" => status[j] = "ASSIGNED"
         /\ to = "SUCCESS" => status[j] = "RUNNING"
         /\ to \in {"QUEUED", "FAILED"} => status[j] \in {"ASSIGNED", "RUNNING"}
<1> DEFINE op == [pc |-> "update", job |-> j, to |-> to, seen |-> status[j],
                  owner |-> runner_id[j]]
<1>1. call' = [call EXCEPT ![c] = op] /\ call[c].pc = "none"
      /\ UNCHANGED <<status, runner_id, runnerStatus, currentJob, fresh>>
  BY DEF Transition
<1>2. op.pc = "update" /\ op.job = j /\ op.to = to /\ op.seen = status[j] /\ op.owner = runner_id[j]
  OBVIOUS
<1> HIDE DEF op
<1>3. call'[c] = op /\ \A d \in Clients : d # c => call'[d] = call[d]
  BY <1>1, StoreFacts
<1>4. status[j] \in JobStatus /\ to \in jobTransitions[status[j]]
  BY StoreFacts DEF Transition, MayMove, Exists, CanTransitionTo
<1>5. /\ status[j] \in {"QUEUED", "ASSIGNED", "RUNNING"}
      /\ to = "RUNNING" => status[j] = "ASSIGNED"
      /\ to = "SUCCESS" => status[j] = "RUNNING"
      /\ to \in {"QUEUED", "FAILED"} => status[j] \in {"ASSIGNED", "RUNNING"}
  BY <1>4, TableFacts
<1> QED BY <1>1, <1>2, <1>3, <1>5 DEF OnlyCall

\* store.go, transition, second half.
LEMMA UpdateEffect ==
  ASSUME TypeInv, NEW c \in Clients, TransitionUpdate(c)
  PROVE  /\ call[c].pc = "update" /\ call[c].job \in Jobs
         /\ status[call[c].job] = call[c].seen /\ status'[call[c].job] = call[c].to
         /\ call[c].seen \in {"QUEUED", "ASSIGNED", "RUNNING"}
         /\ call[c].to \in {"QUEUED", "RUNNING", "SUCCESS", "FAILED", "CANCELLED"}
         /\ \A k \in Jobs : k # call[c].job => status'[k] = status[k] /\ runner_id'[k] = runner_id[k]
         /\ runner_id'[call[c].job] = IF call[c].to = "QUEUED" THEN NULL ELSE runner_id[call[c].job]
         /\ \A d \in Clients : d # c => call'[d] = call[d]
         /\ call[c].to = "RUNNING" \/ call[c].owner = NULL => call'[c].pc = "none"
         /\ ~(call[c].to = "RUNNING" \/ call[c].owner = NULL)
              => /\ call'[c].pc = "release" /\ call'[c].job = call[c].job
                 /\ call'[c].owner = call[c].owner /\ call'[c].to = call[c].to
         /\ UNCHANGED <<runnerStatus, currentJob, fresh>>
<1> DEFINE new == IF ThenReleases(call[c]) THEN [call[c] EXCEPT !.pc = "release"] ELSE NoCall
<1>1. /\ call[c].pc = "update" /\ status[call[c].job] = call[c].seen
      /\ status' = [status EXCEPT ![call[c].job] = call[c].to]
      /\ runner_id' = IF call[c].to = "QUEUED" THEN [runner_id EXCEPT ![call[c].job] = NULL]
                                               ELSE runner_id
      /\ call' = [call EXCEPT ![c] = new] /\ UNCHANGED <<runnerStatus, currentJob, fresh>>
  BY DEF TransitionUpdate
<1>2. call[c] \in CallRecord /\ call[c].job \in Jobs /\ call[c].seen \in {"QUEUED", "ASSIGNED", "RUNNING"}
  BY <1>1, StoreFacts
<1>3. /\ call[c].to = "RUNNING" \/ call[c].owner = NULL => new.pc = "none"
      /\ ~(call[c].to = "RUNNING" \/ call[c].owner = NULL)
           => /\ new.pc = "release" /\ new.job = call[c].job
              /\ new.owner = call[c].owner /\ new.to = call[c].to
  BY <1>2 DEF CallRecord, ThenReleases, NoCall
<1> HIDE DEF new
<1>4. call'[c] = new /\ \A d \in Clients : d # c => call'[d] = call[d]
  BY <1>1, StoreFacts
<1>5. call[c].to \in {"QUEUED", "RUNNING", "SUCCESS", "FAILED", "CANCELLED"}
  BY <1>1, <1>2, TableFacts
     DEF TypeInv, StoreInv, CallsAreLegal, CanTransitionTo, JobStatus
<1>6. /\ status'[call[c].job] = call[c].to
      /\ \A k \in Jobs : k # call[c].job => status'[k] = status[k] /\ runner_id'[k] = runner_id[k]
      /\ runner_id'[call[c].job] = IF call[c].to = "QUEUED" THEN NULL ELSE runner_id[call[c].job]
  BY <1>1, <1>2, StoreFacts
<1> QED BY <1>1, <1>2, <1>3, <1>4, <1>5, <1>6

\* store.go: an operation that ends, or is cut off, without writing.
LEMMA EndEffect ==
  ASSUME TypeInv, NEW c \in Clients, TransitionConflict(c) \/ AssignRollback(c) \/ CallsFail({c})
  PROVE  /\ OnlyCall(c) /\ UNCHANGED fresh /\ call'[c].pc = "none"
         /\ TransitionConflict(c) => call[c].pc = "update" /\ status[call[c].job] # call[c].seen
<1>1. UNCHANGED <<status, runner_id, runnerStatus, currentJob, fresh>>
  BY DEF TransitionConflict, AssignRollback, CallsFail
<1>2. call'[c] = NoCall /\ \A d \in Clients : d # c => call'[d] = call[d]
  BY StoreFacts DEF TransitionConflict, AssignRollback, CallsFail
<1> QED BY <1>1, <1>2 DEF OnlyCall, NoCall, TransitionConflict

\* store.go, releaseRunner.
LEMMA ReleaseEffect ==
  ASSUME TypeInv, NEW c \in Clients, ReleaseRunner(c)
  PROVE  /\ call[c].pc = "release" /\ call[c].owner \in Runners /\ call'[c].pc = "none"
         /\ \A d \in Clients : d # c => call'[d] = call[d]
         /\ UNCHANGED <<status, runner_id, fresh>>
         /\ \A r \in Runners : r # call[c].owner
              => runnerStatus'[r] = runnerStatus[r] /\ currentJob'[r] = currentJob[r]
         /\ IF runnerStatus[call[c].owner] = "BUSY"
            THEN runnerStatus'[call[c].owner] = "IDLE" /\ currentJob'[call[c].owner] = NULL
            ELSE /\ runnerStatus'[call[c].owner] = runnerStatus[call[c].owner]
                 /\ currentJob'[call[c].owner] = currentJob[call[c].owner]
<1> DEFINE r == call[c].owner
           s == IF runnerStatus[r] = "BUSY" THEN "IDLE" ELSE runnerStatus[r]
<1>1. /\ call[c].pc = "release" /\ call' = [call EXCEPT ![c] = NoCall]
      /\ runnerStatus' = [runnerStatus EXCEPT ![r] = s]
      /\ currentJob' = IF runnerStatus[r] = "BUSY" THEN [currentJob EXCEPT ![r] = NULL]
                                                   ELSE currentJob
      /\ UNCHANGED <<status, runner_id, fresh>>
  BY DEF ReleaseRunner
<1>2. r \in Runners
  BY <1>1, StoreFacts
<1>3. call'[c] = NoCall /\ \A d \in Clients : d # c => call'[d] = call[d]
  BY <1>1, StoreFacts
<1> HIDE DEF r
<1>4. /\ runnerStatus'[r] = s /\ \A q \in Runners : q # r => runnerStatus'[q] = runnerStatus[q]
      /\ \A q \in Runners : q # r => currentJob'[q] = currentJob[q]
      /\ currentJob'[r] = IF runnerStatus[r] = "BUSY" THEN NULL ELSE currentJob[r]
  BY <1>1, <1>2, StoreFacts
<1> QED BY <1>1, <1>2, <1>3, <1>4 DEF NoCall, r

\* store.go, AssignJob: the read, and the transaction.
LEMMA AssignEffect ==
  ASSUME TypeInv, NEW c \in Clients
  PROVE  /\ \A j \in Jobs, r \in Runners : AssignJob(c, j, r) =>
              /\ OnlyCall(c) /\ UNCHANGED fresh /\ call'[c].pc = "assign" /\ call[c].pc = "none"
              /\ call'[c].job = j /\ call'[c].owner = r /\ call'[c].to = "ASSIGNED"
         /\ AssignCommit(c) =>
              /\ call[c].pc = "assign" /\ call'[c].pc = "none"
              /\ call[c].job \in Jobs /\ call[c].owner \in Runners
              /\ status[call[c].job] = "QUEUED" /\ runner_id[call[c].job] = NULL
              /\ runnerStatus[call[c].owner] = "IDLE" /\ currentJob[call[c].owner] = NULL
              /\ status'[call[c].job] = "ASSIGNED" /\ runner_id'[call[c].job] = call[c].owner
              /\ runnerStatus'[call[c].owner] = "BUSY" /\ currentJob'[call[c].owner] = call[c].job
              /\ \A k \in Jobs : k # call[c].job => status'[k] = status[k] /\ runner_id'[k] = runner_id[k]
              /\ \A q \in Runners : q # call[c].owner
                   => runnerStatus'[q] = runnerStatus[q] /\ currentJob'[q] = currentJob[q]
              /\ \A d \in Clients : d # c => call'[d] = call[d]
              /\ UNCHANGED fresh
<1>1. ASSUME NEW j \in Jobs, NEW r \in Runners, AssignJob(c, j, r)
      PROVE  /\ OnlyCall(c) /\ UNCHANGED fresh /\ call'[c].pc = "assign" /\ call[c].pc = "none"
             /\ call'[c].job = j /\ call'[c].owner = r /\ call'[c].to = "ASSIGNED"
  <2> DEFINE op == [pc |-> "assign", job |-> j, to |-> "ASSIGNED", seen |-> status[j], owner |-> r]
  <2>1. call' = [call EXCEPT ![c] = op] /\ call[c].pc = "none"
        /\ UNCHANGED <<status, runner_id, runnerStatus, currentJob, fresh>>
    BY <1>1 DEF AssignJob
  <2>2. op.pc = "assign" /\ op.job = j /\ op.owner = r /\ op.to = "ASSIGNED"
    OBVIOUS
  <2> HIDE DEF op
  <2>3. call'[c] = op /\ \A d \in Clients : d # c => call'[d] = call[d]
    BY <2>1, StoreFacts
  <2> QED BY <2>1, <2>2, <2>3 DEF OnlyCall
<1>2. ASSUME AssignCommit(c)
      PROVE  /\ call[c].pc = "assign" /\ call'[c].pc = "none"
             /\ call[c].job \in Jobs /\ call[c].owner \in Runners
             /\ status[call[c].job] = "QUEUED" /\ runner_id[call[c].job] = NULL
             /\ runnerStatus[call[c].owner] = "IDLE" /\ currentJob[call[c].owner] = NULL
             /\ \A d \in Clients : d # c => call'[d] = call[d]
             /\ status' = [status EXCEPT ![call[c].job] = "ASSIGNED"]
             /\ runner_id' = [runner_id EXCEPT ![call[c].job] = call[c].owner]
             /\ runnerStatus' = [runnerStatus EXCEPT ![call[c].owner] = "BUSY"]
             /\ currentJob' = [currentJob EXCEPT ![call[c].owner] = call[c].job]
             /\ UNCHANGED fresh
  <2>1. /\ call[c].pc = "assign" /\ call' = [call EXCEPT ![c] = NoCall]
        /\ status[call[c].job] = call[c].seen /\ runnerStatus[call[c].owner] = "IDLE"
        /\ status' = [status EXCEPT ![call[c].job] = "ASSIGNED"]
        /\ runner_id' = [runner_id EXCEPT ![call[c].job] = call[c].owner]
        /\ runnerStatus' = [runnerStatus EXCEPT ![call[c].owner] = "BUSY"]
        /\ currentJob' = [currentJob EXCEPT ![call[c].owner] = call[c].job]
        /\ UNCHANGED fresh
    BY <1>2 DEF AssignCommit, AssignMatches
  <2>2. call[c].job \in Jobs /\ call[c].owner \in Runners /\ call[c].seen = "QUEUED"
    BY <2>1, StoreFacts
  <2>3. runner_id[call[c].job] = NULL /\ currentJob[call[c].owner] = NULL
    BY <2>1, <2>2, StoreFacts DEF OwnerMatchesStatus, BusyIffHolding
  <2>4. call'[c] = NoCall /\ \A d \in Clients : d # c => call'[d] = call[d]
    BY <2>1, StoreFacts
  <2> QED BY <2>1, <2>2, <2>3, <2>4 DEF NoCall
<1>3. AssignCommit(c) =>
              /\ status'[call[c].job] = "ASSIGNED" /\ runner_id'[call[c].job] = call[c].owner
              /\ runnerStatus'[call[c].owner] = "BUSY" /\ currentJob'[call[c].owner] = call[c].job
              /\ \A k \in Jobs : k # call[c].job => status'[k] = status[k] /\ runner_id'[k] = runner_id[k]
              /\ \A q \in Runners : q # call[c].owner
                   => runnerStatus'[q] = runnerStatus[q] /\ currentJob'[q] = currentJob[q]
  BY <1>2, StoreFacts
<1> QED BY <1>1, <1>2, <1>3

-----------------------------------------------------------------------------
(* The effects of an agent's steps *)

\* agent.go: an agent changes nothing of another's, of the job rows, or of the
\* operations under way.
AgentRest(r) ==
  /\ UNCHANGED <<status, runner_id, currentJob, call, hook, sched, reap>>
  /\ \A q \in Runners : q # r => /\ agent'[q] = agent[q] /\ hb'[q] = hb[q] /\ req'[q] = req[q]
                                 /\ mailbox'[q] = mailbox[q]
                                 /\ runnerStatus'[q] = runnerStatus[q] /\ fresh'[q] = fresh[q]

AgentRecord == [pc : AgentPcs, job : Jobs \cup {NULL}, abandoned : BOOLEAN]
ReqRecord == [pc : ReqPcs, job : Jobs \cup {NULL}, to : {"NONE", "RUNNING", "SUCCESS", "FAILED"}]

\* agent.go: the local state of agents and requests.
LEMMA AgentFacts ==
  ASSUME TypeInv
  PROVE  /\ agent \in [Runners -> AgentRecord] /\ req \in [Runners -> ReqRecord]
         /\ hb \in [Runners -> Jobs \cup {NULL}] /\ mailbox \in [Runners -> Seq(Jobs)]
         /\ \A r \in Runners : agent[r] \in AgentRecord /\ req[r] \in ReqRecord
         /\ fresh \in [Runners -> BOOLEAN] /\ hook \in [Jobs -> {"none", "enqueue", "fail", "failing"}]
BY DEF TypeInv, TypeOK, AgentTypeOK, ApiTypeOK, QueueTypeOK, StoreTypeOK, AgentRecord, ReqRecord

\* agent.go: every step of agent r.
LEMMA AgentOthers ==
  ASSUME TypeInv, NEW r \in Runners, Agent(r)
  PROVE  AgentRest(r)
<1>1. UNCHANGED <<status, runner_id, currentJob, call, hook, sched, reap>>
  BY DEF Agent, AgentStep, BuildStep, HeartbeatStep, AgentFault, Register, Poll, StartAnswered,
         ResultAnswered, CheckoutEnds, SpecUnreadable, ExecutionEnds, HeartbeatSent,
         HeartbeatAnswered, PollAnswerLost, StartAnswerLost, LeaseUnreadable,
         AgentDies, FallsSilent, MailboxDropped, ReportResult, Post,
         ReqGo, RegisterRunner, Heartbeat, Silence, apiVars, storeVars, schedVars
<1>2. \A q \in Runners : q # r => agent'[q] = agent[q]
  BY AgentFacts
     DEF Agent, AgentStep, BuildStep, HeartbeatStep, AgentFault, Register, Poll, StartAnswered,
         ResultAnswered, CheckoutEnds, SpecUnreadable, ExecutionEnds, HeartbeatSent,
         HeartbeatAnswered, PollAnswerLost, StartAnswerLost, LeaseUnreadable,
         AgentDies, FallsSilent, MailboxDropped, ReportResult, BackToPoll, agentVars
<1>3. \A q \in Runners : q # r => hb'[q] = hb[q]
  BY AgentFacts
     DEF Agent, AgentStep, BuildStep, HeartbeatStep, AgentFault, Register, Poll, StartAnswered,
         ResultAnswered, CheckoutEnds, SpecUnreadable, ExecutionEnds, HeartbeatSent,
         HeartbeatAnswered, PollAnswerLost, StartAnswerLost, LeaseUnreadable,
         AgentDies, FallsSilent, MailboxDropped, ReportResult, BackToPoll, agentVars
<1>4. \A q \in Runners : q # r => req'[q] = req[q]
  BY AgentFacts
     DEF Agent, AgentStep, BuildStep, HeartbeatStep, AgentFault, Register, Poll, StartAnswered,
         ResultAnswered, CheckoutEnds, SpecUnreadable, ExecutionEnds, HeartbeatSent,
         HeartbeatAnswered, PollAnswerLost, StartAnswerLost, LeaseUnreadable,
         AgentDies, FallsSilent, MailboxDropped, ReportResult, Post, ReqGo, apiVars
<1>5. \A q \in Runners : q # r => mailbox'[q] = mailbox[q]
  BY AgentFacts
     DEF Agent, AgentStep, BuildStep, HeartbeatStep, AgentFault, Register, Poll, StartAnswered,
         ResultAnswered, CheckoutEnds, SpecUnreadable, ExecutionEnds, HeartbeatSent,
         HeartbeatAnswered, PollAnswerLost, StartAnswerLost, LeaseUnreadable,
         AgentDies, FallsSilent, MailboxDropped, Receive, MailboxExpires, queueVars
<1>6. \A q \in Runners : q # r => runnerStatus'[q] = runnerStatus[q] /\ fresh'[q] = fresh[q]
  BY StoreFacts, AgentFacts
     DEF Agent, AgentStep, BuildStep, HeartbeatStep, AgentFault, Register, Poll, StartAnswered,
         ResultAnswered, CheckoutEnds, SpecUnreadable, ExecutionEnds, HeartbeatSent,
         HeartbeatAnswered, PollAnswerLost, StartAnswerLost, LeaseUnreadable,
         AgentDies, FallsSilent, MailboxDropped, RegisterRunner, Heartbeat, Silence, storeVars
<1> QED BY <1>1, <1>2, <1>3, <1>4, <1>5, <1>6 DEF AgentRest

\* The runner's row and its mailbox stay as they are.
RowStays(r) == runnerStatus'[r] = runnerStatus[r] /\ fresh'[r] = fresh[r]

\* agent.go, execute: it begins the build,
Begins(r) == /\ agent[r].pc = "start" /\ req[r].pc = "ok"
             /\ agent'[r].pc = "checkout" /\ agent'[r].job = agent[r].job
             /\ agent'[r].abandoned = agent[r].abandoned
             /\ req'[r].pc = "none" /\ hb'[r] = hb[r]
\* goes on with it,
GoesOn(r) == /\ agent[r].pc = "checkout" /\ agent'[r].pc = "exec" /\ agent'[r].job = agent[r].job
             /\ agent'[r].abandoned = agent[r].abandoned /\ req'[r] = req[r] /\ hb'[r] = hb[r]
\* reports its end,
Reports(r) == /\ agent[r].pc \in {"checkout", "exec"} /\ agent'[r].pc = "report"
              /\ agent'[r].job = agent[r].job
              /\ req'[r].pc = "owns" /\ req'[r].job = agent[r].job
              /\ req'[r].to \in {"SUCCESS", "FAILED"} /\ hb'[r] = NULL
\* or returns.
Returns(r) == /\ \/ agent[r].pc = "start" /\ req[r].pc = "refused" /\ req'[r].pc = "none"
                 \/ /\ agent[r].pc = "start" /\ req[r].pc = "ok" /\ req'[r].pc = "none"
                    /\ "reply" \in FaultKinds
                 \/ agent[r].pc = "report" /\ req[r].pc \in {"ok", "refused"} /\ req'[r].pc = "none"
                 \/ agent[r].pc \in {"checkout", "exec"} /\ agent[r].abandoned /\ req'[r] = req[r]
              /\ agent'[r].pc = "poll" /\ hb'[r] = NULL

\* agent.go, execute: every step of a build is one of these.
LEMMA BuildEffect ==
  ASSUME TypeInv, NEW r \in Runners,
         \/ StartAnswered(r) \/ ResultAnswered(r) \/ BuildStep(r) \/ StartAnswerLost(r)
  PROVE  /\ Begins(r) \/ GoesOn(r) \/ Reports(r) \/ Returns(r)
         /\ RowStays(r) /\ mailbox'[r] = mailbox[r]
<1>1. RowStays(r) /\ mailbox'[r] = mailbox[r]
  BY DEF StartAnswered, ResultAnswered, BuildStep, StartAnswerLost, CheckoutEnds, SpecUnreadable,
         ExecutionEnds, storeVars, queueVars, RowStays
<1> DEFINE free == [pc |-> "poll", job |-> NULL, abandoned |-> FALSE]
<1>2. BackToPoll(r) => agent'[r].pc = "poll" /\ hb'[r] = NULL
  <2>1. free.pc = "poll" OBVIOUS
  <2> HIDE DEF free
  <2>2. BackToPoll(r) => agent' = [agent EXCEPT ![r] = free] /\ hb' = [hb EXCEPT ![r] = NULL]
    BY DEF BackToPoll, free
  <2> QED BY <2>1, <2>2, AgentFacts
<1>3. req' = [req EXCEPT ![r] = NoReq] => req'[r].pc = "none"
  <2>1. NoReq.pc = "none" BY DEF NoReq
  <2> QED BY <2>1, AgentFacts
<1>4. ASSUME NEW pc, agent' = [agent EXCEPT ![r].pc = pc]
      PROVE  /\ agent'[r].pc = pc /\ agent'[r].job = agent[r].job
             /\ agent'[r].abandoned = agent[r].abandoned
  BY <1>4, AgentFacts DEF AgentRecord
<1>5. ASSUME NEW outcome \in {"SUCCESS", "FAILED"}, ReportResult(r, outcome)
      PROVE  /\ agent'[r].pc = "report" /\ agent'[r].job = agent[r].job
             /\ req'[r].pc = "owns" /\ req'[r].job = agent[r].job
             /\ req'[r].to \in {"SUCCESS", "FAILED"} /\ hb'[r] = NULL
  <2> DEFINE new == [pc |-> "owns", job |-> agent[r].job, to |-> outcome]
  <2>1. new.pc = "owns" /\ new.job = agent[r].job /\ new.to = outcome
    OBVIOUS
  <2> HIDE DEF new
  <2>2. req' = [req EXCEPT ![r] = new] /\ hb' = [hb EXCEPT ![r] = NULL]
        /\ agent' = [agent EXCEPT ![r].pc = "report"]
    BY <1>5 DEF ReportResult, Post, new
  <2>3. agent'[r].pc = "report" /\ agent'[r].job = agent[r].job
    BY <1>4, <2>2
  <2> QED BY <2>1, <2>2, <2>3, AgentFacts
<1>6. CASE StartAnswered(r)
  BY <1>1, <1>2, <1>3, <1>4, <1>6 DEF StartAnswered, Begins, Returns
<1>7. CASE StartAnswerLost(r)
  BY <1>1, <1>2, <1>3, <1>7 DEF StartAnswerLost, Returns, Fault
<1>8. CASE ResultAnswered(r)
  BY <1>1, <1>2, <1>3, <1>8 DEF ResultAnswered, Returns
<1>9. CASE CheckoutEnds(r)
  BY <1>1, <1>2, <1>4, <1>5, <1>9 DEF CheckoutEnds, GoesOn, Reports, Returns, apiVars
<1>10. CASE SpecUnreadable(r) \/ ExecutionEnds(r)
  BY <1>1, <1>2, <1>5, <1>10 DEF SpecUnreadable, ExecutionEnds, Reports, Returns, apiVars
<1> QED BY <1>6, <1>7, <1>8, <1>9, <1>10 DEF BuildStep

\* runners.go, handlePollJob; redis.go: what happens to the mailbox.
LEMMA MailEffect ==
  ASSUME TypeInv, NEW r \in Runners
  PROVE  /\ Poll(r) =>
              /\ agent[r].pc = "poll" /\ mailbox[r] # <<>> /\ mailbox'[r] = Front(mailbox[r])
              /\ agent'[r].pc = "start" /\ agent'[r].job = Last(mailbox[r])
              /\ ~agent'[r].abandoned
              /\ req'[r].pc = "owns" /\ req'[r].job = Last(mailbox[r]) /\ req'[r].to = "RUNNING"
              /\ hb'[r] = hb[r] /\ RowStays(r)
         /\ PollAnswerLost(r) =>
              /\ "reply" \in FaultKinds /\ mailbox[r] # <<>> /\ mailbox'[r] = Front(mailbox[r])
              /\ UNCHANGED <<agent, hb, req>> /\ RowStays(r)
         /\ MailboxDropped(r) =>
              /\ Dead(r) /\ mailbox'[r] = <<>>
              /\ UNCHANGED <<agent, hb, req>> /\ RowStays(r)
<1>1. ASSUME Poll(r)
      PROVE  /\ agent[r].pc = "poll" /\ mailbox[r] # <<>> /\ mailbox'[r] = Front(mailbox[r])
             /\ agent'[r].pc = "start" /\ agent'[r].job = Last(mailbox[r])
             /\ ~agent'[r].abandoned
             /\ req'[r].pc = "owns" /\ req'[r].job = Last(mailbox[r]) /\ req'[r].to = "RUNNING"
             /\ hb'[r] = hb[r] /\ RowStays(r)
  <2> DEFINE a == [pc |-> "start", job |-> Last(mailbox[r]), abandoned |-> FALSE]
             q == [pc |-> "owns", job |-> Last(mailbox[r]), to |-> "RUNNING"]
  <2>1. /\ a.pc = "start" /\ a.job = Last(mailbox[r]) /\ a.abandoned = FALSE
        /\ q.pc = "owns" /\ q.job = Last(mailbox[r]) /\ q.to = "RUNNING"
    OBVIOUS
  <2> HIDE DEF a, q
  <2>2. /\ agent' = [agent EXCEPT ![r] = a] /\ req' = [req EXCEPT ![r] = q]
        /\ mailbox' = [mailbox EXCEPT ![r] = Front(mailbox[r])] /\ mailbox[r] # <<>>
        /\ agent[r].pc = "poll" /\ UNCHANGED <<hb, storeVars>>
    BY <1>1 DEF Poll, Receive, Received, Post, a, q
  <2>3. agent'[r] = a /\ req'[r] = q /\ mailbox'[r] = Front(mailbox[r])
    BY <2>2, AgentFacts
  <2> QED BY <2>1, <2>2, <2>3 DEF RowStays, storeVars
<1>2. PollAnswerLost(r) => /\ mailbox[r] # <<>> /\ mailbox'[r] = Front(mailbox[r])
                           /\ "reply" \in FaultKinds /\ UNCHANGED <<agent, hb, req>> /\ RowStays(r)
  BY AgentFacts DEF PollAnswerLost, Receive, agentVars, apiVars, storeVars, RowStays, Fault
<1>3. MailboxDropped(r) => /\ Dead(r) /\ mailbox'[r] = <<>>
                           /\ UNCHANGED <<agent, hb, req>> /\ RowStays(r)
  BY AgentFacts DEF MailboxDropped, MailboxExpires, agentVars, apiVars, storeVars, RowStays, Dead
<1> QED BY <1>1, <1>2, <1>3

\* agent.go, heartbeatLoop and the faults of a runner.
LEMMA BeatEffect ==
  ASSUME TypeInv, NEW r \in Runners
  PROVE  /\ Register(r) =>
              /\ agent[r].pc = "new" /\ agent'[r].pc = "poll" /\ hb'[r] = hb[r] /\ req'[r] = req[r]
              /\ runnerStatus[r] = "NONE" /\ runnerStatus'[r] = "IDLE" /\ fresh'[r]
         /\ HeartbeatSent(r) =>
              /\ Alive(r) /\ agent'[r] = agent[r] /\ req'[r] = req[r]
              /\ hb'[r] = IF HasActive(r) THEN agent[r].job ELSE NULL
              /\ runnerStatus'[r] = IF runnerStatus[r] = "OFFLINE" THEN "IDLE" ELSE runnerStatus[r]
              /\ fresh'[r]
         /\ HeartbeatAnswered(r) =>
              /\ hb[r] # NULL /\ hb'[r] = NULL /\ req'[r] = req[r] /\ RowStays(r)
              /\ agent'[r].pc = agent[r].pc /\ agent'[r].job = agent[r].job
              /\ agent'[r].abandoned => agent[r].abandoned \/ leaseLost(r, hb[r])
         /\ AgentDies(r) =>
              /\ Alive(r) /\ agent'[r].pc = "dead" /\ hb'[r] = NULL /\ req'[r] = req[r] /\ RowStays(r)
         /\ FallsSilent(r) =>
              /\ agent'[r] = agent[r] /\ hb'[r] = hb[r] /\ req'[r] = req[r]
              /\ SlowRequests \/ Quiet(r)
              /\ "network" \in FaultKinds \/ Dead(r)
              /\ runnerStatus'[r] = runnerStatus[r] /\ ~fresh'[r]
         /\ (\/ Register(r) \/ HeartbeatSent(r) \/ HeartbeatAnswered(r)
             \/ AgentDies(r) \/ FallsSilent(r)) => mailbox'[r] = mailbox[r]
         /\ LeaseUnreadable(r) => "db" \in FaultKinds
<1>1. Register(r) =>
              /\ agent[r].pc = "new" /\ agent'[r].pc = "poll" /\ hb'[r] = hb[r] /\ req'[r] = req[r]
              /\ runnerStatus[r] = "NONE" /\ runnerStatus'[r] = "IDLE" /\ fresh'[r]
  BY AgentFacts, StoreFacts DEF Register, RegisterRunner, apiVars, AgentRecord
<1>2. HeartbeatSent(r) =>
              /\ Alive(r) /\ agent'[r] = agent[r] /\ req'[r] = req[r]
              /\ hb'[r] = IF HasActive(r) THEN agent[r].job ELSE NULL
              /\ runnerStatus'[r] = IF runnerStatus[r] = "OFFLINE" THEN "IDLE" ELSE runnerStatus[r]
              /\ fresh'[r]
  BY AgentFacts, StoreFacts DEF HeartbeatSent, Heartbeat, apiVars
<1>3. ASSUME HeartbeatAnswered(r)
      PROVE  /\ hb[r] # NULL /\ hb'[r] = NULL /\ req'[r] = req[r] /\ RowStays(r)
             /\ agent'[r].pc = agent[r].pc /\ agent'[r].job = agent[r].job
             /\ agent'[r].abandoned => agent[r].abandoned \/ leaseLost(r, hb[r])
  <2>1. PICK b : b = (agent[r].abandoned \/ leaseLost(r, hb[r]))
    OBVIOUS
  <2>2. agent' = [agent EXCEPT ![r].abandoned = b]
    BY <1>3, <2>1 DEF HeartbeatAnswered
  <2>3. agent'[r].pc = agent[r].pc /\ agent'[r].job = agent[r].job /\ agent'[r].abandoned = b
    BY <2>2, AgentFacts DEF AgentRecord
  <2>4. hb[r] # NULL /\ hb'[r] = NULL /\ req'[r] = req[r] /\ RowStays(r)
    BY <1>3, AgentFacts DEF HeartbeatAnswered, apiVars, storeVars, RowStays
  <2>5. agent'[r].abandoned => agent[r].abandoned \/ leaseLost(r, hb[r])
    BY <2>1, <2>3, Zenon
  <2> QED BY <2>3, <2>4, <2>5
<1>5. ASSUME AgentDies(r)
      PROVE  Alive(r) /\ agent'[r].pc = "dead" /\ hb'[r] = NULL /\ req'[r] = req[r] /\ RowStays(r)
  <2> DEFINE a == [pc |-> "dead", job |-> NULL, abandoned |-> FALSE]
  <2>1. a.pc = "dead" OBVIOUS
  <2> HIDE DEF a
  <2>2. /\ agent' = [agent EXCEPT ![r] = a] /\ hb' = [hb EXCEPT ![r] = NULL] /\ Alive(r)
        /\ UNCHANGED <<apiVars, storeVars>>
    BY <1>5 DEF AgentDies, a
  <2> QED BY <2>1, <2>2, AgentFacts DEF apiVars, storeVars, RowStays
<1>6. FallsSilent(r) =>
              /\ agent'[r] = agent[r] /\ hb'[r] = hb[r] /\ req'[r] = req[r]
              /\ SlowRequests \/ Quiet(r)
              /\ "network" \in FaultKinds \/ Dead(r)
              /\ runnerStatus'[r] = runnerStatus[r] /\ ~fresh'[r]
  <2>1. FallsSilent(r) => fresh' = [fresh EXCEPT ![r] = FALSE]
    BY DEF FallsSilent, Silence
  <2>2. FallsSilent(r) => ~fresh'[r]
    BY <2>1, AgentFacts
  <2> QED BY <2>2 DEF FallsSilent, Silence, agentVars, apiVars, Fault, Dead
<1>7. (\/ Register(r) \/ HeartbeatSent(r) \/ HeartbeatAnswered(r)
       \/ AgentDies(r) \/ FallsSilent(r)) => mailbox'[r] = mailbox[r]
  BY DEF Register, HeartbeatSent, HeartbeatAnswered, AgentDies, FallsSilent, queueVars
<1>8. LeaseUnreadable(r) => "db" \in FaultKinds
  BY DEF LeaseUnreadable, Fault
<1> QED BY <1>1, <1>2, <1>3, <1>5, <1>6, <1>7, <1>8

\* Where a request still is with its handler.
Serving == {"owns", "begin", "store"}

\* jobs.go, handleJobStart and handleJobResult: the request of runner r, each step of
\* it or its end by a broken connection.
LEMMA RequestEffect ==
  ASSUME TypeInv, NEW r \in Runners, Requests(r), "db" \notin FaultKinds
  PROVE  /\ UNCHANGED <<agent, hb, hook, sched, reap, mailbox>>
         /\ \A q \in Runners : q # r => req'[q] = req[q]
         /\ req'[r].job = req[r].job /\ req'[r].to = req[r].to
         /\ req[r].job \in Jobs /\ req[r].to \in {"RUNNING", "SUCCESS", "FAILED"}
         /\ \/ /\ req[r].pc = "owns" /\ UNCHANGED storeVars
               /\ req'[r].pc = IF runner_id[req[r].job] = r THEN "begin" ELSE "refused"
            \/ /\ req[r].pc = "begin" /\ req'[r].pc = "store"
               /\ Transition(r, req[r].job, req[r].to)
            \/ /\ req[r].pc = "begin" /\ req'[r].pc = "refused" /\ UNCHANGED storeVars
               /\ ~MayMove(req[r].job, req[r].to)
            \/ /\ req[r].pc = "store" /\ TransitionUpdate(r)
               /\ req'[r].pc = IF ThenReleases(call[r]) THEN "store" ELSE "ok"
            \/ req[r].pc = "store" /\ ReleaseRunner(r) /\ req'[r].pc = "ok"
            \/ req[r].pc = "store" /\ TransitionConflict(r) /\ req'[r].pc = "refused"
            \/ /\ req[r].pc \in Serving /\ CallsFail({r}) /\ req'[r].pc = "refused"
               /\ Dead(r) \/ "reply" \in FaultKinds
<1>1. UNCHANGED <<agent, hb, hook, sched, reap, mailbox>> /\ (ReqStep(r) \/ RequestCut(r))
  BY DEF Requests, ReqStep, OwnsCheck, ReportBegins, ReportStored, ReportFails, RequestCut, ReqGo,
         Fault, agentVars, schedVars, queueVars
<1>2. ASSUME NEW pc, ReqGo(r, pc)
      PROVE  /\ \A q \in Runners : q # r => req'[q] = req[q]
             /\ req'[r].pc = pc /\ req'[r].job = req[r].job /\ req'[r].to = req[r].to
  BY <1>2, AgentFacts DEF ReqGo, ReqRecord
<1>3. req[r].job \in Jobs /\ req[r].to \in {"RUNNING", "SUCCESS", "FAILED"}
  BY <1>1 DEF TypeInv, ReqHolds, ReqStep, OwnsCheck, ReportBegins, ReportStored, RequestCut
<1>4. CASE OwnsCheck(r)
  <2>1. PICK pc : pc = (IF runner_id[req[r].job] = r THEN "begin" ELSE "refused") /\ ReqGo(r, pc)
    BY <1>4 DEF OwnsCheck
  <2> QED BY <1>1, <1>2, <1>3, <1>4, <2>1 DEF OwnsCheck, storeVars
<1>5. CASE ReportBegins(r)
  BY <1>1, <1>2, <1>3, <1>5 DEF ReportBegins
<1>6. CASE ReportStored(r)
  <2>1. PICK pc : pc = IF ThenReleases(call[r]) THEN "store" ELSE "ok"
    OBVIOUS
  <2> QED BY <1>1, <1>2, <1>3, <1>6, <2>1 DEF ReportStored
<1>7. CASE RequestCut(r)
  BY <1>1, <1>2, <1>3, <1>7 DEF RequestCut, Serving, Dead, Fault
<1> QED BY <1>1, <1>4, <1>5, <1>6, <1>7 DEF ReqStep

-----------------------------------------------------------------------------
(* Who does what to the tables, when statements and Redis do not fail *)

\* The faults under which the rows of a job and of its runner are shown to agree:
\* processes die, also the scheduler unless its reaper is at work, requests and answers
\* are lost, and connections break half way through a handler.  Nothing outlasts the
\* heartbeat timeout.
RowsAreSafe == /\ FaultKinds \cap {"network", "redis", "db"} = {}
               /\ "reaping" \notin CrashPoints /\ ~SlowRequests

Offline(r) == runnerStatus[r] = "OFFLINE"

\* Only a dead runner is silent, and none of its requests is left by then.
SilentIsDead ==
  \A r \in Runners :
    /\ Offline(r) => ~fresh[r]
    /\ runnerStatus[r] # "NONE" /\ ~fresh[r] => Dead(r) /\ req[r].pc \notin Serving

\* What each goroutine asks of the store.
HooksOnlyPush == \A j \in Jobs : hook[j] \in {"none", "enqueue"} /\ call[j].pc = "none"
SchedOnlyAssigns ==
  /\ sched.pc \notin {"undo", "undoing"}
  /\ call["sched"].pc # "none" =>
       /\ call["sched"].pc = "assign" /\ sched.pc = "assigning"
       /\ call["sched"].job = sched.job /\ call["sched"].owner = sched.runner
CancelOnlyCancels ==
  call["cancel"].pc # "none" => call["cancel"].pc # "assign" /\ call["cancel"].to = "CANCELLED"
ReaperOnlyRequeues ==
  /\ call["reaper"].pc # "none" => /\ call["reaper"].pc # "assign" /\ call["reaper"].to = "QUEUED"
                                   /\ reap.pc = "requeueing"
  /\ reap.pc \in {"off", "tick"} => reap.orphans = {}
RequestsOnlyReport ==
  \A r \in Runners :
    /\ call[r].pc # "none" => /\ req[r].pc = "store" /\ call[r].pc # "assign"
                              /\ call[r].job = req[r].job /\ call[r].to = req[r].to
    /\ agent[r].pc \in {"new", "poll", "checkout", "exec"} => req[r].pc = "none"

Roles == SilentIsDead /\ HooksOnlyPush /\ SchedOnlyAssigns /\ CancelOnlyCancels
           /\ ReaperOnlyRequeues /\ RequestsOnlyReport

\* The goroutines have names of their own.
LEMMA ClientFacts ==
  /\ {"sched", "reaper", "cancel"} \subseteq Clients
  /\ \A r \in Runners : r \in Clients /\ r \notin {"sched", "reaper", "cancel"} /\ r \notin Jobs
  /\ \A j \in Jobs : j \in Clients /\ j \notin {"sched", "reaper", "cancel"} /\ j \notin Runners
  /\ \A c \in Clients : c \in {"sched", "reaper", "cancel"} \/ c \in Runners \/ c \in Jobs
BY ClientsAssumption

\* A step after which the same runners are registered, fresh and OFFLINE, and only
\* a live agent posts.
RunnersStay ==
  \A r \in Runners :
    /\ runnerStatus'[r] = "NONE" <=> runnerStatus[r] = "NONE"
    /\ runnerStatus'[r] = "OFFLINE" <=> runnerStatus[r] = "OFFLINE"
    /\ fresh'[r] = fresh[r]
    /\ Dead(r) => agent'[r].pc = "dead" /\ (req'[r].pc \in Serving => req[r].pc \in Serving)

\* store.go: such a step leaves only dead runners silent.
LEMMA StayRoles == ASSUME SilentIsDead, RunnersStay PROVE SilentIsDead'
BY DEF SilentIsDead, RunnersStay, Offline, Dead

\* A step of one process leaves the roles of the others alone.
LEMMA OthersRoles ==
  ASSUME Roles
  PROVE  /\ UNCHANGED hook /\ (\A j \in Jobs : call'[j] = call[j]) => HooksOnlyPush'
         /\ UNCHANGED sched /\ call'["sched"] = call["sched"] => SchedOnlyAssigns'
         /\ call'["cancel"] = call["cancel"] => CancelOnlyCancels'
         /\ UNCHANGED reap /\ call'["reaper"] = call["reaper"] => ReaperOnlyRequeues'
         /\ UNCHANGED <<req, agent>> /\ (\A r \in Runners : call'[r] = call[r]) => RequestsOnlyReport'
BY DEF Roles, HooksOnlyPush, SchedOnlyAssigns, CancelOnlyCancels, ReaperOnlyRequeues,
       RequestsOnlyReport

\* webhook.go: the handler only creates the row and pushes the id.
LEMMA WebhookEffect ==
  ASSUME RowsAreSafe, TypeInv, HooksOnlyPush, NEW j \in Jobs, Webhooks(j)
  PROVE  /\ UNCHANGED <<sched, reap, agent, hb, req, mailbox>>
         /\ UNCHANGED <<runner_id, runnerStatus, currentJob, fresh>>
         /\ HooksOnlyPush' /\ \A c \in Clients \ Jobs : call'[c] = call[c]
         /\ \A k \in Jobs : status'[k] = status[k] \/ (status[k] = "NONE" /\ status'[k] = "QUEUED")
         /\ \A c \in Clients : call'[c] = call[c] \/ (call[c].pc = "none" /\ call'[c].pc = "none")
<1>1. UNCHANGED <<sched, reap, agent, hb>>
  BY DEF Webhooks, schedVars, agentVars
<1>2. WebhookCreates(j) \/ WebhookEnqueues(j) \/ (WebhookDies(j) /\ hook[j] = "enqueue")
  BY DEF Webhooks, HookStep, HookFault, WebhookEnqueueFails, WebhookFailsJob, WebhookFailing,
         WebhookDies, Fault, RowsAreSafe, HooksOnlyPush
<1>3. ASSUME NEW pc \in {"none", "enqueue"}, HookGo(j, pc)
      PROVE  UNCHANGED req /\ \A k \in Jobs : hook'[k] \in {"none", "enqueue"}
  BY <1>3, AgentFacts DEF HookGo, HooksOnlyPush
<1>4. CASE WebhookCreates(j)
  <2>1. /\ UNCHANGED <<call, mailbox, runner_id, runnerStatus, currentJob, fresh>>
        /\ status[j] = "NONE" /\ status' = [status EXCEPT ![j] = "QUEUED"] /\ HookGo(j, "enqueue")
    BY <1>4 DEF WebhookCreates, CreateJob, queueVars
  <2>2. \A k \in Jobs : status'[k] = status[k] \/ (status[k] = "NONE" /\ status'[k] = "QUEUED")
    BY <2>1, StoreFacts
  <2> QED BY <1>1, <1>3, <2>1, <2>2 DEF HooksOnlyPush
<1>5. CASE WebhookEnqueues(j)
  <2>1. UNCHANGED <<storeVars, mailbox>> /\ HookGo(j, "none")
    BY <1>5 DEF WebhookEnqueues, Enqueue
  <2> QED BY <1>1, <1>3, <2>1 DEF HooksOnlyPush, storeVars
<1>6. CASE WebhookDies(j)
  <2>1. /\ call' = [c \in Clients |-> IF c \in {j} THEN NoCall ELSE call[c]] /\ HookGo(j, "none")
        /\ UNCHANGED <<status, runner_id, runnerStatus, currentJob, fresh, mailbox>>
    BY <1>6 DEF WebhookDies, CallsFail, queueVars
  <2>2. \A c \in Clients : IF c = j THEN call'[c].pc = "none" ELSE call'[c] = call[c]
    BY <2>1 DEF NoCall
  <2>3. j \in Clients /\ call[j].pc = "none" /\ \A c \in Clients \ Jobs : c # j
    BY ClientFacts DEF HooksOnlyPush
  <2>4. HooksOnlyPush'
    BY <1>3, <2>1, <2>2, ClientFacts DEF HooksOnlyPush
  <2> QED BY <1>1, <1>3, <2>1, <2>2, <2>3, <2>4
<1> QED BY <1>2, <1>4, <1>5, <1>6

\* service.go, Run: of the loop's steps only AssignJob is about the rows.
LEMMA SchedEffect ==
  ASSUME RowsAreSafe, TypeInv, SchedOnlyAssigns, Scheduler
  PROVE  /\ UNCHANGED <<hook, req, agent, hb>>
         /\ \/ /\ SchedCrash /\ UNCHANGED mailbox
            \/ /\ sched.pc = "assign" /\ sched'.pc = "assigning" /\ UNCHANGED <<mailbox, reap>>
               /\ sched'.job = sched.job /\ sched'.runner = sched.runner
               /\ sched.job \in Jobs /\ sched.runner \in Runners
               /\ AssignJob("sched", sched.job, sched.runner)
            \/ /\ sched.pc = "assigning" /\ sched'.pc = "dispatch" /\ UNCHANGED <<mailbox, reap>>
               /\ sched'.job = sched.job /\ sched'.runner = sched.runner
               /\ AssignCommit("sched")
            \/ /\ sched.pc = "assigning" /\ sched'.pc = "requeue" /\ UNCHANGED <<mailbox, reap>>
               /\ AssignRollback("sched")
            \/ /\ sched.pc = "dispatch" /\ sched'.pc = "ack" /\ UNCHANGED <<storeVars, reap>>
               /\ sched.job \in Jobs /\ sched.runner \in Runners
               /\ Dispatch(sched.runner, sched.job)
            \/ /\ UNCHANGED <<storeVars, mailbox>> /\ sched.pc \notin {"assigning", "dispatch"}
               /\ sched'.pc \notin {"assigning", "dispatch", "undo", "undoing"}
               /\ reap'.orphans = reap.orphans
               /\ reap'.pc = reap.pc \/ (reap.pc = "off" /\ reap'.pc = "tick")
<1>0. /\ sched \in [pc : SchedPcs, job : Jobs \cup {NULL}, runner : Runners \cup {NULL},
                    ids : Seq(Jobs)]
      /\ reap \in [pc : {"off", "tick", "next", "requeueing", "enqueue"},
                   orphans : SUBSET (Runners \X Jobs), job : Jobs \cup {NULL}]
      /\ SchedHolds
  BY DEF TypeInv, TypeOK, SchedTypeOK
<1>1. UNCHANGED <<hook, req, agent, hb>> /\ (SchedStep \/ SchedFault)
  BY DEF Scheduler, apiVars, agentVars
<1>2. ASSUME NEW pc, SchedGo(pc)
      PROVE  sched'.pc = pc /\ sched'.job = sched.job /\ sched'.runner = sched.runner /\ UNCHANGED reap
  BY <1>0, <1>2 DEF SchedGo
<1>3. SchedLoop => /\ sched'.pc = "dequeue" /\ reap'.orphans = reap.orphans
                   /\ reap'.pc = reap.pc \/ (reap.pc = "off" /\ reap'.pc = "tick")
  BY <1>0 DEF SchedLoop
<1>4. ASSUME NEW j, NEW ids, NEW pc,
             sched' = [sched EXCEPT !.pc = pc, !.job = j, !.ids = ids]
      PROVE  sched'.pc = pc
  BY <1>0, <1>4
<1>5. SchedFault => SchedCrash
  BY DEF SchedFault, SchedRedisFails, SchedDbFails, Fault, RowsAreSafe
<1>6. CASE SchedCrash
  BY <1>1, <1>6 DEF SchedCrash, queueVars
<1>7. CASE Recover \/ RequeuePush
  BY <1>1, <1>3, <1>4, <1>7 DEF Recover, RequeuePush, Enqueue, queueVars
<1>8. CASE SchedDequeue
  <2>1. sched'.pc = "load"
    BY <1>0, <1>8 DEF SchedDequeue
  <2> QED BY <1>1, <1>8, <2>1 DEF SchedDequeue, Dequeue
<1>9. CASE LoadJob
  <2>1. PICK pc \in {"list", "ack"} : SchedGo(pc)
    BY <1>9 DEF LoadJob
  <2> QED BY <1>1, <1>2, <1>9, <2>1 DEF LoadJob, queueVars
<1>10. CASE ChooseRunner
  <2>1. sched'.pc \in {"assign", "requeue"}
    BY <1>0, <1>10 DEF ChooseRunner
  <2> QED BY <1>1, <1>10, <2>1 DEF ChooseRunner, queueVars
<1>11. CASE BeginAssign
  BY <1>0, <1>1, <1>2, <1>11 DEF BeginAssign, SchedHolds, queueVars
<1>12. CASE FinishAssign
  BY <1>1, <1>2, <1>12 DEF FinishAssign, queueVars
<1>13. CASE DispatchJob
  BY <1>0, <1>1, <1>2, <1>13 DEF DispatchJob, SchedHolds
<1>14. CASE RequeueAck
  BY <1>1, <1>2, <1>14 DEF RequeueAck, Ack
<1>15. CASE AckJob
  BY <1>1, <1>3, <1>15 DEF AckJob, Ack
<1> QED BY <1>1, <1>5, <1>6, <1>7, <1>8, <1>9, <1>10, <1>11, <1>12, <1>13, <1>14, <1>15
        DEF SchedStep, BeginUndo, FinishUndo, SchedOnlyAssigns

\* service.go: the process dies while its reaper waits.
LEMMA CrashEffect ==
  ASSUME RowsAreSafe, TypeInv, Roles, SchedCrash
  PROVE  /\ sched'.pc = "recover" /\ reap'.pc = "off" /\ reap'.orphans = {} /\ reap.orphans = {}
         /\ UNCHANGED <<status, runner_id, runnerStatus, currentJob, fresh>>
         /\ call["reaper"].pc = "none" /\ call'["reaper"].pc = "none" /\ call'["sched"].pc = "none"
         /\ \A c \in Clients : c \notin {"sched", "reaper"} => call'[c] = call[c]
         /\ sched.pc \in CrashPoints
<1>1. /\ sched' = [pc |-> "recover", job |-> NULL, runner |-> NULL, ids |-> <<>>]
      /\ reap' = [pc |-> "off", orphans |-> {}, job |-> NULL]
      /\ call' = [c \in Clients |-> IF c \in {"sched", "reaper"} THEN NoCall ELSE call[c]]
      /\ UNCHANGED <<status, runner_id, runnerStatus, currentJob, fresh>>
      /\ reap.pc \in {"off", "tick"} /\ sched.pc \in CrashPoints
  BY DEF SchedCrash, CallsFail, RowsAreSafe
<1>2. call'["reaper"].pc = "none" /\ call'["sched"].pc = "none"
  BY <1>1, ClientFacts DEF NoCall
<1> QED BY <1>1, <1>2 DEF Roles, ReaperOnlyRequeues

\* service.go, reapLoop.
LEMMA ReapEffect ==
  ASSUME TypeInv, Reaper
  PROVE  /\ UNCHANGED <<hook, req, agent, hb, sched, mailbox>>
         /\ \/ /\ reap.pc = "tick" /\ ReapOfflineRunners /\ reap'.orphans = Orphans
               /\ reap'.pc = "next" \/ (reap'.pc = "tick" /\ reap'.orphans = {})
            \/ \E p \in reap.orphans :
                 /\ p[2] \in Jobs /\ p[1] \in Runners /\ p = <<p[1], p[2]>>
                 /\ reap.pc = "next" /\ Transition("reaper", p[2], "QUEUED")
                 /\ reap'.pc = "requeueing" /\ reap'.orphans = reap.orphans \ {p}
            \/ \E p \in reap.orphans :
                 /\ p[2] \in Jobs /\ p[1] \in Runners /\ p = <<p[1], p[2]>>
                 /\ reap.pc = "next" /\ ~MayMove(p[2], "QUEUED") /\ UNCHANGED storeVars
                 /\ reap'.orphans = reap.orphans \ {p}
                 /\ reap'.pc = "next" \/ (reap'.pc = "tick" /\ reap'.orphans = {})
            \/ reap.pc = "requeueing" /\ TransitionUpdate("reaper") /\ UNCHANGED reap
            \/ /\ reap.pc = "requeueing" /\ ReleaseRunner("reaper")
               /\ reap'.pc = "enqueue" /\ reap'.orphans = reap.orphans
            \/ /\ reap.pc = "requeueing" /\ TransitionConflict("reaper")
               /\ reap'.orphans = reap.orphans
               /\ reap'.pc = "next" \/ (reap'.pc = "tick" /\ reap'.orphans = {})
            \/ /\ reap.pc = "enqueue" /\ UNCHANGED storeVars /\ reap'.orphans = reap.orphans
               /\ reap'.pc = "next" \/ (reap'.pc = "tick" /\ reap'.orphans = {})
<1>0. reap \in [pc : {"off", "tick", "next", "requeueing", "enqueue"},
                orphans : SUBSET (Runners \X Jobs), job : Jobs \cup {NULL}]
  BY DEF TypeInv, TypeOK, SchedTypeOK
<1>1. UNCHANGED <<hook, req, agent, hb>> /\ ReapStep
  BY DEF Reaper, apiVars, agentVars
<1>2. ASSUME NEW rest, ReapGo(rest)
      PROVE  reap'.orphans = rest /\ (reap'.pc = "next" \/ (reap'.pc = "tick" /\ reap'.orphans = {}))
  BY <1>2 DEF ReapGo
<1>3. \A p \in reap.orphans : p[2] \in Jobs /\ p[1] \in Runners /\ p = <<p[1], p[2]>>
  BY <1>0
<1>4. CASE ReapTick
  BY <1>1, <1>2, <1>4 DEF ReapTick, queueVars
<1>5. CASE ReapNext
  <2>1. UNCHANGED <<sched, mailbox>> /\ reap.pc = "next"
    BY <1>5 DEF ReapNext, queueVars
  <2>2. PICK p \in reap.orphans :
          \/ /\ Transition("reaper", p[2], "QUEUED")
             /\ reap' = [pc |-> "requeueing", orphans |-> reap.orphans \ {p}, job |-> p[2]]
          \/ ~MayMove(p[2], "QUEUED") /\ ReapGo(reap.orphans \ {p}) /\ UNCHANGED storeVars
    BY <1>5 DEF ReapNext
  <2>3. CASE /\ Transition("reaper", p[2], "QUEUED")
             /\ reap' = [pc |-> "requeueing", orphans |-> reap.orphans \ {p}, job |-> p[2]]
    <3>1. reap'.pc = "requeueing" /\ reap'.orphans = reap.orphans \ {p}
      BY <2>3
    <3> QED BY <1>1, <1>3, <2>1, <2>3, <3>1
  <2>4. CASE ~MayMove(p[2], "QUEUED") /\ ReapGo(reap.orphans \ {p}) /\ UNCHANGED storeVars
    BY <1>1, <1>2, <1>3, <2>1, <2>4
  <2> QED BY <2>2, <2>3, <2>4
<1>6. CASE ReapRequeue
  <2>1. reap' = [reap EXCEPT !.pc = "enqueue"] => reap'.pc = "enqueue" /\ reap'.orphans = reap.orphans
    BY <1>0
  <2> QED BY <1>1, <1>2, <1>6, <2>1 DEF ReapRequeue, queueVars
<1>7. CASE ReapEnqueue
  BY <1>1, <1>2, <1>7 DEF ReapEnqueue, Enqueue
<1> QED BY <1>1, <1>4, <1>5, <1>6, <1>7 DEF ReapStep

\* jobs.go, handleCancelJob.
LEMMA CancelEffect ==
  ASSUME TypeInv, Cancels, "db" \notin FaultKinds
  PROVE  /\ UNCHANGED <<hook, req, sched, reap, agent, hb, mailbox>>
         /\ \/ \E j \in Jobs : Transition("cancel", j, "CANCELLED")
            \/ TransitionUpdate("cancel") \/ TransitionConflict("cancel") \/ ReleaseRunner("cancel")
            \/ CallsFail({"cancel"}) /\ "client" \in FaultKinds
<1>1. CancelFails => "client" \in FaultKinds
  BY DEF CancelFails, Fault
<1>2. UNCHANGED <<sched, reap, agent, hb>>
  BY DEF Cancels, schedVars, agentVars
<1> QED BY <1>1, <1>2 DEF Cancels, CancelBegins, CancelStep, CancelFails, apiVars, queueVars

\* store.go, releaseRunner and AssignJob: a runner that is registered, or OFFLINE, stays so.
LEMMA RowMoves ==
  ASSUME TypeInv, NEW c \in Clients, ReleaseRunner(c) \/ AssignCommit(c),
         UNCHANGED agent, \A r \in Runners : req'[r].pc \in Serving => req[r].pc \in Serving
  PROVE  RunnersStay
<1>1. CASE ReleaseRunner(c)
  BY <1>1, ReleaseEffect DEF RunnersStay, Dead
<1>2. CASE AssignCommit(c)
  BY <1>2, AssignEffect DEF RunnersStay, Dead
<1> QED BY <1>1, <1>2

\* Every other statement leaves the runners' rows alone.
LEMMA SameRows ==
  ASSUME UNCHANGED <<runnerStatus, fresh, agent>>,
         \A r \in Runners : req'[r].pc \in Serving => req[r].pc \in Serving
  PROVE  RunnersStay
BY DEF RunnersStay, Dead

\* service.go: the roles after a step of the scheduler's loop.
LEMMA SchedRoles ==
  ASSUME RowsAreSafe, TypeInv, Roles, Scheduler
  PROVE  Roles'
<1>1. UNCHANGED <<hook, req, agent, hb>>
  BY SchedEffect DEF Roles
<1>2. "sched" \in Clients /\ \A j \in Jobs \cup Runners : j \in Clients /\ j \notin {"sched", "reaper"}
  BY ClientFacts
<1>3. ASSUME \A c \in Clients : c # "sched" => call'[c] = call[c], RunnersStay,
             SchedOnlyAssigns', ReaperOnlyRequeues'
      PROVE  Roles'
  BY <1>1, <1>2, <1>3, OthersRoles, StayRoles, ClientFacts DEF Roles
<1>4. CASE SchedCrash
  <2>1. RunnersStay
    BY <1>1, <1>4, CrashEffect, SameRows
  <2>2. SchedOnlyAssigns' /\ ReaperOnlyRequeues'
    BY <1>4, CrashEffect DEF SchedOnlyAssigns, ReaperOnlyRequeues
  <2> QED BY <1>1, <1>2, <1>4, <2>1, <2>2, CrashEffect, OthersRoles, StayRoles, ClientFacts DEF Roles
<1>5. ASSUME UNCHANGED reap, \A c \in Clients : c # "sched" => call'[c] = call[c]
      PROVE  ReaperOnlyRequeues'
  BY <1>5, OthersRoles, ClientFacts DEF Roles
<1>6. CASE /\ sched'.pc = "assigning" /\ UNCHANGED reap
           /\ sched'.job = sched.job /\ sched'.runner = sched.runner
           /\ sched.job \in Jobs /\ sched.runner \in Runners
           /\ AssignJob("sched", sched.job, sched.runner)
  <2>1. /\ OnlyCall("sched") /\ UNCHANGED fresh /\ call'["sched"].pc = "assign"
        /\ call'["sched"].job = sched.job /\ call'["sched"].owner = sched.runner
    BY <1>2, <1>6, AssignEffect
  <2>2. RunnersStay
    BY <1>1, <2>1, SameRows DEF OnlyCall
  <2>3. SchedOnlyAssigns'
    BY <1>6, <2>1 DEF SchedOnlyAssigns
  <2> QED BY <1>3, <1>5, <1>6, <2>1, <2>2, <2>3 DEF OnlyCall
<1>7. CASE sched'.pc = "dispatch" /\ UNCHANGED reap /\ AssignCommit("sched")
  <2>1. RunnersStay
    BY <1>1, <1>2, <1>7, RowMoves
  <2>2. call'["sched"].pc = "none" /\ \A c \in Clients : c # "sched" => call'[c] = call[c]
    BY <1>2, <1>7, AssignEffect
  <2>3. SchedOnlyAssigns'
    BY <1>7, <2>2 DEF SchedOnlyAssigns
  <2> QED BY <1>3, <1>5, <1>7, <2>1, <2>2, <2>3
<1>8. CASE sched'.pc = "requeue" /\ UNCHANGED reap /\ AssignRollback("sched")
  <2>1. OnlyCall("sched") /\ UNCHANGED fresh /\ call'["sched"].pc = "none"
    BY <1>2, <1>8, EndEffect
  <2>2. RunnersStay
    BY <1>1, <2>1, SameRows DEF OnlyCall
  <2>3. SchedOnlyAssigns'
    BY <1>8, <2>1 DEF SchedOnlyAssigns
  <2> QED BY <1>3, <1>5, <1>8, <2>1, <2>2, <2>3 DEF OnlyCall
<1>9. CASE /\ UNCHANGED storeVars /\ sched.pc # "assigning"
           /\ sched'.pc \notin {"undo", "undoing"}
           /\ reap'.orphans = reap.orphans
           /\ reap'.pc = reap.pc \/ (reap.pc = "off" /\ reap'.pc = "tick")
  <2>1. RunnersStay
    BY <1>1, <1>9, SameRows DEF storeVars
  <2>2. SchedOnlyAssigns' /\ ReaperOnlyRequeues'
    BY <1>9 DEF Roles, SchedOnlyAssigns, ReaperOnlyRequeues, storeVars
  <2> QED BY <1>3, <1>9, <2>1, <2>2 DEF storeVars
<1> QED BY <1>4, <1>6, <1>7, <1>8, <1>9, SchedEffect DEF Roles

\* store.go, ReapOfflineRunners.
LEMMA TickEffect ==
  ASSUME TypeInv, ReapOfflineRunners
  PROVE  /\ UNCHANGED <<status, runner_id, fresh, call>>
         /\ \A r \in Runners :
              IF r \in Stale THEN runnerStatus'[r] = "OFFLINE" /\ currentJob'[r] = NULL
                             ELSE runnerStatus'[r] = runnerStatus[r] /\ currentJob'[r] = currentJob[r]
BY DEF ReapOfflineRunners

\* service.go, reapLoop: the roles after a step of the reaper.
LEMMA ReaperRoles ==
  ASSUME RowsAreSafe, TypeInv, Roles, Reaper
  PROVE  Roles'
<1>1. UNCHANGED <<hook, req, agent, hb, sched>>
  BY ReapEffect
<1>2. "reaper" \in Clients /\ \A j \in Jobs \cup Runners : j \in Clients /\ j \notin {"sched", "reaper"}
  BY ClientFacts
<1>3. ASSUME \A c \in Clients : c # "reaper" => call'[c] = call[c], SilentIsDead', ReaperOnlyRequeues'
      PROVE  Roles'
  BY <1>1, <1>2, <1>3, OthersRoles, ClientFacts DEF Roles
<1>4. ASSUME UNCHANGED <<runnerStatus, fresh>> PROVE SilentIsDead'
  BY <1>1, <1>4, SameRows, StayRoles DEF Roles
<1>5. CASE /\ reap.pc = "tick" /\ ReapOfflineRunners
           /\ reap'.pc = "next" \/ (reap'.pc = "tick" /\ reap'.orphans = {})
  <2>1. SilentIsDead'
    BY <1>1, <1>5, TickEffect DEF Roles, SilentIsDead, Stale, Offline, Dead
  <2>2. ReaperOnlyRequeues'
    BY <1>5, TickEffect DEF Roles, ReaperOnlyRequeues
  <2> QED BY <1>3, <1>5, <2>1, <2>2, TickEffect
<1>6. ASSUME NEW p \in reap.orphans, p[2] \in Jobs, Transition("reaper", p[2], "QUEUED"),
             reap'.pc = "requeueing"
      PROVE  Roles'
  <2>1. /\ OnlyCall("reaper") /\ UNCHANGED fresh /\ call'["reaper"].pc = "update"
        /\ call'["reaper"].to = "QUEUED"
    BY <1>2, <1>6, BeginEffect DEF JobStatus
  <2>2. ReaperOnlyRequeues'
    BY <1>6, <2>1 DEF ReaperOnlyRequeues
  <2> QED BY <1>3, <1>4, <2>1, <2>2 DEF OnlyCall
<1>7. CASE /\ UNCHANGED storeVars /\ reap.pc # "requeueing"
           /\ reap'.pc = "next" \/ (reap'.pc = "tick" /\ reap'.orphans = {})
  <2>1. ReaperOnlyRequeues'
    BY <1>7 DEF Roles, ReaperOnlyRequeues, storeVars
  <2> QED BY <1>3, <1>4, <1>7, <2>1 DEF storeVars
<1>8. CASE reap.pc = "requeueing" /\ TransitionUpdate("reaper") /\ UNCHANGED reap
  <2>1. /\ \A c \in Clients : c # "reaper" => call'[c] = call[c]
        /\ UNCHANGED <<runnerStatus, fresh>>
        /\ call'["reaper"].pc # "none" => call'["reaper"].pc = "release" /\ call'["reaper"].to = call["reaper"].to
        /\ call["reaper"].pc = "update"
    BY <1>2, <1>8, UpdateEffect
  <2>2. ReaperOnlyRequeues'
    BY <1>8, <2>1 DEF Roles, ReaperOnlyRequeues
  <2> QED BY <1>3, <1>4, <2>1, <2>2
<1>9. CASE /\ ReleaseRunner("reaper") /\ reap'.pc = "enqueue"
  <2>1. RunnersStay
    BY <1>1, <1>2, <1>9, RowMoves
  <2>2. SilentIsDead'
    BY <2>1, StayRoles DEF Roles
  <2>3. call'["reaper"].pc = "none" /\ \A c \in Clients : c # "reaper" => call'[c] = call[c]
    BY <1>2, <1>9, ReleaseEffect
  <2>4. ReaperOnlyRequeues'
    BY <1>9, <2>3 DEF ReaperOnlyRequeues
  <2> QED BY <1>3, <2>2, <2>3, <2>4
<1>10. CASE /\ TransitionConflict("reaper")
            /\ reap'.pc = "next" \/ (reap'.pc = "tick" /\ reap'.orphans = {})
  <2>1. OnlyCall("reaper") /\ UNCHANGED fresh /\ call'["reaper"].pc = "none"
    BY <1>2, <1>10, EndEffect
  <2>2. ReaperOnlyRequeues'
    BY <1>10, <2>1 DEF ReaperOnlyRequeues
  <2> QED BY <1>3, <1>4, <2>1, <2>2 DEF OnlyCall
<1> QED BY <1>5, <1>6, <1>7, <1>8, <1>9, <1>10, ReapEffect

\* jobs.go, handleCancelJob: the roles after a step of a cancel.
LEMMA CancelRoles ==
  ASSUME RowsAreSafe, TypeInv, Roles, Cancels
  PROVE  Roles'
<1>1. UNCHANGED <<hook, req, sched, reap, agent, hb>>
  BY CancelEffect DEF RowsAreSafe
<1>2. "cancel" \in Clients /\ \A j \in Jobs \cup Runners : j \in Clients /\ j # "cancel"
  BY ClientFacts
<1>3. ASSUME \A c \in Clients : c # "cancel" => call'[c] = call[c], RunnersStay, CancelOnlyCancels'
      PROVE  Roles'
  BY <1>1, <1>2, <1>3, OthersRoles, StayRoles, ClientFacts DEF Roles
<1>4. ASSUME UNCHANGED <<runnerStatus, fresh>> PROVE RunnersStay
  BY <1>1, <1>4, SameRows
<1>5. ASSUME NEW j \in Jobs, Transition("cancel", j, "CANCELLED") PROVE Roles'
  <2>1. /\ OnlyCall("cancel") /\ UNCHANGED fresh /\ call'["cancel"].pc = "update"
        /\ call'["cancel"].to = "CANCELLED"
    BY <1>2, <1>5, BeginEffect DEF JobStatus
  <2> QED BY <1>3, <1>4, <2>1 DEF OnlyCall, CancelOnlyCancels
<1>6. CASE TransitionUpdate("cancel")
  <2>1. /\ \A c \in Clients : c # "cancel" => call'[c] = call[c]
        /\ UNCHANGED <<runnerStatus, fresh>>
        /\ call'["cancel"].pc # "none" => call'["cancel"].pc = "release" /\ call'["cancel"].to = call["cancel"].to
        /\ call["cancel"].pc = "update"
    BY <1>2, <1>6, UpdateEffect
  <2>2. CancelOnlyCancels'
    BY <2>1 DEF Roles, CancelOnlyCancels
  <2> QED BY <1>3, <1>4, <2>1, <2>2
<1>7. CASE TransitionConflict("cancel") \/ CallsFail({"cancel"})
  <2>1. OnlyCall("cancel") /\ UNCHANGED fresh /\ call'["cancel"].pc = "none"
    BY <1>2, <1>7, EndEffect
  <2> QED BY <1>3, <1>4, <2>1 DEF OnlyCall, CancelOnlyCancels
<1>8. CASE ReleaseRunner("cancel")
  <2>1. RunnersStay
    BY <1>1, <1>2, <1>8, RowMoves
  <2>2. call'["cancel"].pc = "none" /\ \A c \in Clients : c # "cancel" => call'[c] = call[c]
    BY <1>2, <1>8, ReleaseEffect
  <2> QED BY <1>3, <2>1, <2>2 DEF CancelOnlyCancels
<1> QED BY <1>5, <1>6, <1>7, <1>8, CancelEffect DEF RowsAreSafe

\* runners.go: the roles after a step of a request.
LEMMA RequestRoles ==
  ASSUME RowsAreSafe, TypeInv, Roles, NEW r \in Runners, Requests(r)
  PROVE  Roles'
<1>0. "db" \notin FaultKinds
  BY DEF RowsAreSafe
<1>1. /\ UNCHANGED <<agent, hb, hook, sched, reap>> /\ \A q \in Runners : q # r => req'[q] = req[q]
      /\ req'[r].job = req[r].job /\ req'[r].to = req[r].to
      /\ req[r].job \in Jobs /\ req[r].to \in {"RUNNING", "SUCCESS", "FAILED"}
      /\ req[r].pc \in Serving
  BY <1>0, RequestEffect DEF Serving
<1>2. r \in Clients /\ \A j \in Jobs \cup {"sched", "reaper", "cancel"} : j \in Clients /\ j # r
  BY ClientFacts
<1>3. ASSUME \A c \in Clients : c # r => call'[c] = call[c], RunnersStay,
             call'[r].pc # "none" => /\ req'[r].pc = "store" /\ call'[r].pc # "assign"
                                     /\ call'[r].job = req'[r].job /\ call'[r].to = req'[r].to
      PROVE  Roles'
  <2>1. agent[r].pc \notin {"new", "poll", "checkout", "exec"}
    BY <1>1 DEF Roles, RequestsOnlyReport, Serving
  <2>2. RequestsOnlyReport'
    BY <1>1, <1>2, <1>3, <2>1, ClientFacts DEF Roles, RequestsOnlyReport
  <2> QED BY <1>1, <1>2, <1>3, <2>2, OthersRoles, StayRoles, ClientFacts DEF Roles
<1>4. \A q \in Runners : req'[q].pc \in Serving => req[q].pc \in Serving
  BY <1>1
<1>5. ASSUME UNCHANGED <<runnerStatus, fresh>> PROVE RunnersStay
  BY <1>1, <1>4, <1>5, SameRows
<1>6. CASE UNCHANGED storeVars /\ req[r].pc # "store"
  BY <1>3, <1>5, <1>6 DEF storeVars, Roles, RequestsOnlyReport
<1>7. CASE req'[r].pc = "store" /\ Transition(r, req[r].job, req[r].to)
  <2>1. /\ OnlyCall(r) /\ UNCHANGED fresh /\ call'[r].pc = "update"
        /\ call'[r].job = req[r].job /\ call'[r].to = req[r].to
    BY <1>1, <1>2, <1>7, BeginEffect DEF JobStatus
  <2> QED BY <1>1, <1>3, <1>5, <1>7, <2>1 DEF OnlyCall
<1>8. CASE TransitionUpdate(r) /\ req'[r].pc = IF ThenReleases(call[r]) THEN "store" ELSE "ok"
  <2>1. /\ \A c \in Clients : c # r => call'[c] = call[c]
        /\ UNCHANGED <<runnerStatus, fresh>>
        /\ call'[r].pc # "none" => /\ call'[r].pc = "release" /\ call'[r].to = call[r].to
                                   /\ call'[r].job = call[r].job /\ ThenReleases(call[r])
        /\ call[r].pc = "update"
    BY <1>2, <1>8, UpdateEffect DEF ThenReleases
  <2> QED BY <1>1, <1>3, <1>5, <1>8, <2>1 DEF Roles, RequestsOnlyReport
<1>9. CASE ReleaseRunner(r)
  <2>1. RunnersStay
    BY <1>1, <1>2, <1>4, <1>9, RowMoves
  <2>2. call'[r].pc = "none" /\ \A c \in Clients : c # r => call'[c] = call[c]
    BY <1>2, <1>9, ReleaseEffect
  <2> QED BY <1>3, <2>1, <2>2
<1>10. CASE TransitionConflict(r) \/ CallsFail({r})
  <2>1. OnlyCall(r) /\ UNCHANGED fresh /\ call'[r].pc = "none"
    BY <1>2, <1>10, EndEffect
  <2> QED BY <1>3, <1>5, <2>1 DEF OnlyCall
<1> QED BY <1>0, <1>6, <1>7, <1>8, <1>9, <1>10, RequestEffect

\* agent.go: the roles after a step of an agent.
LEMMA AgentRoles ==
  ASSUME RowsAreSafe, TypeInv, Roles, NEW r \in Runners, Agent(r)
  PROVE  Roles'
<1>1. AgentRest(r)
  BY AgentOthers
<1>2. /\ UNCHANGED <<runner_id, call, hook, sched, reap>>
      /\ \A q \in Runners : q # r => agent'[q] = agent[q] /\ req'[q] = req[q]
      /\ \A q \in Runners : q # r => runnerStatus'[q] = runnerStatus[q] /\ fresh'[q] = fresh[q]
  BY <1>1 DEF AgentRest
<1>3. ASSUME /\ Offline(r)' => ~fresh'[r]
             /\ runnerStatus'[r] # "NONE" /\ ~fresh'[r] => Dead(r)' /\ req'[r].pc \notin Serving,
             call[r].pc # "none" => /\ req'[r].pc = "store"
                                    /\ call[r].job = req'[r].job /\ call[r].to = req'[r].to,
             agent'[r].pc \in {"new", "poll", "checkout", "exec"} => req'[r].pc = "none"
      PROVE  Roles'
  <2>1. SilentIsDead'
    BY <1>2, <1>3 DEF Roles, SilentIsDead, Offline, Dead
  <2>2. RequestsOnlyReport'
    BY <1>2, <1>3 DEF Roles, RequestsOnlyReport
  <2> QED BY <1>2, <2>1, <2>2, OthersRoles DEF Roles
<1>4. /\ Offline(r) => ~fresh[r]
      /\ runnerStatus[r] # "NONE" /\ ~fresh[r] => Dead(r) /\ req[r].pc \notin Serving
      /\ call[r].pc # "none" => /\ req[r].pc = "store"
                                /\ call[r].job = req[r].job /\ call[r].to = req[r].to
      /\ agent[r].pc \in {"new", "poll", "checkout", "exec"} => req[r].pc = "none"
  BY DEF Roles, SilentIsDead, RequestsOnlyReport
<1>5. CASE StartAnswered(r) \/ ResultAnswered(r) \/ BuildStep(r) \/ StartAnswerLost(r)
  BY <1>3, <1>4, <1>5, BuildEffect
     DEF Begins, GoesOn, Reports, Returns, RowStays, Offline, Dead, Serving
<1>6. CASE Poll(r) \/ PollAnswerLost(r) \/ MailboxDropped(r)
  BY <1>3, <1>4, <1>6, MailEffect DEF RowStays, Offline, Dead, Serving
<1>7. CASE Register(r) \/ HeartbeatSent(r) \/ HeartbeatAnswered(r) \/ AgentDies(r)
  BY <1>3, <1>4, <1>7, BeatEffect DEF RowStays, Offline, Dead, Serving, Alive
<1>8. CASE FallsSilent(r)
  <2>1. Dead(r) /\ req[r].pc \notin Serving
    BY <1>8, BeatEffect DEF RowsAreSafe, Quiet, Serving
  <2> QED BY <1>3, <1>4, <1>8, <2>1, BeatEffect DEF Offline, Dead
<1>9. ~LeaseUnreadable(r)
  BY BeatEffect DEF RowsAreSafe
<1> QED BY <1>5, <1>6, <1>7, <1>8, <1>9 DEF Agent, AgentStep, HeartbeatStep, AgentFault

\* Every step keeps the roles.
LEMMA StepRoles ==
  ASSUME RowsAreSafe, TypeInv, Roles, [Next]_vars
  PROVE  Roles'
<1>1. CASE \E j \in Jobs : Webhooks(j)
  <2>1. PICK j \in Jobs : Webhooks(j)
    BY <1>1
  <2>2. /\ UNCHANGED <<sched, reap, agent, req, runnerStatus, fresh>>
        /\ HooksOnlyPush' /\ \A c \in Clients \ Jobs : call'[c] = call[c]
    BY <2>1, WebhookEffect DEF Roles
  <2>3. RunnersStay
    BY <2>2, SameRows
  <2> QED BY <2>2, <2>3, OthersRoles, StayRoles, ClientFacts DEF Roles
<1>2. CASE UNCHANGED vars
  <2>1. UNCHANGED <<sched, reap, agent, req, hook, runnerStatus, fresh, call>>
    BY <1>2 DEF vars, storeVars, schedVars, apiVars, agentVars
  <2>2. RunnersStay
    BY <2>1, SameRows
  <2> QED BY <2>1, <2>2, OthersRoles, StayRoles DEF Roles
<1> QED BY <1>1, <1>2, SchedRoles, ReaperRoles, CancelRoles, RequestRoles, AgentRoles DEF Next

-----------------------------------------------------------------------------
(* The rows of a job and of its runner agree *)

\* The job a runner holds, and one it is reporting, names it.
HolderIsNamed ==
  /\ \A r \in Runners : currentJob[r] # NULL => runner_id[currentJob[r]] = r
  /\ \A r \in Runners : req[r].pc \in {"begin", "store"} => runner_id[req[r].job] = r
\* The reaper works on jobs that still name the runner it gave up.
OrphansAreNamed ==
  /\ \A p \in reap.orphans : runner_id[p[2]] = p[1] /\ Offline(p[1])
  /\ call["reaper"].pc = "update" =>
       /\ runner_id[call["reaper"].job] = call["reaper"].owner
       /\ status[call["reaper"].job] \in {call["reaper"].seen, "CANCELLED"}
       /\ \A p \in reap.orphans : p[2] # call["reaper"].job
  /\ call["reaper"].pc # "none" => call["reaper"].owner \in Runners /\ Offline(call["reaper"].owner)
\* What an UPDATE under way read of runner_id is still so, or that runner is gone.
OwnerWasRead ==
  \A c \in Clients : call[c].pc = "update" =>
    /\ (call[c].owner = NULL) <=> (call[c].seen = "QUEUED")
    /\ call[c].owner # NULL => runner_id[call[c].job] = call[c].owner \/ Offline(call[c].owner)
    /\ c \in Runners => call[c].owner = c
\* A release under way is for the finished job its runner still holds, and is the only one.
Ended(j) == status[j] \in {"SUCCESS", "FAILED", "CANCELLED"}
ReleaseIsDue ==
  \A c \in Clients : call[c].pc = "release" =>
    \/ Offline(call[c].owner)
    \/ /\ currentJob[call[c].owner] = call[c].job /\ call[c].job \in Jobs
       /\ Ended(call[c].job)
ReleasedOnce ==
  \A c, d \in Clients :
    c # d /\ call[c].pc = "release" /\ call[d].pc = "release" /\ call[c].owner = call[d].owner
      => Offline(call[c].owner)
\* A job under way is held by the runner it names, or is in the reaper's hands.
GivenUp(j) == \/ <<runner_id[j], j>> \in reap.orphans
              \/ call["reaper"].pc = "update" /\ call["reaper"].job = j
HeldOrGivenUp ==
  \A j \in Jobs : status[j] \in {"ASSIGNED", "RUNNING"} => currentJob[runner_id[j]] = j \/ GivenUp(j)

RowsInv == HolderIsNamed /\ OrphansAreNamed /\ OwnerWasRead /\ ReleaseIsDue /\ ReleasedOnce
             /\ HeldOrGivenUp

\* A request goes on with a job that names its runner.
ReqKept ==
  \A r \in Runners : req'[r].pc \in {"begin", "store"} =>
    \/ req[r].pc \in {"begin", "store"} /\ req'[r].job = req[r].job
    \/ runner_id[req'[r].job] = r

\* Steps that change no owner, no held job and no UPDATE or release under way.
Aside ==
  /\ UNCHANGED <<runner_id, currentJob>> /\ ReqKept /\ reap'.orphans = reap.orphans
  /\ \A j \in Jobs : status'[j] = status[j] \/ (status[j] = "NONE" /\ status'[j] = "QUEUED")
  /\ \A c \in Clients : \/ call'[c] = call[c]
                        \/ call[c].pc \in {"none", "assign"} /\ call'[c].pc \in {"none", "assign"}
  /\ call["reaper"].pc # "assign" /\ call'["reaper"].pc # "assign"
  /\ \A r \in Runners : /\ runnerStatus'[r] = "OFFLINE" <=> runnerStatus[r] = "OFFLINE"
                        /\ runnerStatus'[r] = "BUSY" <=> runnerStatus[r] = "BUSY"

\* Polls, heartbeats, pushes and pops leave the rows' agreement as it was.
LEMMA AsideRows ==
  ASSUME TypeInv, RowsInv, Aside
  PROVE  RowsInv'
<1>1. "reaper" \in Clients /\ \A r \in Runners : Offline(r)' <=> Offline(r)
  BY ClientFacts DEF Aside, Offline
<1>2. \A c \in Clients : /\ call'[c].pc \in {"update", "release"} => call'[c] = call[c]
                         /\ call[c].pc \in {"update", "release"} => call'[c] = call[c]
  BY DEF Aside
<1>3. HolderIsNamed'
  BY DEF Aside, ReqKept, RowsInv, HolderIsNamed
<1>4. OrphansAreNamed'
  <2>1. reap.orphans \subseteq Runners \X Jobs
    BY DEF TypeInv, TypeOK, SchedTypeOK
  <2>2. \A p \in reap.orphans : p[1] \in Runners
    BY <2>1
  <2>3. \A p \in reap'.orphans : runner_id'[p[2]] = p[1] /\ Offline(p[1])'
    BY <1>1, <2>2 DEF Aside, RowsInv, OrphansAreNamed
  <2>4. call'["reaper"].pc # "none" => call'["reaper"] = call["reaper"]
    BY <1>1, <1>2, StoreFacts DEF Aside, CallRecord
  <2>5. call["reaper"].pc = "update" =>
          /\ call["reaper"].job \in Jobs /\ call["reaper"].seen \in {"QUEUED", "ASSIGNED", "RUNNING"}
    BY <1>1, StoreFacts
  <2>6. call["reaper"].pc = "update" => status'[call["reaper"].job] \in {call["reaper"].seen, "CANCELLED"}
    BY <2>5 DEF RowsInv, OrphansAreNamed, Aside
  <2> QED BY <1>1, <2>3, <2>4, <2>5, <2>6 DEF RowsInv, OrphansAreNamed, Aside
<1>5. OwnerWasRead'
  <2>1. \A c \in Clients : call[c].owner # NULL => call[c].owner \in Runners
    BY StoreFacts DEF CallRecord
  <2> QED BY <1>1, <1>2, <2>1 DEF RowsInv, OwnerWasRead, Aside
<1>6. ReleaseIsDue'
  <2>1. \A c \in Clients : call[c].pc = "release" => call[c].owner \in Runners
    BY StoreFacts
  <2> QED BY <1>1, <1>2, <2>1 DEF RowsInv, ReleaseIsDue, Ended, Aside
<1>7. ReleasedOnce'
  <2>1. \A c \in Clients : call[c].pc = "release" => call[c].owner \in Runners
    BY StoreFacts
  <2> QED BY <1>1, <1>2, <2>1 DEF RowsInv, ReleasedOnce
<1>8. HeldOrGivenUp'
  BY <1>1, <1>2 DEF RowsInv, HeldOrGivenUp, GivenUp, Aside
<1> QED BY <1>3, <1>4, <1>5, <1>6, <1>7, <1>8 DEF RowsInv

\* store.go, transition, first half, by a cancel or a request.
LEMMA BeginRows ==
  ASSUME TypeInv, RowsInv, NEW c \in Clients, c # "reaper", NEW j \in Jobs, NEW to \in JobStatus,
         Transition(c, j, to), ReqKept, UNCHANGED reap, c \in Runners => runner_id[j] = c
  PROVE  RowsInv'
<1>1. /\ \A d \in Clients : d # c => call'[d] = call[d]
      /\ UNCHANGED <<status, runner_id, runnerStatus, currentJob>> /\ call[c].pc = "none"
      /\ call'[c].pc = "update" /\ call'[c].job = j
      /\ call'[c].seen = status[j] /\ call'[c].owner = runner_id[j]
      /\ status[j] \in {"QUEUED", "ASSIGNED", "RUNNING"}
  BY BeginEffect DEF OnlyCall
<1>2. "reaper" \in Clients /\ call'["reaper"] = call["reaper"]
  BY <1>1, ClientFacts
<1>3. HolderIsNamed' /\ OrphansAreNamed' /\ HeldOrGivenUp'
  BY <1>1, <1>2
     DEF ReqKept, RowsInv, HolderIsNamed, OrphansAreNamed, HeldOrGivenUp, GivenUp, Offline
<1>4. OwnerWasRead'
  <2>1. (runner_id[j] = NULL) <=> (status[j] = "QUEUED")
    BY <1>1, StoreFacts DEF OwnerMatchesStatus
  <2> QED BY <1>1, <2>1 DEF RowsInv, OwnerWasRead, Offline
<1>5. ReleaseIsDue' /\ ReleasedOnce'
  BY <1>1 DEF RowsInv, ReleaseIsDue, ReleasedOnce, Ended, Offline
<1> QED BY <1>3, <1>4, <1>5 DEF RowsInv

\* store.go, transition, second half, by a cancel or a request.
LEMMA UpdateRows ==
  ASSUME TypeInv, Roles, RowsInv, NEW c \in Clients, c = "cancel" \/ c \in Runners,
         TransitionUpdate(c), ReqKept, UNCHANGED reap
  PROVE  RowsInv'
<1> DEFINE j == call[c].job
           o == call[c].owner
<1>1. /\ call[c].pc = "update" /\ j \in Jobs /\ status[j] = call[c].seen /\ status'[j] = call[c].to
      /\ call[c].seen \in {"QUEUED", "ASSIGNED", "RUNNING"}
      /\ \A k \in Jobs : k # j => status'[k] = status[k]
      /\ \A d \in Clients : d # c => call'[d] = call[d]
      /\ call[c].to = "RUNNING" \/ o = NULL => call'[c].pc = "none"
      /\ ~(call[c].to = "RUNNING" \/ o = NULL)
              => call'[c].pc = "release" /\ call'[c].job = j /\ call'[c].owner = o
      /\ UNCHANGED <<runnerStatus, currentJob>>
  BY UpdateEffect
<1>2. c # "reaper" /\ call'["reaper"] = call["reaper"]
  BY <1>1, ClientFacts
<1>3. call[c].to \in {"RUNNING", "SUCCESS", "FAILED", "CANCELLED"}
  <2>1. CASE c = "cancel"
    BY <1>1, <2>1 DEF Roles, CancelOnlyCancels
  <2>2. CASE c \in Runners
    BY <1>1, <2>2, AgentFacts DEF Roles, RequestsOnlyReport, TypeInv, ReqHolds, ReqRecord
  <2> QED BY <2>1, <2>2
<1>4. UNCHANGED runner_id
  BY <1>3 DEF TransitionUpdate
<1>5. call[c].to = "RUNNING" => call[c].seen = "ASSIGNED"
  BY <1>1, StoreFacts
<1>6. /\ (o = NULL) <=> (call[c].seen = "QUEUED")
      /\ o # NULL => runner_id[j] = o \/ Offline(o)
      /\ o # NULL => o \in Runners
  BY <1>1, StoreFacts DEF RowsInv, OwnerWasRead, CallRecord
<1>7. ~Offline(o) /\ o # NULL => currentJob[o] = j
  BY <1>1, <1>6 DEF RowsInv, HeldOrGivenUp, GivenUp, OrphansAreNamed
<1> HIDE DEF j, o
<1>8. HolderIsNamed'
  BY <1>1, <1>4 DEF ReqKept, RowsInv, HolderIsNamed
<1>9. OrphansAreNamed'
  <2>1. call["reaper"].pc = "update" /\ call["reaper"].job = j => status'[j] = "CANCELLED"
    <3>1. CASE c = "cancel"
      BY <1>1, <3>1 DEF Roles, CancelOnlyCancels
    <3>2. CASE c \in Runners
      <4>1. runner_id[j] = c /\ req[c].pc = "store"
        BY <1>1, <3>2 DEF Roles, RequestsOnlyReport, RowsInv, HolderIsNamed, j
      <4>2. ~Offline(c)
        BY <3>2, <4>1 DEF Roles, SilentIsDead, Offline, Serving
      <4> QED BY <4>1, <4>2 DEF RowsInv, OrphansAreNamed
    <3> QED BY <3>1, <3>2
  <2>2. call["reaper"].pc = "update" => call["reaper"].job \in Jobs
    BY StoreFacts, ClientFacts
  <2>3. call["reaper"].pc = "update" => status'[call["reaper"].job] \in {call["reaper"].seen, "CANCELLED"}
    BY <1>1, <2>1, <2>2 DEF RowsInv, OrphansAreNamed
  <2> QED BY <1>1, <1>2, <1>4, <2>3 DEF RowsInv, OrphansAreNamed, Offline
<1>10. OwnerWasRead'
  BY <1>1, <1>4 DEF RowsInv, OwnerWasRead, Offline
<1>11. \A d \in Clients : /\ call'[d].pc = "release" => d = c \/ call'[d] = call[d]
                          /\ call[d].pc = "release" => d # c
                          /\ call'[d].pc = "update" => d # c
  BY <1>1
<1>12. ReleaseIsDue'
  <2> SUFFICES ASSUME NEW d \in Clients, call'[d].pc = "release", runnerStatus[call'[d].owner] # "OFFLINE"
               PROVE  /\ currentJob[call'[d].owner] = call'[d].job /\ call'[d].job \in Jobs
                      /\ status'[call'[d].job] \in {"SUCCESS", "FAILED", "CANCELLED"}
    BY <1>1 DEF ReleaseIsDue, Offline, Ended
  <2>1. CASE d = c
    BY <1>1, <1>3, <1>7, <2>1 DEF Ended, Offline
  <2>2. CASE d # c
    BY <1>1, <2>2 DEF RowsInv, ReleaseIsDue, Ended, Offline
  <2> QED BY <2>1, <2>2
<1>13. ReleasedOnce'
  <2>1. ASSUME NEW d \in Clients, d # c, call[d].pc = "release", call'[c].pc = "release",
               call[d].owner = o
        PROVE  Offline(o)
    <3>1. o # NULL
      BY <1>1, <2>1
    <3>2. Offline(o) \/ (currentJob[o] = call[d].job /\ Ended(call[d].job))
      BY <2>1 DEF RowsInv, ReleaseIsDue
    <3> QED BY <1>1, <1>7, <3>1, <3>2 DEF Ended
  <2> SUFFICES ASSUME NEW d \in Clients, NEW e \in Clients, d # e, call'[d].pc = "release",
                      call'[e].pc = "release", call'[d].owner = call'[e].owner
               PROVE  runnerStatus[call'[d].owner] = "OFFLINE"
    BY <1>1 DEF ReleasedOnce, Offline
  <2>2. CASE d = c
    BY <1>1, <2>1, <2>2 DEF Offline
  <2>3. CASE e = c
    BY <1>1, <2>1, <2>3 DEF Offline
  <2> QED BY <1>1, <2>2, <2>3 DEF RowsInv, ReleasedOnce, Offline
<1>14. HeldOrGivenUp'
  BY <1>1, <1>2, <1>3, <1>4, <1>5 DEF RowsInv, HeldOrGivenUp, GivenUp
<1> QED BY <1>8, <1>9, <1>10, <1>12, <1>13, <1>14 DEF RowsInv

\* store.go, transition: the UPDATE of a cancel, a request or the reaper matches no row,
\* or the client of the handler has hung up.
LEMMA ConflictRows ==
  ASSUME TypeInv, RowsInv, NEW c \in Clients,
         TransitionConflict(c) \/ (c # "reaper" /\ CallsFail({c})), ReqKept,
         reap'.orphans = reap.orphans
  PROVE  RowsInv'
<1>1. /\ \A d \in Clients : d # c => call'[d] = call[d]
      /\ UNCHANGED <<status, runner_id, runnerStatus, currentJob>> /\ call'[c].pc = "none"
      /\ c = "reaper" => call[c].pc = "update" /\ status[call[c].job] # call[c].seen
  BY EndEffect DEF OnlyCall
<1>2. \A d \in Clients : call'[d].pc # "none" => call'[d] = call[d]
  BY <1>1
<1>3. "reaper" \in Clients
  BY ClientFacts
<1>4. HolderIsNamed' /\ OrphansAreNamed'
  BY <1>1, <1>2, <1>3 DEF ReqKept, RowsInv, HolderIsNamed, OrphansAreNamed, Offline
<1>5. OwnerWasRead' /\ ReleaseIsDue' /\ ReleasedOnce'
  BY <1>1, <1>2 DEF RowsInv, OwnerWasRead, ReleaseIsDue, ReleasedOnce, Ended, Offline
<1>6. HeldOrGivenUp'
  <2>1. ASSUME NEW j \in Jobs, status[j] \in {"ASSIGNED", "RUNNING"},
               call["reaper"].pc = "update", call["reaper"].job = j
        PROVE  call'["reaper"] = call["reaper"]
    BY <1>1, <1>3, <2>1 DEF RowsInv, OrphansAreNamed
  <2> QED BY <1>1, <1>3, <2>1 DEF RowsInv, HeldOrGivenUp, GivenUp
<1> QED BY <1>4, <1>5, <1>6 DEF RowsInv

\* store.go, releaseRunner.
LEMMA ReleaseRows ==
  ASSUME TypeInv, RowsInv, NEW c \in Clients, ReleaseRunner(c), ReqKept,
         reap'.orphans = reap.orphans
  PROVE  RowsInv'
<1> DEFINE o == call[c].owner
<1>1. /\ call[c].pc = "release" /\ o \in Runners /\ call'[c].pc = "none"
      /\ \A d \in Clients : d # c => call'[d] = call[d]
      /\ UNCHANGED <<status, runner_id>>
      /\ \A r \in Runners : r # o => runnerStatus'[r] = runnerStatus[r] /\ currentJob'[r] = currentJob[r]
      /\ IF runnerStatus[o] = "BUSY" THEN runnerStatus'[o] = "IDLE" /\ currentJob'[o] = NULL
         ELSE runnerStatus'[o] = runnerStatus[o] /\ currentJob'[o] = currentJob[o]
  BY ReleaseEffect
<1>2. runnerStatus[o] # "OFFLINE" => currentJob[o] = call[c].job /\ call[c].job \in Jobs /\ Ended(call[c].job)
  BY <1>1 DEF RowsInv, ReleaseIsDue, Offline
<1>2a. \A d \in Clients : d # c /\ call[d].pc = "release" /\ runnerStatus[o] # "OFFLINE" => call[d].owner # o
  BY <1>1 DEF RowsInv, ReleasedOnce, Offline
<1> HIDE DEF o
<1>3. /\ \A r \in Runners : (runnerStatus'[r] = "OFFLINE") <=> (runnerStatus[r] = "OFFLINE")
      /\ \A r \in Runners : currentJob'[r] = currentJob[r] \/ currentJob'[r] = NULL
  BY <1>1
<1>4. \A d \in Clients : call'[d].pc # "none" => call'[d] = call[d] /\ d # c
  BY <1>1
<1>5. "reaper" \in Clients /\ (call["reaper"].pc = "update" => call'["reaper"] = call["reaper"])
  BY <1>1, ClientFacts
<1>6. HolderIsNamed'
  BY <1>1, <1>3 DEF ReqKept, RowsInv, HolderIsNamed
<1>7. OrphansAreNamed'
  <2>1. \A p \in reap.orphans : p[1] \in Runners
    BY DEF TypeInv, TypeOK, SchedTypeOK
  <2>2. \A p \in reap'.orphans : runner_id'[p[2]] = p[1] /\ Offline(p[1])'
    BY <1>1, <1>3, <2>1 DEF RowsInv, OrphansAreNamed, Offline
  <2>3. call'["reaper"].pc # "none" => call'["reaper"] = call["reaper"]
    BY <1>4, <1>5
  <2> QED BY <1>1, <1>3, <2>2, <2>3 DEF RowsInv, OrphansAreNamed, Offline
<1>8. OwnerWasRead'
  <2>1. \A d \in Clients : call[d].owner # NULL => call[d].owner \in Runners
    BY StoreFacts DEF CallRecord
  <2> QED BY <1>1, <1>3, <1>4, <2>1 DEF RowsInv, OwnerWasRead, Offline
<1>9. \A d \in Clients : call[d].pc = "release" => call[d].owner \in Runners
  BY StoreFacts
<1>10. ReleaseIsDue'
  <2> SUFFICES ASSUME NEW d \in Clients, call'[d].pc = "release",
                      runnerStatus'[call[d].owner] # "OFFLINE", d # c, call'[d] = call[d]
               PROVE  currentJob'[call[d].owner] = call[d].job /\ call[d].job \in Jobs /\ Ended(call[d].job)
    BY <1>1, <1>4 DEF ReleaseIsDue, Offline, Ended
  <2>1. call[d].owner \in Runners /\ runnerStatus[call[d].owner] # "OFFLINE" /\ call[d].pc = "release"
    BY <1>3, <1>9
  <2>2. currentJob[call[d].owner] = call[d].job /\ call[d].job \in Jobs /\ Ended(call[d].job)
    BY <2>1 DEF RowsInv, ReleaseIsDue, Offline
  <2>3. call[d].owner # o
    BY <1>2a, <2>1
  <2> QED BY <1>1, <2>1, <2>2, <2>3
<1>11. ReleasedOnce'
  BY <1>3, <1>4, <1>9 DEF RowsInv, ReleasedOnce, Offline
<1>12. HeldOrGivenUp'
  <2>1. ASSUME NEW j \in Jobs, status[j] \in {"ASSIGNED", "RUNNING"}, currentJob[runner_id[j]] = j
        PROVE  currentJob'[runner_id[j]] = j
    <3>1. runner_id[j] \in Runners
      BY <2>1, StoreFacts DEF OwnerMatchesStatus
    <3>2. CASE runner_id[j] = o /\ runnerStatus[o] = "BUSY"
      BY <1>2, <2>1, <3>2 DEF Ended
    <3> QED BY <1>1, <2>1, <3>1, <3>2
  <2> QED BY <1>1, <1>5, <2>1 DEF RowsInv, HeldOrGivenUp, GivenUp
<1> QED BY <1>6, <1>7, <1>8, <1>10, <1>11, <1>12 DEF RowsInv

\* store.go, AssignJob: the transaction.
LEMMA CommitRows ==
  ASSUME TypeInv, Roles, RowsInv, AssignCommit("sched"), UNCHANGED <<req, reap>>
  PROVE  RowsInv'
<1> DEFINE j == call["sched"].job
           o == call["sched"].owner
<1>0. {"sched", "reaper"} \subseteq Clients
  BY ClientFacts
<1>1. /\ call["sched"].pc = "assign" /\ call'["sched"].pc = "none" /\ j \in Jobs /\ o \in Runners
      /\ status[j] = "QUEUED" /\ runner_id[j] = NULL
      /\ runnerStatus[o] = "IDLE" /\ currentJob[o] = NULL
      /\ status'[j] = "ASSIGNED" /\ runner_id'[j] = o
      /\ runnerStatus'[o] = "BUSY" /\ currentJob'[o] = j
      /\ \A k \in Jobs : k # j => status'[k] = status[k] /\ runner_id'[k] = runner_id[k]
      /\ \A q \in Runners : q # o => runnerStatus'[q] = runnerStatus[q] /\ currentJob'[q] = currentJob[q]
      /\ \A d \in Clients : d # "sched" => call'[d] = call[d]
  BY <1>0, AssignEffect
<1> HIDE DEF j, o
<1>2. \A d \in Clients : /\ call'[d].pc # "none" => call'[d] = call[d]
                         /\ call[d].pc # "assign" => call'[d] = call[d]
  BY <1>1
<1>3. \A r \in Runners : (runnerStatus'[r] = "OFFLINE") <=> (runnerStatus[r] = "OFFLINE")
  BY <1>1
<1>4. \A r \in Runners : currentJob[r] # j /\ (req[r].pc \in {"begin", "store"} => req[r].job # j)
  BY <1>1, NullAssumption DEF RowsInv, HolderIsNamed
<1>5. HolderIsNamed'
  <2>1. \A r \in Runners : req[r].pc \in {"begin", "store"} => req[r].job \in Jobs
    BY DEF TypeInv, ReqHolds
  <2>2. \A r \in Runners : currentJob'[r] # NULL => runner_id'[currentJob'[r]] = r
    BY <1>1, <1>4, StoreFacts DEF RowsInv, HolderIsNamed
  <2>3. \A r \in Runners : req'[r].pc \in {"begin", "store"} => runner_id'[req'[r].job] = r
    BY <1>1, <1>4, <2>1 DEF RowsInv, HolderIsNamed
  <2> QED BY <2>2, <2>3 DEF HolderIsNamed
<1>6. OrphansAreNamed'
  <2>1. \A p \in reap.orphans : p[1] \in Runners /\ p[2] \in Jobs
    BY DEF TypeInv, TypeOK, SchedTypeOK
  <2>2. \A p \in reap'.orphans : runner_id'[p[2]] = p[1] /\ Offline(p[1])'
    BY <1>1, <1>3, <2>1, NullAssumption DEF RowsInv, OrphansAreNamed, Offline
  <2>3. call'["reaper"] = call["reaper"]
    BY <1>0, <1>1
  <2>4. call["reaper"].pc = "update" => call["reaper"].job \in Jobs /\ call["reaper"].job # j
    BY <1>0, <1>1, StoreFacts, NullAssumption DEF RowsInv, OrphansAreNamed
  <2> QED BY <1>1, <1>3, <2>2, <2>3, <2>4 DEF RowsInv, OrphansAreNamed, Offline
<1>7. OwnerWasRead'
  <2>1. \A d \in Clients : call[d].owner # NULL => call[d].owner \in Runners
    BY StoreFacts DEF CallRecord
  <2>2. \A d \in Clients : call[d].pc = "update" => call[d].job \in Jobs
    BY StoreFacts
  <2> QED BY <1>1, <1>2, <1>3, <2>1, <2>2, NullAssumption DEF RowsInv, OwnerWasRead, Offline
<1>8. \A d \in Clients : call[d].pc = "release" => call[d].owner \in Runners
  BY StoreFacts
<1>9. ReleaseIsDue' /\ ReleasedOnce'
  <2>1. \A d \in Clients : call[d].pc = "release" /\ ~Offline(call[d].owner)
          => call[d].job # j /\ call[d].owner # o
    BY <1>1, NullAssumption DEF RowsInv, ReleaseIsDue, Ended
  <2>2. ReleaseIsDue'
    BY <1>1, <1>2, <1>3, <1>8, <2>1 DEF RowsInv, ReleaseIsDue, Ended, Offline
  <2>3. ReleasedOnce'
    BY <1>2, <1>3, <1>8 DEF RowsInv, ReleasedOnce, Offline
  <2> QED BY <2>2, <2>3
<1>10. HeldOrGivenUp'
  <2>1. ASSUME NEW k \in Jobs, k # j, status[k] \in {"ASSIGNED", "RUNNING"}, currentJob[runner_id[k]] = k
        PROVE  currentJob'[runner_id[k]] = k
    <3>1. runner_id[k] \in Runners /\ runner_id[k] # o
      BY <1>1, <2>1, NullAssumption, StoreFacts DEF OwnerMatchesStatus
    <3> QED BY <1>1, <2>1, <3>1
  <2>2. call'["reaper"] = call["reaper"]
    BY <1>0, <1>1
  <2> QED BY <1>1, <2>1, <2>2 DEF RowsInv, HeldOrGivenUp, GivenUp
<1> QED BY <1>5, <1>6, <1>7, <1>9, <1>10 DEF RowsInv

\* store.go, ReapOfflineRunners.
LEMMA TickRows ==
  ASSUME TypeInv, Roles, RowsInv, reap.pc = "tick", ReapOfflineRunners, reap'.orphans = Orphans,
         UNCHANGED req
  PROVE  RowsInv'
<1>1. /\ UNCHANGED <<status, runner_id, call>>
      /\ \A r \in Runners :
           IF r \in Stale THEN runnerStatus'[r] = "OFFLINE" /\ currentJob'[r] = NULL
                          ELSE runnerStatus'[r] = runnerStatus[r] /\ currentJob'[r] = currentJob[r]
  BY TickEffect
<1>2. reap.orphans = {} /\ call["reaper"].pc = "none"
  BY DEF Roles, ReaperOnlyRequeues
<1>3. \A r \in Runners : Offline(r) => Offline(r)'
  BY <1>1 DEF Offline, Stale
<1>4. HolderIsNamed'
  BY <1>1 DEF RowsInv, HolderIsNamed
<1>5. OrphansAreNamed'
  <2>1. ASSUME NEW p \in Orphans PROVE runner_id[p[2]] = p[1] /\ runnerStatus'[p[1]] = "OFFLINE"
    <3>1. PICK r \in Runners : r \in Stale /\ currentJob[r] # NULL /\ p = <<r, currentJob[r]>>
      BY <2>1 DEF Orphans, Stale
    <3> QED BY <1>1, <3>1 DEF RowsInv, HolderIsNamed
  <2> QED BY <1>1, <1>2, <2>1 DEF OrphansAreNamed, Offline
<1>6. OwnerWasRead'
  <2>1. \A d \in Clients : call[d].owner # NULL => call[d].owner \in Runners
    BY StoreFacts DEF CallRecord
  <2> QED BY <1>1, <1>3, <2>1 DEF RowsInv, OwnerWasRead
<1>7. ReleaseIsDue' /\ ReleasedOnce'
  <2>1. \A d \in Clients : call[d].pc = "release" => call[d].owner \in Runners
    BY StoreFacts
  <2> QED BY <1>1, <1>3, <2>1 DEF RowsInv, ReleaseIsDue, ReleasedOnce, Ended, Offline
<1>8. HeldOrGivenUp'
  <2> SUFFICES ASSUME NEW j \in Jobs, status[j] \in {"ASSIGNED", "RUNNING"}
               PROVE  currentJob'[runner_id[j]] = j \/ <<runner_id[j], j>> \in Orphans
    BY <1>1 DEF HeldOrGivenUp, GivenUp
  <2>1. currentJob[runner_id[j]] = j /\ runner_id[j] \in Runners
    BY <1>2, StoreFacts DEF RowsInv, HeldOrGivenUp, GivenUp, OwnerMatchesStatus
  <2> QED BY <1>1, <2>1, NullAssumption DEF Orphans
<1> QED BY <1>4, <1>5, <1>6, <1>7, <1>8 DEF RowsInv

\* service.go, reapLoop, and store.go, RequeueJob, first half.
LEMMA ReapNextRows ==
  ASSUME TypeInv, Roles, RowsInv, NEW p \in reap.orphans, p[2] \in Jobs, p[1] \in Runners, p = <<p[1], p[2]>>,
         Transition("reaper", p[2], "QUEUED"), reap'.orphans = reap.orphans \ {p}, UNCHANGED req
  PROVE  RowsInv'
<1> DEFINE j == p[2]
<1>0. "reaper" \in Clients
  BY ClientFacts
<1>1. /\ \A d \in Clients : d # "reaper" => call'[d] = call[d]
      /\ UNCHANGED <<status, runner_id, runnerStatus, currentJob>> /\ call["reaper"].pc = "none"
      /\ call'["reaper"].pc = "update" /\ call'["reaper"].job = j
      /\ call'["reaper"].seen = status[j] /\ call'["reaper"].owner = runner_id[j]
      /\ status[j] \in {"ASSIGNED", "RUNNING"}
  BY <1>0, BeginEffect DEF OnlyCall, JobStatus
<1>2. runner_id[j] = p[1] /\ Offline(p[1])
  BY DEF RowsInv, OrphansAreNamed
<1>3. \A q \in reap.orphans : q = <<q[1], q[2]>> /\ runner_id[q[2]] = q[1]
  BY DEF TypeInv, TypeOK, SchedTypeOK, RowsInv, OrphansAreNamed
<1>4. \A q \in reap'.orphans : q[2] # j
  BY <1>2, <1>3
<1> HIDE DEF j
<1>5. HolderIsNamed'
  BY <1>1 DEF RowsInv, HolderIsNamed
<1>6. OrphansAreNamed'
  BY <1>1, <1>2, <1>4 DEF RowsInv, OrphansAreNamed, Offline
<1>7. OwnerWasRead'
  BY <1>1, <1>2, ClientFacts, NullAssumption DEF RowsInv, OwnerWasRead, Offline
<1>8. \A d \in Clients : (call[d].pc = "release" \/ call'[d].pc = "release") => call'[d] = call[d]
  BY <1>1
<1>9. ReleaseIsDue' /\ ReleasedOnce'
  BY <1>1, <1>8 DEF RowsInv, ReleaseIsDue, ReleasedOnce, Ended, Offline
<1>10. HeldOrGivenUp'
  <2>1. \A k \in Jobs : <<runner_id[k], k>> = p => k = j
    BY DEF j
  <2> QED BY <1>1, <2>1 DEF RowsInv, HeldOrGivenUp, GivenUp
<1> QED BY <1>5, <1>6, <1>7, <1>9, <1>10 DEF RowsInv

\* service.go, reapLoop: a job that moved on is left alone.
LEMMA ReapSkipRows ==
  ASSUME TypeInv, Roles, RowsInv, NEW p \in reap.orphans, p[2] \in Jobs, reap.pc = "next",
         ~MayMove(p[2], "QUEUED"), UNCHANGED <<storeVars, req>>, reap'.orphans = reap.orphans \ {p}
  PROVE  RowsInv'
<1>1. UNCHANGED <<status, runner_id, runnerStatus, currentJob, call>>
  BY DEF storeVars
<1>2. status[p[2]] \notin {"ASSIGNED", "RUNNING"}
  BY StoreFacts DEF MayMove, Exists, CanTransitionTo, jobTransitions, JobStatus
<1>3. HolderIsNamed' /\ OrphansAreNamed' /\ OwnerWasRead' /\ ReleaseIsDue' /\ ReleasedOnce'
  BY <1>1 DEF RowsInv, HolderIsNamed, OrphansAreNamed, OwnerWasRead, ReleaseIsDue, ReleasedOnce,
              Offline, Ended
<1>4. HeldOrGivenUp'
  BY <1>1, <1>2 DEF RowsInv, HeldOrGivenUp, GivenUp
<1> QED BY <1>3, <1>4 DEF RowsInv

\* store.go, RequeueJob, second half, by the reaper.
LEMMA RequeueRows ==
  ASSUME TypeInv, Roles, RowsInv, TransitionUpdate("reaper"), UNCHANGED <<reap, req>>
  PROVE  RowsInv'
<1> DEFINE j == call["reaper"].job
           o == call["reaper"].owner
<1>0. "reaper" \in Clients
  BY ClientFacts
<1>1. /\ call["reaper"].pc = "update" /\ j \in Jobs /\ status[j] = call["reaper"].seen
      /\ status'[j] = call["reaper"].to /\ call["reaper"].to = "QUEUED"
      /\ call["reaper"].seen \in {"ASSIGNED", "RUNNING"}
      /\ \A k \in Jobs : k # j => status'[k] = status[k] /\ runner_id'[k] = runner_id[k]
      /\ runner_id'[j] = NULL
      /\ \A d \in Clients : d # "reaper" => call'[d] = call[d]
      /\ UNCHANGED <<runnerStatus, currentJob>>
  BY <1>0, UpdateEffect, StoreFacts DEF Roles, ReaperOnlyRequeues
<1>2. runner_id[j] = o /\ Offline(o) /\ o \in Runners /\ o # NULL
      /\ \A p \in reap.orphans : p[2] # j
  BY <1>1, NullAssumption DEF RowsInv, OrphansAreNamed
<1>3. call'["reaper"].pc = "release" /\ call'["reaper"].job = j /\ call'["reaper"].owner = o
  BY <1>0, <1>1, <1>2, UpdateEffect
<1>4. currentJob[o] = NULL /\ req[o].pc \notin Serving
  BY <1>2, StoreFacts DEF Offline, BusyIffHolding, Roles, SilentIsDead
<1> HIDE DEF j, o
<1>5. HolderIsNamed'
  <2>1. \A r \in Runners : req[r].pc \in {"begin", "store"} => req[r].job \in Jobs
    BY DEF TypeInv, ReqHolds
  <2>2. \A r \in Runners : currentJob'[r] # NULL => runner_id'[currentJob'[r]] = r
    BY <1>1, <1>2, <1>4, StoreFacts DEF RowsInv, HolderIsNamed
  <2>3. \A r \in Runners : req'[r].pc \in {"begin", "store"} => runner_id'[req'[r].job] = r
    BY <1>1, <1>2, <1>4, <2>1 DEF RowsInv, HolderIsNamed, Serving
  <2> QED BY <2>2, <2>3 DEF HolderIsNamed
<1>6. OrphansAreNamed'
  <2>1. \A p \in reap.orphans : p[2] \in Jobs
    BY DEF TypeInv, TypeOK, SchedTypeOK
  <2> QED BY <1>1, <1>2, <1>3, <2>1 DEF RowsInv, OrphansAreNamed, Offline
<1>7. OwnerWasRead'
  <2>1. \A d \in Clients : call[d].pc = "update" => call[d].job \in Jobs
    BY StoreFacts
  <2> QED BY <1>0, <1>1, <1>2, <1>3, <2>1 DEF RowsInv, OwnerWasRead, Offline
<1>8. ReleaseIsDue' /\ ReleasedOnce'
  <2>1. ReleaseIsDue'
    BY <1>1, <1>2, <1>3 DEF RowsInv, ReleaseIsDue, Ended, Offline
  <2>2. ReleasedOnce'
    <3>1. ASSUME NEW c \in Clients, NEW d \in Clients, c # d, call'[c].pc = "release",
                 call'[d].pc = "release", call'[c].owner = call'[d].owner
          PROVE  runnerStatus[call'[c].owner] = "OFFLINE"
      BY <1>1, <1>2, <1>3, <3>1 DEF RowsInv, ReleasedOnce, Offline
    <3> QED BY <1>1, <3>1 DEF ReleasedOnce, Offline
  <2> QED BY <2>1, <2>2
<1>9. HeldOrGivenUp'
  BY <1>1, <1>2, <1>3 DEF RowsInv, HeldOrGivenUp, GivenUp, j
<1> QED BY <1>5, <1>6, <1>7, <1>8, <1>9 DEF RowsInv

\* The scheduler's loop and its restart.
LEMMA SchedRows ==
  ASSUME RowsAreSafe, TypeInv, Roles, RowsInv, Scheduler
  PROVE  RowsInv'
<1>0. {"sched", "reaper"} \subseteq Clients /\ call["reaper"].pc # "assign"
  BY ClientFacts DEF Roles, ReaperOnlyRequeues
<1>1. UNCHANGED req
  BY SchedEffect DEF Roles
<1>2. ReqKept
  BY <1>1 DEF ReqKept
<1>3. CASE SchedCrash
  <2>1. /\ UNCHANGED <<status, runner_id, runnerStatus, currentJob>> /\ reap'.orphans = reap.orphans
        /\ call["reaper"].pc = "none" /\ call'["reaper"].pc = "none" /\ call'["sched"].pc = "none"
        /\ \A c \in Clients : c \notin {"sched", "reaper"} => call'[c] = call[c]
        /\ call["sched"].pc \in {"none", "assign"}
    BY <1>3, CrashEffect DEF Roles, SchedOnlyAssigns
  <2> QED BY <1>2, <2>1, AsideRows DEF Aside
<1>4. CASE sched.job \in Jobs /\ sched.runner \in Runners /\ UNCHANGED reap
           /\ AssignJob("sched", sched.job, sched.runner)
  <2>1. OnlyCall("sched") /\ call'["sched"].pc = "assign" /\ call["sched"].pc = "none"
    BY <1>0, <1>4, AssignEffect
  <2> QED BY <1>0, <1>2, <1>4, <2>1, AsideRows DEF Aside, OnlyCall
<1>5. CASE AssignCommit("sched") /\ UNCHANGED reap
  BY <1>1, <1>5, CommitRows
<1>6. CASE AssignRollback("sched") /\ UNCHANGED reap
  <2>1. OnlyCall("sched") /\ call'["sched"].pc = "none" /\ call["sched"].pc = "assign"
    BY <1>0, <1>6, EndEffect DEF AssignRollback
  <2> QED BY <1>0, <1>2, <1>6, <2>1, AsideRows DEF Aside, OnlyCall
<1>7. CASE UNCHANGED storeVars /\ reap'.orphans = reap.orphans
  BY <1>0, <1>2, <1>7, AsideRows DEF Aside, storeVars
<1> QED BY <1>3, <1>4, <1>5, <1>6, <1>7, SchedEffect DEF Roles

\* The reaper.
LEMMA ReaperRows ==
  ASSUME RowsAreSafe, TypeInv, Roles, RowsInv, Reaper
  PROVE  RowsInv'
<1>0. "reaper" \in Clients /\ call["reaper"].pc # "assign"
  BY ClientFacts DEF Roles, ReaperOnlyRequeues
<1>1. UNCHANGED req
  BY ReapEffect
<1>2. ReqKept
  BY <1>1 DEF ReqKept
<1>3. CASE reap.pc = "tick" /\ ReapOfflineRunners /\ reap'.orphans = Orphans
  BY <1>1, <1>3, TickRows
<1>4. ASSUME NEW p \in reap.orphans, p[2] \in Jobs, p[1] \in Runners, p = <<p[1], p[2]>>,
             Transition("reaper", p[2], "QUEUED"), reap'.orphans = reap.orphans \ {p}
      PROVE  RowsInv'
  BY <1>1, <1>4, ReapNextRows
<1>5. ASSUME NEW p \in reap.orphans, p[2] \in Jobs, reap.pc = "next",
             ~MayMove(p[2], "QUEUED"), UNCHANGED storeVars, reap'.orphans = reap.orphans \ {p}
      PROVE  RowsInv'
  BY <1>1, <1>5, ReapSkipRows
<1>6. CASE TransitionUpdate("reaper") /\ UNCHANGED reap
  BY <1>1, <1>6, RequeueRows
<1>7. CASE ReleaseRunner("reaper") /\ reap'.orphans = reap.orphans
  BY <1>0, <1>2, <1>7, ReleaseRows
<1>8. CASE TransitionConflict("reaper") /\ reap'.orphans = reap.orphans
  BY <1>0, <1>2, <1>8, ConflictRows
<1>9. CASE UNCHANGED storeVars /\ reap'.orphans = reap.orphans
  BY <1>0, <1>2, <1>9, AsideRows DEF Aside, storeVars
<1> QED BY <1>3, <1>4, <1>5, <1>6, <1>7, <1>8, <1>9, ReapEffect

\* A cancel.
LEMMA CancelRows ==
  ASSUME RowsAreSafe, TypeInv, Roles, RowsInv, Cancels
  PROVE  RowsInv'
<1>0. "cancel" \in Clients /\ "cancel" \notin Runners /\ "cancel" # "reaper"
  BY ClientFacts
<1>1. UNCHANGED <<req, reap>>
  BY CancelEffect DEF RowsAreSafe
<1>2. ReqKept
  BY <1>1 DEF ReqKept
<1>3. ASSUME NEW j \in Jobs, Transition("cancel", j, "CANCELLED") PROVE RowsInv'
  BY <1>0, <1>1, <1>2, <1>3, BeginRows DEF JobStatus
<1>4. CASE TransitionUpdate("cancel")
  BY <1>0, <1>1, <1>2, <1>4, UpdateRows
<1>5. CASE TransitionConflict("cancel") \/ CallsFail({"cancel"})
  BY <1>0, <1>1, <1>2, <1>5, ConflictRows
<1>6. CASE ReleaseRunner("cancel")
  BY <1>0, <1>1, <1>2, <1>6, ReleaseRows
<1> QED BY <1>3, <1>4, <1>5, <1>6, CancelEffect DEF RowsAreSafe

\* A request of a runner.
LEMMA RequestRows ==
  ASSUME RowsAreSafe, TypeInv, Roles, RowsInv, NEW r \in Runners, Requests(r)
  PROVE  RowsInv'
<1>0. r \in Clients /\ r # "reaper" /\ call["reaper"].pc # "assign" /\ "db" \notin FaultKinds
  BY ClientFacts DEF Roles, ReaperOnlyRequeues, RowsAreSafe
<1>1. /\ UNCHANGED reap /\ \A q \in Runners : q # r => req'[q] = req[q]
      /\ req'[r].job = req[r].job /\ req[r].job \in Jobs /\ req[r].to \in {"RUNNING", "SUCCESS", "FAILED"}
  BY <1>0, RequestEffect
<1>2. ASSUME req[r].pc \in {"begin", "store"} \/ runner_id[req[r].job] = r \/ req'[r].pc \notin {"begin", "store"}
      PROVE  ReqKept
  BY <1>1, <1>2 DEF ReqKept
<1>3. CASE UNCHANGED storeVars /\ (req'[r].pc = "begin" => runner_id[req[r].job] = r) /\ req'[r].pc # "store"
  BY <1>0, <1>1, <1>2, <1>3, AsideRows DEF Aside, storeVars
<1>4. CASE req[r].pc = "begin" /\ Transition(r, req[r].job, req[r].to)
  <2>1. runner_id[req[r].job] = r
    BY <1>4 DEF RowsInv, HolderIsNamed
  <2> QED BY <1>0, <1>1, <1>2, <1>4, <2>1, BeginRows DEF JobStatus
<1>5. CASE req[r].pc = "store" /\ TransitionUpdate(r)
  BY <1>0, <1>1, <1>2, <1>5, UpdateRows
<1>6. CASE req'[r].pc = "refused" /\ (TransitionConflict(r) \/ CallsFail({r}))
  BY <1>0, <1>1, <1>2, <1>6, ConflictRows
<1>7. CASE req[r].pc = "store" /\ ReleaseRunner(r)
  BY <1>0, <1>1, <1>2, <1>7, ReleaseRows
<1> QED BY <1>0, <1>3, <1>4, <1>5, <1>6, <1>7, RequestEffect

\* An agent changes no row but its own runner's, and posts a new request.
LEMMA AgentRows ==
  ASSUME RowsAreSafe, TypeInv, Roles, RowsInv, NEW r \in Runners, Agent(r)
  PROVE  RowsInv'
<1>1. /\ UNCHANGED <<status, runner_id, currentJob, call, reap>>
      /\ \A q \in Runners : q # r => req'[q] = req[q] /\ runnerStatus'[q] = runnerStatus[q]
  BY AgentOthers DEF AgentRest
<1>2. call["reaper"].pc # "assign"
  BY DEF Roles, ReaperOnlyRequeues
<1>3. ASSUME req'[r] = req[r] \/ req'[r].pc \notin {"begin", "store"},
             /\ (runnerStatus'[r] = "OFFLINE") <=> (runnerStatus[r] = "OFFLINE")
             /\ (runnerStatus'[r] = "BUSY") <=> (runnerStatus[r] = "BUSY")
      PROVE  RowsInv'
  <2>1. ReqKept
    BY <1>1, <1>3 DEF ReqKept
  <2> QED BY <1>1, <1>2, <1>3, <2>1, AsideRows DEF Aside
<1>4. CASE StartAnswered(r) \/ ResultAnswered(r) \/ BuildStep(r) \/ StartAnswerLost(r)
  BY <1>3, <1>4, BuildEffect DEF Begins, GoesOn, Reports, Returns, RowStays
<1>5. CASE Poll(r) \/ PollAnswerLost(r) \/ MailboxDropped(r)
  BY <1>3, <1>5, MailEffect DEF RowStays
<1>6. CASE Register(r) \/ HeartbeatAnswered(r) \/ AgentDies(r) \/ FallsSilent(r)
  BY <1>3, <1>6, BeatEffect DEF RowStays
<1>7. CASE HeartbeatSent(r)
  <2>1. ~Offline(r)
    BY <1>7, BeatEffect DEF Roles, SilentIsDead, Offline, Alive, Dead
  <2> QED BY <1>3, <1>7, <2>1, BeatEffect DEF Offline
<1>8. ~LeaseUnreadable(r)
  BY BeatEffect DEF RowsAreSafe
<1> QED BY <1>4, <1>5, <1>6, <1>7, <1>8 DEF Agent, AgentStep, HeartbeatStep, AgentFault

\* Every step keeps the rows in agreement.
LEMMA StepRows ==
  ASSUME RowsAreSafe, TypeInv, Roles, RowsInv, [Next]_vars
  PROVE  RowsInv'
<1>1. call["reaper"].pc # "assign" /\ "reaper" \in Clients
  BY ClientFacts DEF Roles, ReaperOnlyRequeues
<1>2. CASE \E j \in Jobs : Webhooks(j)
  <2>1. PICK j \in Jobs : Webhooks(j)
    BY <1>2
  <2>2. /\ UNCHANGED <<reap, req, runner_id, runnerStatus, currentJob>>
        /\ \A k \in Jobs : status'[k] = status[k] \/ (status[k] = "NONE" /\ status'[k] = "QUEUED")
        /\ \A c \in Clients : call'[c] = call[c] \/ (call[c].pc = "none" /\ call'[c].pc = "none")
    BY <2>1, WebhookEffect DEF Roles
  <2> QED BY <1>1, <2>2, AsideRows DEF Aside, ReqKept
<1>3. CASE UNCHANGED vars
  <2>1. UNCHANGED <<reap, req, status, runner_id, runnerStatus, currentJob, call>>
    BY <1>3 DEF vars, storeVars, schedVars, apiVars
  <2> QED BY <1>1, <2>1, AsideRows DEF Aside, ReqKept
<1> QED BY <1>2, <1>3, SchedRows, ReaperRows, CancelRows, RequestRows, AgentRows DEF Next

\* The initial state.
LEMMA InitRows == Init => Roles /\ RowsInv
<1> SUFFICES ASSUME Init PROVE Roles /\ RowsInv
    OBVIOUS
<1>1. /\ \A c \in Clients : call[c].pc = "none"
      /\ \A r \in Runners : /\ runnerStatus[r] = "NONE" /\ currentJob[r] = NULL
                            /\ req[r].pc = "none" /\ agent[r].pc = "new"
      /\ \A j \in Jobs : status[j] = "NONE" /\ hook[j] = "none"
      /\ sched.pc \notin {"undo", "undoing"} /\ reap.orphans = {}
  BY DEF Init, StoreInit, SchedInit, ApiInit, AgentInit, NoCall, NoReq
<1>2. Roles
  BY <1>1, ClientFacts DEF Roles, SilentIsDead, HooksOnlyPush, SchedOnlyAssigns, CancelOnlyCancels,
     ReaperOnlyRequeues, RequestsOnlyReport, Offline
<1>3. RowsInv
  BY <1>1, ClientFacts DEF RowsInv, HolderIsNamed, OrphansAreNamed, OwnerWasRead, ReleaseIsDue,
     ReleasedOnce, HeldOrGivenUp
<1> QED BY <1>2, <1>3

\* The two rows agree about who owns a job, with any number of jobs, runners and
\* clients, in any interleaving of their statements, and with any number of
\* deaths, restarts and lost requests.
THEOREM RowsCorrect ==
  ASSUME RowsAreSafe
  PROVE  Spec => []RowsAgree
<1>1. TypeInv /\ Roles /\ RowsInv => RowsAgree
  <2> SUFFICES ASSUME TypeInv, Roles, RowsInv, NEW j \in Jobs, status[j] \in {"ASSIGNED", "RUNNING"},
                      GivenUp(j)
               PROVE  ToBeReaped(runner_id[j], j)
    BY DEF RowsAgree, RowsInv, HeldOrGivenUp
  <2>1. runner_id[j] \in Runners
    BY StoreFacts DEF OwnerMatchesStatus
  <2>2. Offline(runner_id[j])
    BY DEF GivenUp, RowsInv, OrphansAreNamed
  <2>3. Dead(runner_id[j])
    BY <2>1, <2>2 DEF Roles, SilentIsDead, Offline
  <2> QED BY <2>3 DEF ToBeReaped, GivenUp
<1>2. TypeInv /\ Roles /\ RowsInv /\ [Next]_vars => Roles' /\ RowsInv'
  BY StepRoles, StepRows
<1> QED BY InitTypes, StepTypes, InitRows, <1>1, <1>2, PTL DEF Spec

-----------------------------------------------------------------------------
(* What a live runner was sent, and works on, is its own *)

Live(r) == agent[r].pc # "dead"
Working == {"start", "checkout", "exec", "report"}

\* No step takes a job from a live runner, and only a cancel or the runner's own
\* request moves it on.
Kept(r, j) ==
  /\ runner_id'[j] = r
  /\ \/ status'[j] \in {status[j], "CANCELLED"}
     \/ Requests(r) /\ TransitionUpdate(r) /\ call[r].job = j

\* store.go, transition and AssignJob: a live runner keeps the lease on its job.
LEMMA LeaseKept ==
  ASSUME RowsAreSafe, TypeInv, Roles, RowsInv, [Next]_vars,
         NEW r \in Runners, Live(r), NEW j \in Jobs, runner_id[j] = r
  PROVE  Kept(r, j)
<1>0. {"sched", "reaper", "cancel"} \subseteq Clients /\ "db" \notin FaultKinds
      /\ \A q \in Runners : q \in Clients
  BY ClientFacts DEF RowsAreSafe
<1>1. ASSUME UNCHANGED <<status, runner_id>> PROVE Kept(r, j)
  BY <1>1 DEF Kept
<1>2. r # NULL /\ status[j] \notin {"NONE", "QUEUED"} /\ ~Offline(r)
  BY NullAssumption, StoreFacts DEF OwnerMatchesStatus, Live, Dead, Roles, SilentIsDead, Offline
<1>3. CASE Scheduler
  <2>1. CASE SchedCrash
    BY <1>1, <2>1, CrashEffect
  <2>2. CASE AssignCommit("sched")
    BY <1>0, <1>2, <2>2, AssignEffect DEF Kept
  <2>3. CASE AssignRollback("sched")
    BY <1>0, <1>1, <2>3, EndEffect DEF OnlyCall
  <2>4. CASE \E k \in Jobs, q \in Runners : AssignJob("sched", k, q)
    BY <1>0, <1>1, <2>4, AssignEffect DEF OnlyCall
  <2>5. CASE UNCHANGED storeVars
    BY <1>1, <2>5 DEF storeVars
  <2> QED BY <1>3, <2>1, <2>2, <2>3, <2>4, <2>5, SchedEffect DEF Roles
<1>4. CASE Reaper
  <2>1. CASE ReapOfflineRunners
    BY <1>1, <2>1, TickEffect
  <2>2. ASSUME NEW k \in Jobs, Transition("reaper", k, "QUEUED") PROVE Kept(r, j)
    BY <1>0, <1>1, <2>2, BeginEffect DEF OnlyCall, JobStatus
  <2>3. CASE TransitionUpdate("reaper")
    <3>1. call["reaper"].pc = "update" /\ call["reaper"].job # j
      BY <1>0, <1>2, <2>3, UpdateEffect DEF RowsInv, OrphansAreNamed
    <3> QED BY <1>0, <2>3, <3>1, UpdateEffect DEF Kept
  <2>4. CASE ReleaseRunner("reaper")
    BY <1>0, <1>1, <2>4, ReleaseEffect
  <2>5. CASE TransitionConflict("reaper")
    BY <1>0, <1>1, <2>5, EndEffect DEF OnlyCall
  <2>6. CASE UNCHANGED storeVars
    BY <1>1, <2>6 DEF storeVars
  <2> QED BY <1>4, <2>1, <2>2, <2>3, <2>4, <2>5, <2>6, ReapEffect
<1>5. CASE Cancels
  <2>1. ASSUME NEW k \in Jobs, Transition("cancel", k, "CANCELLED") PROVE Kept(r, j)
    BY <1>0, <1>1, <2>1, BeginEffect DEF OnlyCall, JobStatus
  <2>2. CASE TransitionUpdate("cancel")
    <3>1. call["cancel"].to = "CANCELLED"
      BY <1>0, <2>2, UpdateEffect DEF Roles, CancelOnlyCancels
    <3> QED BY <1>0, <2>2, <3>1, UpdateEffect DEF Kept
  <2>3. CASE TransitionConflict("cancel") \/ CallsFail({"cancel"})
    BY <1>0, <1>1, <2>3, EndEffect DEF OnlyCall
  <2>4. CASE ReleaseRunner("cancel")
    BY <1>0, <1>1, <2>4, ReleaseEffect
  <2> QED BY <1>0, <1>5, <2>1, <2>2, <2>3, <2>4, CancelEffect
<1>6. ASSUME NEW k \in Jobs, Webhooks(k) PROVE Kept(r, j)
  BY <1>2, <1>6, WebhookEffect DEF Kept, Roles
<1>7. ASSUME NEW q \in Runners, Requests(q) PROVE Kept(r, j)
  <2>1. CASE UNCHANGED storeVars
    BY <1>1, <2>1 DEF storeVars
  <2>2. CASE Transition(q, req[q].job, req[q].to)
    <3>1. req[q].job \in Jobs /\ req[q].to \in JobStatus
      BY <1>0, <1>7, RequestEffect DEF JobStatus
    <3> QED BY <1>0, <1>1, <2>2, <3>1, BeginEffect DEF OnlyCall
  <2>3. CASE TransitionUpdate(q)
    <3>1. /\ call[q].pc = "update" /\ call[q].to # "QUEUED"
          /\ call[q].job = req[q].job /\ req[q].pc = "store"
      BY <1>0, <1>7, <2>3, UpdateEffect, RequestEffect DEF Roles, RequestsOnlyReport
    <3>2. call[q].job = j => q = r
      BY <3>1 DEF RowsInv, HolderIsNamed
    <3>3. runner_id'[j] = r /\ (call[q].job # j => status'[j] = status[j])
      BY <1>0, <2>3, <3>1, UpdateEffect
    <3> QED BY <1>7, <2>3, <3>2, <3>3 DEF Kept
  <2>4. CASE ReleaseRunner(q)
    BY <1>0, <1>1, <2>4, ReleaseEffect
  <2>5. CASE TransitionConflict(q) \/ CallsFail({q})
    BY <1>0, <1>1, <2>5, EndEffect DEF OnlyCall
  <2> QED BY <1>0, <1>7, <2>1, <2>2, <2>3, <2>4, <2>5, RequestEffect
<1>8. ASSUME NEW q \in Runners, Agent(q) PROVE Kept(r, j)
  BY <1>1, <1>8, AgentOthers DEF AgentRest
<1>9. CASE UNCHANGED vars
  BY <1>1, <1>9 DEF vars, storeVars
<1> QED BY <1>3, <1>4, <1>5, <1>6, <1>7, <1>8, <1>9 DEF Next

\* The mailbox and the build of a live runner hold jobs that name it, and so does
\* the job the scheduler is about to send it.
MailIsNamed == \A r \in Runners : Live(r) => \A j \in ToSet(mailbox[r]) : runner_id[j] = r
WorkIsNamed == \A r \in Runners : Live(r) /\ agent[r].pc \in Working => runner_id[agent[r].job] = r
SentIsNamed == sched.pc = "dispatch" /\ Live(sched.runner) => runner_id[sched.job] = sched.runner
NamesInv == MailIsNamed /\ WorkIsNamed /\ SentIsNamed

\* What an agent does with its mailbox and its job.
AgentMoves(r) ==
  /\ Live(r)' => Live(r)
  /\ Live(r) => ToSet(mailbox'[r]) \subseteq ToSet(mailbox[r])
  /\ agent'[r].pc \in Working =>
       \/ agent[r].pc \in Working /\ agent'[r].job = agent[r].job
       \/ agent'[r].job \in ToSet(mailbox[r])

\* agent.go, poll and execute: an agent works only on what it found in its mailbox.
LEMMA AgentMoving ==
  ASSUME TypeInv, NEW r \in Runners, Agent(r)
  PROVE  AgentMoves(r)
<1>1. mailbox[r] \in Seq(Jobs)
  BY AgentFacts
<1>2. mailbox[r] # <<>> => ToSet(mailbox[r]) = ToSet(Front(mailbox[r])) \cup {Last(mailbox[r])}
  BY <1>1, FrontFacts
<1>3. CASE StartAnswered(r) \/ ResultAnswered(r) \/ BuildStep(r) \/ StartAnswerLost(r)
  BY <1>3, BuildEffect DEF Begins, GoesOn, Reports, Returns, AgentMoves, Live, Working
<1>4. CASE Poll(r) \/ PollAnswerLost(r)
  BY <1>2, <1>4, MailEffect DEF AgentMoves, Live, Working
<1>5. CASE MailboxDropped(r)
  BY <1>5, MailEffect DEF AgentMoves, Live, Working, Dead
<1>6. CASE Register(r) \/ HeartbeatSent(r) \/ HeartbeatAnswered(r) \/ AgentDies(r)
             \/ FallsSilent(r)
  BY <1>6, BeatEffect DEF AgentMoves, Live, Working, Alive
<1>7. CASE LeaseUnreadable(r)
  <2>1. UNCHANGED mailbox /\ agent' = [agent EXCEPT ![r].abandoned = TRUE]
    BY <1>7 DEF LeaseUnreadable, queueVars
  <2>2. agent'[r].pc = agent[r].pc /\ agent'[r].job = agent[r].job
    BY <2>1, AgentFacts DEF AgentRecord
  <2> QED BY <2>1, <2>2 DEF AgentMoves, Live
<1> QED BY <1>3, <1>4, <1>5, <1>6, <1>7 DEF Agent, AgentStep, HeartbeatStep, AgentFault

\* Steps of the other processes, as far as agents and mailboxes see them.
Outside == UNCHANGED <<agent, hb, mailbox, sched>>

\* The reaper, the cancel and webhook handlers and the requests touch neither agents nor
\* mailboxes.
LEMMA OutsideSteps ==
  ASSUME RowsAreSafe, TypeInv, Roles, [Next]_vars
  PROVE  \/ Outside \/ Scheduler \/ \E r \in Runners : Agent(r)
<1>1. "db" \notin FaultKinds
  BY DEF RowsAreSafe
<1>2. CASE UNCHANGED vars
  BY <1>2 DEF vars, queueVars, schedVars, agentVars, Outside
<1> QED BY <1>1, <1>2, ReapEffect, CancelEffect, WebhookEffect, RequestEffect DEF Next, Outside, Roles

\* Every step keeps the names.
LEMMA StepNames ==
  ASSUME RowsAreSafe, TypeInv, Roles, RowsInv, NamesInv, [Next]_vars
  PROVE  NamesInv'
<1>1. \A r \in Runners, j \in Jobs : Live(r) /\ runner_id[j] = r => runner_id'[j] = r
  BY LeaseKept DEF Kept
<1>2. \A r \in Runners : /\ ToSet(mailbox[r]) \subseteq Jobs
                         /\ agent[r].pc \in Working => agent[r].job \in Jobs
  <2>1. \A r \in Runners : mailbox[r] \in Seq(Jobs)
    BY AgentFacts
  <2>2. \A r \in Runners : ToSet(mailbox[r]) \subseteq Jobs
    BY <2>1, ElementOfSeq, LenProperties DEF ToSet
  <2> QED BY <2>2 DEF TypeInv, AgentHolds, Working
<1>3. sched.pc = "dispatch" => sched.job \in Jobs /\ sched.runner \in Runners
  BY DEF TypeInv, SchedHolds
<1>4. CASE Outside
  <2>1. MailIsNamed' /\ WorkIsNamed'
    BY <1>1, <1>2, <1>4 DEF NamesInv, MailIsNamed, WorkIsNamed, Outside, Live
  <2>2. SentIsNamed'
    BY <1>1, <1>3, <1>4 DEF NamesInv, SentIsNamed, Outside, Live
  <2> QED BY <2>1, <2>2 DEF NamesInv
<1>5. CASE Scheduler
  <2>1. UNCHANGED agent
    BY <1>5, SchedEffect DEF Roles
  <2>2. WorkIsNamed'
    BY <1>1, <1>2, <2>1 DEF NamesInv, WorkIsNamed, Live
  <2>3. ASSUME UNCHANGED mailbox PROVE MailIsNamed'
    BY <1>1, <1>2, <2>1, <2>3 DEF NamesInv, MailIsNamed, Live
  <2>4. CASE SchedCrash /\ UNCHANGED mailbox
    BY <2>2, <2>3, <2>4, CrashEffect DEF NamesInv, SentIsNamed
  <2>5. CASE sched'.pc = "dispatch" /\ UNCHANGED mailbox /\ AssignCommit("sched")
             /\ sched'.job = sched.job /\ sched'.runner = sched.runner
    <3>1. /\ runner_id'[call["sched"].job] = call["sched"].owner
          /\ call["sched"].job = sched.job /\ call["sched"].owner = sched.runner
      BY <2>5, AssignEffect, ClientFacts DEF Roles, SchedOnlyAssigns
    <3> QED BY <2>2, <2>3, <2>5, <3>1 DEF NamesInv, SentIsNamed
  <2>6. CASE /\ sched.pc = "dispatch" /\ sched'.pc = "ack" /\ sched.job \in Jobs
             /\ sched.runner \in Runners /\ Dispatch(sched.runner, sched.job)
    <3>1. /\ \A q \in Runners : q # sched.runner => mailbox'[q] = mailbox[q]
          /\ mailbox'[sched.runner] = Cons(sched.job, mailbox[sched.runner])
      BY <2>6, AgentFacts DEF Dispatch
    <3>2. ToSet(mailbox'[sched.runner]) = {sched.job} \cup ToSet(mailbox[sched.runner])
      BY <2>6, <3>1, ConsFacts, AgentFacts
    <3>3. MailIsNamed'
      BY <1>1, <1>2, <2>1, <2>6, <3>1, <3>2 DEF NamesInv, MailIsNamed, SentIsNamed, Live
    <3> QED BY <2>2, <2>6, <3>3 DEF NamesInv, SentIsNamed
  <2>7. CASE UNCHANGED mailbox /\ sched'.pc # "dispatch"
    BY <2>2, <2>3, <2>7 DEF NamesInv, SentIsNamed
  <2> QED BY <1>5, <2>4, <2>5, <2>6, <2>7, SchedEffect DEF Roles
<1>6. ASSUME NEW r \in Runners, Agent(r) PROVE NamesInv'
  <2>1. /\ UNCHANGED <<runner_id, sched>>
        /\ \A q \in Runners : q # r => agent'[q] = agent[q] /\ mailbox'[q] = mailbox[q]
    BY <1>6, AgentOthers DEF AgentRest
  <2>2. AgentMoves(r)
    BY <1>6, AgentMoving
  <2>3. MailIsNamed'
    BY <2>1, <2>2 DEF NamesInv, MailIsNamed, AgentMoves, Live
  <2>4. WorkIsNamed'
    BY <2>1, <2>2 DEF NamesInv, WorkIsNamed, MailIsNamed, AgentMoves, Live
  <2>5. SentIsNamed'
    BY <1>3, <2>1, <2>2 DEF NamesInv, SentIsNamed, AgentMoves, Live
  <2> QED BY <2>3, <2>4, <2>5 DEF NamesInv
<1> QED BY <1>4, <1>5, <1>6, OutsideSteps

\* The initial state.
LEMMA InitNames == Init => NamesInv
<1> SUFFICES ASSUME Init PROVE NamesInv
    OBVIOUS
<1>1. \A r \in Runners : mailbox[r] = <<>> /\ agent[r].pc = "new"
  BY DEF Init, QueueInit, AgentInit
<1>2. sched.pc # "dispatch"
  BY DEF Init, SchedInit
<1>3. ToSet(<<>>) = {}
  BY DEF ToSet
<1> QED BY <1>1, <1>2, <1>3 DEF NamesInv, MailIsNamed, WorkIsNamed, SentIsNamed, Working

\* Two runners never build one job: a job is taken from a runner only when that
\* runner is dead.
THEOREM ExecutionCorrect ==
  ASSUME RowsAreSafe
  PROVE  Spec => []NoDoubleExecution
<1>1. NamesInv => NoDoubleExecution
  BY DEF NamesInv, WorkIsNamed, NoDoubleExecution, Executing, Live, Working
<1>2. TypeInv /\ Roles /\ RowsInv /\ NamesInv /\ [Next]_vars => Roles' /\ RowsInv' /\ NamesInv'
  BY StepRoles, StepRows, StepNames
<1> QED BY InitTypes, StepTypes, InitRows, InitNames, <1>1, <1>2, PTL DEF Spec

\* service.go, reapLoop: no step takes a job from a runner that lives, nor moves it on but
\* to its end by a cancel or by the runner's own request.
LiveLeaseStays ==
  [][\A r \in Runners, j \in Jobs : Live(r) /\ runner_id[j] = r => Kept(r, j)]_vars

\* The reaper decides by silence and the scheduler by the row it read, and still
\* neither robs a live runner.
THEOREM LeaseCorrect ==
  ASSUME RowsAreSafe
  PROVE  Spec => LiveLeaseStays
<1> DEFINE Stays == \A r \in Runners, j \in Jobs : Live(r) /\ runner_id[j] = r => Kept(r, j)
<1>1. TypeInv /\ Roles /\ RowsInv /\ [Next]_vars => [Stays]_vars
  BY LeaseKept
<1>2. TypeInv /\ Roles /\ RowsInv /\ [Next]_vars => Roles' /\ RowsInv'
  BY StepRoles, StepRows
<1> HIDE DEF Stays
<1>3. Spec => [][Stays]_vars
  BY InitTypes, StepTypes, InitRows, <1>1, <1>2, PTL DEF Spec
<1> QED BY <1>3 DEF LiveLeaseStays, Stays

-----------------------------------------------------------------------------
(* A job under way is attended to *)

\* redis.go: a list without repetitions stays one, pushed or popped.
LEMMA InjectiveFacts ==
  ASSUME NEW S, NEW s \in Seq(S), IsInjective(s)
  PROVE  /\ \A e \in S : e \notin ToSet(s) => IsInjective(Cons(e, s))
         /\ s # <<>> => IsInjective(Front(s)) /\ Last(s) \notin ToSet(Front(s))
<1>1. Len(s) \in Nat /\ DOMAIN s = 1..Len(s) /\ \A i \in 1..Len(s) : s[i] \in S
  BY LenProperties, ElementOfSeq
<1>2. ASSUME NEW e \in S, e \notin ToSet(s) PROVE IsInjective(Cons(e, s))
  <2> DEFINE t == Cons(e, s)
  <2>1. <<e>> \in Seq(S) /\ Len(<<e>>) = 1 /\ <<e>>[1] = e
    OBVIOUS
  <2>2. /\ t \in Seq(S) /\ Len(t) = 1 + Len(s)
        /\ \A i \in 1..(1 + Len(s)) : t[i] = IF i <= 1 THEN <<e>>[i] ELSE s[i - 1]
    BY <2>1, ConcatProperties DEF Cons
  <2>3. DOMAIN t = 1..(1 + Len(s))
    BY <2>2, LenProperties
  <2> HIDE DEF t
  <2>4. t[1] = e /\ \A i \in 1..(1 + Len(s)) : i # 1 => i - 1 \in 1..Len(s) /\ t[i] = s[i - 1]
    BY <1>1, <2>1, <2>2
  <2>5. \A i \in 1..(1 + Len(s)) : i # 1 => t[i] # e
    BY <1>1, <1>2, <2>4 DEF ToSet
  <2>6. \A i, k \in 1..(1 + Len(s)) : t[i] = t[k] => i = k
    <3> SUFFICES ASSUME NEW i \in 1..(1 + Len(s)), NEW k \in 1..(1 + Len(s)), t[i] = t[k]
                 PROVE  i = k
      OBVIOUS
    <3>1. CASE i = 1 \/ k = 1
      BY <2>4, <2>5, <3>1
    <3>2. CASE i # 1 /\ k # 1
      <4>1. i - 1 = k - 1
        BY <1>1, <2>4, <3>2 DEF IsInjective
      <4> QED BY <1>1, <4>1
    <3> QED BY <3>1, <3>2
  <2> QED BY <2>3, <2>6 DEF IsInjective, t
<1>3. ASSUME s # <<>> PROVE IsInjective(Front(s)) /\ Last(s) \notin ToSet(Front(s))
  <2>1. Len(s) \in Nat \ {0}
    BY <1>1, <1>3, EmptySeq
  <2>2. /\ Front(s) \in Seq(S) /\ Len(Front(s)) = Len(s) - 1
        /\ \A i \in 1..(Len(s) - 1) : Front(s)[i] = s[i]
    BY <1>1, <2>1, SubSeqProperties DEF Front
  <2>3. DOMAIN Front(s) = 1..(Len(s) - 1) /\ 1..(Len(s) - 1) \subseteq 1..Len(s) /\ Len(s) \in 1..Len(s)
        /\ Len(s) \notin 1..(Len(s) - 1)
    BY <2>1, <2>2, LenProperties
  <2>4. IsInjective(Front(s))
    BY <1>1, <2>2, <2>3 DEF IsInjective
  <2>5. Last(s) \notin ToSet(Front(s))
    BY <1>1, <2>2, <2>3 DEF IsInjective, ToSet, Last
  <2> QED BY <2>4, <2>5
<1> QED BY <1>2, <1>3

\* The faults under which every job under way is attended to: as above, but no answer
\* or request of a live runner is lost or cut off, and the scheduler does not die between
\* AssignJob and Dispatch.
LeasesAreSafe == RowsAreSafe /\ "reply" \notin FaultKinds /\ "dispatch" \notin CrashPoints

Early == {"ASSIGNED", "CANCELLED"}
Midway == {"RUNNING", "CANCELLED"}

\* A live runner is sent a job once, before it starts it.
Sent(r) ==
  /\ IsInjective(mailbox[r])
  /\ \A j \in ToSet(mailbox[r]) : status[j] \in Early
  /\ agent[r].pc \in Working => agent[r].job \notin ToSet(mailbox[r])
Sending ==
  sched.pc = "dispatch" /\ Live(sched.runner) =>
    /\ status[sched.job] \in Early /\ sched.job \notin ToSet(mailbox[sched.runner])
    /\ agent[sched.runner].pc \in Working => agent[sched.runner].job # sched.job
SentOnce == Sending /\ \A r \in Runners : Live(r) => Sent(r)

\* How far a live runner, its request and its job have come.
Starts(r) ==
  agent[r].pc = "start" =>
    /\ req[r].pc \in {"owns", "begin", "store", "ok", "refused"} /\ req[r].job = agent[r].job
    /\ req[r].to = "RUNNING" /\ call[r].pc # "release"
    /\ req[r].pc \in Serving => status[agent[r].job] \in Early
    /\ req[r].pc = "ok" => status[agent[r].job] \in Midway
    /\ req[r].pc = "refused" => status[agent[r].job] = "CANCELLED"
Builds(r) ==
  /\ agent[r].pc \in {"checkout", "exec"} => status[agent[r].job] \in Midway
  /\ agent[r].pc \in {"start", "checkout", "exec"} /\ agent[r].abandoned
       => status[agent[r].job] = "CANCELLED"
Finishes(r) ==
  agent[r].pc = "report" =>
    /\ req[r].pc \in {"owns", "begin", "store", "ok", "refused"} /\ req[r].job = agent[r].job
    /\ req[r].to \in {"SUCCESS", "FAILED"}
    /\ req[r].pc \in {"owns", "begin"} \/ call[r].pc = "update" => status[agent[r].job] \in Midway
    /\ call[r].pc = "update" => call[r].seen = "RUNNING"
    /\ call[r].pc = "release" \/ req[r].pc \in {"ok", "refused"}
         => status[agent[r].job] \notin {"ASSIGNED", "RUNNING"}
Beats(r) == hb[r] # NULL => hb[r] = agent[r].job /\ HasActive(r)
Phases(r) == Starts(r) /\ Builds(r) /\ Finishes(r) /\ Beats(r)
EachPhase == \A r \in Runners : Live(r) => Phases(r)

\* A job that names a live runner is on its way to it, or in its hands.
Attended ==
  \A j \in Jobs, r \in Runners : runner_id[j] = r /\ Live(r) =>
    /\ status[j] = "ASSIGNED" => \/ sched.pc = "dispatch" /\ sched.job = j /\ sched.runner = r
                                 \/ j \in ToSet(mailbox[r])
                                 \/ agent[r].pc = "start" /\ agent[r].job = j
    /\ status[j] = "RUNNING" => agent[r].pc \in Working /\ agent[r].job = j
LeaseInv == SentOnce /\ EachPhase /\ Attended

\* What the invariants say of runner r, and what its store operation can be.
LEMMA RunnerFacts ==
  ASSUME TypeInv, Roles, RowsInv, NamesInv, NEW r \in Runners, Live(r)
  PROVE  /\ ToSet(mailbox[r]) \subseteq Jobs
         /\ agent[r].pc \in Working => agent[r].job \in Jobs /\ runner_id[agent[r].job] = r
         /\ \A j \in ToSet(mailbox[r]) : runner_id[j] = r
         /\ call[r].pc # "none" => /\ req[r].pc = "store" /\ call[r].job = req[r].job
                                   /\ call[r].to = req[r].to /\ call[r].pc \in {"update", "release"}
         /\ call[r].pc = "update" => call[r].owner = r
         /\ agent[r].pc \in {"new", "poll", "checkout", "exec"} => req[r].pc = "none"
         /\ r \in Clients /\ r # NULL
<1>1. mailbox[r] \in Seq(Jobs)
  BY AgentFacts
<1>2. ToSet(mailbox[r]) \subseteq Jobs
  BY <1>1, ElementOfSeq, LenProperties DEF ToSet
<1>3. r \in Clients /\ r # NULL
  BY ClientFacts, NullAssumption
<1>4. /\ agent[r].pc \in Working => agent[r].job \in Jobs /\ runner_id[agent[r].job] = r
      /\ \A j \in ToSet(mailbox[r]) : runner_id[j] = r
  BY DEF TypeInv, AgentHolds, NamesInv, MailIsNamed, WorkIsNamed, Working
<1>5. /\ call[r].pc # "none" => /\ req[r].pc = "store" /\ call[r].job = req[r].job
                                /\ call[r].to = req[r].to /\ call[r].pc \in {"update", "release"}
      /\ agent[r].pc \in {"new", "poll", "checkout", "exec"} => req[r].pc = "none"
  BY <1>3, StoreFacts DEF Roles, RequestsOnlyReport, CallRecord
<1>6. call[r].pc = "update" => call[r].owner = r
  BY <1>3 DEF RowsInv, OwnerWasRead
<1> QED BY <1>2, <1>3, <1>4, <1>5, <1>6

\* Steps of the others: at most, a job of runner r is cancelled.
Undisturbed(r) ==
  /\ agent'[r] = agent[r] /\ hb'[r] = hb[r] /\ req'[r] = req[r] /\ call'[r] = call[r]
  /\ \A j \in Jobs : runner_id[j] = r => status'[j] \in {status[j], "CANCELLED"}

\* A step of another process leaves the runner in the phase of its job.
LEMMA UndisturbedPhases ==
  ASSUME TypeInv, Roles, RowsInv, NamesInv, NEW r \in Runners, Live(r), Phases(r), Undisturbed(r)
  PROVE  Phases(r)'
<1>1. agent[r].pc \in Working => status'[agent[r].job] \in {status[agent[r].job], "CANCELLED"}
  BY RunnerFacts DEF Undisturbed
<1>2. Starts(r)'
  BY <1>1 DEF Phases, Starts, Undisturbed, Early, Midway, Working
<1>3. Builds(r)'
  BY <1>1 DEF Phases, Builds, Undisturbed, Midway, Working
<1>4. Finishes(r)'
  BY <1>1 DEF Phases, Finishes, Undisturbed, Midway, Working
<1>5. Beats(r)'
  BY DEF Phases, Beats, HasActive, Undisturbed
<1> QED BY <1>2, <1>3, <1>4, <1>5 DEF Phases

\* runners.go, handleJobStart and handleJobResult: the runner's own request.
LEMMA RequestPhases ==
  ASSUME LeasesAreSafe, TypeInv, Roles, RowsInv, NamesInv, NEW r \in Runners, Live(r), Phases(r),
         Requests(r)
  PROVE  Phases(r)' /\ agent[r].pc \in {"start", "report"} /\ req[r].job = agent[r].job
<1> DEFINE j == agent[r].job
<1>0. "db" \notin FaultKinds /\ "reply" \notin FaultKinds /\ ~Dead(r)
  BY DEF LeasesAreSafe, RowsAreSafe, Live, Dead
<1>1. /\ UNCHANGED <<agent, hb>> /\ req'[r].job = req[r].job /\ req'[r].to = req[r].to
      /\ req[r].to \in {"RUNNING", "SUCCESS", "FAILED"} /\ req[r].pc \in Serving
  BY <1>0, RequestEffect DEF Serving
<1>2. agent[r].pc \in {"start", "report"} /\ req[r].job = j
  BY <1>1, RunnerFacts, AgentFacts DEF AgentRecord, AgentPcs, Serving, Live, Phases, Starts, Finishes
<1> SUFFICES Phases(r)'
    BY <1>2
<1>3. j \in Jobs /\ runner_id[j] = r /\ r \in Clients /\ r # NULL
  BY <1>2, RunnerFacts DEF Working
<1>4. agent[r].pc = "start" =>
        /\ req[r].to = "RUNNING" /\ call[r].pc # "release" /\ status[j] \in Early
        /\ agent[r].abandoned => status[j] = "CANCELLED"
  BY <1>1 DEF Phases, Starts, Builds
<1>5. agent[r].pc = "report" =>
        /\ req[r].to \in {"SUCCESS", "FAILED"}
        /\ req[r].pc \in {"owns", "begin"} \/ call[r].pc = "update" => status[j] \in Midway
        /\ call[r].pc = "update" => call[r].seen = "RUNNING"
        /\ call[r].pc = "release" => status[j] \notin {"ASSIGNED", "RUNNING"}
  BY DEF Phases, Finishes
<1>6. call[r].pc # "none" => /\ req[r].pc = "store" /\ call[r].job = j
                             /\ call[r].to = req[r].to
  BY <1>2, RunnerFacts
<1>7. agent'[r] = agent[r] /\ Beats(r)'
  BY <1>1 DEF Phases, Beats, HasActive
<1> HIDE DEF j
<1>8. ASSUME agent[r].pc = "start" =>
               /\ req'[r].pc \in {"owns", "begin", "store", "ok", "refused"}
               /\ call'[r].pc # "release"
               /\ req'[r].pc \in Serving => status'[j] \in Early
               /\ req'[r].pc = "ok" => status'[j] \in Midway
               /\ req'[r].pc = "refused" => status'[j] = "CANCELLED"
               /\ agent[r].abandoned => status'[j] = "CANCELLED",
             agent[r].pc = "report" =>
               /\ req'[r].pc \in {"owns", "begin", "store", "ok", "refused"}
               /\ req'[r].pc \in {"owns", "begin"} \/ call'[r].pc = "update" => status'[j] \in Midway
               /\ call'[r].pc = "update" => call'[r].seen = "RUNNING"
               /\ call'[r].pc = "release" \/ req'[r].pc \in {"ok", "refused"}
                    => status'[j] \notin {"ASSIGNED", "RUNNING"}
      PROVE  Phases(r)'
  <2>1. Starts(r)'
    BY <1>1, <1>2, <1>4, <1>7, <1>8 DEF Starts, j
  <2>2. Builds(r)'
    BY <1>2, <1>7, <1>8 DEF Builds, j
  <2>3. Finishes(r)'
    BY <1>1, <1>2, <1>5, <1>7, <1>8 DEF Finishes, j
  <2> QED BY <1>7, <2>1, <2>2, <2>3 DEF Phases
<1>9. CASE req[r].pc = "owns" /\ UNCHANGED storeVars
           /\ req'[r].pc = IF runner_id[req[r].job] = r THEN "begin" ELSE "refused"
  <2>1. req'[r].pc = "begin" /\ call[r].pc = "none" /\ UNCHANGED <<status, call>>
    BY <1>2, <1>3, <1>6, <1>9 DEF storeVars
  <2> QED BY <1>4, <1>5, <1>8, <1>9, <2>1 DEF Serving
<1>10. CASE req[r].pc = "begin" /\ req'[r].pc = "store" /\ Transition(r, req[r].job, req[r].to)
  <2>1. /\ UNCHANGED status /\ call'[r].pc = "update" /\ call'[r].seen = status[j]
        /\ status[j] \in {"QUEUED", "ASSIGNED", "RUNNING"}
    BY <1>1, <1>2, <1>3, <1>10, BeginEffect DEF OnlyCall, JobStatus
  <2> QED BY <1>4, <1>5, <1>8, <1>10, <2>1 DEF Serving, Early, Midway
<1>11. CASE req[r].pc = "begin" /\ req'[r].pc = "refused" /\ UNCHANGED storeVars
            /\ ~MayMove(req[r].job, req[r].to)
  <2>1. UNCHANGED <<status, call>> /\ call[r].pc = "none" /\ ~MayMove(j, req[r].to)
    BY <1>2, <1>6, <1>11 DEF storeVars
  <2>2. agent[r].pc = "start" => status[j] = "CANCELLED"
    BY <1>3, <1>4, <2>1 DEF MayMove, Exists, CanTransitionTo, jobTransitions, JobStatus, Early
  <2>3. agent[r].pc = "report" => status[j] = "CANCELLED"
    BY <1>3, <1>5, <1>11, <2>1 DEF MayMove, Exists, CanTransitionTo, jobTransitions, JobStatus, Midway
  <2> QED BY <1>8, <1>11, <2>1, <2>2, <2>3 DEF Serving
<1>12. CASE req[r].pc = "store" /\ TransitionUpdate(r)
            /\ req'[r].pc = IF ThenReleases(call[r]) THEN "store" ELSE "ok"
  <2>1. /\ call[r].pc = "update" /\ call[r].job = j /\ status[j] = call[r].seen
        /\ status'[j] = req[r].to /\ call[r].owner = r
        /\ req[r].to = "RUNNING" => call'[r].pc = "none"
        /\ req[r].to # "RUNNING" => call'[r].pc = "release"
    BY <1>3, <1>6, <1>12, RunnerFacts, UpdateEffect
  <2>2. req'[r].pc = IF req[r].to = "RUNNING" THEN "ok" ELSE "store"
    BY <1>3, <1>6, <1>12, <2>1 DEF ThenReleases
  <2>3. agent[r].pc = "start" => ~agent[r].abandoned
    BY <1>3, <1>4, <2>1, StoreFacts
  <2> QED BY <1>4, <1>5, <1>8, <2>1, <2>2, <2>3 DEF Serving, Midway
<1>13. CASE req[r].pc = "store" /\ ReleaseRunner(r) /\ req'[r].pc = "ok"
  <2>1. call[r].pc = "release" /\ call'[r].pc = "none" /\ UNCHANGED status
    BY <1>3, <1>13, ReleaseEffect
  <2> QED BY <1>4, <1>5, <1>8, <1>13, <2>1
<1>14. CASE req[r].pc = "store" /\ TransitionConflict(r) /\ req'[r].pc = "refused"
  <2>1. /\ call[r].pc = "update" /\ call'[r].pc = "none" /\ UNCHANGED status
        /\ status[j] # call[r].seen
    BY <1>3, <1>6, <1>14, EndEffect DEF OnlyCall
  <2>2. agent[r].pc = "start" => call[r].seen = "ASSIGNED"
    BY <1>3, <1>4, <1>6, <2>1, StoreFacts
  <2> QED BY <1>4, <1>5, <1>8, <1>14, <2>1, <2>2 DEF Serving, Early, Midway
<1> QED BY <1>0, <1>2, <1>9, <1>10, <1>11, <1>12, <1>13, <1>14, RequestEffect DEF j

\* agent.go: the runner's own steps.
LEMMA AgentPhases ==
  ASSUME LeasesAreSafe, TypeInv, Roles, RowsInv, NamesInv, NEW r \in Runners, Live(r), Phases(r),
         Sent(r), Agent(r), Live(r)'
  PROVE  Phases(r)'
<1>1. UNCHANGED <<status, runner_id, call>>
  BY AgentOthers DEF AgentRest
<1>2. agent[r].pc \in {"new", "poll", "checkout", "exec"} => req[r].pc = "none" /\ call[r].pc = "none"
  BY RunnerFacts
<1>3. agent[r].pc \in {"new", "poll", "report"} => hb[r] = NULL
  BY DEF Phases, Beats, HasActive
<1>4. CASE StartAnswered(r) \/ ResultAnswered(r) \/ BuildStep(r) \/ StartAnswerLost(r)
  <2>1. CASE Begins(r)
    BY <1>1, <2>1 DEF Begins, Phases, Starts, Builds, Finishes, Beats, HasActive
  <2>2. CASE GoesOn(r)
    BY <1>1, <2>2 DEF GoesOn, Phases, Starts, Builds, Finishes, Beats, HasActive
  <2>3. CASE Reports(r)
    BY <1>1, <1>2, <2>3 DEF Reports, Phases, Starts, Builds, Finishes, Beats, HasActive
  <2>4. CASE Returns(r)
    BY <2>4 DEF Returns, Phases, Starts, Builds, Finishes, Beats, HasActive
  <2> QED BY <1>4, <2>1, <2>2, <2>3, <2>4, BuildEffect
<1>5. CASE Poll(r)
  <2>1. mailbox[r] # <<>> /\ mailbox[r] \in Seq(Jobs)
    BY <1>5, MailEffect, AgentFacts
  <2>2. Last(mailbox[r]) \in ToSet(mailbox[r])
    BY <2>1, FrontFacts
  <2>3. status[Last(mailbox[r])] \in Early
    BY <2>2 DEF Sent
  <2> QED BY <1>1, <1>2, <1>3, <1>5, <2>3, MailEffect
          DEF Phases, Starts, Builds, Finishes, Beats, HasActive, Serving
<1>6. CASE HeartbeatAnswered(r)
  <2>1. /\ hb[r] = agent[r].job /\ HasActive(r)
        /\ hb'[r] = NULL /\ req'[r] = req[r]
        /\ agent'[r].pc = agent[r].pc /\ agent'[r].job = agent[r].job
        /\ agent'[r].abandoned => agent[r].abandoned \/ leaseLost(r, hb[r])
    BY <1>6, BeatEffect DEF Phases, Beats
  <2>2. agent[r].job \in Jobs /\ runner_id[agent[r].job] = r
    BY <2>1, RunnerFacts DEF HasActive, Working
  <2>3. status[agent[r].job] \in {"ASSIGNED", "RUNNING", "CANCELLED"}
    BY <2>1 DEF Phases, Starts, Builds, HasActive, Early, Midway, Serving
  <2>4. leaseLost(r, hb[r]) => status[agent[r].job] = "CANCELLED"
    BY <2>1, <2>2, <2>3 DEF leaseLost, Terminal, jobTransitions, JobStatus
  <2>5. Builds(r)'
    BY <1>1, <2>1, <2>4 DEF Phases, Builds, HasActive
  <2>6. Starts(r)' /\ Finishes(r)' /\ Beats(r)'
    BY <1>1, <2>1 DEF Phases, Starts, Finishes, Beats
  <2> QED BY <2>5, <2>6 DEF Phases
<1>7. CASE HeartbeatSent(r)
  <2>1. /\ agent'[r] = agent[r] /\ req'[r] = req[r]
        /\ hb'[r] = IF HasActive(r) THEN agent[r].job ELSE NULL
    BY <1>7, BeatEffect
  <2> QED BY <1>1, <2>1 DEF Phases, Starts, Builds, Finishes, Beats, HasActive
<1>8. CASE Register(r)
  BY <1>1, <1>3, <1>8, BeatEffect DEF Phases, Starts, Builds, Finishes, Beats, HasActive
<1>9. CASE MailboxDropped(r) \/ FallsSilent(r)
  BY <1>9, MailEffect, BeatEffect DEF LeasesAreSafe, RowsAreSafe, Live, Dead
<1>10. CASE AgentDies(r)
  BY <1>10, BeatEffect DEF Live
<1>11. ~LeaseUnreadable(r) /\ ~PollAnswerLost(r)
  BY BeatEffect, MailEffect DEF LeasesAreSafe, RowsAreSafe
<1> QED BY <1>4, <1>5, <1>6, <1>7, <1>8, <1>9, <1>10, <1>11
        DEF Agent, AgentStep, HeartbeatStep, AgentFault

\* Every step is one of runner r, of its request, or leaves r undisturbed.
LEMMA RunnerSteps ==
  ASSUME RowsAreSafe, TypeInv, Roles, RowsInv, [Next]_vars, NEW r \in Runners, Live(r)
  PROVE  Requests(r) \/ Agent(r) \/ Undisturbed(r)
<1>0. /\ {"sched", "reaper", "cancel"} \subseteq Clients /\ "db" \notin FaultKinds
      /\ r \in Clients /\ r \notin {"sched", "reaper", "cancel"} /\ r \notin Jobs
      /\ \A q \in Runners : q \in Clients
  BY ClientFacts DEF RowsAreSafe
<1>1. ~Requests(r) => \A j \in Jobs : runner_id[j] = r => status'[j] \in {status[j], "CANCELLED"}
  BY LeaseKept DEF Kept
<1>2. ASSUME agent'[r] = agent[r], hb'[r] = hb[r], req'[r] = req[r], call'[r] = call[r]
      PROVE  Requests(r) \/ Undisturbed(r)
  BY <1>1, <1>2 DEF Undisturbed
<1>3. CASE Scheduler
  <2>1. UNCHANGED <<req, agent, hb>>
    BY <1>3, SchedEffect DEF Roles
  <2>2. call'[r] = call[r]
    <3>1. CASE SchedCrash
      BY <1>0, <3>1, CrashEffect
    <3>2. CASE AssignCommit("sched")
      BY <1>0, <3>2, AssignEffect
    <3>3. CASE AssignRollback("sched")
      BY <1>0, <3>3, EndEffect DEF OnlyCall
    <3>4. CASE \E k \in Jobs, q \in Runners : AssignJob("sched", k, q)
      BY <1>0, <3>4, AssignEffect DEF OnlyCall
    <3>5. CASE UNCHANGED storeVars
      BY <3>5 DEF storeVars
    <3> QED BY <1>3, <3>1, <3>2, <3>3, <3>4, <3>5, SchedEffect DEF Roles
  <2> QED BY <1>2, <2>1, <2>2
<1>4. CASE Reaper
  <2>1. UNCHANGED <<req, agent, hb>>
    BY <1>4, ReapEffect
  <2>2. call'[r] = call[r]
    <3>1. CASE ReapOfflineRunners
      BY <3>1, TickEffect
    <3>2. ASSUME NEW k \in Jobs, Transition("reaper", k, "QUEUED") PROVE call'[r] = call[r]
      BY <1>0, <3>2, BeginEffect DEF OnlyCall, JobStatus
    <3>3. CASE TransitionUpdate("reaper")
      BY <1>0, <3>3, UpdateEffect
    <3>4. CASE ReleaseRunner("reaper")
      BY <1>0, <3>4, ReleaseEffect
    <3>5. CASE TransitionConflict("reaper")
      BY <1>0, <3>5, EndEffect DEF OnlyCall
    <3>6. CASE UNCHANGED storeVars
      BY <3>6 DEF storeVars
    <3> QED BY <1>4, <3>1, <3>2, <3>3, <3>4, <3>5, <3>6, ReapEffect
  <2> QED BY <1>2, <2>1, <2>2
<1>5. CASE Cancels
  <2>1. UNCHANGED <<req, agent, hb>>
    BY <1>0, <1>5, CancelEffect
  <2>2. call'[r] = call[r]
    <3>1. ASSUME NEW k \in Jobs, Transition("cancel", k, "CANCELLED") PROVE call'[r] = call[r]
      BY <1>0, <3>1, BeginEffect DEF OnlyCall, JobStatus
    <3>2. CASE TransitionUpdate("cancel")
      BY <1>0, <3>2, UpdateEffect
    <3>3. CASE TransitionConflict("cancel") \/ CallsFail({"cancel"})
      BY <1>0, <3>3, EndEffect DEF OnlyCall
    <3>4. CASE ReleaseRunner("cancel")
      BY <1>0, <3>4, ReleaseEffect
    <3> QED BY <1>0, <1>5, <3>1, <3>2, <3>3, <3>4, CancelEffect
  <2> QED BY <1>2, <2>1, <2>2
<1>6. ASSUME NEW k \in Jobs, Webhooks(k) PROVE Requests(r) \/ Undisturbed(r)
  BY <1>0, <1>2, <1>6, WebhookEffect DEF Roles
<1>7. ASSUME NEW q \in Runners, q # r, Requests(q) PROVE Requests(r) \/ Undisturbed(r)
  <2>1. /\ UNCHANGED <<agent, hb>> /\ req'[r] = req[r]
        /\ req[q].job \in Jobs /\ req[q].to \in {"RUNNING", "SUCCESS", "FAILED"}
    BY <1>0, <1>7, RequestEffect
  <2>2. call'[r] = call[r]
    <3>1. CASE Transition(q, req[q].job, req[q].to)
      BY <1>0, <1>7, <2>1, <3>1, BeginEffect DEF OnlyCall, JobStatus
    <3>2. CASE TransitionUpdate(q)
      BY <1>0, <1>7, <3>2, UpdateEffect
    <3>3. CASE TransitionConflict(q) \/ CallsFail({q})
      BY <1>0, <1>7, <3>3, EndEffect DEF OnlyCall
    <3>4. CASE ReleaseRunner(q)
      BY <1>0, <1>7, <3>4, ReleaseEffect
    <3>5. CASE UNCHANGED storeVars
      BY <3>5 DEF storeVars
    <3> QED BY <1>0, <1>7, <3>1, <3>2, <3>3, <3>4, <3>5, RequestEffect
  <2> QED BY <1>2, <2>1, <2>2
<1>8. ASSUME NEW q \in Runners, q # r, Agent(q) PROVE Requests(r) \/ Undisturbed(r)
  BY <1>2, <1>8, AgentOthers DEF AgentRest
<1>9. CASE UNCHANGED vars
  BY <1>2, <1>9 DEF vars, storeVars, apiVars, agentVars
<1> QED BY <1>3, <1>4, <1>5, <1>6, <1>7, <1>8, <1>9 DEF Next

\* agent.go: a dead runner stays dead.
LEMMA DeadStays ==
  ASSUME RowsAreSafe, TypeInv, Roles, [Next]_vars, NEW r \in Runners, Live(r)'
  PROVE  Live(r)
<1>1. CASE Outside \/ Scheduler
  BY <1>1, SchedEffect DEF Outside, Live, Roles
<1>2. ASSUME NEW q \in Runners, Agent(q) PROVE Live(r)
  <2>1. CASE q = r
    BY <1>2, <2>1, AgentMoving DEF AgentMoves
  <2>2. CASE q # r
    BY <1>2, <2>2, AgentOthers DEF AgentRest, Live
  <2> QED BY <2>1, <2>2
<1> QED BY <1>1, <1>2, OutsideSteps

\* Every step keeps the phases.
LEMMA StepPhases ==
  ASSUME LeasesAreSafe, TypeInv, Roles, RowsInv, NamesInv, LeaseInv, [Next]_vars
  PROVE  EachPhase'
<1> SUFFICES ASSUME NEW r \in Runners, Live(r)' PROVE Phases(r)'
    BY DEF EachPhase
<1>1. RowsAreSafe /\ Live(r)
  BY DeadStays DEF LeasesAreSafe
<1>2. Phases(r) /\ Sent(r)
  BY <1>1 DEF LeaseInv, EachPhase, SentOnce
<1> QED BY <1>1, <1>2, RunnerSteps, RequestPhases, AgentPhases, UndisturbedPhases

\* agent.go: how an agent takes a job from its mailbox, and how it parts with one.
Takes(r) == /\ agent[r].pc = "poll" /\ mailbox[r] # <<>> /\ mailbox'[r] = Front(mailbox[r])
            /\ agent'[r].pc = "start" /\ agent'[r].job = Last(mailbox[r])
Keeps(r) == /\ mailbox'[r] = mailbox[r]
            /\ agent'[r].pc \in Working => agent[r].pc \in Working /\ agent'[r].job = agent[r].job
            /\ agent[r].pc \in Working => agent'[r].pc \in Working \/ Returns(r)
            /\ agent[r].pc = "start" => agent'[r].pc = "start" \/ Begins(r) \/ Returns(r)

\* agent.go, poll and execute: every step of a live agent takes a job or keeps the one it has.
LEMMA AgentTakes ==
  ASSUME LeasesAreSafe, TypeInv, NEW r \in Runners, Agent(r), Live(r)'
  PROVE  Takes(r) \/ Keeps(r)
<1>1. Live(r)
  BY AgentMoving DEF AgentMoves
<1>2. CASE StartAnswered(r) \/ ResultAnswered(r) \/ BuildStep(r) \/ StartAnswerLost(r)
  BY <1>2, BuildEffect DEF Begins, GoesOn, Reports, Returns, Keeps, Working
<1>3. CASE Poll(r)
  BY <1>3, MailEffect DEF Takes
<1>4. CASE Register(r) \/ HeartbeatSent(r) \/ HeartbeatAnswered(r)
  BY <1>4, BeatEffect DEF Keeps, Working
<1>5. ~LeaseUnreadable(r) /\ ~PollAnswerLost(r) /\ ~AgentDies(r)
      /\ ~MailboxDropped(r) /\ ~FallsSilent(r)
  BY <1>1, BeatEffect, MailEffect DEF LeasesAreSafe, RowsAreSafe, Live, Dead
<1> QED BY <1>2, <1>3, <1>4, <1>5 DEF Agent, AgentStep, HeartbeatStep, AgentFault

\* Only the scheduler gives a job away.
LEMMA OwnerLost ==
  ASSUME RowsAreSafe, TypeInv, Roles, [Next]_vars
  PROVE  Scheduler \/ \A j \in Jobs : runner_id'[j] \in {runner_id[j], NULL}
<1>0. {"reaper", "cancel"} \subseteq Clients /\ "db" \notin FaultKinds
      /\ \A q \in Runners : q \in Clients
  BY ClientFacts DEF RowsAreSafe
<1> DEFINE Goal == \A j \in Jobs : runner_id'[j] \in {runner_id[j], NULL}
<1>1. ASSUME NEW c \in Clients,
             TransitionUpdate(c) \/ TransitionConflict(c) \/ ReleaseRunner(c) \/ CallsFail({c})
      PROVE  Goal
  BY <1>1, UpdateEffect, EndEffect, ReleaseEffect DEF OnlyCall
<1>2. ASSUME NEW c \in Clients, NEW k \in Jobs, NEW to \in JobStatus, Transition(c, k, to) PROVE Goal
  BY <1>2 DEF Transition
<1>3. UNCHANGED runner_id => Goal
  OBVIOUS
<1> HIDE DEF Goal
<1>4. ASSUME Reaper PROVE Goal
  BY <1>0, <1>1, <1>2, <1>3, <1>4, ReapEffect, TickEffect DEF storeVars, JobStatus
<1>5. ASSUME Cancels PROVE Goal
  BY <1>0, <1>1, <1>2, <1>5, CancelEffect DEF JobStatus
<1>6. ASSUME NEW k \in Jobs, Webhooks(k) PROVE Goal
  BY <1>3, <1>6, WebhookEffect DEF Roles
<1>7. ASSUME NEW q \in Runners, Requests(q) PROVE Goal
  BY <1>0, <1>1, <1>2, <1>3, <1>7, RequestEffect DEF storeVars, JobStatus
<1>8. ASSUME NEW q \in Runners, Agent(q) PROVE Goal
  BY <1>3, <1>8, AgentOthers DEF AgentRest
<1>9. ASSUME UNCHANGED vars PROVE Goal
  BY <1>3, <1>9 DEF vars, storeVars
<1> QED BY <1>4, <1>5, <1>6, <1>7, <1>8, <1>9 DEF Next, Goal

\* service.go, assign: the scheduler's loop sends each job once and forgets none.
LEMMA SchedLease ==
  ASSUME LeasesAreSafe, TypeInv, Roles, RowsInv, NamesInv, LeaseInv, Scheduler
  PROVE  SentOnce' /\ Attended'
<1>0. RowsAreSafe /\ "sched" \in Clients /\ [Next]_vars /\ SchedOnlyAssigns
  BY ClientFacts DEF LeasesAreSafe, Next, Roles
<1>1. UNCHANGED <<req, agent, hb>>
  BY <1>0, SchedEffect
<1>2. \A r \in Runners : Live(r) => /\ ToSet(mailbox[r]) \subseteq Jobs
                                    /\ agent[r].pc \in Working => agent[r].job \in Jobs /\ runner_id[agent[r].job] = r
                                    /\ \A j \in ToSet(mailbox[r]) : runner_id[j] = r
  BY RunnerFacts
<1>3. ASSUME UNCHANGED <<mailbox, status, runner_id>>, sched.pc # "dispatch", sched'.pc # "dispatch"
      PROVE  SentOnce' /\ Attended'
  BY <1>1, <1>3 DEF LeaseInv, SentOnce, Sending, Sent, Attended, Live
<1>4. CASE SchedCrash /\ UNCHANGED mailbox
  <2>1. sched.pc \in CrashPoints /\ sched'.pc = "recover" /\ UNCHANGED <<status, runner_id>>
    BY <1>0, <1>4, CrashEffect
  <2> QED BY <1>3, <1>4, <2>1 DEF LeasesAreSafe
<1>5. CASE sched.pc = "assign" /\ sched'.pc = "assigning" /\ UNCHANGED mailbox
           /\ sched.job \in Jobs /\ sched.runner \in Runners
           /\ AssignJob("sched", sched.job, sched.runner)
  <2>1. UNCHANGED <<status, runner_id>>
    BY <1>0, <1>5, AssignEffect DEF OnlyCall
  <2> QED BY <1>3, <1>5, <2>1
<1>6. CASE sched.pc = "assigning" /\ sched'.pc = "requeue" /\ UNCHANGED mailbox /\ AssignRollback("sched")
  <2>1. UNCHANGED <<status, runner_id>>
    BY <1>0, <1>6, EndEffect DEF OnlyCall
  <2> QED BY <1>3, <1>6, <2>1
<1>7. CASE sched.pc = "assigning" /\ sched'.pc = "dispatch" /\ UNCHANGED mailbox
           /\ sched'.job = sched.job /\ sched'.runner = sched.runner /\ AssignCommit("sched")
  <2> DEFINE j == sched.job
             o == sched.runner
  <2>1. /\ j \in Jobs /\ o \in Runners /\ status[j] = "QUEUED" /\ runner_id[j] = NULL
        /\ status'[j] = "ASSIGNED" /\ runner_id'[j] = o
        /\ \A k \in Jobs : k # j => status'[k] = status[k] /\ runner_id'[k] = runner_id[k]
    BY <1>0, <1>7, AssignEffect DEF SchedOnlyAssigns
  <2>2. \A r \in Runners : Live(r) => /\ j \notin ToSet(mailbox[r])
                                      /\ agent[r].pc \in Working => agent[r].job # j
    BY <1>2, <2>1, NullAssumption
  <2>3. sched'.job = j /\ sched'.runner = o
    BY <1>7
  <2> HIDE DEF j, o
  <2>4. Sending'
    BY <1>1, <1>7, <2>1, <2>2, <2>3 DEF Sending, Live, Early
  <2>5. \A r \in Runners : Live(r)' => Sent(r)'
    BY <1>1, <1>2, <1>7, <2>1, <2>2 DEF LeaseInv, SentOnce, Sent, Live
  <2>6. Attended'
    BY <1>1, <1>7, <2>1, <2>3 DEF LeaseInv, Attended, Live
  <2> QED BY <2>4, <2>5, <2>6 DEF SentOnce
<1>8. CASE sched.pc = "dispatch" /\ sched'.pc = "ack" /\ UNCHANGED storeVars /\ sched.job \in Jobs
           /\ sched.runner \in Runners /\ Dispatch(sched.runner, sched.job)
  <2>0. PICK j \in Jobs, o \in Runners : j = sched.job /\ o = sched.runner
    BY <1>8
  <2>1. /\ \A q \in Runners : q # o => mailbox'[q] = mailbox[q]
        /\ mailbox'[o] = Cons(j, mailbox[o])
    BY <1>8, <2>0, AgentFacts DEF Dispatch
  <2>2. mailbox[o] \in Seq(Jobs) /\ UNCHANGED <<status, runner_id>>
    BY <1>8, AgentFacts DEF storeVars
  <2>3. ToSet(mailbox'[o]) = {j} \cup ToSet(mailbox[o])
    BY <2>1, <2>2, ConsFacts
  <2>4. Live(o) => /\ Sent(o) /\ status[j] \in Early /\ j \notin ToSet(mailbox[o])
                   /\ agent[o].pc \in Working => agent[o].job # j
    BY <1>8, <2>0 DEF LeaseInv, SentOnce, Sending
  <2>5. Live(o) => IsInjective(mailbox'[o])
    BY <2>1, <2>2, <2>4, InjectiveFacts DEF Sent
  <2>6. Live(o)' => Sent(o)'
    BY <1>1, <2>2, <2>3, <2>4, <2>5 DEF Sent, Live
  <2>7. \A r \in Runners : r # o /\ Live(r)' => Sent(r)'
    BY <1>1, <2>1, <2>2 DEF LeaseInv, SentOnce, Sent, Live
  <2>8. Attended'
    BY <1>1, <2>0, <2>1, <2>2, <2>3 DEF LeaseInv, Attended, Live
  <2> QED BY <1>8, <2>2, <2>6, <2>7, <2>8 DEF SentOnce, Sending
<1>9. CASE UNCHANGED <<storeVars, mailbox>> /\ sched.pc # "dispatch" /\ sched'.pc # "dispatch"
  BY <1>3, <1>9 DEF storeVars
<1> QED BY <1>0, <1>4, <1>5, <1>6, <1>7, <1>8, <1>9, SchedEffect

\* The other processes: what was sent stays sent once.
LEMMA OtherSent ==
  ASSUME LeasesAreSafe, TypeInv, Roles, RowsInv, NamesInv, LeaseInv, [Next]_vars,
         Outside \/ \E q \in Runners : Agent(q)
  PROVE  SentOnce'
<1>0. RowsAreSafe /\ UNCHANGED sched /\ (sched.pc = "dispatch" => sched.job \in Jobs /\ sched.runner \in Runners)
  BY AgentOthers DEF LeasesAreSafe, Outside, AgentRest, TypeInv, SchedHolds
<1>1. ASSUME NEW r \in Runners, Live(r)'
      PROVE  Live(r) /\ Sent(r) /\ Phases(r) /\ (Takes(r) \/ Keeps(r))
             /\ (Takes(r) \/ (mailbox'[r] = mailbox[r]
                   /\ (agent'[r].pc \in Working => agent[r].pc \in Working /\ agent'[r].job = agent[r].job)))
  <2>1. Live(r)
    BY <1>0, <1>1, DeadStays
  <2>2. Takes(r) \/ Keeps(r)
    <3>1. CASE Outside
      BY <3>1 DEF Outside, Keeps
    <3>2. ASSUME NEW q \in Runners, Agent(q), q # r PROVE Keeps(r)
      BY <3>2, AgentOthers DEF AgentRest, Keeps
    <3>3. CASE Agent(r)
      BY <1>1, <3>3, AgentTakes
    <3> QED BY <3>1, <3>2, <3>3
  <2> QED BY <2>1, <2>2 DEF LeaseInv, SentOnce, EachPhase, Keeps
<1>2. ASSUME NEW r \in Runners, Live(r), NEW j \in Jobs, runner_id[j] = r,
             agent[r].pc \in Working => agent[r].job # j, status[j] \in Early
      PROVE  status'[j] \in Early
  <2>1. Kept(r, j)
    BY <1>0, <1>2, LeaseKept
  <2>2. CASE Requests(r) /\ TransitionUpdate(r) /\ call[r].job = j
    <3>1. Phases(r)
      BY <1>2 DEF LeaseInv, EachPhase
    <3>2. agent[r].pc \in {"start", "report"} /\ req[r].job = agent[r].job
      BY <1>0, <1>2, <2>2, <3>1, RequestPhases
    <3>3. call[r].pc = "update" /\ call[r].job = req[r].job
      BY <1>2, <2>2, RunnerFacts DEF TransitionUpdate
    <3> QED BY <1>2, <2>2, <3>2, <3>3 DEF Working
  <2> QED BY <1>2, <2>1, <2>2 DEF Kept, Early
<1>3. ASSUME NEW r \in Runners, Live(r)' PROVE Sent(r)'
  <2>1. Live(r) /\ Sent(r)
    BY <1>1, <1>3
  <2>2. mailbox[r] \in Seq(Jobs) /\ ToSet(mailbox[r]) \subseteq Jobs
        /\ \A j \in ToSet(mailbox[r]) : runner_id[j] = r
    BY <2>1, RunnerFacts, AgentFacts
  <2>3. \A j \in ToSet(mailbox[r]) : status'[j] \in Early
    BY <1>2, <2>1, <2>2 DEF Sent
  <2>4. CASE Takes(r)
    <3>1. /\ IsInjective(Front(mailbox[r])) /\ Last(mailbox[r]) \notin ToSet(Front(mailbox[r]))
          /\ ToSet(Front(mailbox[r])) \subseteq ToSet(mailbox[r])
      BY <2>1, <2>2, <2>4, InjectiveFacts, FrontFacts DEF Sent, Takes
    <3> QED BY <2>3, <2>4, <3>1 DEF Sent, Takes
  <2>5. CASE Keeps(r)
    BY <2>1, <2>3, <2>5 DEF Sent, Keeps
  <2> QED BY <1>1, <1>3, <2>4, <2>5
<1>4. Sending'
  <2> SUFFICES ASSUME sched.pc = "dispatch", NEW r \in Runners, r = sched.runner, Live(r)',
                      NEW j \in Jobs, j = sched.job
               PROVE  /\ status'[j] \in Early /\ j \notin ToSet(mailbox'[r])
                      /\ agent'[r].pc \in Working => agent'[r].job # j
    BY <1>0 DEF Sending, Live
  <2>1. Live(r) /\ (Takes(r) \/ Keeps(r))
    BY <1>1
  <2>2. /\ status[j] \in Early /\ j \notin ToSet(mailbox[r])
        /\ agent[r].pc \in Working => agent[r].job # j
        /\ runner_id[j] = r
    BY <2>1 DEF LeaseInv, SentOnce, Sending, NamesInv, SentIsNamed
  <2>3. mailbox[r] \in Seq(Jobs)
    BY AgentFacts
  <2>4. CASE Takes(r)
    BY <1>2, <2>1, <2>2, <2>3, <2>4, FrontFacts DEF Takes
  <2>5. CASE Keeps(r)
    BY <1>2, <2>1, <2>2, <2>5 DEF Keeps
  <2> QED BY <2>1, <2>4, <2>5
<1> QED BY <1>3, <1>4 DEF SentOnce

\* The other processes: a job under way stays attended to.
LEMMA OtherAttended ==
  ASSUME LeasesAreSafe, TypeInv, Roles, RowsInv, NamesInv, LeaseInv, [Next]_vars, ~Scheduler,
         Outside \/ \E q \in Runners : Agent(q)
  PROVE  Attended'
<1>0. RowsAreSafe /\ UNCHANGED sched
  BY AgentOthers DEF LeasesAreSafe, Outside, AgentRest
<1> SUFFICES ASSUME NEW j \in Jobs, NEW r \in Runners, runner_id'[j] = r, Live(r)'
             PROVE  /\ status'[j] = "ASSIGNED" =>
                         \/ sched.pc = "dispatch" /\ sched.job = j /\ sched.runner = r
                         \/ j \in ToSet(mailbox'[r])
                         \/ agent'[r].pc = "start" /\ agent'[r].job = j
                    /\ status'[j] = "RUNNING" => agent'[r].pc \in Working /\ agent'[r].job = j
    BY <1>0 DEF Attended, Live
<1>1. Live(r)
  BY <1>0, DeadStays
<1>2. runner_id[j] = r
  BY <1>0, OwnerLost, NullAssumption
<1>3. Kept(r, j)
  BY <1>0, <1>1, <1>2, LeaseKept
<1>4. Phases(r) /\ Sent(r)
  BY <1>1 DEF LeaseInv, SentOnce, EachPhase
<1>5. /\ status[j] = "ASSIGNED" => \/ sched.pc = "dispatch" /\ sched.job = j /\ sched.runner = r
                                   \/ j \in ToSet(mailbox[r])
                                   \/ agent[r].pc = "start" /\ agent[r].job = j
      /\ status[j] = "RUNNING" => agent[r].pc \in Working /\ agent[r].job = j
  BY <1>1, <1>2 DEF LeaseInv, Attended
\* The runner's own request moved the job on.
<1>6. CASE Requests(r) /\ TransitionUpdate(r) /\ call[r].job = j
  <2>1. agent[r].pc \in {"start", "report"} /\ req[r].job = agent[r].job /\ UNCHANGED agent
    BY <1>0, <1>1, <1>4, <1>6, RequestPhases, RequestEffect DEF RowsAreSafe
  <2>2. r \in Clients /\ call[r].job = req[r].job /\ status'[j] # "ASSIGNED"
    BY <1>1, <1>6, RunnerFacts, UpdateEffect
  <2> QED BY <1>6, <2>1, <2>2 DEF Working
<1>7. CASE status'[j] \in {status[j], "CANCELLED"}
  <2>1. CASE Outside \/ \E q \in Runners : q # r /\ Agent(q)
    <3>1. agent'[r] = agent[r] /\ mailbox'[r] = mailbox[r]
      BY <2>1, AgentOthers DEF Outside, AgentRest
    <3> QED BY <1>5, <1>7, <3>1
  <2>2. CASE Agent(r) /\ Takes(r)
    <3>1. mailbox[r] \in Seq(Jobs) /\ mailbox[r] # <<>>
      BY <2>2, AgentFacts DEF Takes
    <3>2. ToSet(mailbox[r]) = ToSet(mailbox'[r]) \cup {agent'[r].job}
      BY <2>2, <3>1, FrontFacts DEF Takes
    <3> QED BY <1>5, <1>7, <2>2, <3>2 DEF Takes, Working
  <2>3. CASE Agent(r) /\ Keeps(r)
    <3>1. Returns(r) => status[agent[r].job] \notin {"ASSIGNED", "RUNNING"}
      BY <1>4 DEF LeasesAreSafe, Phases, Starts, Builds, Finishes, Returns
    <3>2. Begins(r) => status[agent[r].job] # "ASSIGNED"
      BY <1>4 DEF Phases, Starts, Begins, Midway
    <3> QED BY <1>5, <1>7, <2>3, <3>1, <3>2 DEF Keeps, Working
  <2>4. Agent(r) => Takes(r) \/ Keeps(r)
    BY AgentTakes
  <2> QED BY <2>1, <2>2, <2>3, <2>4
<1> QED BY <1>3, <1>6, <1>7 DEF Kept

\* Every step keeps the leases.
LEMMA StepLease ==
  ASSUME LeasesAreSafe, TypeInv, Roles, RowsInv, NamesInv, LeaseInv, [Next]_vars
  PROVE  LeaseInv'
<1>1. RowsAreSafe
  BY DEF LeasesAreSafe
<1>2. EachPhase'
  BY StepPhases
<1>3. SentOnce' /\ Attended'
  BY <1>1, OutsideSteps, SchedLease, OtherSent, OtherAttended
<1> QED BY <1>2, <1>3 DEF LeaseInv

\* The initial state.
LEMMA InitLease == Init => LeaseInv
<1> SUFFICES ASSUME Init PROVE LeaseInv
    OBVIOUS
<1>1. /\ \A r \in Runners : mailbox[r] = <<>> /\ agent[r].pc = "new" /\ hb[r] = NULL
      /\ \A j \in Jobs : status[j] = "NONE"
      /\ sched.pc # "dispatch"
  BY DEF Init, StoreInit, QueueInit, AgentInit, SchedInit
<1>2. ToSet(<<>>) = {} /\ IsInjective(<<>>)
  BY DEF ToSet, IsInjective
<1>3. SentOnce
  BY <1>1, <1>2 DEF SentOnce, Sending, Sent, Working
<1>4. EachPhase
  BY <1>1 DEF EachPhase, Phases, Starts, Builds, Finishes, Beats
<1>5. Attended
  BY <1>1 DEF Attended
<1> QED BY <1>3, <1>4, <1>5 DEF LeaseInv

\* A job of a dead runner is found by the reaper.
LEMMA DeadIsReaped ==
  ASSUME TypeInv, Roles, RowsInv, NEW j \in Jobs, status[j] \in {"ASSIGNED", "RUNNING"},
         ~Live(runner_id[j])
  PROVE  ToBeReaped(runner_id[j], j)
<1>1. runner_id[j] \in Runners
  BY StoreFacts DEF OwnerMatchesStatus
<1>2. currentJob[runner_id[j]] = j \/ GivenUp(j)
  BY DEF RowsInv, HeldOrGivenUp
<1>3. currentJob[runner_id[j]] = j => runnerStatus[runner_id[j]] = "BUSY"
  BY <1>1, StoreFacts, NullAssumption DEF BusyIffHolding
<1> QED BY <1>2, <1>3 DEF GivenUp, ToBeReaped, Dead, Live

\* Every ASSIGNED job is on its way to the runner its row names, or that runner is
\* dead and the reaper will take the job back.
THEOREM DeliveryCorrect ==
  ASSUME LeasesAreSafe
  PROVE  Spec => []AssignedJobIsDelivered
<1>1. TypeInv /\ Roles /\ RowsInv /\ LeaseInv => AssignedJobIsDelivered
  <2> SUFFICES ASSUME TypeInv, Roles, RowsInv, LeaseInv, NEW j \in Jobs, status[j] = "ASSIGNED"
               PROVE  LET r == runner_id[j] IN
                      \/ sched.job = j /\ sched.pc \in {"dispatch", "undo", "undoing"}
                      \/ j \in ToSet(mailbox[r])
                      \/ agent[r].pc = "start" /\ agent[r].job = j
                      \/ ToBeReaped(r, j)
    BY DEF AssignedJobIsDelivered
  <2>1. runner_id[j] \in Runners
    BY StoreFacts DEF OwnerMatchesStatus
  <2>2. CASE Live(runner_id[j])
    BY <2>1, <2>2 DEF LeaseInv, Attended
  <2>3. CASE ~Live(runner_id[j])
    BY <2>3, DeadIsReaped
  <2> QED BY <2>2, <2>3
<1>2. TypeInv /\ Roles /\ RowsInv /\ NamesInv /\ LeaseInv /\ [Next]_vars
        => Roles' /\ RowsInv' /\ NamesInv' /\ LeaseInv'
  BY StepRoles, StepRows, StepNames, StepLease DEF LeasesAreSafe
<1> QED BY InitTypes, StepTypes, InitRows, InitNames, InitLease, <1>1, <1>2, PTL DEF Spec

\* Every RUNNING job is in the hands of the runner its row names, or that runner is
\* dead and the reaper will take the job back.
THEOREM RunningCorrect ==
  ASSUME LeasesAreSafe
  PROVE  Spec => []RunningJobIsExecuted
<1>1. TypeInv /\ Roles /\ RowsInv /\ LeaseInv => RunningJobIsExecuted
  <2> SUFFICES ASSUME TypeInv, Roles, RowsInv, LeaseInv, NEW j \in Jobs, status[j] = "RUNNING"
               PROVE  LET r == runner_id[j] IN
                      \/ agent[r].pc \in {"start", "checkout", "exec", "report"} /\ agent[r].job = j
                      \/ ToBeReaped(r, j)
    BY DEF RunningJobIsExecuted
  <2>1. runner_id[j] \in Runners
    BY StoreFacts DEF OwnerMatchesStatus
  <2>2. CASE Live(runner_id[j])
    BY <2>1, <2>2 DEF LeaseInv, Attended, Working
  <2>3. CASE ~Live(runner_id[j])
    BY <2>3, DeadIsReaped
  <2> QED BY <2>2, <2>3
<1>2. TypeInv /\ Roles /\ RowsInv /\ NamesInv /\ LeaseInv /\ [Next]_vars
        => Roles' /\ RowsInv' /\ NamesInv' /\ LeaseInv'
  BY StepRoles, StepRows, StepNames, StepLease DEF LeasesAreSafe
<1> QED BY InitTypes, StepTypes, InitRows, InitNames, InitLease, <1>1, <1>2, PTL DEF Spec

-----------------------------------------------------------------------------
(* No result is withheld without reason *)

\* A live runner abandons its build only when the job has ended.
AbandonInv ==
  \A r \in Runners : Live(r) =>
    /\ Beats(r)
    /\ HasActive(r) /\ agent[r].abandoned => Ended(agent[r].job)

\* Every step keeps it: an ended job stays ended.
LEMMA StepAbandon ==
  ASSUME RowsAreSafe, TypeInv, Roles, RowsInv, NamesInv, AbandonInv, [Next]_vars
  PROVE  AbandonInv'
<1> SUFFICES ASSUME NEW r \in Runners, Live(r)'
             PROVE  Beats(r)' /\ (HasActive(r)' /\ agent'[r].abandoned => Ended(agent[r].job)')
    BY DEF AbandonInv
<1>1. Live(r)
  BY DeadStays
<1>2. Beats(r) /\ (HasActive(r) /\ agent[r].abandoned => Ended(agent[r].job))
  BY <1>1 DEF AbandonInv
<1>3. HasActive(r) => agent[r].job \in Jobs /\ runner_id[agent[r].job] = r
  BY <1>1, RunnerFacts DEF HasActive, Working
<1>4. CASE Agent(r)
  <2>1. UNCHANGED status
    BY <1>4, AgentOthers DEF AgentRest
  <2>2. CASE StartAnswered(r) \/ ResultAnswered(r) \/ BuildStep(r) \/ StartAnswerLost(r)
    BY <1>2, <2>1, <2>2, BuildEffect DEF Begins, GoesOn, Reports, Returns, Beats, HasActive, Ended
  <2>3. CASE Poll(r) \/ PollAnswerLost(r) \/ MailboxDropped(r)
    BY <1>2, <2>1, <2>3, MailEffect DEF Beats, HasActive, Ended
  <2>4. CASE Register(r) \/ HeartbeatSent(r) \/ AgentDies(r) \/ FallsSilent(r)
    BY <1>2, <2>1, <2>4, BeatEffect DEF Beats, HasActive, Ended, Live
  <2>5. CASE HeartbeatAnswered(r)
    <3>1. /\ hb[r] = agent[r].job /\ HasActive(r) /\ hb'[r] = NULL
          /\ agent'[r].pc = agent[r].pc /\ agent'[r].job = agent[r].job
          /\ agent'[r].abandoned => agent[r].abandoned \/ leaseLost(r, hb[r])
      BY <1>2, <2>5, BeatEffect DEF Beats
    <3>2. leaseLost(r, hb[r]) => Ended(agent[r].job)
      <4>1. status[agent[r].job] \in JobStatus
        BY <1>3, <3>1, StoreFacts, NullAssumption DEF OwnerMatchesStatus
      <4> QED BY <1>3, <3>1, <4>1 DEF leaseLost, Terminal, jobTransitions, JobStatus, Ended
    <3> QED BY <1>2, <2>1, <3>1, <3>2 DEF Beats, Ended, HasActive
  <2>6. ~LeaseUnreadable(r)
    BY BeatEffect DEF RowsAreSafe
  <2> QED BY <1>4, <2>2, <2>3, <2>4, <2>5, <2>6 DEF Agent, AgentStep, HeartbeatStep, AgentFault
<1>5. ASSUME agent'[r] = agent[r], hb'[r] = hb[r],
             \A j \in Jobs : runner_id[j] = r => (Ended(j) => Ended(j)')
      PROVE  Beats(r)' /\ (HasActive(r)' /\ agent'[r].abandoned => Ended(agent[r].job)')
  BY <1>2, <1>3, <1>5 DEF Beats, HasActive, Ended
<1>6. \A j \in Jobs : runner_id[j] = r => (Ended(j) => Ended(j)')
  <2> SUFFICES ASSUME NEW j \in Jobs, runner_id[j] = r, Ended(j) PROVE Ended(j)'
      OBVIOUS
  <2>1. Kept(r, j)
    BY <1>1, LeaseKept
  <2>2. ~(TransitionUpdate(r) /\ call[r].job = j)
    BY UpdateEffect, ClientFacts DEF Ended
  <2> QED BY <2>1, <2>2 DEF Kept, Ended
<1>7. CASE Requests(r)
  <2>1. UNCHANGED <<agent, hb>>
    BY <1>7, RequestEffect DEF RowsAreSafe
  <2> QED BY <1>5, <1>6, <2>1
<1>8. CASE Undisturbed(r)
  BY <1>5, <1>6, <1>8 DEF Undisturbed
<1> QED BY <1>1, <1>4, <1>7, <1>8, RunnerSteps

\* A build is dropped without a result only when its job has ended or belongs to
\* another runner, as long as leaseLost can read the job.
THEOREM AbandonCorrect ==
  ASSUME RowsAreSafe
  PROVE  Spec => AbandonedJobHasMovedOn
<1> DEFINE Step == \A r \in Runners :
                     agent[r].abandoned /\ agent[r].pc \in {"checkout", "exec"} /\ agent'[r].pc = "poll"
                       => ~Holds(r, agent[r].job)
<1>1. Init => AbandonInv
  BY DEF Init, AgentInit, AbandonInv, Beats, HasActive
<1>2. AbandonInv => Step
  BY DEF AbandonInv, Live, HasActive, Ended, Holds, Active
<1>3. TypeInv /\ Roles /\ RowsInv /\ NamesInv /\ AbandonInv /\ [Next]_vars
        => Roles' /\ RowsInv' /\ NamesInv' /\ AbandonInv'
  BY StepRoles, StepRows, StepNames, StepAbandon
<1>4. AbandonInv /\ [Next]_vars => [Step]_vars
  BY <1>2
<1> HIDE DEF Step
<1>5. Spec => [][Step]_vars
  BY InitTypes, StepTypes, InitRows, InitNames, <1>1, <1>3, <1>4, PTL DEF Spec
<1> QED BY <1>5 DEF AbandonedJobHasMovedOn, Step

-----------------------------------------------------------------------------
(* Which lease an UPDATE overwrites *)

\* store.go, transition: an UPDATE that takes effect finds the job with the runner that
\* was read, or that runner has been given up meanwhile.
StaleOnlyAfterGivingUp ==
  [][\A c \in Clients :
       call[c].pc = "update" /\ call'[c] # call[c] /\ status' # status
         => runner_id[call[c].job] = call[c].owner \/ Offline(call[c].owner)]_vars

\* store.go: the one step that ends an UPDATE and changes a status is the UPDATE.
LEMMA UpdateTakesEffect ==
  ASSUME TypeInv, [StoreNext]_storeVars, NEW c \in Clients,
         call[c].pc = "update", call'[c] # call[c], status' # status
  PROVE  TransitionUpdate(c)
<1>1. CASE \E j \in Jobs : CreateJob(j)
  BY <1>1 DEF CreateJob
<1>2. ASSUME NEW d \in Clients, TransitionUpdate(d) PROVE TransitionUpdate(c)
  BY <1>2, UpdateEffect
<1>3. ASSUME NEW d \in Clients, AssignCommit(d) PROVE FALSE
  <2>1. call[d].pc = "assign" /\ call' = [call EXCEPT ![d] = NoCall]
    BY <1>3 DEF AssignCommit
  <2>2. c # d
    BY <2>1
  <2> QED BY <2>1, <2>2, StoreFacts
<1>4. ASSUME \/ \E d \in Clients, j \in Jobs, to \in JobStatus \ {"ASSIGNED"} : Transition(d, j, to)
             \/ \E d \in Clients, j \in Jobs, r \in Runners : AssignJob(d, j, r)
             \/ \E d \in Clients : TransitionConflict(d) \/ ReleaseRunner(d) \/ AssignRollback(d)
             \/ \E C \in SUBSET Clients : CallsFail(C)
             \/ \E r \in Runners : RegisterRunner(r) \/ Heartbeat(r) \/ Silence(r)
             \/ ReapOfflineRunners
      PROVE  UNCHANGED status
  BY <1>4 DEF Transition, AssignJob, TransitionConflict, ReleaseRunner, AssignRollback, CallsFail,
              RegisterRunner, Heartbeat, Silence, ReapOfflineRunners
<1>5. CASE UNCHANGED storeVars
  BY <1>5 DEF storeVars
<1> QED BY <1>1, <1>2, <1>3, <1>4, <1>5 DEF StoreNext

\* store.go, transition: what the condition on the status alone protects.
LEMMA UpdateFits ==
  ASSUME TypeInv, RowsInv, [Next]_vars, NEW c \in Clients,
         call[c].pc = "update", call'[c] # call[c], status' # status
  PROVE  \/ runner_id[call[c].job] = call[c].owner
         \/ call[c].owner \in Runners /\ Offline(call[c].owner)
<1>1. TransitionUpdate(c)
  BY StepUsesStore, UpdateTakesEffect
<1>2. call[c].job \in Jobs /\ status[call[c].job] = call[c].seen /\ call[c] \in CallRecord
  BY <1>1, UpdateEffect, StoreFacts
<1>3. CASE call[c].owner = NULL
  BY <1>2, <1>3, StoreFacts DEF RowsInv, OwnerWasRead, OwnerMatchesStatus
<1>4. CASE call[c].owner # NULL
  BY <1>2, <1>4 DEF RowsInv, OwnerWasRead, CallRecord
<1> QED BY <1>3, <1>4

\* Comparing only the status, transition never writes over the lease of another
\* runner than it read, unless that runner was given up in between: with any
\* number of jobs, runners, deaths, restarts and lost requests.
THEOREM StaleCorrect ==
  ASSUME RowsAreSafe
  PROVE  Spec => StaleOnlyAfterGivingUp
<1> DEFINE Fits == \A c \in Clients :
                     call[c].pc = "update" /\ call'[c] # call[c] /\ status' # status
                       => runner_id[call[c].job] = call[c].owner \/ Offline(call[c].owner)
<1>1. TypeInv /\ RowsInv /\ [Next]_vars => [Fits]_vars
  BY UpdateFits
<1>2. TypeInv /\ Roles /\ RowsInv /\ [Next]_vars => Roles' /\ RowsInv'
  BY StepRoles, StepRows
<1> HIDE DEF Fits
<1>3. Spec => [][Fits]_vars
  BY InitTypes, StepTypes, InitRows, <1>1, <1>2, PTL DEF Spec
<1> QED BY <1>3 DEF StaleOnlyAfterGivingUp, Fits

NobodyDied == \A r \in Runners : Live(r)

\* agent.go: only the end of its process ends an agent.
LEMMA StepLives ==
  ASSUME RowsAreSafe, "agent" \notin FaultKinds, TypeInv, Roles, NobodyDied, [Next]_vars
  PROVE  NobodyDied'
<1> SUFFICES ASSUME NEW r \in Runners PROVE Live(r)'
  BY DEF NobodyDied
<1>0. Live(r)
  BY DEF NobodyDied
<1>1. CASE Outside \/ Scheduler
  BY <1>0, <1>1, SchedEffect DEF Outside, Live, Roles
<1>2. ASSUME NEW q \in Runners, q # r, Agent(q) PROVE Live(r)'
  BY <1>0, <1>2, AgentOthers DEF AgentRest, Live
<1>3. CASE Agent(r)
  <2>1. CASE StartAnswered(r) \/ ResultAnswered(r) \/ BuildStep(r) \/ StartAnswerLost(r)
    BY <1>0, <2>1, BuildEffect DEF Begins, GoesOn, Reports, Returns, Live
  <2>2. CASE Poll(r) \/ PollAnswerLost(r) \/ MailboxDropped(r)
    BY <1>0, <2>2, MailEffect DEF Live
  <2>3. CASE Register(r) \/ HeartbeatSent(r) \/ HeartbeatAnswered(r) \/ FallsSilent(r)
    BY <1>0, <2>3, BeatEffect DEF Live
  <2>4. ~AgentDies(r)
    BY DEF AgentDies, Fault
  <2>5. ~LeaseUnreadable(r)
    BY BeatEffect DEF RowsAreSafe
  <2> QED BY <1>3, <2>1, <2>2, <2>3, <2>4, <2>5 DEF Agent, AgentStep, HeartbeatStep, AgentFault
<1> QED BY <1>1, <1>2, <1>3, OutsideSteps

\* The overwrite that a dead runner makes possible needs it: while no runner dies,
\* the status is all that transition has to compare.
THEOREM OverwriteCorrect ==
  ASSUME RowsAreSafe, "agent" \notin FaultKinds
  PROVE  Spec => NoSilentOverwrite
<1> DEFINE Fits == \A c \in Clients :
                     call[c].pc = "update" /\ call'[c] # call[c] /\ status' # status
                       => runner_id[call[c].job] = call[c].owner
<1>1. Init => NobodyDied
  BY DEF Init, AgentInit, NobodyDied, Live
<1>2. ASSUME TypeInv, Roles, NobodyDied, NEW r \in Runners PROVE ~Offline(r)
  BY <1>2 DEF Roles, SilentIsDead, Offline, NobodyDied, Live, Dead
<1>3. TypeInv /\ Roles /\ RowsInv /\ NobodyDied /\ [Next]_vars => [Fits]_vars
  BY <1>2, UpdateFits
<1>4. TypeInv /\ Roles /\ RowsInv /\ NobodyDied /\ [Next]_vars => Roles' /\ RowsInv' /\ NobodyDied'
  BY StepRoles, StepRows, StepLives
<1> HIDE DEF Fits
<1>5. Spec => [][Fits]_vars
  BY InitTypes, StepTypes, InitRows, <1>1, <1>3, <1>4, PTL DEF Spec
<1> QED BY <1>5 DEF NoSilentOverwrite, Fits

-----------------------------------------------------------------------------
(* Who is released, and whose result is on record *)

\* Which operation of the store each step of the system is, as far as jobs, runners and
\* the operations under way are concerned.
Operation(c) ==
  \/ OnlyCall(c) /\ call[c].pc \in {"none", "assign"}
  \/ TransitionUpdate(c) \/ TransitionConflict(c) \/ ReleaseRunner(c) \/ AssignCommit(c)
  \/ /\ CallsFail({c})
     /\ \/ c \in Runners /\ (Dead(c) \/ "reply" \in FaultKinds)
        \/ c = "cancel" /\ "client" \in FaultKinds
NoOperation ==
  /\ UNCHANGED <<runner_id, currentJob>>
  /\ \A j \in Jobs : status'[j] = status[j] \/ (status[j] = "NONE" /\ status'[j] = "QUEUED")
  /\ \A c \in Clients : call'[c] = call[c] \/ call[c].pc \in {"none", "assign"}
  /\ \A r \in Runners : /\ Offline(r) => Offline(r)'
                        /\ runnerStatus'[r] = "BUSY" <=> runnerStatus[r] = "BUSY"

\* service.go, api, agent.go: every step is one of these.
LEMMA StepOperation ==
  ASSUME RowsAreSafe, TypeInv, Roles, [Next]_vars
  PROVE  (\E c \in Clients : Operation(c)) \/ ReapOfflineRunners \/ NoOperation
<1>0. /\ "db" \notin FaultKinds /\ {"sched", "reaper", "cancel"} \subseteq Clients
      /\ Runners \subseteq Clients
  BY ClientFacts DEF RowsAreSafe
<1>1. ASSUME UNCHANGED storeVars PROVE NoOperation
  BY <1>1 DEF storeVars, NoOperation, Offline
<1>2. ASSUME NEW c \in Clients, NEW j \in Jobs, NEW to \in JobStatus, Transition(c, j, to)
      PROVE  Operation(c)
  BY <1>2, BeginEffect DEF Operation
<1>3. CASE Scheduler
  <2>1. CASE SchedCrash
    <3>1. /\ UNCHANGED <<status, runner_id, runnerStatus, currentJob>>
          /\ call["reaper"].pc = "none"
          /\ \A c \in Clients : c \notin {"sched", "reaper"} => call'[c] = call[c]
      BY <2>1, CrashEffect
    <3>2. call["sched"].pc \in {"none", "assign"}
      BY DEF Roles, SchedOnlyAssigns
    <3> QED BY <3>1, <3>2 DEF NoOperation, Offline
  <2>2. ASSUME NEW j \in Jobs, NEW r \in Runners, AssignJob("sched", j, r) PROVE Operation("sched")
    BY <1>0, <2>2, AssignEffect DEF Operation
  <2>3. AssignRollback("sched") => Operation("sched")
    BY <1>0, EndEffect DEF Operation, AssignRollback
  <2>4. AssignCommit("sched") => Operation("sched")
    BY DEF Operation
  <2> QED BY <1>0, <1>1, <1>3, <2>1, <2>2, <2>3, <2>4, SchedEffect DEF Roles
<1>4. CASE Reaper
  <2>1. ASSUME NEW p \in reap.orphans, p[2] \in Jobs, Transition("reaper", p[2], "QUEUED")
        PROVE  Operation("reaper")
    BY <1>0, <1>2, <2>1 DEF JobStatus
  <2>2. TransitionUpdate("reaper") \/ ReleaseRunner("reaper") \/ TransitionConflict("reaper")
          => Operation("reaper")
    BY DEF Operation
  <2> QED BY <1>0, <1>1, <1>4, <2>1, <2>2, ReapEffect
<1>5. CASE Cancels
  <2>1. ASSUME NEW j \in Jobs, Transition("cancel", j, "CANCELLED") PROVE Operation("cancel")
    BY <1>0, <1>2, <2>1 DEF JobStatus
  <2>2. (\/ TransitionUpdate("cancel") \/ ReleaseRunner("cancel") \/ TransitionConflict("cancel")
         \/ CallsFail({"cancel"}) /\ "client" \in FaultKinds)
          => Operation("cancel")
    BY DEF Operation
  <2> QED BY <1>0, <1>5, <2>1, <2>2, CancelEffect
<1>6. ASSUME NEW j \in Jobs, Webhooks(j) PROVE NoOperation
  BY <1>6, WebhookEffect DEF NoOperation, Roles, Offline
<1>7. ASSUME NEW r \in Runners, Requests(r) PROVE Operation(r) \/ NoOperation
  <2>1. Transition(r, req[r].job, req[r].to) => Operation(r)
    BY <1>0, <1>2, <1>7, RequestEffect DEF JobStatus
  <2>2. (\/ TransitionUpdate(r) \/ ReleaseRunner(r) \/ TransitionConflict(r)
         \/ CallsFail({r}) /\ (Dead(r) \/ "reply" \in FaultKinds))
          => Operation(r)
    BY DEF Operation
  <2> QED BY <1>0, <1>1, <1>7, <2>1, <2>2, RequestEffect
<1>8. ASSUME NEW r \in Runners, Agent(r) PROVE NoOperation
  <2>1. /\ UNCHANGED <<status, runner_id, currentJob, call>>
        /\ \A q \in Runners : q # r => runnerStatus'[q] = runnerStatus[q]
    BY <1>8, AgentOthers DEF AgentRest
  <2>2. Offline(r) => Dead(r)
    BY DEF Roles, SilentIsDead, Offline
  <2>3. /\ Offline(r) => runnerStatus'[r] = "OFFLINE"
        /\ runnerStatus'[r] = "BUSY" <=> runnerStatus[r] = "BUSY"
    <3>1. CASE StartAnswered(r) \/ ResultAnswered(r) \/ BuildStep(r) \/ StartAnswerLost(r)
      BY <3>1, BuildEffect DEF RowStays, Offline
    <3>2. CASE Poll(r) \/ PollAnswerLost(r) \/ MailboxDropped(r)
      BY <3>2, MailEffect DEF RowStays, Offline
    <3>3. CASE Register(r) \/ HeartbeatSent(r) \/ HeartbeatAnswered(r) \/ AgentDies(r)
                 \/ FallsSilent(r)
      BY <2>2, <3>3, BeatEffect DEF RowStays, Offline, Alive, Dead
    <3>4. ~LeaseUnreadable(r)
      BY <1>0, BeatEffect
    <3> QED BY <1>8, <3>1, <3>2, <3>3, <3>4 DEF Agent, AgentStep, HeartbeatStep, AgentFault
  <2> QED BY <2>1, <2>3 DEF NoOperation, Offline
<1>9. CASE UNCHANGED vars
  BY <1>1, <1>9 DEF vars
<1> QED BY <1>0, <1>3, <1>4, <1>5, <1>6, <1>7, <1>8, <1>9 DEF Next

\* No connection of a live runner or of a user breaks half way through a handler; those of
\* the dead may.
ConnectionsHold == FaultKinds \cap {"reply", "client"} = {}

\* What a step does to a runner that is BUSY after it.
Releasing(r) == \E c \in Clients : call[c].pc = "release" /\ call[c].owner = r
BusyAfter(r) ==
  \/ Active(status'[currentJob'[r]])
  \/ Releasing(r)'
  \/ /\ runnerStatus[r] = "BUSY" /\ currentJob'[r] = currentJob[r]
     /\ \/ /\ status'[currentJob[r]] = status[currentJob[r]]
           /\ \A c \in Clients : call[c].pc = "release" /\ call[c].owner = r
                                   => call'[c] = call[c] \/ Dead(r)
        \/ status'[currentJob[r]] = "CANCELLED" /\ \E q \in Runners : Offline(q)
Spared == \A r \in Runners : /\ Offline(r) => Offline(r)'
                             /\ runnerStatus'[r] = "BUSY" => BusyAfter(r)

\* store.go, transition: whoever ends the job of a BUSY runner goes on to release it.
LEMMA UpdateSpares ==
  ASSUME RowsAreSafe, TypeInv, Roles, RowsInv, NEW c \in Clients, TransitionUpdate(c)
  PROVE  Spared
<1> DEFINE k == call[c].job
<1>1. /\ call[c].pc = "update" /\ k \in Jobs /\ status[k] = call[c].seen /\ status'[k] = call[c].to
      /\ call[c].to \in {"QUEUED", "RUNNING", "SUCCESS", "FAILED", "CANCELLED"}
      /\ \A j \in Jobs : j # k => status'[j] = status[j]
      /\ \A d \in Clients : d # c => call'[d] = call[d]
      /\ ~(call[c].to = "RUNNING" \/ call[c].owner = NULL)
           => call'[c].pc = "release" /\ call'[c].owner = call[c].owner
      /\ UNCHANGED <<runnerStatus, currentJob>>
  BY UpdateEffect
<1> HIDE DEF k
<1> SUFFICES ASSUME NEW r \in Runners, runnerStatus[r] = "BUSY" PROVE BusyAfter(r)
  BY <1>1 DEF Spared, Offline
<1>2. currentJob[r] \in Jobs /\ runner_id[currentJob[r]] = r
  BY StoreFacts DEF BusyIffHolding, RowsInv, HolderIsNamed
<1>3. CASE currentJob[r] # k
  BY <1>1, <1>2, <1>3 DEF BusyAfter
<1>4. CASE currentJob[r] = k /\ call[c].to \in {"QUEUED", "RUNNING"}
  BY <1>1, <1>4 DEF BusyAfter, Active
<1>5. CASE currentJob[r] = k /\ call[c].to \in {"SUCCESS", "FAILED"}
  <2>1. c \in Runners
    BY <1>1, <1>5, ClientFacts
       DEF Roles, SchedOnlyAssigns, CancelOnlyCancels, ReaperOnlyRequeues, HooksOnlyPush
  <2>2. runner_id[k] = c /\ call[c].owner = c
    BY <1>1, <2>1 DEF Roles, RequestsOnlyReport, RowsInv, HolderIsNamed, OwnerWasRead, k
  <2>3. call'[c].pc = "release" /\ call'[c].owner = r
    BY <1>1, <1>2, <1>5, <2>1, <2>2, NullAssumption
  <2> QED BY <2>3 DEF BusyAfter, Releasing
<1>6. CASE currentJob[r] = k /\ call[c].to = "CANCELLED"
  <2>1. call[c].owner # NULL /\ (runner_id[k] = call[c].owner \/ Offline(call[c].owner))
    <3>1. status[k] # "QUEUED"
      BY <1>1, <1>2, <1>6, StoreFacts, NullAssumption DEF OwnerMatchesStatus
    <3> QED BY <1>1, <3>1 DEF RowsInv, OwnerWasRead, k
  <2>2. CASE runner_id[k] = call[c].owner
    BY <1>1, <1>2, <1>6, <2>1, <2>2 DEF BusyAfter, Releasing
  <2>3. CASE Offline(call[c].owner)
    <3>1. call[c].owner \in Runners
      BY <2>1, StoreFacts DEF CallRecord
    <3> QED BY <1>1, <1>6, <2>3, <3>1 DEF BusyAfter
  <2> QED BY <2>1, <2>2, <2>3
<1> QED BY <1>1, <1>3, <1>4, <1>5, <1>6

\* store.go: what every other step does to a BUSY runner.
LEMMA StepSpares ==
  ASSUME RowsAreSafe, ConnectionsHold, TypeInv, Roles, RowsInv, [Next]_vars
  PROVE  Spared
<1>1. ASSUME NEW c \in Clients, OnlyCall(c),
             \A r \in Runners : call[c].pc = "release" /\ call[c].owner = r /\ ~Offline(r) => Dead(r)
      PROVE  Spared
  BY <1>1 DEF Spared, BusyAfter, OnlyCall, Offline
<1>2. ASSUME NEW c \in Clients, ReleaseRunner(c) PROVE Spared
  BY <1>2, ReleaseEffect DEF Spared, BusyAfter, Offline
<1>3. ASSUME NEW c \in Clients, AssignCommit(c) PROVE Spared
  <2>1. /\ call[c].pc = "assign" /\ call[c].job \in Jobs
        /\ runnerStatus[call[c].owner] = "IDLE" /\ status'[call[c].job] = "ASSIGNED"
        /\ currentJob'[call[c].owner] = call[c].job /\ runner_id[call[c].job] = NULL
        /\ \A j \in Jobs : j # call[c].job => status'[j] = status[j]
        /\ \A q \in Runners : q # call[c].owner
             => runnerStatus'[q] = runnerStatus[q] /\ currentJob'[q] = currentJob[q]
        /\ \A d \in Clients : d # c => call'[d] = call[d]
    BY <1>3, AssignEffect
  <2>2. ASSUME NEW r \in Runners, runnerStatus'[r] = "BUSY" PROVE BusyAfter(r)
    <3>1. CASE r = call[c].owner
      BY <2>1, <3>1 DEF BusyAfter, Active
    <3>2. CASE r # call[c].owner
      <4>1. currentJob[r] \in Jobs /\ runner_id[currentJob[r]] = r
        BY <2>1, <2>2, <3>2, StoreFacts DEF BusyIffHolding, RowsInv, HolderIsNamed
      <4>2. currentJob[r] # call[c].job
        BY <2>1, <4>1, NullAssumption
      <4> QED BY <2>1, <2>2, <3>2, <4>1, <4>2 DEF BusyAfter
    <3> QED BY <3>1, <3>2
  <2>3. \A r \in Runners : Offline(r) => Offline(r)'
    BY <2>1 DEF Offline
  <2> QED BY <2>2, <2>3 DEF Spared
<1>4. ASSUME NEW c \in Clients, TransitionConflict(c) PROVE Spared
  BY <1>1, <1>4, EndEffect DEF TransitionConflict
<1>5. ASSUME NEW c \in Runners, CallsFail({c}), Dead(c) PROVE Spared
  <2>1. c \in Clients /\ OnlyCall(c)
    BY <1>5, ClientFacts, EndEffect
  <2>2. ASSUME call[c].pc = "release", ~Offline(call[c].owner) PROVE call[c].owner = c
    <3>1. call[c].owner \in Runners /\ currentJob[call[c].owner] = call[c].job /\ call[c].job \in Jobs
      BY <2>1, <2>2, StoreFacts DEF RowsInv, ReleaseIsDue
    <3>2. runner_id[call[c].job] = call[c].owner
      BY <3>1, NullAssumption DEF RowsInv, HolderIsNamed
    <3>3. runner_id[call[c].job] = c
      BY <2>2 DEF Roles, RequestsOnlyReport, RowsInv, HolderIsNamed
    <3> QED BY <3>2, <3>3
  <2> QED BY <1>1, <1>5, <2>1, <2>2
<1>6. ASSUME NEW c \in Clients, Operation(c) PROVE Spared
  <2>1. OnlyCall(c) /\ call[c].pc \in {"none", "assign"} => Spared
    BY <1>1
  <2> QED BY <1>2, <1>3, <1>4, <1>5, <1>6, <2>1, UpdateSpares DEF Operation, ConnectionsHold
<1>7. CASE ReapOfflineRunners
  BY <1>7, TickEffect DEF Spared, BusyAfter, Offline
<1>8. CASE NoOperation
  <2>1. ASSUME NEW r \in Runners, runnerStatus'[r] = "BUSY" PROVE BusyAfter(r)
    <3>1. /\ runnerStatus[r] = "BUSY" /\ currentJob[r] \in Jobs /\ currentJob'[r] = currentJob[r]
          /\ runner_id[currentJob[r]] # NULL
      BY <1>8, <2>1, StoreFacts, NullAssumption DEF NoOperation, BusyIffHolding, RowsInv, HolderIsNamed
    <3>2. status'[currentJob[r]] = status[currentJob[r]]
      BY <1>8, <3>1, StoreFacts DEF NoOperation, OwnerMatchesStatus
    <3> QED BY <1>8, <3>1, <3>2 DEF NoOperation, BusyAfter
  <2> QED BY <1>8, <2>1 DEF NoOperation, Spared
<1> QED BY <1>6, <1>7, <1>8, StepOperation

\* Every step keeps BUSY runners on their way to release.
LEMMA StepRelease ==
  ASSUME RowsAreSafe, ConnectionsHold, TypeInv, Roles, RowsInv, BusyRunnerIsReleased, [Next]_vars
  PROVE  BusyRunnerIsReleased'
<1> SUFFICES ASSUME NEW r \in Runners, runnerStatus'[r] = "BUSY"
             PROVE  \/ runner_id'[currentJob'[r]] = r /\ Active(status'[currentJob'[r]])
                    \/ Releasing(r)' \/ Dead(r)'
                    \/ status'[currentJob'[r]] = "CANCELLED" /\ \E q \in Runners : Offline(q)'
  BY DEF BusyRunnerIsReleased, Releasing, Offline, Dead
<1>1. BusyAfter(r) /\ \A q \in Runners : Offline(q) => Offline(q)'
  BY StepSpares DEF Spared
<1>2. runner_id'[currentJob'[r]] = r
  <2>1. BusyIffHolding'
    BY StepTypes DEF TypeInv, StoreInv
  <2>2. HolderIsNamed'
    BY StepRows DEF RowsInv
  <2> QED BY <2>1, <2>2 DEF BusyIffHolding, HolderIsNamed
<1>3. Dead(r) => Dead(r)'
  BY DeadStays DEF Live, Dead
<1>4. runnerStatus[r] = "BUSY" =>
        \/ Active(status[currentJob[r]]) \/ Releasing(r) \/ Dead(r)
        \/ status[currentJob[r]] = "CANCELLED" /\ \E q \in Runners : Offline(q)
  BY DEF BusyRunnerIsReleased, Releasing, Offline
<1>5. CASE Active(status'[currentJob'[r]]) \/ Releasing(r)'
  BY <1>2, <1>5
<1>6. CASE runnerStatus[r] = "BUSY" /\ currentJob'[r] = currentJob[r]
           /\ status'[currentJob[r]] = "CANCELLED" /\ \E q \in Runners : Offline(q)
  BY <1>1, <1>6
<1>7. CASE /\ runnerStatus[r] = "BUSY" /\ currentJob'[r] = currentJob[r]
           /\ status'[currentJob[r]] = status[currentJob[r]]
           /\ \A c \in Clients : call[c].pc = "release" /\ call[c].owner = r
                                   => call'[c] = call[c] \/ Dead(r)
  <2>1. Releasing(r) => Releasing(r)' \/ Dead(r)
    BY <1>7 DEF Releasing
  <2> QED BY <1>1, <1>2, <1>3, <1>4, <1>7, <2>1
<1> QED BY <1>1, <1>5, <1>6, <1>7 DEF BusyAfter

\* No runner is lost to the scheduler: one that is BUSY has an unfinished job that names
\* it, or whoever finished the job is about to release it, or it is dead and will be
\* reaped.  Runners die in the middle of a request and their handlers are cut off there,
\* also between the UPDATE and the release; only when the connection of a live runner or
\* of a user breaks at that point does the code leave the runner BUSY.
THEOREM ReleaseCorrect ==
  ASSUME RowsAreSafe, ConnectionsHold
  PROVE  Spec => []BusyRunnerIsReleased
<1>1. Init => BusyRunnerIsReleased
  BY DEF Init, StoreInit, BusyRunnerIsReleased
<1>2. TypeInv /\ Roles /\ RowsInv /\ BusyRunnerIsReleased /\ [Next]_vars
        => Roles' /\ RowsInv' /\ BusyRunnerIsReleased'
  BY StepRoles, StepRows, StepRelease
<1> QED BY InitTypes, StepTypes, InitRows, <1>1, <1>2, PTL DEF Spec

\* jobs.go, handleJobStart: a runner that was told to start builds a job whose row names
\* it, although ownership was checked before, and apart from, the UPDATE to RUNNING.
THEOREM BuilderCorrect ==
  ASSUME RowsAreSafe
  PROVE  Spec => []OwnerBuilds
<1>1. NamesInv => OwnerBuilds
  BY DEF NamesInv, WorkIsNamed, OwnerBuilds, Executing, Live, Working
<1>2. TypeInv /\ Roles /\ RowsInv /\ NamesInv /\ [Next]_vars => Roles' /\ RowsInv' /\ NamesInv'
  BY StepRoles, StepRows, StepNames
<1> QED BY InitTypes, StepTypes, InitRows, InitNames, <1>1, <1>2, PTL DEF Spec

\* jobs.go, handleJobResult: only the request of the runner that the row names records a
\* result, and it records that runner's own.
LEMMA StepResults ==
  ASSUME RowsAreSafe, TypeInv, Roles, RowsInv, ReportsEarned, ResultIsTheHolders, [Next]_vars
  PROVE  ResultIsTheHolders'
<1>1. verdicts \subseteq verdicts'
  BY StepReports
<1>2. ASSUME \A j \in Jobs : \/ status'[j] \notin {"SUCCESS", "FAILED"}
                             \/ status'[j] = status[j] /\ runner_id'[j] = runner_id[j]
                             \/ <<runner_id'[j], j, status'[j]>> \in verdicts
      PROVE  ResultIsTheHolders'
  BY <1>1, <1>2 DEF ResultIsTheHolders
<1>3. ASSUME UNCHANGED <<status, runner_id>> PROVE ResultIsTheHolders'
  BY <1>2, <1>3
<1>4. ASSUME NEW c \in Clients, TransitionUpdate(c) PROVE ResultIsTheHolders'
  <2>1. /\ call[c].pc = "update" /\ call[c].job \in Jobs /\ status'[call[c].job] = call[c].to
        /\ \A j \in Jobs : j # call[c].job => status'[j] = status[j] /\ runner_id'[j] = runner_id[j]
        /\ runner_id'[call[c].job] = IF call[c].to = "QUEUED" THEN NULL ELSE runner_id[call[c].job]
    BY <1>4, UpdateEffect
  <2>2. ASSUME call[c].to \in {"SUCCESS", "FAILED"}
        PROVE  <<runner_id[call[c].job], call[c].job, call[c].to>> \in verdicts
    <3>1. c \in Runners
      BY <2>1, <2>2, ClientFacts
         DEF Roles, SchedOnlyAssigns, CancelOnlyCancels, ReaperOnlyRequeues, HooksOnlyPush
    <3>2. call[c].job = req[c].job /\ call[c].to = req[c].to /\ runner_id[req[c].job] = c
      BY <2>1, <3>1 DEF Roles, RequestsOnlyReport, RowsInv, HolderIsNamed
    <3> QED BY <2>2, <3>1, <3>2 DEF ReportsEarned
  <2> QED BY <1>2, <2>1, <2>2
<1>5. ASSUME NEW c \in Clients, AssignCommit(c) PROVE ResultIsTheHolders'
  BY <1>2, <1>5, AssignEffect
<1>6. ASSUME NEW c \in Clients, Operation(c) PROVE ResultIsTheHolders'
  BY <1>3, <1>4, <1>5, <1>6 DEF Operation, OnlyCall, TransitionConflict, ReleaseRunner, CallsFail
<1>7. NoOperation => ResultIsTheHolders'
  BY <1>2 DEF NoOperation
<1>8. ReapOfflineRunners => ResultIsTheHolders'
  BY <1>3 DEF ReapOfflineRunners
<1> QED BY <1>6, <1>7, <1>8, StepOperation

\* A result on record is what the runner that the row names got from its own build, with
\* any number of jobs, runners, deaths, restarts, lost and cut-off requests.
THEOREM ResultCorrect ==
  ASSUME RowsAreSafe
  PROVE  Spec => []ResultIsTheHolders
<1>1. Init => ReportsEarned /\ ResultIsTheHolders
  BY DEF Init, StoreInit, ApiInit, NoReq, ReportsEarned, ResultIsTheHolders
<1>2. TypeInv /\ Roles /\ RowsInv /\ ReportsEarned /\ ResultIsTheHolders /\ [Next]_vars
        => Roles' /\ RowsInv' /\ ReportsEarned' /\ ResultIsTheHolders'
  BY StepRoles, StepRows, StepReports, StepResults
<1> QED BY InitTypes, StepTypes, InitRows, <1>1, <1>2, PTL DEF Spec
=============================================================================

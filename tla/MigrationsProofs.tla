-------------------------- MODULE MigrationsProofs --------------------------
(* Store.Migrate and Store.Rollback, for any number of API instances, files,   *)
(* rollbacks and killed processes.                                             *)
EXTENDS Migrations, FiniteSetTheorems, TLAPS

Inst == [pc : {"down", "check", "apply", "ready"}, at : Nat]

PlacesOK == /\ inst \in [Instances -> Inst]
            /\ \A i \in Instances : /\ inst[i].pc \in {"check", "apply"} => inst[i].at > 0
                                    /\ inst[i].pc = "apply" => inst[i].at \in Version

\* A file that is not recorded has not run since it was last undone.
RunsOK == /\ recorded \subseteq Version /\ runs \in [Version -> 0..1]
          /\ \A n \in Version : n \notin recorded => runs[n] = 0

OnceInv == PlacesOK /\ RunsOK

-----------------------------------------------------------------------------
(* Exactly once                                                                *)

\* migrate.go: instances keep their place in the files.
LEMMA StepPlaces ==
  ASSUME PlacesOK, MNext
  PROVE  PlacesOK'
<1>0. Files \in Nat BY MigrationsAssumption
<1>1. ASSUME NEW i \in Instances, NEW k \in Inst, inst' = [inst EXCEPT ![i] = k],
             k.pc \in {"check", "apply"} => k.at > 0,
             k.pc = "apply" => k.at \in Version
      PROVE  PlacesOK'
  <2>1. inst' \in [Instances -> Inst] /\ inst'[i] = k
        /\ \A j \in Instances : j # i => inst'[j] = inst[j]
    BY <1>1 DEF PlacesOK
  <2> QED BY <1>1, <2>1 DEF PlacesOK
<1>2. ASSUME NEW i \in Instances, Start(i) \/ MStep(i) \/ Killed(i) PROVE PlacesOK'
  <2>0. inst[i] \in Inst /\ inst[i].at \in Nat BY DEF PlacesOK, Inst
  <2>1. CASE Start(i) \/ Killed(i) \/ ApplyFails(i)
    <3>1. PICK k \in {[pc |-> "check", at |-> 1], [pc |-> "down", at |-> 0]} :
            inst' = [inst EXCEPT ![i] = k]
      BY <2>1 DEF Start, Killed, ApplyFails
    <3>2. k \in Inst /\ k.pc # "apply" /\ (k.pc = "check" => k.at > 0) BY DEF Inst
    <3> QED BY <3>1, <3>2, <1>1
  <2>2. CASE Check(i)
    <3> DEFINE p == inst[i].at
               a == [pc |-> "ready", at |-> 0]
               b == [pc |-> "check", at |-> p + 1]
               c == [pc |-> "apply", at |-> p]
    <3>1. /\ inst[i].pc = "check"
          /\ \/ inst' = [inst EXCEPT ![i] = a]
             \/ inst' = [inst EXCEPT ![i] = b]
             \/ inst' = [inst EXCEPT ![i] = c] /\ ~(p > Files)
      BY <2>2 DEF Check
    <3>2. p \in Nat /\ p > 0 BY <3>1, <2>0 DEF PlacesOK
    <3>3. a \in Inst /\ a.pc = "ready" BY DEF Inst
    <3>4. b \in Inst /\ b.pc = "check" /\ b.at > 0 BY <3>2 DEF Inst
    <3>5. c \in Inst /\ c.pc = "apply" /\ c.at = p BY <3>2 DEF Inst
    <3>6. ~(p > Files) => p \in Version BY <3>2, <1>0 DEF Version
    <3> HIDE DEF a, b, c, p
    <3> QED BY <3>1, <3>2, <3>3, <3>4, <3>5, <3>6, <1>1
  <2>3. CASE Apply(i)
    <3> DEFINE b == [pc |-> "check", at |-> inst[i].at + 1]
    <3>1. inst' = [inst EXCEPT ![i] = b] BY <2>3 DEF Apply
    <3>2. b \in Inst /\ b.pc = "check" /\ b.at > 0 BY <2>0 DEF Inst
    <3> HIDE DEF b
    <3> QED BY <3>1, <3>2, <1>1
  <2> QED BY <1>2, <2>1, <2>2, <2>3 DEF MStep
<1>3. CASE RollbackBegins \/ RollbackOne \/ RollbackKilled
  BY <1>3 DEF RollbackBegins, RollbackOne, RollbackKilled, PlacesOK
<1> QED BY <1>2, <1>3 DEF MNext

\* migrate.go, runMigration: the row is inserted or deleted together with the run.
LEMMA StepRuns ==
  ASSUME PlacesOK, RunsOK, MNext
  PROVE  RunsOK'
<1>1. CASE UNCHANGED db
  BY <1>1 DEF db, RunsOK
<1>2. ASSUME NEW i \in Instances, Apply(i) PROVE RunsOK'
  <2> DEFINE n == inst[i].at
  <2>1. /\ n \in Version /\ n \notin recorded
        /\ recorded' = recorded \cup {n} /\ runs' = [runs EXCEPT ![n] = @ + 1]
    BY <1>2 DEF Apply, upMigrations, RunUp, MayRecord, PlacesOK
  <2>2. runs[n] = 0 /\ runs \in [Version -> 0..1] BY <2>1 DEF RunsOK
  <2> HIDE DEF n
  <2>3. runs' = [runs EXCEPT ![n] = 1] BY <2>1, <2>2
  <2> QED BY <2>1, <2>2, <2>3 DEF RunsOK
<1>3. CASE RollbackOne
  <2> DEFINE n == Head(roll)
  <2>1. \/ UNCHANGED db
        \/ /\ runs' = [k \in Version |-> IF k \in Dropped(n) THEN 0 ELSE runs[k]]
           /\ recorded' = recorded \ {n}
    BY <1>3 DEF RollbackOne
  <2> HIDE DEF n
  <2>2. n \in Version => n \in Dropped(n)
    BY MigrationsAssumption DEF Dropped, Version
  <2> QED BY <1>1, <2>1, <2>2 DEF RunsOK
<1> QED BY <1>1, <1>2, <1>3
        DEF MNext, MStep, Start, Check, ApplyFails, Killed, RollbackBegins, RollbackKilled

\* migrate.go, Migrate: "applies every pending .sql file exactly once": no file runs
\* again before it was undone, for any number of instances that start together, and
\* also while rollbacks run.
THEOREM AppliedOnceAlways == MSpec => []AppliedOnce
<1>1. MInit => OnceInv
  <2> SUFFICES ASSUME MInit PROVE OnceInv OBVIOUS
  <2>1. [pc |-> "down", at |-> 0] \in Inst BY DEF Inst
  <2>2. inst \in [Instances -> Inst] /\ \A i \in Instances : inst[i].pc = "down"
    BY <2>1 DEF MInit
  <2> QED BY <2>2 DEF MInit, OnceInv, PlacesOK, RunsOK
<1>2. OnceInv /\ [MNext]_mVars => OnceInv'
  <2>1. OnceInv /\ UNCHANGED mVars => OnceInv'
    BY DEF OnceInv, mVars, PlacesOK, RunsOK
  <2> QED BY <2>1, StepPlaces, StepRuns DEF OnceInv
<1>3. OnceInv => AppliedOnce BY DEF OnceInv, RunsOK, AppliedOnce
<1> QED BY <1>1, <1>2, <1>3, PTL DEF MSpec

-----------------------------------------------------------------------------
(* The schema and its record, when no instance starts while a rollback runs    *)

\* The files up to some c, and no others, are applied and recorded.
UpTo(c) == recorded = 1..c /\ schema = 1..c

\* A rollback under way undoes the files from the last one down, and no instance
\* migrates meanwhile.
RollsDown ==
  /\ roll \in Seq(Version)
  /\ roll # <<>> => /\ \A i \in Instances : ~Migrating(i)
                    /\ UpTo(roll[1])
                    /\ \A p \in DOMAIN roll : roll[p] = roll[1] + 1 - p

SchemaInv == (\E c \in 0..Files : UpTo(c)) /\ RollsDown

\* migrate.go, Rollback: of files 1 to c, the query returns the last k, newest first.
LEMMA NewestFirstFacts ==
  ASSUME NEW c \in Nat, NEW k \in Nat
  PROVE  LET s == NewestFirst(1..c, k) IN
         /\ s \in Seq(1..c)
         /\ \A p \in DOMAIN s : s[p] = c + 1 - p
<1> DEFINE rank(n) == Cardinality({m \in 1..c : m > n}) + 1
           count == IF k < Cardinality(1..c) THEN k ELSE Cardinality(1..c)
<1>1. Cardinality(1..c) = c BY FS_Interval
<1>2. ASSUME NEW n \in 1..c PROVE rank(n) = c + 1 - n
  <2>1. {m \in 1..c : m > n} = (n + 1)..c OBVIOUS
  <2>2. n + 1 \in Int /\ c \in Int OBVIOUS
  <2>3. Cardinality((n + 1)..c) = IF n + 1 > c THEN 0 ELSE c - (n + 1) + 1
    BY <2>2, FS_Interval
  <2>4. rank(n) = Cardinality((n + 1)..c) + 1 BY <2>1
  <2>5. Cardinality((n + 1)..c) = c - n BY <2>3
  <2> HIDE DEF rank
  <2> QED BY <2>4, <2>5
<1>3. count \in Nat /\ count <= c BY <1>1
<1>4. ASSUME NEW p \in 1..count PROVE (CHOOSE n \in 1..c : rank(n) = p) = c + 1 - p
  <2>1. c + 1 - p \in 1..c BY <1>3
  <2>2. rank(c + 1 - p) = p BY <2>1, <1>2, <1>3
  <2>3. \A n \in 1..c : rank(n) = p => n = c + 1 - p BY <1>2, <1>3
  <2> HIDE DEF rank
  <2> QED BY <2>1, <2>2, <2>3
<1>5. NewestFirst(1..c, k) = [p \in 1..count |-> CHOOSE n \in 1..c : rank(n) = p]
  BY DEF NewestFirst
<1> HIDE DEF rank, count
<1>6. \A p \in 1..count : c + 1 - p \in 1..c BY <1>3
<1>7. NewestFirst(1..c, k) = [p \in 1..count |-> c + 1 - p] BY <1>4, <1>5
<1> QED BY <1>3, <1>6, <1>7

\* migrate.go: what one step does to the schema and to its record.
LEMMA StepSchema ==
  ASSUME ~Overlap, PlacesOK, SchemaInv, MNext
  PROVE  SchemaInv'
<1>0. Files \in Nat /\ Steps \in Nat BY MigrationsAssumption
<1>c. PICK c \in 0..Files : UpTo(c) BY DEF SchemaInv
<1>1. ASSUME NEW i \in Instances, Start(i) PROVE SchemaInv'
  BY <1>1, <1>c DEF Start, SchemaInv, RollsDown, UpTo, db
<1>2. ASSUME NEW i \in Instances, Check(i) \/ ApplyFails(i) PROVE SchemaInv'
  <2>1. Migrating(i) /\ UNCHANGED <<recorded, schema, roll>>
    BY <1>2 DEF Check, ApplyFails, Migrating, db
  <2>2. roll = <<>> BY <2>1 DEF SchemaInv, RollsDown
  <2> QED BY <2>1, <2>2, <1>c DEF SchemaInv, RollsDown, UpTo
<1>3. ASSUME NEW i \in Instances, Apply(i) PROVE SchemaInv'
  <2>0. PICK n \in Version : n = inst[i].at BY <1>3 DEF Apply, PlacesOK
  <2>1. /\ Migrating(i) /\ n \notin recorded /\ 1..(n - 1) \subseteq schema
        /\ schema' = schema \cup {n} /\ recorded' = recorded \cup {n} /\ UNCHANGED roll
    BY <1>3, <2>0 DEF Apply, upMigrations, MayRecord, RunUp, Builds, Migrating
  <2>2. roll = <<>> BY <2>1 DEF SchemaInv, RollsDown
  <2>3. n = c + 1
    <3>1. n \in Nat /\ n >= 1 /\ c \in Nat /\ ~(n <= c)
      BY <2>1, <1>c, <1>0 DEF UpTo, Version
    <3>2. n - 1 <= c
      <4>1. CASE n = 1 BY <4>1, <3>1
      <4>2. CASE n # 1
        <5>1. n - 1 \in 1..(n - 1) BY <4>2, <3>1
        <5>2. n - 1 \in 1..c BY <5>1, <2>1, <1>c DEF UpTo
        <5> QED BY <5>2, <3>1
      <4> QED BY <4>1, <4>2
    <3> QED BY <3>1, <3>2
  <2>4. (1..c) \cup {n} = 1..n BY <2>3
  <2>5. n \in 0..Files /\ UpTo(n)'
    BY <2>1, <2>4, <1>c, <1>0 DEF UpTo, Version
  <2> QED BY <2>1, <2>2, <2>5 DEF SchemaInv, RollsDown
<1>4. ASSUME NEW i \in Instances, Killed(i) PROVE SchemaInv'
  <2>1. UNCHANGED <<recorded, schema, roll>> BY <1>4 DEF Killed, db
  <2>2. \A j \in Instances : ~Migrating(j) => ~Migrating(j)'
    BY <1>4 DEF Killed, PlacesOK, Migrating
  <2> QED BY <2>1, <2>2, <1>c DEF SchemaInv, RollsDown, UpTo
<1>5. CASE RollbackBegins
  <2>1. /\ roll' = NewestFirst(1..c, Steps) /\ UNCHANGED <<recorded, schema, inst>>
        /\ \A i \in Instances : ~Migrating(i)
    BY <1>5, <1>c DEF RollbackBegins, db, UpTo
  <2>2. roll' \in Seq(1..c) /\ \A p \in DOMAIN roll' : roll'[p] = c + 1 - p
    BY <2>1, <1>0, NewestFirstFacts
  <2>3. 1..c \subseteq Version BY <1>0 DEF Version
  <2>4. roll' \in Seq(Version) BY <2>2, <2>3
  <2>5. roll' # <<>> => 1 \in DOMAIN roll' /\ roll'[1] = c BY <2>2
  <2>6. \A i \in Instances : ~Migrating(i)' BY <2>1 DEF Migrating
  <2> QED BY <2>1, <2>2, <2>4, <2>5, <2>6, <1>c DEF SchemaInv, RollsDown, UpTo
<1>6. CASE RollbackOne
  <2>1. roll # <<>> /\ roll \in Seq(Version) BY <1>6 DEF RollbackOne, SchemaInv, RollsDown
  <2>2. Head(roll) = roll[1] /\ roll[1] \in Version /\ 1 \in DOMAIN roll BY <2>1
  <2>n. PICK n \in Version : n = roll[1] BY <2>2
  <2>3. /\ \A i \in Instances : ~Migrating(i)
        /\ recorded = 1..n /\ schema = 1..n
        /\ \A p \in DOMAIN roll : roll[p] = n + 1 - p
    BY <2>1, <2>n DEF SchemaInv, RollsDown, UpTo
  <2>4. n \in Version BY <2>n
  <2>5. Builds(n) \subseteq schema BY <2>3, <2>4 DEF Builds, Version
  <2>6. /\ schema' = schema \ Dropped(n) /\ recorded' = recorded \ {n}
        /\ roll' = Tail(roll) /\ UNCHANGED inst
    BY <1>6, <2>2, <2>n, <2>5 DEF RollbackOne
  <2>7. n - 1 \in 0..Files /\ UpTo(n - 1)'
    BY <2>3, <2>4, <2>6, <1>0 DEF UpTo, Dropped, Version
  <2>8. roll' \in Seq(Version) BY <2>1, <2>6
  <2>9. /\ DOMAIN roll' = 1..(Len(roll) - 1) /\ Len(roll) \in Nat
        /\ \A p \in DOMAIN roll' : roll'[p] = roll[p + 1] /\ p + 1 \in DOMAIN roll
    BY <2>1, <2>6
  <2>10. \A p \in DOMAIN roll' : roll'[p] = (n - 1) + 1 - p
    BY <2>3, <2>4, <2>9 DEF Version
  <2>11. roll' # <<>> => 1 \in DOMAIN roll' BY <2>8
  <2>12. roll' # <<>> => roll'[1] = n - 1 BY <2>4, <2>10, <2>11 DEF Version
  <2>13. \A i \in Instances : ~Migrating(i)' BY <2>3, <2>6 DEF Migrating
  <2> QED BY <2>7, <2>8, <2>10, <2>12, <2>13 DEF SchemaInv, RollsDown
<1>7. CASE RollbackKilled
  BY <1>7, <1>c DEF RollbackKilled, db, SchemaInv, RollsDown, UpTo
<1> QED BY <1>1, <1>2, <1>3, <1>4, <1>5, <1>6, <1>7 DEF MNext, MStep

\* migrate.go: the invariant holds at all times.
LEMMA SchemaInvariance ==
  ASSUME ~Overlap
  PROVE  MSpec => [](PlacesOK /\ SchemaInv)
<1>1. MInit => PlacesOK /\ SchemaInv
  <2> SUFFICES ASSUME MInit PROVE PlacesOK /\ SchemaInv OBVIOUS
  <2>1. [pc |-> "down", at |-> 0] \in Inst BY DEF Inst
  <2>2. inst \in [Instances -> Inst] /\ \A i \in Instances : inst[i].pc = "down"
    BY <2>1 DEF MInit
  <2>3. 0 \in 0..Files /\ 1..0 = {} BY MigrationsAssumption
  <2>4. UpTo(0) BY <2>3 DEF UpTo, MInit
  <2> QED BY <2>2, <2>3, <2>4 DEF MInit, PlacesOK, SchemaInv, RollsDown
<1>2. PlacesOK /\ SchemaInv /\ [MNext]_mVars => (PlacesOK /\ SchemaInv)'
  <2>1. PlacesOK /\ SchemaInv /\ UNCHANGED mVars => (PlacesOK /\ SchemaInv)'
    BY DEF mVars, PlacesOK, SchemaInv, RollsDown, UpTo, Migrating
  <2> QED BY <2>1, StepPlaces, StepSchema
<1> QED BY <1>1, <1>2, PTL DEF MSpec

\* migrate.go, runMigration: "so the schema and schema_migrations can never disagree",
\* for any number of instances that race each other, wherever a process is killed,
\* as long as no instance starts while a rollback runs.
THEOREM SchemaAgreesAlways ==
  ASSUME ~Overlap
  PROVE  MSpec => []SchemaAgrees
<1>1. SchemaInv => SchemaAgrees BY DEF SchemaInv, UpTo, SchemaAgrees
<1> QED BY <1>1, SchemaInvariance, PTL

\* migrate.go, Migrate and Rollback: under the same condition, what is recorded is
\* always an initial part of the files.
THEOREM AppliedInOrderAlways ==
  ASSUME ~Overlap
  PROVE  MSpec => []AppliedInOrder
<1>1. SchemaInv => AppliedInOrder
  <2> SUFFICES ASSUME SchemaInv, NEW n \in recorded PROVE Builds(n) \subseteq recorded
    BY DEF AppliedInOrder
  <2>1. PICK c \in 0..Files : recorded = 1..c BY DEF SchemaInv, UpTo
  <2> QED BY <2>1, MigrationsAssumption DEF Builds
<1> QED BY <1>1, SchemaInvariance, PTL
=============================================================================

----------------------------- MODULE Migrations -----------------------------
(* Store.Migrate, run by every API instance when it starts, and                *)
(* Store.Rollback, run by hand (cmd/api --rollback).  Files are numbered in    *)
(* filename order.                                                             *)
EXTENDS Naturals, Sequences, FiniteSets

CONSTANTS Instances,      \* API processes; a started one may be started again
          Files,          \* the number of up migrations
          Steps,          \* the argument of --rollback
          MaxRollbacks,   \* bound: rollbacks in one behaviour
          MaxCrashes,     \* bound: processes killed in one behaviour
          Overlap         \* may an instance start while a rollback runs?

ASSUME MigrationsAssumption == /\ Files \in Nat /\ Steps \in Nat \ {0}
                               /\ MaxRollbacks \in Nat /\ MaxCrashes \in Nat
                               /\ Overlap \in BOOLEAN

VARIABLES recorded,    \* the versions in schema_migrations
          schema,      \* the files whose effect the schema has
          runs,        \* history: how often a file was applied since it was undone
          inst,        \* each instance: what it does and its place in the files
          roll,        \* the rollback under way: the versions it will undo
          rollbacks, crashes

mVars == <<recorded, schema, runs, inst, roll, rollbacks, crashes>>
db == <<recorded, schema, runs>>

Version == 1..Files

\* What file n builds on: the tables and columns of the files before it.
Builds(n) == 1..(n - 1)

\* down.sql of n drops what n created and, with it, what was built on that.
Dropped(n) == n..Files

MInit == /\ recorded = {} /\ schema = {} /\ runs = [n \in Version |-> 0]
         /\ inst = [i \in Instances |-> [pc |-> "down", at |-> 0]]
         /\ roll = <<>> /\ rollbacks = 0 /\ crashes = 0

Migrating(i) == inst[i].pc \in {"check", "apply"}

-----------------------------------------------------------------------------
(* Migrate *)

\* cmd/api main: ensureMigrationsTable, then the files from the first on.
Start(i) ==
  /\ inst[i].pc = "down" /\ (Overlap \/ roll = <<>>)
  /\ inst' = [inst EXCEPT ![i] = [pc |-> "check", at |-> 1]]
  /\ UNCHANGED <<db, roll, rollbacks, crashes>>

\* Mutant: the files are not sorted.
upMigrations_Unsorted(p) == Files + 1 - p

\* upMigrations: the p-th file; they are sorted by name, and down files left out.
upMigrations(p) == p

\* Mutant: a file that is applied already is applied again.
Check_NotSkipping(i) ==
  /\ inst[i].pc = "check"
  /\ LET p == inst[i].at IN
     inst' = [inst EXCEPT ![i] = IF p > Files THEN [pc |-> "ready", at |-> 0]
                                 ELSE [pc |-> "apply", at |-> p]]
  /\ UNCHANGED <<db, roll, rollbacks, crashes>>

\* SELECT EXISTS: the next file is applied already, or must be; or that was all.
Check(i) ==
  /\ inst[i].pc = "check"
  /\ LET p == inst[i].at IN
     inst' = [inst EXCEPT ![i] =
       IF p > Files THEN [pc |-> "ready", at |-> 0]
       ELSE IF upMigrations(p) \in recorded THEN [pc |-> "check", at |-> p + 1]
       ELSE [pc |-> "apply", at |-> p]]
  /\ UNCHANGED <<db, roll, rollbacks, crashes>>

\* Mutant: the INSERT is "ON CONFLICT DO NOTHING".
MayRecord_Twice(n) == TRUE

\* The primary key of schema_migrations.
MayRecord(n) == n \notin recorded

\* Mutant: the body is committed before the row is inserted, which may then fail.
RunUp_NoTransaction(n) ==
  /\ schema' = schema \cup {n}
  /\ runs' = [runs EXCEPT ![n] = @ + 1]
  /\ recorded' = recorded \cup {n} \/ UNCHANGED recorded

\* runMigration(up): the body and the row in one transaction.
RunUp(n) ==
  /\ schema' = schema \cup {n}
  /\ runs' = [runs EXCEPT ![n] = @ + 1]
  /\ recorded' = recorded \cup {n}

Apply(i) ==
  /\ inst[i].pc = "apply"
  /\ LET n == upMigrations(inst[i].at) IN
     Builds(n) \subseteq schema /\ MayRecord(n) /\ RunUp(n)
  /\ inst' = [inst EXCEPT ![i] = [pc |-> "check", at |-> @.at + 1]]
  /\ UNCHANGED <<roll, rollbacks, crashes>>

\* The transaction fails and is rolled back; main exits with an error.
ApplyFails(i) ==
  /\ inst[i].pc = "apply"
  /\ LET n == upMigrations(inst[i].at) IN ~(Builds(n) \subseteq schema /\ MayRecord(n))
  /\ inst' = [inst EXCEPT ![i] = [pc |-> "down", at |-> 0]]
  /\ UNCHANGED <<db, roll, rollbacks, crashes>>

-----------------------------------------------------------------------------
(* Rollback *)

\* Mutant: ORDER BY version without DESC.
NewestFirst_Oldest(S, k) ==
  LET rank(n) == Cardinality({m \in S : m < n}) + 1
      count == IF k < Cardinality(S) THEN k ELSE Cardinality(S)
  IN [p \in 1..count |-> CHOOSE n \in S : rank(n) = p]

\* SELECT version ... ORDER BY version DESC LIMIT k.
NewestFirst(S, k) ==
  LET rank(n) == Cardinality({m \in S : m > n}) + 1
      count == IF k < Cardinality(S) THEN k ELSE Cardinality(S)
  IN [p \in 1..count |-> CHOOSE n \in S : rank(n) = p]

\* The versions are read once, before any is undone.
RollbackBegins ==
  /\ roll = <<>> /\ rollbacks < MaxRollbacks
  /\ Overlap \/ \A i \in Instances : ~Migrating(i)
  /\ roll' = NewestFirst(recorded, Steps)
  /\ rollbacks' = rollbacks + 1
  /\ UNCHANGED <<db, inst, crashes>>

\* runMigration(down), one transaction per version; DELETE of a row that is gone is
\* no error, ALTER TABLE of a table that is gone is one, and ends the rollback.
RollbackOne ==
  /\ roll # <<>>
  /\ LET n == Head(roll) IN
     IF n = 1 \/ Builds(n) \subseteq schema
       THEN /\ schema' = schema \ Dropped(n)
            /\ runs' = [k \in Version |-> IF k \in Dropped(n) THEN 0 ELSE runs[k]]
            /\ recorded' = recorded \ {n}
            /\ roll' = Tail(roll)
       ELSE roll' = <<>> /\ UNCHANGED db
  /\ UNCHANGED <<inst, rollbacks, crashes>>

-----------------------------------------------------------------------------
(* Processes are killed between two statements.                                *)

Killed(i) == /\ crashes < MaxCrashes /\ crashes' = crashes + 1
             /\ inst[i].pc # "down"
             /\ inst' = [inst EXCEPT ![i] = [pc |-> "down", at |-> 0]]
             /\ UNCHANGED <<db, roll, rollbacks>>

RollbackKilled == /\ crashes < MaxCrashes /\ crashes' = crashes + 1
                  /\ roll # <<>> /\ roll' = <<>>
                  /\ UNCHANGED <<db, inst, rollbacks>>

MStep(i) == Check(i) \/ Apply(i) \/ ApplyFails(i)

MNext == \/ \E i \in Instances : Start(i) \/ MStep(i) \/ Killed(i)
         \/ RollbackBegins \/ RollbackOne \/ RollbackKilled

\* A process that runs goes on.  Nobody has to start one, or to start it again when it
\* exited with an error: main does not retry, and docker-compose.yml has no restart
\* policy for the API.
MSpec == MInit /\ [][MNext]_mVars /\ \A i \in Instances : WF_mVars(MStep(i))

-----------------------------------------------------------------------------
(* Properties *)

\* migrate.go, runMigration: "so the schema and schema_migrations can never
\* disagree".
SchemaAgrees == recorded = schema

\* migrate.go, Migrate and Rollback: files are applied in order and undone newest
\* first, so what is recorded is always an initial part of the files.
AppliedInOrder == \A n \in recorded : Builds(n) \subseteq recorded

\* migrate.go, Migrate: "applies every pending .sql file exactly once", however
\* many instances start together.
AppliedOnce == \A n \in Version : runs[n] <= 1

\* cmd/api main; migrate.go, Migrate: an instance that finds a file applied under its
\* hands exits and stays down, but they never all do.  Wherever a kill left the schema,
\* when an instance looks for its next file and nobody is killed from then on, that
\* instance or one that overtook it gets ready, with the whole schema.
RaceHasAWinner ==
  \A k \in 0..MaxCrashes :
    (\E i \in Instances : inst[i].pc = "check") /\ crashes = k
      ~> (recorded = Version /\ \E i \in Instances : inst[i].pc = "ready") \/ crashes > k
=============================================================================

------------------------------ MODULE FileProofs -----------------------------
(***************************************************************************)
(* Proofs about the database file: it is never left half-migrated and      *)
(* never loses a job, for any number of openers and inspectors and any     *)
(* number of faults; and the copy that backup makes of it is of a single   *)
(* committed state, for any number of pages and any size of the steps.     *)
(***************************************************************************)
EXTENDS Migrations, Backup, TLAPS

(* Opening and migrating *)

\* The shape of a database file.
IsFile(file) ==
    /\ file = [schema_migrations |-> file.schema_migrations, layout |-> file.layout,
               jobs |-> file.jobs]
    /\ file.layout \in Nat
    /\ file.schema_migrations = [v \in DOMAIN file.schema_migrations |->
                                     file.schema_migrations[v]]

OpenerStages ==
    {"closed", "failed", "refused", "check", "begin", "execute", "record", "commit", "open"}

\* Past the check for a newer schema.
Admitted(o) == opener[o].pc \in {"check", "begin", "execute", "record", "commit", "open"}

\* Inside the transaction of one migration.
InTransaction(o) == opener[o].pc \in {"execute", "record", "commit"}

\* An admitted opener has found every migration before its own applied with
\* this build's SQL, and nobody undoes that.
Verified(o) ==
    Admitted(o) =>
        /\ db.layout <= Supported
        /\ \A v \in 1 .. opener[o].at - 1 :
              v <= db.layout /\ db.schema_migrations[v] = Checksum(v)

\* What the transaction of an opener would commit is the file with as much of
\* its migration as has run.
Prepared(o) ==
    LET v == opener[o].at IN
    /\ opener[o].pc = "execute" => tx = [by |-> o, db |-> db]
    /\ opener[o].pc = "record" => /\ CanExecute(v, db)
                                  /\ tx = [by |-> o, db |-> RunMigration(v, db)]
    /\ opener[o].pc = "commit" => /\ CanExecute(v, db)
                                  /\ v \notin DOMAIN db.schema_migrations
                                  /\ tx = [by |-> o, db |-> Recorded(v, RunMigration(v, db))]

OpenerOK(o) ==
    /\ opener[o].pc \in OpenerStages
    /\ opener[o].at \in 1 .. Supported + 1
    /\ opener[o].pc = "begin" \/ InTransaction(o) => opener[o].at <= Supported
    /\ opener[o].pc = "open" => opener[o].at = Supported + 1
    /\ Verified(o)
    /\ Prepared(o)

\* The inductive invariant of opening.
MigrationInv ==
    /\ IsFile(db)
    /\ NeverHalfApplied
    /\ opener \in [Openers -> [pc : OpenerStages, at : Nat]]
    /\ \A o \in Openers : OpenerOK(o)
    /\ InspectedIsCurrent

-----------------------------------------------------------------------------
\* At most one opener is inside a transaction.
LEMMA OneTransaction ==
    ASSUME MigrationInv, NEW o \in Openers, InTransaction(o)
    PROVE  /\ tx.by = o /\ tx # NoTransaction
           /\ \A x \in Openers : InTransaction(x) => x = o
<1>1. \A x \in Openers : InTransaction(x) => tx.by = x
  BY DEF MigrationInv, OpenerOK, Prepared, InTransaction
<1>2. tx # NoTransaction
  BY <1>1, OpenerAssumption DEF NoTransaction
<1> QED
  BY <1>1, <1>2

\* What one complete migration makes of a file.
LEMMA MigratedFile ==
    ASSUME NEW file, IsFile(file), DOMAIN file.schema_migrations = 1 .. file.layout,
           NEW v \in 1 .. Supported, CanExecute(v, file), v \notin DOMAIN file.schema_migrations
    PROVE  LET new == Recorded(v, RunMigration(v, file)) IN
           /\ IsFile(new)
           /\ file.layout = v - 1 /\ new.layout = v
           /\ DOMAIN new.schema_migrations = 1 .. v
           /\ \A u \in 1 .. v - 1 : new.schema_migrations[u] = file.schema_migrations[u]
           /\ new.schema_migrations[v] = Checksum(v)
           /\ new.jobs = file.jobs
<1> DEFINE run == RunMigration(v, file)
           new == Recorded(v, run)
           rows == file.schema_migrations
<1>1. v \in {1, 2}
  BY DEF Supported
<1>2. file.layout = v - 1
  BY <1>1 DEF CanExecute, IsFile
<1>3. run = [schema_migrations |-> rows, layout |-> v, jobs |-> file.jobs]
  BY DEF RunMigration, IsFile
<1>4. new = [schema_migrations |-> [u \in DOMAIN rows \cup {v} |->
                                        IF u = v THEN Checksum(u) ELSE rows[u]],
             layout |-> v, jobs |-> file.jobs]
  <2> HIDE DEF run, rows
  <2> DEFINE after == [u \in DOMAIN rows \cup {v} |-> IF u = v THEN Checksum(u) ELSE rows[u]]
  <2>1. run.schema_migrations = rows
    BY <1>3
  <2>2. new = [run EXCEPT !.schema_migrations = after]
    BY <2>1, Zenon DEF Recorded
  <2> HIDE DEF after, new
  <2>3. new = [schema_migrations |-> after, layout |-> v, jobs |-> file.jobs]
    BY <1>3, <2>2
  <2> QED
    BY <2>3 DEF after
<1>5. (1 .. v - 1) \cup {v} = 1 .. v /\ v \notin 1 .. v - 1 /\ v \in Nat
  BY <1>1
<1>6. DOMAIN rows = 1 .. v - 1
  BY <1>2
<1> HIDE DEF new, run
<1> QED
  BY <1>4, <1>5, <1>6, <1>2 DEF IsFile, new, run

-----------------------------------------------------------------------------
\* The committed file keeps every migration it has, with its checksum.
SchemaKept ==
    /\ db.layout <= db'.layout
    /\ db.layout <= Supported => db'.layout <= Supported
    /\ \A v \in 1 .. db.layout : db'.schema_migrations[v] = db.schema_migrations[v]

\* What a step of one opener leaves to the others: the file and the transaction
\* as they are, or, if none of the others is inside a transaction, a file
\* with at least their migrations.
LEMMA OthersKept ==
    ASSUME MigrationInv, NEW o \in Openers,
           \A x \in Openers \ {o} : opener'[x] = opener[x],
           IsFile(db'), SchemaKept,
           UNCHANGED <<db, tx>> \/ \A x \in Openers \ {o} : ~InTransaction(x)
    PROVE  \A x \in Openers \ {o} : OpenerOK(x)'
<1> SUFFICES ASSUME NEW x \in Openers \ {o} PROVE OpenerOK(x)'
  OBVIOUS
<1>1. opener'[x] = opener[x] /\ OpenerOK(x)
  BY DEF MigrationInv
<1>2. /\ opener[x].pc \in OpenerStages /\ opener[x].at \in 1 .. Supported + 1
      /\ opener[x].pc = "begin" \/ InTransaction(x) => opener[x].at <= Supported
      /\ opener[x].pc = "open" => opener[x].at = Supported + 1
      /\ Verified(x) /\ Prepared(x)
  BY <1>1 DEF OpenerOK
<1>3. Verified(x)'
  <2>1. SUFFICES ASSUME Admitted(x)
                 PROVE  /\ db'.layout <= Supported
                        /\ \A v \in 1 .. opener[x].at - 1 :
                              v <= db'.layout /\ db'.schema_migrations[v] = Checksum(v)
    BY <1>1 DEF Verified, Admitted
  <2>2. /\ db.layout <= Supported
        /\ \A v \in 1 .. opener[x].at - 1 :
              v <= db.layout /\ db.schema_migrations[v] = Checksum(v)
    BY <1>2, <2>1 DEF Verified
  <2>3. db.layout \in Nat /\ db'.layout \in Nat
    BY DEF MigrationInv, IsFile
  <2> QED
    BY <1>2, <2>2, <2>3 DEF SchemaKept, Supported
<1>4. Prepared(x)'
  <2>1. CASE UNCHANGED <<db, tx>>
    BY <1>1, <1>2, <2>1 DEF Prepared
  <2>2. CASE ~InTransaction(x)
    BY <1>1, <2>2 DEF Prepared, InTransaction
  <2> QED
    BY <2>1, <2>2
<1> QED
  BY <1>1, <1>2, <1>3, <1>4 DEF OpenerOK, InTransaction

\* A step of an opener that leaves the committed file alone keeps the invariant
\* if it keeps the opener itself right and is not in the way of another's
\* transaction.
LEMMA QuietOpenerKeepsInv ==
    ASSUME MigrationInv, NEW o \in Openers, UNCHANGED <<db, inspector>>,
           NEW pc \in OpenerStages, NEW at \in Nat,
           opener' = [opener EXCEPT ![o] = [pc |-> pc, at |-> at]],
           UNCHANGED tx \/ \A x \in Openers \ {o} : ~InTransaction(x),
           OpenerOK(o)'
    PROVE  MigrationInv'
<1>1. /\ opener' \in [Openers -> [pc : OpenerStages, at : Nat]]
      /\ \A x \in Openers \ {o} : opener'[x] = opener[x]
  BY DEF MigrationInv
<1>2. IsFile(db') /\ SchemaKept /\ NeverHalfApplied' /\ InspectedIsCurrent'
  <2>1. db.layout \in Nat /\ db' = db /\ inspector' = inspector
    BY DEF MigrationInv, IsFile
  <2>2. IsFile(db') /\ NeverHalfApplied' /\ InspectedIsCurrent'
    BY <2>1 DEF MigrationInv, NeverHalfApplied, InspectedIsCurrent
  <2> QED
    BY <2>1, <2>2 DEF SchemaKept, Supported
<1>3. \A x \in Openers \ {o} : OpenerOK(x)'
  BY <1>1, <1>2, OthersKept
<1> QED
  BY <1>1, <1>2, <1>3 DEF MigrationInv

-----------------------------------------------------------------------------
(* One lemma per step *)

\* The stages by name.
LEMMA OpenerStagesNamed ==
    /\ "closed" \in OpenerStages /\ "failed" \in OpenerStages /\ "refused" \in OpenerStages
    /\ "check" \in OpenerStages /\ "begin" \in OpenerStages /\ "execute" \in OpenerStages
    /\ "record" \in OpenerStages /\ "commit" \in OpenerStages /\ "open" \in OpenerStages
BY DEF OpenerStages

\* ~TooNew bounds the layout.
LEMMA NotTooNew ==
    ASSUME MigrationInv
    PROVE  TooNew <=> db.layout > Supported
BY DEF MigrationInv, IsFile, NeverHalfApplied, TooNew, Supported

\* The row of an opener after a step.
LEMMA OpenerRow ==
    ASSUME MigrationInv, NEW o \in Openers, NEW pc, opener' = [opener EXCEPT ![o].pc = pc]
    PROVE  opener' = [opener EXCEPT ![o] = [pc |-> pc, at |-> opener[o].at]]
<1>1. opener[o] \in [pc : OpenerStages, at : Nat]
  BY DEF MigrationInv
<1>2. [opener[o] EXCEPT !.pc = pc] = [pc |-> pc, at |-> opener[o].at]
  BY <1>1
<1>3. opener' = [opener EXCEPT ![o] = [opener[o] EXCEPT !.pc = pc]]
  OBVIOUS
<1> QED
  BY <1>2, <1>3

\* Opening, and the check for a newer schema.
LEMMA OpenStoreKeepsInv ==
    ASSUME MigrationInv, NEW o \in Openers, OpenStore(o), UNCHANGED inspector
    PROVE  MigrationInv'
<1> DEFINE to == IF TooNew THEN "refused" ELSE "check"
<1>1. opener' = [opener EXCEPT ![o] = [pc |-> to, at |-> 1]] /\ UNCHANGED <<db, tx>>
  BY DEF OpenStore
<1>2. to \in OpenerStages /\ to \in {"refused", "check"} /\ (to = "check" => db.layout <= Supported)
  BY NotTooNew DEF OpenerStages, MigrationInv, IsFile, Supported
<1> HIDE DEF to
<1>3. opener'[o] = [pc |-> to, at |-> 1]
  BY <1>1 DEF MigrationInv
<1>4. OpenerOK(o)'
  BY <1>1, <1>2, <1>3 DEF OpenerOK, Verified, Admitted, Prepared, InTransaction, Supported
<1> QED
  BY <1>1, <1>2, <1>4, QuietOpenerKeepsInv

\* One turn of the loop over the migrations.
LEMMA CheckMigrationKeepsInv ==
    ASSUME MigrationInv, NEW o \in Openers, CheckMigration(o), UNCHANGED inspector
    PROVE  MigrationInv'
<1> DEFINE v == opener[o].at
           rows == db.schema_migrations
<1>1. /\ opener[o].pc = "check" /\ v \in 1 .. Supported + 1 /\ Verified(o)
      /\ db.layout \in Nat /\ DOMAIN rows = 1 .. db.layout /\ UNCHANGED <<db, tx>>
  BY DEF CheckMigration, MigrationInv, OpenerOK, NeverHalfApplied, IsFile
<1>2. /\ db.layout <= Supported
      /\ \A u \in 1 .. v - 1 : u <= db.layout /\ rows[u] = Checksum(u)
  BY <1>1 DEF Verified, Admitted
<1>3. v \in Nat /\ v + 1 \in Nat
  BY <1>1
<1>4. CASE v > Supported
  <2>1. opener' = [opener EXCEPT ![o] = [pc |-> "open", at |-> v]]
    BY <1>1, <1>4, OpenerRow DEF CheckMigration, Goto, Supported
  <2>2. opener'[o] = [pc |-> "open", at |-> v]
    BY <2>1 DEF MigrationInv
  <2>3. OpenerOK(o)'
    BY <1>1, <1>2, <1>4, <2>2
       DEF OpenerOK, Verified, Admitted, Prepared, InTransaction, Supported, OpenerStages
  <2> QED
    BY <1>1, <1>3, <2>1, <2>3, QuietOpenerKeepsInv, OpenerStagesNamed
<1>5. CASE v <= Supported /\ v \notin DOMAIN rows
  <2>1. opener' = [opener EXCEPT ![o] = [pc |-> "begin", at |-> v]]
    BY <1>1, <1>5, OpenerRow DEF CheckMigration, Goto, Supported
  <2>2. opener'[o] = [pc |-> "begin", at |-> v]
    BY <2>1 DEF MigrationInv
  <2>3. OpenerOK(o)'
    BY <1>1, <1>2, <1>5, <2>2
       DEF OpenerOK, Verified, Admitted, Prepared, InTransaction, Supported, OpenerStages
  <2> QED
    BY <1>1, <1>3, <2>1, <2>3, QuietOpenerKeepsInv, OpenerStagesNamed
<1>6. CASE v <= Supported /\ v \in DOMAIN rows /\ rows[v] = Checksum(v)
  <2>1. opener' = [opener EXCEPT ![o] = [pc |-> "check", at |-> v + 1]]
    <3>1. opener' = [opener EXCEPT ![o].at = v + 1]
      BY <1>1, <1>6 DEF CheckMigration, Supported
    <3>2. opener[o] \in [pc : OpenerStages, at : Nat]
      BY DEF MigrationInv
    <3>3. [opener[o] EXCEPT !.at = v + 1] = [pc |-> "check", at |-> v + 1]
      BY <1>1, <3>2
    <3> QED
      BY <3>1, <3>3
  <2>2. opener'[o] = [pc |-> "check", at |-> v + 1]
    BY <2>1 DEF MigrationInv
  <2>3. \A u \in 1 .. (v + 1) - 1 : u <= db.layout /\ rows[u] = Checksum(u)
    BY <1>1, <1>2, <1>6
  <2>4. OpenerOK(o)'
    BY <1>1, <1>2, <1>6, <2>2, <2>3
       DEF OpenerOK, Verified, Admitted, Prepared, InTransaction, Supported, OpenerStages
  <2> QED
    BY <1>1, <1>3, <2>1, <2>4, QuietOpenerKeepsInv, OpenerStagesNamed
<1>7. CASE v <= Supported /\ v \in DOMAIN rows /\ rows[v] # Checksum(v)
  <2>1. opener' = [opener EXCEPT ![o] = [pc |-> "refused", at |-> v]]
    BY <1>1, <1>7, OpenerRow DEF CheckMigration, Goto, Supported
  <2>2. opener'[o] = [pc |-> "refused", at |-> v]
    BY <2>1 DEF MigrationInv
  <2>3. OpenerOK(o)'
    BY <1>1, <1>7, <2>2
       DEF OpenerOK, Verified, Admitted, Prepared, InTransaction, Supported, OpenerStages
  <2> QED
    BY <1>1, <1>3, <2>1, <2>3, QuietOpenerKeepsInv, OpenerStagesNamed
<1>8. v > Supported \/ v <= Supported
  BY <1>1 DEF Supported
<1> QED
  BY <1>4, <1>5, <1>6, <1>7, <1>8

\* BEGIN IMMEDIATE gets the lock.
LEMMA BeginKeepsInv ==
    ASSUME MigrationInv, NEW o \in Openers, BeginMigration(o), UNCHANGED inspector
    PROVE  MigrationInv'
<1> DEFINE v == opener[o].at
<1>1. /\ opener[o].pc = "begin" /\ v \in 1 .. Supported + 1 /\ v <= Supported /\ Verified(o)
      /\ UNCHANGED db /\ tx' = [by |-> o, db |-> db]
  BY DEF BeginMigration, MigrationInv, OpenerOK
<1>2. v \in Nat
  BY <1>1
<1>3. opener' = [opener EXCEPT ![o] = [pc |-> "execute", at |-> v]]
  BY OpenerRow DEF BeginMigration, Goto
<1>4. opener'[o] = [pc |-> "execute", at |-> v]
  BY <1>3 DEF MigrationInv
<1>5. \A x \in Openers \ {o} : ~InTransaction(x)
  BY OneTransaction DEF BeginMigration
<1>6. OpenerOK(o)'
  BY <1>1, <1>4, OpenerStagesNamed DEF OpenerOK, Verified, Admitted, Prepared, InTransaction
<1> QED
  BY <1>1, <1>2, <1>3, <1>5, <1>6, QuietOpenerKeepsInv, OpenerStagesNamed

\* An opener that gives up, or dies, holds no transaction any more.
LEMMA GiveUpKeepsInv ==
    ASSUME MigrationInv, NEW o \in Openers, UNCHANGED <<db, inspector>>,
           NEW pc \in {"failed", "closed"}, Goto(o, pc),
           UNCHANGED tx \/ \A x \in Openers \ {o} : ~InTransaction(x)
    PROVE  MigrationInv'
<1> DEFINE v == opener[o].at
<1>1. v \in 1 .. Supported + 1
  BY DEF MigrationInv, OpenerOK
<1>2. v \in Nat /\ pc \in OpenerStages
  BY <1>1 DEF OpenerStages
<1>3. opener' = [opener EXCEPT ![o] = [pc |-> pc, at |-> v]]
  BY OpenerRow DEF Goto
<1>4. opener'[o] = [pc |-> pc, at |-> v]
  BY <1>3 DEF MigrationInv
<1>5. OpenerOK(o)'
  BY <1>1, <1>2, <1>4 DEF OpenerOK, Verified, Admitted, Prepared, InTransaction
<1> QED
  BY <1>2, <1>3, <1>5, QuietOpenerKeepsInv

\* The SQL of a migration runs, or fails and is rolled back.
LEMMA ExecuteKeepsInv ==
    ASSUME MigrationInv, NEW o \in Openers, ExecuteBatch(o), UNCHANGED inspector
    PROVE  MigrationInv'
<1> DEFINE v == opener[o].at
<1>1. /\ opener[o].pc = "execute" /\ v \in 1 .. Supported + 1 /\ v <= Supported /\ Verified(o)
      /\ tx = [by |-> o, db |-> db]
  BY DEF ExecuteBatch, MigrationInv, OpenerOK, Prepared, InTransaction
<1>2. v \in Nat /\ \A x \in Openers \ {o} : ~InTransaction(x)
  BY <1>1, OneTransaction DEF InTransaction
<1>3. CASE CanExecute(v, tx.db)
  <2>1. UNCHANGED db /\ tx' = [by |-> o, db |-> RunMigration(v, db)] /\ CanExecute(v, db)
    BY <1>1, <1>3 DEF ExecuteBatch
  <2>2. opener' = [opener EXCEPT ![o] = [pc |-> "record", at |-> v]]
    BY <1>3, OpenerRow DEF ExecuteBatch, Goto
  <2>3. opener'[o] = [pc |-> "record", at |-> v]
    BY <2>2 DEF MigrationInv
  <2>4. OpenerOK(o)'
    BY <1>1, <2>1, <2>3, OpenerStagesNamed DEF OpenerOK, Verified, Admitted, Prepared, InTransaction
  <2> QED
    BY <1>2, <2>1, <2>2, <2>4, QuietOpenerKeepsInv, OpenerStagesNamed
<1>4. CASE ~CanExecute(v, tx.db)
  BY <1>2, <1>4, GiveUpKeepsInv DEF ExecuteBatch, FailMigration
<1> QED
  BY <1>3, <1>4

\* The migration is recorded, or its version is taken and all is rolled back.
LEMMA RecordKeepsInv ==
    ASSUME MigrationInv, NEW o \in Openers, RecordVersion(o), UNCHANGED inspector
    PROVE  MigrationInv'
<1> DEFINE v == opener[o].at
<1>1. /\ opener[o].pc = "record" /\ v \in 1 .. Supported + 1 /\ v <= Supported /\ Verified(o)
      /\ CanExecute(v, db) /\ tx = [by |-> o, db |-> RunMigration(v, db)]
  BY DEF RecordVersion, MigrationInv, OpenerOK, Prepared, InTransaction
<1>2. v \in Nat /\ \A x \in Openers \ {o} : ~InTransaction(x)
  BY <1>1, OneTransaction DEF InTransaction
<1>3. tx.db.schema_migrations = db.schema_migrations
  BY <1>1 DEF RunMigration, MigrationInv, IsFile
<1>4. CASE v \notin DOMAIN tx.db.schema_migrations
  <2>1. UNCHANGED db /\ tx' = [by |-> o, db |-> Recorded(v, RunMigration(v, db))]
    BY <1>1, <1>4 DEF RecordVersion
  <2>2. opener' = [opener EXCEPT ![o] = [pc |-> "commit", at |-> v]]
    BY <1>4, OpenerRow DEF RecordVersion, Goto
  <2>3. opener'[o] = [pc |-> "commit", at |-> v]
    BY <2>2 DEF MigrationInv
  <2>4. OpenerOK(o)'
    BY <1>1, <1>3, <1>4, <2>1, <2>3, OpenerStagesNamed
       DEF OpenerOK, Verified, Admitted, Prepared, InTransaction
  <2> QED
    BY <1>2, <2>1, <2>2, <2>4, QuietOpenerKeepsInv, OpenerStagesNamed
<1>5. CASE v \in DOMAIN tx.db.schema_migrations
  BY <1>2, <1>5, GiveUpKeepsInv DEF RecordVersion, FailMigration
<1> QED
  BY <1>4, <1>5

\* A lock timeout leaves the file alone.
LEMMA TimeoutKeepsInv ==
    ASSUME MigrationInv, NEW o \in Openers, BeginTimesOut(o), UNCHANGED inspector
    PROVE  MigrationInv'
BY GiveUpKeepsInv DEF BeginTimesOut

\* A crash rolls back at most the transaction of the opener that crashed.
LEMMA CrashKeepsInv ==
    ASSUME MigrationInv, NEW o \in Openers, CrashOpener(o), UNCHANGED inspector
    PROVE  MigrationInv'
<1>1. UNCHANGED tx \/ tx.by = o
  BY DEF CrashOpener
<1>2. tx.by = o => \A x \in Openers \ {o} : ~InTransaction(x)
  BY OneTransaction
<1> QED
  BY <1>1, <1>2, GiveUpKeepsInv DEF CrashOpener

\* What an opener about to commit would make of the file: its next migration,
\* complete, and nothing else.
LEMMA CommittedFile ==
    ASSUME MigrationInv, NEW o \in Openers, opener[o].pc = "commit", db' = tx.db
    PROVE  LET v == opener[o].at IN
           /\ v \in 1 .. Supported /\ db.layout = v - 1 /\ db'.layout = v
           /\ IsFile(db') /\ SchemaKept /\ NeverHalfApplied' /\ db'.jobs = db.jobs
           /\ \A u \in 1 .. v : db'.schema_migrations[u] = Checksum(u)
<1> DEFINE v == opener[o].at
           new == Recorded(v, RunMigration(v, db))
<1>1. /\ v \in 1 .. Supported /\ Verified(o) /\ CanExecute(v, db)
      /\ v \notin DOMAIN db.schema_migrations /\ tx = [by |-> o, db |-> new]
  BY DEF MigrationInv, OpenerOK, Prepared, InTransaction, Supported
<1>2. IsFile(db) /\ DOMAIN db.schema_migrations = 1 .. db.layout
  BY DEF MigrationInv, NeverHalfApplied
<1>3. db' = new
  BY <1>1
<1>4. /\ IsFile(new) /\ db.layout = v - 1 /\ new.layout = v
      /\ DOMAIN new.schema_migrations = 1 .. v
      /\ \A u \in 1 .. v - 1 : new.schema_migrations[u] = db.schema_migrations[u]
      /\ new.schema_migrations[v] = Checksum(v)
      /\ new.jobs = db.jobs
  BY <1>1, <1>2, MigratedFile
<1>5. \A u \in 1 .. v - 1 : db.schema_migrations[u] = Checksum(u)
  BY <1>1 DEF Verified, Admitted
<1> HIDE DEF new
<1>6. \A u \in 1 .. v : db'.schema_migrations[u] = Checksum(u)
  BY <1>1, <1>3, <1>4, <1>5
<1>7. SchemaKept
  BY <1>1, <1>3, <1>4 DEF SchemaKept, Supported
<1> QED
  BY <1>1, <1>3, <1>4, <1>6, <1>7 DEF NeverHalfApplied

\* COMMIT persists one whole migration, whether it is then reported as done
\* or as failed.
LEMMA PersistedKeepsInv ==
    ASSUME MigrationInv, NEW o \in Openers, opener[o].pc = "commit", db' = tx.db,
           tx' = NoTransaction, UNCHANGED inspector,
           \/ opener' = [opener EXCEPT ![o] = [pc |-> "check", at |-> opener[o].at + 1]]
           \/ opener' = [opener EXCEPT ![o] = [pc |-> "failed", at |-> opener[o].at]]
    PROVE  MigrationInv'
<1> DEFINE v == opener[o].at
<1>1. /\ v \in 1 .. Supported /\ db.layout = v - 1 /\ db'.layout = v
      /\ IsFile(db') /\ SchemaKept /\ NeverHalfApplied'
      /\ \A u \in 1 .. v : db'.schema_migrations[u] = Checksum(u)
  BY CommittedFile
<1>2. \A x \in Openers \ {o} : ~InTransaction(x)
  BY OneTransaction DEF InTransaction
<1>3. PICK pc \in {"check", "failed"}, at \in {v, v + 1} :
        /\ opener' = [opener EXCEPT ![o] = [pc |-> pc, at |-> at]]
        /\ pc = "check" => at = v + 1
  OBVIOUS
<1>4. at \in Nat /\ at \in 1 .. Supported + 1 /\ pc \in OpenerStages
  BY <1>1, <1>3 DEF Supported, OpenerStages
<1>5. /\ opener' \in [Openers -> [pc : OpenerStages, at : Nat]]
      /\ \A x \in Openers \ {o} : opener'[x] = opener[x]
      /\ opener'[o] = [pc |-> pc, at |-> at]
  BY <1>3, <1>4 DEF MigrationInv
<1>6. OpenerOK(o)'
  <2>1. Prepared(o)' /\ ~InTransaction(o)'
    BY <1>3, <1>5 DEF Prepared, InTransaction
  <2>2. Verified(o)'
    <3>1. pc = "check" => \A u \in 1 .. at - 1 :
              u <= db'.layout /\ db'.schema_migrations[u] = Checksum(u)
      BY <1>1, <1>3
    <3>2. db'.layout <= Supported
      BY <1>1 DEF Supported
    <3> QED
      BY <1>3, <1>5, <3>1, <3>2 DEF Verified, Admitted
  <2> QED
    BY <1>3, <1>4, <1>5, <2>1, <2>2 DEF OpenerOK
<1>7. \A x \in Openers \ {o} : OpenerOK(x)'
  BY <1>1, <1>2, <1>5, OthersKept
<1>8. InspectedIsCurrent'
  BY <1>1 DEF MigrationInv, InspectedIsCurrent, Supported
<1> QED
  BY <1>1, <1>5, <1>6, <1>7, <1>8 DEF MigrationInv

\* A successful COMMIT.
LEMMA CommitKeepsInv ==
    ASSUME MigrationInv, NEW o \in Openers, CommitMigration(o), UNCHANGED inspector
    PROVE  MigrationInv'
BY PersistedKeepsInv DEF CommitMigration

\* A COMMIT that reports an error, persisted or not.
LEMMA CommitFailsKeepsInv ==
    ASSUME MigrationInv, NEW o \in Openers, CommitFails(o), UNCHANGED inspector
    PROVE  MigrationInv'
<1>1. opener' = [opener EXCEPT ![o] = [pc |-> "failed", at |-> opener[o].at]]
  BY OpenerRow DEF CommitFails, Goto
<1>2. CASE db' = tx.db
  BY <1>1, <1>2, PersistedKeepsInv DEF CommitFails
<1>3. CASE db' = db
  <2>1. \A x \in Openers \ {o} : ~InTransaction(x)
    BY OneTransaction DEF InTransaction, CommitFails
  <2> QED
    BY <1>3, <2>1, GiveUpKeepsInv DEF CommitFails
<1> QED
  BY <1>2, <1>3 DEF CommitFails

\* A user of an open store changes the rows of jobs alone.
LEMMA UseKeepsInv ==
    ASSUME MigrationInv, NEW o \in Openers, UseStore(o), UNCHANGED inspector
    PROVE  MigrationInv' /\ db.jobs \subseteq db'.jobs
<1>1. PICK row \in GoodRows \ db.jobs : db' = [db EXCEPT !.jobs = @ \cup {row}]
  BY DEF UseStore
<1>2. db' = [schema_migrations |-> db.schema_migrations, layout |-> db.layout,
             jobs |-> db.jobs \cup {row}]
  BY <1>1 DEF MigrationInv, IsFile
<1>3. /\ db'.schema_migrations = db.schema_migrations /\ db'.layout = db.layout
      /\ db'.jobs = db.jobs \cup {row} /\ db.layout \in Nat
  BY <1>2 DEF MigrationInv, IsFile
<1>4. IsFile(db') /\ NeverHalfApplied' /\ InspectedIsCurrent'
  BY <1>2, <1>3 DEF MigrationInv, IsFile, NeverHalfApplied, InspectedIsCurrent
<1>5. SchemaKept
  BY <1>3 DEF SchemaKept, Supported
<1>6. \A x \in Openers : ~InTransaction(x)
  BY OneTransaction DEF UseStore
<1>7. opener' = opener
  BY DEF UseStore
<1>8. \A x \in Openers : OpenerOK(x)'
  <2>1. \A x \in Openers : Verified(x)' /\ Prepared(x)'
    BY <1>3, <1>6, <1>7 DEF MigrationInv, OpenerOK, Verified, Admitted, Prepared, InTransaction
  <2> QED
    BY <1>7, <2>1 DEF MigrationInv, OpenerOK, InTransaction
<1> QED
  BY <1>3, <1>4, <1>7, <1>8 DEF MigrationInv

\* An inspector is let in on the current schema only.
LEMMA InspectKeepsInv ==
    ASSUME MigrationInv, NEW i \in Inspectors, OpenExisting(i)
    PROVE  MigrationInv'
<1>1. RequireCurrent => db.layout = Supported
  BY NotTooNew DEF RequireCurrent, MigrationInv, NeverHalfApplied, IsFile, Supported
<1>2. InspectedIsCurrent'
  BY <1>1 DEF OpenExisting, openVars, MigrationInv, InspectedIsCurrent
<1>3. \A o \in Openers : OpenerOK(o)'
  BY DEF OpenExisting, openVars, MigrationInv, OpenerOK, Verified, Admitted, Prepared, InTransaction
<1> QED
  BY <1>2, <1>3 DEF OpenExisting, openVars, MigrationInv, NeverHalfApplied

-----------------------------------------------------------------------------
\* Whatever file an opener finds satisfies the invariant.
LEMMA InitMigration == MigrationsInit => MigrationInv
<1> SUFFICES ASSUME MigrationsInit PROVE MigrationInv
  OBVIOUS
<1>1. IsFile(db) /\ NeverHalfApplied
  BY FilesAssumption DEF MigrationsInit, IsFile, NeverHalfApplied
<1>2. opener \in [Openers -> [pc : OpenerStages, at : Nat]]
  BY OpenerStagesNamed DEF MigrationsInit
<1>3. \A o \in Openers : opener[o].pc = "closed" /\ opener[o].at = 1
  BY DEF MigrationsInit
<1>4. ASSUME NEW o \in Openers PROVE OpenerOK(o)
  <2>1. ~Admitted(o) /\ ~InTransaction(o)
    BY <1>3 DEF Admitted, InTransaction
  <2>2. Verified(o) /\ Prepared(o)
    BY <1>3, <2>1 DEF Verified, Prepared
  <2>3. opener[o].at \in 1 .. Supported + 1
    BY <1>3 DEF Supported
  <2> QED
    BY <1>3, <2>1, <2>2, <2>3, OpenerStagesNamed DEF OpenerOK
<1>5. InspectedIsCurrent
  BY DEF MigrationsInit, InspectedIsCurrent
<1> QED
  BY <1>1, <1>2, <1>4, <1>5 DEF MigrationInv

\* Every step keeps the invariant and every job.
LEMMA MigrationStep ==
    MigrationInv /\ [MigrationsNext]_migrationVars
        => MigrationInv' /\ [db.jobs \subseteq db'.jobs]_migrationVars
<1> SUFFICES ASSUME MigrationInv, [MigrationsNext]_migrationVars
             PROVE  MigrationInv' /\ db.jobs \subseteq db'.jobs
  OBVIOUS
<1>1. ASSUME NEW o \in Openers, UNCHANGED inspector, CommitMigration(o) \/ CommitFails(o)
      PROVE  MigrationInv' /\ db.jobs \subseteq db'.jobs
  <2>1. opener[o].pc = "commit" /\ (db' = tx.db \/ db' = db)
    BY <1>1 DEF CommitMigration, CommitFails
  <2> QED
    BY <1>1, <2>1, CommittedFile, CommitKeepsInv, CommitFailsKeepsInv
<1>2. ASSUME NEW o \in Openers, UNCHANGED inspector, UseStore(o)
      PROVE  MigrationInv' /\ db.jobs \subseteq db'.jobs
  BY <1>2, UseKeepsInv
<1>3. ASSUME NEW o \in Openers, UNCHANGED inspector,
             \/ OpenStore(o) \/ CheckMigration(o) \/ BeginMigration(o) \/ ExecuteBatch(o)
             \/ RecordVersion(o) \/ BeginTimesOut(o) \/ CrashOpener(o)
      PROVE  MigrationInv' /\ db.jobs \subseteq db'.jobs
  <2>1. db' = db
    BY <1>3 DEF OpenStore, CheckMigration, BeginMigration, ExecuteBatch, RecordVersion,
                FailMigration, BeginTimesOut, CrashOpener
  <2>2. MigrationInv'
    BY <1>3, OpenStoreKeepsInv, CheckMigrationKeepsInv, BeginKeepsInv, ExecuteKeepsInv,
       RecordKeepsInv, TimeoutKeepsInv, CrashKeepsInv
  <2> QED
    BY <2>1, <2>2
<1>4. ASSUME NEW i \in Inspectors, OpenExisting(i)
      PROVE  MigrationInv' /\ db.jobs \subseteq db'.jobs
  BY <1>4, InspectKeepsInv DEF OpenExisting, openVars
<1>5. CASE UNCHANGED migrationVars
  <2>1. \A o \in Openers : OpenerOK(o)'
    BY <1>5 DEF migrationVars, openVars, MigrationInv, OpenerOK, Verified, Admitted, Prepared,
                InTransaction
  <2> QED
    BY <1>5, <2>1 DEF migrationVars, openVars, MigrationInv, NeverHalfApplied, InspectedIsCurrent
<1> QED
  BY <1>1, <1>2, <1>3, <1>4, <1>5 DEF MigrationsNext, OpenerStep

\* The invariant holds through every race, crash and unknown COMMIT.
THEOREM MigrationInvariant == MigrationsSpec => []MigrationInv
BY InitMigration, MigrationStep, PTL DEF MigrationsSpec

\* The schema is never half-applied.
THEOREM SchemaIsWhole == MigrationsSpec => []NeverHalfApplied
<1>1. MigrationInv => NeverHalfApplied
  BY DEF MigrationInv
<1> QED
  BY <1>1, MigrationInvariant, PTL

\* A store that opened works on exactly this build's schema.
THEOREM OpenStoresAreCurrent == MigrationsSpec => []OpenedIsCurrent
<1>1. MigrationInv => OpenedIsCurrent
  <2> SUFFICES ASSUME MigrationInv, NEW o \in Openers, opener[o].pc = "open"
               PROVE  /\ db.layout = Supported
                      /\ db.schema_migrations = [v \in 1 .. Supported |-> Checksum(v)]
    BY DEF OpenedIsCurrent
  <2>1. /\ opener[o].at = Supported + 1 /\ Verified(o) /\ db.layout \in Nat
        /\ DOMAIN db.schema_migrations = 1 .. db.layout
        /\ db.schema_migrations = [v \in DOMAIN db.schema_migrations |->
                                       db.schema_migrations[v]]
    BY DEF MigrationInv, OpenerOK, IsFile, NeverHalfApplied
  <2>2. /\ db.layout <= Supported
        /\ \A v \in 1 .. Supported : v <= db.layout /\ db.schema_migrations[v] = Checksum(v)
    BY <2>1 DEF Verified, Admitted, Supported
  <2>3. db.layout = Supported
    BY <2>1, <2>2 DEF Supported
  <2> QED
    BY <2>1, <2>2, <2>3
<1> QED
  BY <1>1, MigrationInvariant, PTL

\* An inspector that got in reads the tables of this build's schema.
THEOREM InspectedFilesAreCurrent == MigrationsSpec => []InspectedIsCurrent
<1>1. MigrationInv => InspectedIsCurrent
  BY DEF MigrationInv
<1> QED
  BY <1>1, MigrationInvariant, PTL

\* No committed job is ever lost to a migration.
THEOREM NoJobIsLost == MigrationsSpec => JobsSurvive
BY MigrationInvariant, MigrationStep, PTL DEF MigrationsSpec, JobsSurvive

-----------------------------------------------------------------------------
(* Copying *)

\* The types of the variables the copy depends on.
BackupType ==
    /\ source \in [PageSet -> Nat]
    /\ copy \in [PageSet -> Nat]
    /\ version \in Nat
    /\ changed \in BOOLEAN
    /\ copied \in 0 .. Pages

\* As long as nobody else has committed since the last step, the pages copied so
\* far are the source's.
CopiedSoFar ==
    call = "copying" /\ ~changed => \A p \in 1 .. copied : copy[p] = source[p]

BackupInv == BackupType /\ CopiedSoFar

\* No page copied is a number of pages.
LEMMA NothingCopied == 0 \in 0 .. Pages
BY BackupAssumption

\* The end of a step is a page of the source, not before its beginning.
LEMMA StepEndInRange ==
    ASSUME NEW from \in 0 .. Pages
    PROVE  StepEnd(from) \in 0 .. Pages /\ from <= StepEnd(from)
BY BackupAssumption DEF StepEnd

\* A commit through any connection keeps the pages well formed.
LEMMA WritePagesType ==
    ASSUME BackupType, WritePages
    PROVE  source' \in [PageSet -> Nat] /\ version' \in Nat
<1>1. version' \in Nat
  BY BackupAssumption DEF BackupType, WritePages
<1>2. source' \in [PageSet -> Nat]
  BY <1>1 DEF BackupType, WritePages
<1> QED
  BY <1>1, <1>2

\* After a step the copy agrees with the source up to the page it reached.
LEMMA CopyStepAgrees ==
    ASSUME BackupInv, CopyStep
    PROVE  /\ BackupType'
           /\ \A p \in 1 .. copied' : copy'[p] = source'[p]
           /\ call' = "checking" => copied' = Pages
<1> DEFINE from == Restart
           upto == StepEnd(from)
<1>1. from \in 0 .. Pages /\ \A p \in 1 .. from : copy[p] = source[p]
  BY BackupAssumption DEF BackupInv, BackupType, CopiedSoFar, CopyStep, Restart
<1>2. upto \in 0 .. Pages /\ from <= upto
  BY <1>1, StepEndInRange
<1>3. /\ copy' = [p \in PageSet |-> IF p \in from + 1 .. upto THEN source[p] ELSE copy[p]]
      /\ copied' = upto /\ changed' = FALSE /\ UNCHANGED <<source, version>>
      /\ call' = IF upto = Pages THEN "checking" ELSE "copying"
  BY DEF CopyStep
<1> HIDE DEF from, upto
<1>4. BackupType'
  BY <1>2, <1>3 DEF BackupInv, BackupType
<1>5. \A p \in 1 .. upto : copy'[p] = source[p]
  <2> TAKE p \in 1 .. upto
  <2>1. p \in PageSet /\ (p \in 1 .. from \/ p \in from + 1 .. upto)
    BY <1>1, <1>2, BackupAssumption DEF PageSet
  <2> QED
    BY <1>1, <1>3, <2>1
<1> QED
  BY <1>3, <1>4, <1>5

\* Every step keeps the invariant.
LEMMA BackupStep == BackupInv /\ [BackupNext]_backupVars => BackupInv'
<1> SUFFICES ASSUME BackupInv, [BackupNext]_backupVars PROVE BackupInv'
  OBVIOUS
<1>1. CASE OwnCommit
  BY <1>1, WritePagesType DEF OwnCommit, MayCommit, Stages, BackupInv, BackupType, CopiedSoFar
<1>2. CASE OtherCommit
  BY <1>2, WritePagesType DEF OtherCommit, BackupInv, BackupType, CopiedSoFar
<1>3. CASE CopyStep
  BY <1>3, CopyStepAgrees DEF BackupInv, CopiedSoFar
<1>4. CASE OpenDest
  <2>1. BackupType'
    BY <1>4, NothingCopied, Zenon DEF OpenDest, BackupInv, BackupType
  <2>2. CopiedSoFar'
    BY <1>4 DEF OpenDest, CopiedSoFar
  <2> QED
    BY <2>1, <2>2 DEF BackupInv
<1>5. CASE RemoveDest \/ CheckCopy \/ FailBackup \/ \E overwrite \in BOOLEAN : StartBackup(overwrite)
  BY <1>5 DEF RemoveDest, CheckCopy, FailBackup, StartBackup, BackupInv, BackupType, CopiedSoFar
<1>6. CASE OtherProcess \/ UNCHANGED backupVars
  BY <1>6 DEF OtherProcess, backupVars, BackupInv, BackupType, CopiedSoFar
<1> QED
  BY <1>1, <1>2, <1>3, <1>4, <1>5, <1>6 DEF BackupNext

\* The invariant holds in every reachable state.
THEOREM BackupInvariant == BackupSpec => []BackupInv
<1>1. BackupInit => BackupInv
  <2>1. BackupInit => BackupType
    <3>1. BackupInit => source \in [PageSet -> Nat] /\ copy \in [PageSet -> Nat] /\ version \in Nat
      BY DEF BackupInit
    <3> QED
      BY <3>1, NothingCopied, Zenon DEF BackupInit, BackupType
  <2>2. BackupInit => CopiedSoFar
    BY DEF BackupInit, CopiedSoFar
  <2> QED
    BY <2>1, <2>2 DEF BackupInv
<1> QED
  BY <1>1, BackupStep, PTL DEF BackupSpec

\* A backup that completes holds the database as it is at that moment, whoever
\* committed while the pages were copied.
THEOREM BackupIsOneImage == BackupSpec => CopyIsOneImage
<1>1. BackupInv /\ [BackupNext]_backupVars
         => [call = "copying" /\ call' = "checking" => copy' = source']_backupVars
  <2> SUFFICES ASSUME BackupInv, BackupNext, call = "copying", call' = "checking"
               PROVE  copy' = source'
    OBVIOUS
  <2>1. CopyStep
    BY DEF BackupNext, OwnCommit, OtherCommit, OtherProcess, StartBackup, RemoveDest,
           OpenDest, CheckCopy, FailBackup
  <2>2. \A p \in PageSet : copy'[p] = source'[p]
    BY <2>1, CopyStepAgrees DEF PageSet
  <2>3. copy' \in [PageSet -> Nat] /\ source' \in [PageSet -> Nat]
    BY <2>1, CopyStepAgrees DEF BackupType
  <2> QED
    BY <2>2, <2>3
<1> QED
  BY <1>1, BackupInvariant, PTL DEF BackupSpec, CopyIsOneImage
=============================================================================

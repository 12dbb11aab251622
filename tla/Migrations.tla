----------------------------- MODULE Migrations -----------------------------
(***************************************************************************)
(* Opening a store: several openers, in one process or in several, bring   *)
(* one database file to the current schema (src/store/migrations.rs,       *)
(* StoreBuilder::open).  Whether a migration is applied is read before its  *)
(* transaction begins, so an opener may run a migration that another one    *)
(* has just committed.  Inspection tools open the file read-only at any     *)
(* moment of this (StoreBuilder::open_existing).                            *)
(***************************************************************************)
EXTENDS Naturals

CONSTANTS
    Openers,
    Inspectors,  \* processes that open the file read-only
    Files,       \* the database files an opener may find
    GoodRows,    \* jobs rows that satisfy the CHECKs of migration 2
    MaxFaults,   \* bound: crashes, lock timeouts and failing COMMITs
    None

ASSUME OpenerAssumption == None \notin Openers

\* The files are the ones builds of this program leave behind, this one or
\* others: the migrations recorded are the ones the tables reflect.  Nothing is
\* assumed of the checksums or of the rows.
ASSUME FilesAssumption ==
    \A file \in Files :
        /\ file = [schema_migrations |-> file.schema_migrations, layout |-> file.layout,
                   jobs |-> file.jobs]
        /\ file.layout \in Nat
        /\ file.schema_migrations = [v \in 1 .. file.layout |-> file.schema_migrations[v]]

VARIABLES
    db,      \* the committed file: [schema_migrations, layout, jobs]
    tx,      \* the write transaction: who holds the lock, and what it would commit
    opener,  \* per opener: where it is in migrate and at which migration
    inspector,  \* per inspector: "closed", "open" or "refused"
    faults   \* faults so far

openVars == <<db, tx, opener, faults>>
migrationVars == <<openVars, inspector>>

\* MIGRATIONS: 1 creates the tables, 2 rebuilds jobs with its CHECKs.
Supported == 2

\* A checksum is the SQL it is computed from.
Checksum(number) == number

NoTransaction == [by |-> None, db |-> None]

\* layout is the last migration whose SQL the tables reflect.
MigrationsInit ==
    /\ db \in Files
    /\ tx = NoTransaction
    /\ opener = [o \in Openers |-> [pc |-> "closed", at |-> 1]]
    /\ inspector = [i \in Inspectors |-> "closed"]
    /\ faults = 0

-----------------------------------------------------------------------------
(* migrate *)

Goto(o, pc) == opener' = [opener EXCEPT ![o].pc = pc]

\* COALESCE(MAX(version), 0) > supported
TooNew == \E v \in DOMAIN db.schema_migrations : v > Supported

\* Opening the connection, and the check for a newer schema.  An opener whose
\* migrate failed is called again.
OpenStore(o) ==
    /\ opener[o].pc \in {"closed", "failed"}
    /\ opener' = [opener EXCEPT ![o] = [pc |-> IF TooNew THEN "refused" ELSE "check", at |-> 1]]
    /\ UNCHANGED <<db, tx, faults>>

\* Mutant: a migration that is recorded is taken for this build's.
CheckMigration_Trusting(o) ==
    LET v == opener[o].at
    IN /\ opener[o].pc = "check"
       /\ opener' = [opener EXCEPT ![o] =
              CASE v > Supported -> [pc |-> "open", at |-> v]
                [] v \in DOMAIN db.schema_migrations -> [pc |-> "check", at |-> v + 1]
                [] OTHER -> [pc |-> "begin", at |-> v]]
       /\ UNCHANGED <<db, tx, faults>>

\* One turn of the loop over MIGRATIONS up to BEGIN, or its end.
CheckMigration(o) ==
    LET v == opener[o].at
        applied == v \in DOMAIN db.schema_migrations
    IN /\ opener[o].pc = "check"
       /\ \/ v > Supported /\ Goto(o, "open")
          \/ v <= Supported /\ ~applied /\ Goto(o, "begin")
          \/ /\ v <= Supported /\ applied
             /\ IF db.schema_migrations[v] = Checksum(v)
                THEN opener' = [opener EXCEPT ![o].at = v + 1]
                ELSE Goto(o, "refused")
       /\ UNCHANGED <<db, tx, faults>>

BeginMigration(o) ==
    /\ opener[o].pc = "begin"
    /\ tx = NoTransaction
    /\ tx' = [by |-> o, db |-> db]
    /\ Goto(o, "execute")
    /\ UNCHANGED <<db, faults>>

\* An error drops the transaction, which rolls it back.
FailMigration(o) ==
    /\ tx' = NoTransaction
    /\ Goto(o, "failed")
    /\ UNCHANGED <<db, faults>>

\* CREATE TABLE fails on an existing table; migration 2 creates jobs_v2, which
\* an applied migration 2 has renamed, so it can run again, and its copy fails
\* on a row that violates a CHECK.
CanExecute(number, image) ==
    \/ number = 1 /\ image.layout = 0
    \/ number = 2 /\ image.layout >= 1 /\ image.jobs \subseteq GoodRows

\* Mutant: jobs is dropped before its rows are copied.
RunMigration_DropsFirst(number, image) ==
    [image EXCEPT !.layout = number, !.jobs = IF number = 2 THEN {} ELSE @]

RunMigration(number, image) == [image EXCEPT !.layout = number]

ExecuteBatch(o) ==
    /\ opener[o].pc = "execute"
    /\ IF CanExecute(opener[o].at, tx.db)
       THEN /\ tx' = [tx EXCEPT !.db = RunMigration(opener[o].at, @)]
            /\ Goto(o, "record")
            /\ UNCHANGED <<db, faults>>
       ELSE FailMigration(o)

\* Mutant: the row that says the migration was applied is forgotten.
Recorded_Forgotten(number, image) == image

Recorded(number, image) ==
    [image EXCEPT !.schema_migrations =
        [v \in DOMAIN @ \cup {number} |-> IF v = number THEN Checksum(v) ELSE @[v]]]

\* version is the PRIMARY KEY of schema_migrations.
RecordVersion(o) ==
    /\ opener[o].pc = "record"
    /\ IF opener[o].at \in DOMAIN tx.db.schema_migrations
       THEN FailMigration(o)
       ELSE /\ tx' = [tx EXCEPT !.db = Recorded(opener[o].at, @)]
            /\ Goto(o, "commit")
            /\ UNCHANGED <<db, faults>>

CommitMigration(o) ==
    /\ opener[o].pc = "commit"
    /\ db' = tx.db
    /\ tx' = NoTransaction
    /\ opener' = [opener EXCEPT ![o] = [pc |-> "check", at |-> @.at + 1]]
    /\ UNCHANGED faults

-----------------------------------------------------------------------------
(* What can go wrong, and the users of an open store *)

Fault == faults < MaxFaults /\ faults' = faults + 1

\* BEGIN IMMEDIATE gives up on the lock after busy_timeout.
BeginTimesOut(o) ==
    /\ Fault
    /\ opener[o].pc = "begin"
    /\ tx # NoTransaction
    /\ Goto(o, "failed")
    /\ UNCHANGED <<db, tx>>

\* COMMIT reports an error, whether or not it persisted.
CommitFails(o) ==
    /\ Fault
    /\ opener[o].pc = "commit"
    /\ db' \in {db, tx.db}
    /\ tx' = NoTransaction
    /\ Goto(o, "failed")

\* Mutant: a migration runs statement by statement in autocommit mode, so what a
\* crash interrupts stays in the file.
CrashOpener_Autocommit(o) ==
    /\ Fault
    /\ opener[o].pc \notin {"closed", "refused"}
    /\ IF tx.by = o THEN tx' = NoTransaction /\ db' = tx.db ELSE UNCHANGED <<tx, db>>
    /\ Goto(o, "closed")

\* The process dies; SQLite rolls its transaction back.
CrashOpener(o) ==
    /\ Fault
    /\ opener[o].pc \notin {"closed", "refused"}
    /\ tx' = IF tx.by = o THEN NoTransaction ELSE tx
    /\ Goto(o, "closed")
    /\ UNCHANGED db

\* An open store commits a batch that enqueues a job.
UseStore(o) ==
    /\ opener[o].pc = "open"
    /\ tx = NoTransaction
    /\ \E row \in GoodRows \ db.jobs : db' = [db EXCEPT !.jobs = @ \cup {row}]
    /\ UNCHANGED <<tx, opener, faults>>

\* Mutant: only a newer schema is refused.
RequireCurrent_NotNewer == ~TooNew

\* MAX(version) is the supported one; without the table it counts as 0.  The
\* checksums are left to verify.
RequireCurrent == Supported \in DOMAIN db.schema_migrations /\ ~TooNew

\* Nothing is created or migrated; whoever is refused may try again.
OpenExisting(i) ==
    /\ inspector[i] # "open"
    /\ inspector' = [inspector EXCEPT ![i] = IF RequireCurrent THEN "open" ELSE "refused"]
    /\ UNCHANGED openVars

OpenerStep(o) ==
    \/ OpenStore(o)
    \/ CheckMigration(o)
    \/ BeginMigration(o)
    \/ ExecuteBatch(o)
    \/ RecordVersion(o)
    \/ CommitMigration(o)

MigrationsNext ==
    \/ /\ \E o \in Openers : OpenerStep(o) \/ BeginTimesOut(o) \/ CommitFails(o)
                             \/ CrashOpener(o) \/ UseStore(o)
       /\ UNCHANGED inspector
    \/ \E i \in Inspectors : OpenExisting(i)

\* Openers run, and whoever is told that opening failed, or crashes, tries again.
MigrationsSpec ==
    MigrationsInit /\ [][MigrationsNext]_migrationVars
    /\ \A o \in Openers : WF_openVars(OpenerStep(o))

-----------------------------------------------------------------------------
(* Properties *)

\* "Each migration runs in its own transaction, so the schema is never
\* half-applied": the tables and the record of the migrations agree in every
\* committed state, through crashes, unknown COMMITs and racing openers.
NeverHalfApplied == DOMAIN db.schema_migrations = 1 .. db.layout

\* A store that opened, from a new file, an older one or after losing a race,
\* works on exactly this build's schema, with every recorded checksum verified.
OpenedIsCurrent ==
    (\E o \in Openers : opener[o].pc = "open") =>
        /\ db.layout = Supported
        /\ db.schema_migrations = [v \in 1 .. Supported |-> Checksum(v)]

\* An inspector that got in while others open and migrate the file reads the
\* tables of this build's schema, from its first query to its last
\* (open_existing, require_current).
InspectedIsCurrent ==
    (\E i \in Inspectors : inspector[i] = "open") => db.layout = Supported

\* No committed job is ever lost to a migration: not by the upgrade, not by an
\* opener that rebuilds jobs a second time because it looked before another one
\* committed, and not while an open store is already adding jobs.
JobsSurvive == [][db.jobs \subseteq db'.jobs]_migrationVars

\* The file is this build's or an older build's, and its rows pass the CHECKs.
Openable(file) ==
    /\ \A v \in DOMAIN file.schema_migrations : v <= Supported /\ file.schema_migrations[v] = Checksum(v)
    /\ file.jobs \subseteq GoodRows

\* An opener that loses the race fails with "table exists" or a duplicate
\* version, but no failure is for ever: on a file that can be opened, all
\* openers that keep trying are open in the end.
EveryoneOpens == Openable(db) => <>(\A o \in Openers : opener[o].pc = "open")
=============================================================================

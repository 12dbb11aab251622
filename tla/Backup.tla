------------------------------- MODULE Backup -------------------------------
(***************************************************************************)
(* ControlPlaneStore::backup (src/store/mod.rs, src/store/ops.rs): the     *)
(* pages of the source are copied a few at a time, with a pause after each *)
(* step, by SQLite's backup API on the store's writer connection.  The     *)
(* store's own callers wait for that writer; connections of other          *)
(* processes do not, and when one of them has committed since the last     *)
(* step, the next step starts the copy over.                               *)
(***************************************************************************)
EXTENDS Naturals

CONSTANTS
    Pages,         \* the number of pages of the source
    PagesPerStep,  \* run_to_completion(256, ...)
    Versions       \* commits are told apart modulo this number

ASSUME BackupAssumption ==
    /\ Pages \in Nat \ {0}
    /\ PagesPerStep \in Nat \ {0}
    /\ Versions \in Nat \ {0}

VARIABLES
    source,    \* page -> the version of the commit that wrote it last
    version,   \* the last commit's version
    others,    \* another process that writes to the same file is running
    changed,   \* another connection has committed since the last step
    dest,      \* the file at dest_path: "none", one from before ("old"), "empty", "copy"
    copy,      \* the pages written to it so far
    copied,    \* how many pages the running copy has reached
    call       \* the backup call: "idle", a stage of it, or how it ended

backupVars == <<source, version, others, changed, dest, copy, copied, call>>

PageSet == 1 .. Pages

Stages == {"removing", "opening", "copying", "checking"}
Outcomes == {"ok", "refused", "failed"}

BackupInit ==
    /\ source = [p \in PageSet |-> 0]
    /\ version = 0
    /\ others \in BOOLEAN
    /\ changed = FALSE
    /\ dest \in {"none", "old"}
    /\ copy = source
    /\ copied = 0
    /\ call = "idle"

\* A transaction rewrites some pages; the first one holds the change counter.
WritePages ==
    /\ version' = (version + 1) % Versions
    /\ \E written \in SUBSET PageSet :
          source' = [p \in PageSet |-> IF p = 1 \/ p \in written THEN version' ELSE source[p]]

\* Mutant: the writer is not held during the copy.
MayCommit_Reader == TRUE

\* A commit through the same store needs the writer, which backup holds.
MayCommit == call \notin Stages

OwnCommit ==
    /\ MayCommit
    /\ WritePages
    /\ changed' = (call \in Stages)
    /\ UNCHANGED <<others, dest, copy, copied, call>>

OtherCommit ==
    /\ others
    /\ WritePages
    /\ changed' = TRUE
    /\ UNCHANGED <<others, dest, copy, copied, call>>

\* Other processes come and go.
OtherProcess ==
    /\ others' = ~others
    /\ UNCHANGED <<source, version, changed, dest, copy, copied, call>>

-----------------------------------------------------------------------------
(* One call of backup *)

StartBackup(overwrite) ==
    /\ call \in {"idle"} \cup Outcomes
    /\ call' = IF dest = "none" THEN "opening" ELSE IF overwrite THEN "removing" ELSE "refused"
    /\ UNCHANGED <<source, version, others, changed, dest, copy, copied>>

RemoveDest ==
    /\ call = "removing"
    /\ dest' = "none"
    /\ call' = "opening"
    /\ UNCHANGED <<source, version, others, changed, copy, copied>>

OpenDest ==
    /\ call = "opening"
    /\ dest' = "empty"
    /\ copied' = 0
    /\ changed' = FALSE
    /\ call' = "copying"
    /\ UNCHANGED <<source, version, others, copy>>

\* Mutant: the file is read on as if nothing had happened.
Restart_Ignored == copied

\* Where the next step begins: over again if the source has changed.
Restart == IF changed THEN 0 ELSE copied

\* The last page of a step that begins after page `from`.
StepEnd(from) == IF from + PagesPerStep < Pages THEN from + PagesPerStep ELSE Pages

\* One backup step; the copy is complete when it reaches the last page.
CopyStep ==
    LET from == Restart
        upto == StepEnd(from)
    IN
    /\ call = "copying"
    /\ copy' = [p \in PageSet |-> IF p \in from + 1 .. upto THEN source[p] ELSE copy[p]]
    /\ dest' = IF upto = Pages THEN "copy" ELSE "empty"
    /\ copied' = upto
    /\ changed' = FALSE
    /\ call' = IF upto = Pages THEN "checking" ELSE "copying"
    /\ UNCHANGED <<source, version, others>>

\* PRAGMA integrity_check on the copy; it finds nothing wrong with whole pages.
CheckCopy ==
    /\ call = "checking"
    /\ call' = "ok"
    /\ UNCHANGED <<source, version, others, changed, dest, copy, copied>>

\* An I/O error, or the process dies.  What is not complete is rolled back from
\* the new file, which stays, empty.
FailBackup ==
    /\ call \in Stages
    /\ call' = "failed"
    /\ UNCHANGED <<source, version, others, changed, dest, copy, copied>>

BackupNext ==
    \/ OwnCommit \/ OtherCommit \/ OtherProcess
    \/ \E overwrite \in BOOLEAN : StartBackup(overwrite)
    \/ RemoveDest \/ OpenDest \/ CopyStep \/ CheckCopy \/ FailBackup

\* The calling thread runs run_to_completion until it returns.
BackupSpec ==
    /\ BackupInit /\ [][BackupNext]_backupVars
    /\ WF_backupVars(RemoveDest) /\ WF_backupVars(OpenDest)
    /\ WF_backupVars(CopyStep) /\ WF_backupVars(CheckCopy)

-----------------------------------------------------------------------------
\* Whatever is committed while pages are being copied, by this process or
\* another, the finished copy is the committed database as it is at that
\* moment, never pages of two different moments (ops::backup).
CopyIsOneImage ==
    [][call = "copying" /\ call' = "checking" => copy' = source']_backupVars

\* "Holding the writer stalls writes for the duration of the copy and guarantees
\* completion" (mod.rs, backup): a backup that has begun to copy ends, however
\* much this process has to write, provided that from some time on no other
\* process is writing.  One that never stops may starve the copy for ever.
BackupCompletes ==
    (<>[]~others) => ((call = "copying") ~> (call \in {"ok", "failed"}))
=============================================================================

# A TLA+ verification of minisqlite

minisqlite is an embedded control-plane store on SQLite: one atomic transaction
coordinates domain events, materialised projections and durable jobs, and the
store is honest about outcomes it does not know (a COMMIT whose answer was lost,
a job whose worker vanished). This directory holds TLA+ modules translated from
the Rust source, TLC runs over small instances, and TLAPS proofs for every
instance. `PROJECT.json` maps each definition to the lines it models.

## 1. The system

| component (source) | state it keeps | operations | what makes it correct |
|---|---|---|---|
| job lifecycle (`src/jobs.rs`, `src/config.rs`) | none: the state machine of a job | `can_transition_to`, `is_terminal` | terminal states are final |
| job operations (`src/store/jobs.rs`) | tables `jobs`, `active_partitions`, `claim_receipts` | enqueue, ack, fail, cancel, resolve, extend | rows obey the schema; attempts stay within `max_attempts`; only the current token acts; no attempt is guessed |
| claim scheduling (`src/store/jobs.rs`) | `queue_cursors`, and all of the above | `claim_jobs`: repair expired leases, grant new ones; `recover_claim` | per-partition FIFO, no starvation between partitions, bounded claims, recoverable leases |
| event log (`src/store/commit.rs`, `src/store/events.rs`) | `events`, `streams`, the version map of a running commit | append; read after a sequence, one stream, the tail | dense stream versions, optimistic concurrency, gap-free consumption, exact limits |
| projections (`src/projection.rs`, `src/store/projections.rs`) | `projection_meta`, `projection_entries` | validate and apply a patch; prefix and range scans by page | a patch has one meaning; a scan returns exactly its keys, also while patches commit between pages |
| commit pipeline (`src/store/commit.rs`, `src/transaction.rs`) | `transactions` | `commit`, `recover_transaction` | all or nothing; resubmission is idempotent; every receipt and every refusal is true |
| store handle (`src/store/mod.rs`) | the writer connection, possibly poisoned; reader pool | every public call | an unknown COMMIT discards the connection; reads see committed rows only |
| migrations (`src/store/migrations.rs`, `StoreBuilder::open`) | `schema_migrations`, the tables' layout | bring a file to the current schema | never half-applied; no job lost; racing openers all get in |
| verify (`src/store/ops.rs`) | none | `semantic_checks` | reports nothing about a database the store wrote |
| backup (`src/store/ops.rs`, `src/store/mod.rs`) | the destination file, the progress of the copy | `backup` | a finished copy is one committed image; a copy ends once no other process writes |
| statistics and diagnostic export (`src/store/ops.rs`) | the text written so far, a cursor per table | `stats`, `diagnostic_export` | rows exported at different moments still fit together |
| command line tool (`src/main.rs`) | none | inspection commands, `jobs list`, `jobs resolve`, `backup` | inspection sees a current schema |
| Node.js binding (`minisqlite-node/src/lib.rs`) | a store handle | `commit`, `recoverTransaction` and the other calls | an object is applied once, however often it is handed in |
| provider-turn workflow (`examples/synara_provider_turn.rs`) | the turn's stream, projection and job | request, claim, heartbeat, start, call, complete, recover | a turn completes once and ends; no provider call from an unknown claim |
| read pool, durability levels, limits, ids, digests, errors | see `PROJECT.json` | | not modelled, section 7 |

How they interact: a caller hands a `CommitBatch` to a `ControlPlaneStore`. The
call takes the store's writer mutex, starts `BEGIN IMMEDIATE` (one writing
transaction across all processes on the file), applies the operations in order
and commits. `claim_jobs` and `extend_lease` are transactions of their own.
Reads go through pooled read-only connections and see the last committed
snapshot. There is no background thread: expired leases are repaired only by the
next claim of the queue, and all time comes from the callers.

What is hard here: several processes on one file; COMMIT with an unknown
outcome followed by recovery or resubmission; a crash at any step; workers that
report after their lease expired and was granted again; three separate places
that decide whether a job is exhausted; bookkeeping held in two tables
(`jobs` and `claim_receipts`, `jobs` and `active_partitions`, `events` and
`streams`); copies, exports and listings that take many steps while others
commit; effects outside the database, which no transaction can undo.
`PROJECT.json` lists each hazard at its line with the properties
that would catch it.

## 2. Modules

| module | models | builds on |
|---|---|---|
| `JobLifecycle` | states, transition table, effect modes | |
| `JobStore` | the job tables and every operation on them; each operation is one step | `JobLifecycle` |
| `JobStoreInvariants` | what the job tables promise | `JobStore` |
| `AttemptOutcomes` | `JobStore` plus a history of accepted reports and resolutions | `JobStore` |
| `ClaimFairness` | `JobStore` plus a history of overtakings between partitions | `JobStore` |
| `EventLog` | events, streams, the running commit's version map | |
| `ProjectionTable` | patch validation and application | |
| `ProjectionScan` | key order, prefix bounds, scans; a paging reader between patches | `ProjectionTable` |
| `Migrations` | several openers of one database file | |
| `ControlPlane` | transactions, COMMIT outcomes, crashes, poisoned writers, recovery, readers | `JobStore`, `EventLog`, `ProjectionTable` |
| `ControlPlaneInvariants` | what the store promises across failures | `ControlPlane` |
| `AtomicStore` | the abstract store: requests take effect at once, answers are never wrong | |
| `ControlPlaneRefinement` | `ControlPlane` implements `AtomicStore` | `ControlPlaneInvariants`, `AtomicStore` |
| `RecoveryAnswers` | `ControlPlane` plus a history of the answers Absent | `ControlPlane` |
| `OrderedRows` | the rows of a query: ORDER BY and LIMIT | |
| `EventReads` | event reads and their integer casts | `AtomicStore`, `OrderedRows` |
| `NodeBinding` | JavaScript programs over the binding | `AtomicStore` |
| `Callers` | those programs and paging readers side by side | `NodeBinding`, `EventReads` |
| `DiagnosticExport` | the export beside commits and claims | `JobStore`, `EventLog`, `OrderedRows` |
| `Backup` | the page-wise copy beside commits | |
| `ProviderTurn`, `ProviderTurnProperties` | callers, workers and an operator over one store | `JobStore` |
| `JobStoreProofs` | theorems about the job tables and their receipts | `JobStoreInvariants` |
| `JobHistoryProofs` | theorems about reports and about the round-robin | `AttemptOutcomes`, `ClaimFairness`, `JobStoreProofs` |
| `ControlPlaneProofs` | theorems about whole transactions; `ControlPlane` implements `AtomicStore` | `ControlPlaneRefinement`, `JobStoreProofs` |
| `ProviderTurnProofs` | theorems about the workflow's callers and workers | `ProviderTurnProperties`, `JobStoreProofs` |
| `ProjectionScanProofs` | theorems about patches, key order and scans | `ProjectionScan` |
| `FileProofs` | theorems about opening and copying the database file | `Migrations`, `Backup` |
| `CallersProofs` | theorems about the Node programs and the paging readers | `Callers` |
| `DiagnosticProofs` | theorems about the export | `DiagnosticExport`, `JobStoreProofs` |
| `MC*` | small instances | |

State. The variables of `JobStore`, `EventLog` and `ProjectionTable` are the
tables of the schema under their own names, as the writing connection sees them
inside its transaction; a row is a record with the columns the code reads back.
NULL is `None`. A lease token is the pair of the claim transaction and the job
(both ids are fresh random values in the code); a request digest is the content
it hashes. Partition keys are naturals because the round-robin compares them.
In `ControlPlane`, `durable` is the committed image, `tx` the transaction that
holds the write lock, `writer` tells which stores must reopen their connection.
`receipts` and `refused` record what callers were told.

Actions. `ApplyEnqueue`, `ApplyAck`, `ApplyFail`, `ApplyCancel`, `ApplyResolve`
and `ApplyExtendLease` are the functions of the same names; each is guarded by a
`Can...` predicate with the code's checks, so that `ControlPlane` can also take
the error path (`RejectOperation`). `ClaimJobs` is the whole of `claim_jobs`:
both plans are made from the state before the call (`MaintenancePlans`,
`LeasePlan`), then the repairs, the grants, the receipts, the cursor and the
transaction row are written together. In `ControlPlane` a batch is
`BeginBatch`, one `ExecOperation` per operation and then `CommitSucceeds`,
`CommitIndeterminate` (persisted or not, the caller is told "unknown") or
`Crash`; `RefuseBatch` and `ResubmitBatch` are the early returns of `commit`.
A reader, a recovery from another store or a crash may happen between any two
of these steps.

In `ProjectionScan` keys are sequences of bytes, an optional argument is a set
of at most one element, and each page is one step because it is one SELECT. The
reader remembers what it saw and which keys were there all the time. In
`Migrations` an opener walks through `migrate` statement by statement: the check
whether a migration is applied (`CheckMigration`) and the start of its
transaction (`BeginMigration`) are different steps, as in the code. An opener
that runs migration 1 again fails with "table exists"; migration 2 can run
again, and then fails on the primary key of `schema_migrations`.

Inspectors of `Migrations` open the file read-only at any moment: one step,
since their two queries can only refuse more than the last one alone.

Layers. `AtomicStore` says what callers may rely on: a list of committed
requests, the feed of their events, receipts, denials and deliveries; there is
no connection, no transaction under way and no crash in it. The refinement maps
`durable` to the log and the feed, `receipts` and `refused` to the answers, and
`consumed` to the deliveries, so that a batch's many steps are one step, at its
COMMIT; everything else stutters. The abstract store is also where the order of
the log, the dense versions of a stream, the expected versions and a consumer's
gap-free prefix are promised, so none of these is a property of its own.
`EventReads` and `NodeBinding` are then written over the abstract store, and
`ProviderTurn` makes each call of the store one step for the same reason.

`Backup` tells the pages of the file apart and gives each the version of the
commit that wrote it last, modulo `Versions`. The store's own commits wait for
the writer (`MayCommit`); those of other connections do not, and set `changed`,
upon which the next step starts over; `others` tells whether such a process is
running. `DiagnosticExport` counts one table or writes one page per
step; `steady` remembers which projection rows have been there since their
table's export began. In `NodeBinding` the object a program hands in and the batch built
from it are different things: ids that the object omits are drawn anew at each
call. In `ProviderTurn` what a worker reads with one call and uses in the next
is two steps, and a worker may stall or die between any two. A process that dies
or ends with an error is replaced (`Restart`) by one that either recovers the
claim from its journalled id, wherever the first one had got to, or claims anew.
The provider's calls are recorded with the token they were made under and whether
it was current; `abandoned` remembers which of them were made by a process that
then ended, `resent` which of them an operator's Retry came after. The operator
may give any job any resolution the transition table allows, uncertain or not.

## 3. Runs

| run | instance | checks |
|---|---|---|
| `job_store` | 3 jobs (two in one partition, both effect modes, 1 and 2 attempts), 2 workers, 3 claims | type and schema, attempts, FIFO, active partitions, receipts, recovery, finality |
| `attempt_outcomes` | a reconcilable job with 3 attempts, an idempotent one, 4 claims | no attempt of a reconcilable job is closed without a report or a resolution; no report is taken for another attempt |
| `claim_fairness` | 3 partitions, two of the jobs leased twice, 3 claims for one or two jobs | no partition served twice while another waits ready; a claim stops early only at its limit |
| `control_plane` | 2 stores, 6 batch ids (one with two contents), 2 claims, 1 job, 1 stream, 1 projection | atomic batches, true receipts and refusals, clean `verify`, and the refinement |
| `projection_scan` | 5 keys over 2 bytes, 114 mutation lists, 3 patches, pages of 1 and 2 | meaning of a patch, exact prefix scans, complete paging |
| `migrations` | 3 openers, an inspector, 8 files, 2 faults | schema never half-applied, opened and inspected stores current, jobs survive, everyone opens |
| `provider_turn` | a turn with 2 attempts, 2 workers, 1 fault | the turn completes once, idle means completed, a provider call is repeated only after its process ended or an operator asked for it, and the turn ends |
| `backup` | 3 pages, 2 per step, this and another process commit | a finished copy is one image, and it finishes once the other process has stopped |
| `diagnostic_export` | batches with puts, deletes and a replace, claims, pages of one row or two | no gaps, references closed, steady entries once |
| `callers` | 5 programs whose objects name all, some or none of their ids, or are malformed; 2 streams; 2 lost answers or kills; integers of 16 values | applied once, resubmission idempotent, streams paged without loss, limits exact |
| `resolve_leased`, `recovery_in_flight` | the instances of `job_store` and `control_plane` | each refutes a documented rule, section 6 |

Bounds. Timestamps are `0 .. MaxTime` with `MaxTime` 3 in the part of i64::MAX;
callers' clocks read 0 or 2 (`Clocks`) and leases last one tick, so a lease
granted at 0 has expired at 2, can be extended to exactly 2 or beyond, and one
granted at 2 cannot expire. The default retry delay of 2 fits at clock 0 and
overflows at clock 2. `MAINTENANCE_LIMIT` 1 leaves one of two expired leases to
a later claim. Claims are bounded by the number of fresh transaction ids
(`TxIds`); each run has enough for a job to be leased, lose its lease and be
leased again while the first worker still holds its old token. Attempts are
bounded by `max_attempts`, batches by their ids, since a committed id is never
applied again. Clocks are not monotonic in the code (each caller brings its
own), and they are not in the model.

Symmetry is used for transaction ids and for workers, never in a run with a
liveness property: no definition compares or orders them.

In `provider_turn`, `LEASE_MS` 1 and `HEARTBEAT_MS` 2 keep the order of 30 s and
60 s, and `MaxTime` lets a lease lapse after a heartbeat and a second worker
take its turn; the clock stands still when no lease runs. `MaxFaults` counts
crashes, unknown outcomes and resolutions of jobs that are not uncertain. Stalls,
conflicts and the errors they end in, recoveries, a second unknown outcome of the same
outage and the resolutions of uncertain jobs are free, so one fault combines with
all of them. Two, with the liveness property, take longer than a run should; the
theorems of section 4 hold for any number. In `backup`, 3 pages in steps
of 2 give a copy of two steps, the least in which a commit can fall between; a
page may be old, new or newer (`Versions` 3). `EXPORT_PAGE_SIZE` is small enough
for each table to need several pages. In `callers`,
`SIGN_BIT` 8 stands for 2^63: every sequence fits below it (`EventsNumbered`
says so of the log, whose sequences are positive i64 in the schema), and half of
the limits wrap; `MaxDrawn` leaves ids for two resubmissions after every
program has called once.

`MaxByte` 1 stands for 0xFF: with two byte values there are keys that are
prefixes of others, prefixes that end in the largest byte and one that consists
of it, so all three outcomes of `prefix_upper_bound` occur. `MaxVersion` 3 lets
two patches fall between the pages of a scan of a filled table. `MaxFaults` 2
allows a crash and a failing COMMIT in one behaviour; `Files` has new files,
files of older and newer builds, diverging histories and one whose jobs violate
the new CHECKs.

Deadlock is checked in `projection_scan` and `backup` only: elsewhere the system may stop,
when every job is terminal and the ids are used up, or when every opener is open
or refused.

Fairness. In `migrations` each opener keeps running, and a caller whose open
failed calls again (weak fairness of `OpenerStep`). In `Backup` the calling
thread runs `run_to_completion` until it returns (weak fairness of the call's
own steps); commits are never forced, and `BackupCompletes` itself assumes that
other processes stop. In `ProviderTurn` worker processes are
scheduled and started again after an error, the clock runs, and the operator
gets round to each uncertain job: the store itself has no thread, so progress
can only come from there, and `docs/SYNARA_INTEGRATION.md` asks for each of
them. Callers, crashes and unknown outcomes are never forced.

Each property has a mutant in its module, an operator named after the
definition it replaces (`Exhausted_OffByOne`, `Drained_Always`,
`CommitIndeterminate_AsRefusal`, ...), under which the property fails.

## 4. Proofs

The theorems hold for every value of the constants that satisfies the modules'
assumptions. `tlapm` checks each proof to its last leaf.

| module | theorem | states |
|---|---|---|
| `JobStoreProofs` | `TypeCorrect`, `SchemaChecksHold`, `AttemptsAreBounded`, `PartitionsAreOrdered`, `ActivePartitionsAreExact` | `TypeOK`, `SchemaChecks`, `AttemptsBounded`, `PartitionOrder`, `ActivePartitionsExact` |
| | `ReceiptsMatchAttempts`, `LeasesMatchReceipts`, `RecoveryIsSound` | `ReceiptPerAttempt`, `LeaseMatchesReceipt`, `RecoverySound` |
| | `FinishedJobsStay` | the action property `TerminalIsFinal` |
| `JobHistoryProofs` | `AttemptsAreNotGuessed`, `ReportsAreMetOnce` | `NoAttemptIsGuessed`, `ReportsMeetTheirAttempt` |
| | `NobodyIsOvertakenTwice`, `ClaimsAreBoundedAndBusy` | `NoDoubleOvertaking`, `ClaimIsBoundedAndBusy` |
| `ControlPlaneProofs` | `ReceiptsStayTrue`, `RefusalsStayTrue`, `VerifyFindsNothing` | `ReceiptsDurable`, `RefusalsAreFinal`, `VerifyClean` |
| | `CommittedJobsSound`, `CommittedStreamsDense` | the job invariants, and dense stream versions, of the committed image |
| | `BatchesTakeEffectWhole` | `BatchesAtomic` |
| | `StoreIsAtomic` | `ImplementsAtomicStore` |
| `FileProofs` | `SchemaIsWhole`, `OpenStoresAreCurrent`, `InspectedFilesAreCurrent`, `NoJobIsLost` | `NeverHalfApplied`, `OpenedIsCurrent`, `InspectedIsCurrent`, `JobsSurvive` |
| | `BackupIsOneImage` | the action property `CopyIsOneImage` |
| `CallersProofs` | `ObjectsApplyOnce`, `ResubmissionIsIdempotent` | `AppliedOnce`, `ResubmissionIdempotent` |
| | `StreamReadsAreExact`, `LimitsMeanWhatTheySay` | `StreamReadExact`, `LimitsAreExact` |
| `ProviderTurnProofs` | `TurnsCompleteOnce`, `IdleTurnsAreCompleted` | `TurnCompletesOnce`, `IdleMeansCompleted` |
| | `CallsComeFromCommittedClaims`, `SecondLeasesComeFromRetries` | `EffectsFromCommittedClaims`, `SecondLeaseOnlyByRetry` |
| `ProjectionScanProofs` | `PatchesMeanWhatTheySay`, `PrefixScansAreExact`, `PagedScansAreComplete` | `PatchMeaning`, `PrefixScanExact`, `PagedScanComplete` |
| `DiagnosticProofs` | `ExportsAreGapFree`, `ExportsAreClosed`, `SteadyEntriesExportedOnce` | `ExportGapFree`, `ExportClosed`, `SteadyEntriesOnce` |

**The job tables.** `JobInv` is the conjunction of the first five properties and
of `MaxExists` (the sequence numbers in use have a maximum, which the definition
of `NextSequence` by `CHOOSE` needs). They are needed together: that a claim
keeps `AttemptsBounded` needs that a claimable row has an attempt left; that it
keeps `PartitionOrder` needs unique sequence numbers (`SchemaChecks`) and that a
started job is the head of its partition; that it may ignore partitions missing
from `active_partitions` needs `ActivePartitionsExact`. `TableStep` says what any
operation may do to the rows; `TableStepKeepsInv` shows that such a step keeps
the invariant if the touched rows are good and stay in order, and each operation
is then shown to be such a step. `ReceiptInv` makes the receipt properties inductive
by adding that a token is issued once (`TokensUnique`) and that a receipt stems
from a recorded claim (`ReceiptOrigin`); every operation but a claim and an
extension is a `QuietStep` to it, which is one lemma. `RecoverySound` and `TerminalIsFinal` follow from both.

**Histories.** `OutcomeInv` adds the type of the history to the two properties of
`AttemptOutcomes`: a settled attempt is one the job has had. `FairInv` strengthens
`NoDoubleOvertaking` by `RoundOK`: who has been overtaken once is ahead of the
overtaker in the round that starts at the cursor, so that the next grant goes to
it first. That a claim uses up its limit or the ready heads is a statement about
how many heads the round has before each one; it is proved by a least
counterexample over these numbers, with the facts about finite cardinalities.

**Transactions.** `ControlInv` says `JobInv` and `ReceiptInv` twice, of the
connection's view and, through `Committed == INSTANCE JobStoreProofs WITH ...`,
of the committed image; it says that outside a transaction the two agree
(`LockHolder`), that rows of the transaction table are never rewritten
(`TransactionTable`), and that each log fits its table of versions (`LogInv`). A
rollback then restores the invariant from the committed half and a COMMIT from
the view's half, which is why neither half is enough alone. `VerifyClean` follows
from it without a further step.

**The refinement.** `TablesInv` says what a transaction under way has done to the
committed image: its row is the next in sequence (`NewRowOK`, `Numbered`), what a
batch has appended so far is what the abstract store will publish for the same
operations, and its expectations still hold of the committed streams
(`Progress`). `ConsumedPrefix` says that a consumer holds a prefix of the
committed log. From these, a COMMIT that persists, whether answered, unknown or
followed by a crash, is one `Commit` of the abstract store (`CommitIsOneStep`),
and every other step an answer, a delivery or nothing (`StepMaps`). The events of
a batch are collected by a recursive function over its operations; that it has a
solution for every batch is again proved by a least counterexample
(`CollectionExists`). `RequestsHaveSequences` discharges the assumption of
`AtomicStore`.

**Whole batches.** `AtomicInv` balances the books: the jobs that exist are those
enqueued by the operations applied so far, and the version of each projection is
the number of its patches among them (`Accounted`); for the committed image these
are all operations of its batches, and its events lie in runs, one for each batch
(`EventsWhole`). The batch under way is counted up to its next operation, so its
COMMIT turns the first account into the second.

**Projections.** Validation leaves no two mutations after the last boundary that
name one key, so the next mutation takes nothing back of what the earlier ones
said: `SoFar` is the meaning of the first `n` of them, `PatchGoesOn` its step, and
a least counterexample among the tables of the fold replaces the induction. Keys
are totally ordered; `PrefixIsRange` says for every largest byte that the keys
with a prefix are those from the prefix up to its bound, and a page is the first
of the keys ahead of the cursor in that order. `ScanInv` needs of the keys that
have been there all along that each has been seen or lies behind the cursor.

**Readers.** `LimitedPrefix` says that `AsI64` of any `usize` limits as the `usize`
would, because a log shorter than 2^63 has fewer rows than a limit that wraps.
`ReadInv` says that a reader has been given the beginning of its stream and goes
on right behind it; the versions of a stream are dense, so the rows ahead of the
cursor are the rest.

**The export.** `DataInv` is about the tables: `JobInv`, `ReceiptInv`, transactions
numbered without a gap, every event with its transaction and its stream at its
version or later, one rowid to a key. `ExportInv` is about the rows written, table
by table, whichever page is next. A commit enters it only through `Grown`: rows are
added, a transaction and an event stay as they are, a job keeps its number and
loses no attempt, and a steady entry keeps its rowid.
A page enters it only through `PageOK`: it holds the first rows ahead of the cursor,
each once, and a short page holds all of them. `EventsWritten` carries the closure
over from the transactions, which are read before the events; `StreamsWritten` says
that the stream of an event written is written or still ahead of the cursor, though
streams are added on both sides of it; `Covered` says, of each count in the header,
that the rows written and those ahead are no fewer, from the moment it is taken. `EntriesWritten` needs that a steady row is written once
the cursor has passed it and not at all before, since an entry deleted and put again
may get a new rowid and be written twice.

**Provider turns.** `TurnInv` has, besides `JobInv` and `ReceiptInv`, what a worker
at each point of its protocol knows (`WorkersApart`), that the calls made so far
under a claim whose worker is still to call are of processes that have ended
(`CallsAreAhead`), that the lease of a call made under it is the last one its job
had unless an operator's Retry has come since (`LeasedCallsAreLast`), and that a
stream with a completion belongs to a succeeded job (`StreamsMatchJobs`). A process
that ends abandons all calls under its claim (`RestartKeepsInv`), so whoever recovers
that claim may call again. Reports are refused without the current token, so a
second lease needs a Retry, and a second completion a second success.

**Opening, copying, calling.** `MigrationInv` follows each opener: what it has
verified is still so, at most one is inside a transaction, and what that one would
commit is the file with as much of its migration as has run (`Prepared`). `BackupInv` needs
`CopiedSoFar`: unless another connection has written, the pages copied so far are
those of the source. `CallersInv` records which program a committed id comes from
(`OriginOK`), what a program may believe of its own id (`ProgramOK`) and that the
log holds a fully named object as it was built (`ContentOK`).

Assumptions. `SpecAssumption`: `max_attempts` is positive (`validate_batch`),
durations are positive (`claim_jobs`), clocks are in range. `NoneAssumption`,
`OpenerAssumption`: NULL is no value. `BatchAssumption`: batches have transaction
ids, claims draw theirs elsewhere, a page limit is a natural number.
`OperationAssumption`: operations have the fields their Rust variants have.
`DigestAssumption`: a claim is stored with a checksum of 16 bytes, a batch with
a digest of 32, so they differ. `FilesAssumption`: the migrations a file records are the
ones its tables reflect. `InputAssumption`: a drawn id is named by no program,
and an id that is named is named by one. `ScanAssumption`: keys are byte strings, the
mutations of a patch have the fields of their variants, and page limits are below
2^63. `WordAssumption`: 2^63 is more than 1, and readers page with positive limits
below it. `TurnAssumption`, `SpecsOfTurns`: the workflow's jobs are reconcilable, on
one queue, one to a thread, with positive lease and heartbeat times. `ExportAssumption`,
`CommitAssumption`: pages hold at least one row, and the batches beside an export
have the ids and fields `validate_batch` asks for (stream ids are not empty). TLC evaluates each on the
runs' instances.

## 5. Model-checked only

Liveness (`EveryoneOpens`, `BackupCompletes`, `TurnsEnd`): the prover does not
reason about fairness. Every other property of a passing run is stated by a
theorem of section 4.

## 6. Where code and documentation disagree

`apply_resolve` accepts a resolution of any job whose state the transition table
lets go to the target, and the table admits `Leased -> Pending`. So a leased job
that requires reconciliation can be sent back to `Pending`, without its token
and while its worker is running, and be leased a second time. The comment on
`can_transition_to` (`src/jobs.rs:214`) allows `Leased -> Pending` "only for
expired-lease maintenance of explicitly idempotent jobs", and
`docs/CONTRACT_TESTS.md:153` says "resolving a non-uncertain job is a typed
invalid-transition error". The CLI's `jobs resolve` reads the job only to see
that it exists, so an operator acting on an old listing can reach this. Run
`resolve_leased` shows it in three steps: enqueue, claim, resolve.

Attempt accounting survives this: `ReportsMeetTheirAttempt` and
`NoAttemptIsGuessed` hold although leased jobs may be resolved, because the
resolution takes the token away and the old worker's report is refused.

An answer during a commit. `recover_transaction` reads the transactions table
while another process may have the commit it is asked about in flight; it then
answers Absent, and the commit persists (run `recovery_in_flight`). The comment
at `src/store/commit.rs:195` takes a missing row for a rolled back transaction.
Within one store the call waits for the writer, and it is. Recovery from another process is safe only once the
first one is known to be dead.

The following need no run of their own, since the module shows them at once or
the property is stated so as to leave them out:

- A backup without end. `backup` holds the writer of its own store; the comment
  at `src/store/mod.rs:398` concludes that this "guarantees completion", and
  `docs/CONTRACT_TESTS.md:237` expects completion while a writer continuously
  commits. Commits of another process, such as the application's when the
  command line tool makes the backup, start the copy over each time: this is why
  `BackupCompletes` assumes that they stop. A database of at most 256 pages is
  copied in one step and not affected.
- Duplicate effects. `docs/SYNARA_INTEGRATION.md:154` asserts "zero duplicate
  non-idempotent provider effects", and the example calls the provider "exactly
  once, under the recovered lease" (`examples/synara_provider_turn.rs:283`). There are
  three ways to a second call. A process that ends after `call_provider`, because it
  dies or because `complete_turn` fails (with a version conflict, say), leaves a
  claim which is recovered with its token while the lease runs; the recovering
  process cannot know of the call and makes it again. A worker held up between
  `start_turn` and the provider call until its lease has lapsed calls the provider
  all the same, possibly after an operator, who found no effect, has sent the job
  back and another worker has done it. And an operator may send a job back
  while its worker is calling, even while its lease runs (see above). What holds is
  that these are the only ones: `EffectsFromCommittedClaims` says that a call is
  repeated under its lease only after the process that made it has ended, and
  `SecondLeaseOnlyByRetry` that one made under a current lease is followed by one
  under another current lease only when a Retry came in between.
- Queued without work. `docs/SYNARA_INTEGRATION.md:32` says that application
  state can never say "queued" without durable work. `jobs resolve ... dead` ends
  the job of a worker that died before `start_turn` and leaves the projection.
- Resubmission from Node. An object with a `transactionId` and without event ids
  gets new event ids at each call, so handing it in again is refused with
  `DuplicateIdWithDifferentContent`, where `docs/SCOPE.md:11` promises idempotent
  resubmission; `ResubmissionIdempotent` is about objects that name all their ids.
- Cursors beyond i64. `events_after` casts its `u64` cursor with `as i64`; from
  2^63 on it returns the log from the beginning, where its comment promises
  sequences "strictly greater than `after`". `jobs_page` rejects such a cursor.

## 7. Not modelled

The read pool's list of idle connections (readers are reads of the committed
image), the durability levels (a `synchronous` setting handed to SQLite, whose
guarantee a model would only restate), size limits (checks on data before any
write), id generation and SHA-256
(ids are fresh, digests are their content), error types, argument parsing,
printing and redaction, point reads, counts and listings that are one query, the
ages and sizes in the statistics, and the calls of the Node binding that only
convert types (claims, leases, job lists, reads, `close`).
Columns never read back by an operation (payload, result
digest, error summary, terminal time, `updated_transaction_id`,
`first_active_sequence`) are left out of the rows. SQLite itself is external:
its transactions are atomic and isolated, and COMMIT persists all or nothing; the
backup API starts over after a write by another connection; a new row gets the
rowid after the largest; a negative LIMIT is none. One build of the program is
modelled: a newer build migrating the file under an open store is not.

An answer of `recover_transaction` given to another process while the commit is
still running is left out of `refused`, since it may become untrue;
`RecoveryAnswers` keeps it.

## 8. Plan

The model covers what of the system can be modelled faithfully, and every safety
property that a run checks is proved for all constants. Fairness and liveness stay
with TLC.

---------------------------- MODULE ControlPlane ----------------------------
(***************************************************************************)
(* The store as its callers see it (src/store/mod.rs, src/store/commit.rs): *)
(* batches of events, projection patches and job operations, claims and    *)
(* lease extensions, each one SQLite transaction, with everything that can *)
(* become of the COMMIT at its end.                                        *)
(*                                                                         *)
(* Two images of the database are kept.  The variables of the component    *)
(* modules are what the writing connection sees inside its transaction;    *)
(* `durable` is what is committed, what other connections read and what a  *)
(* crash leaves.  BEGIN IMMEDIATE admits one writing transaction at a time *)
(* across all processes, and outside one the two images agree.             *)
(***************************************************************************)
EXTENDS JobStore, EventLog, ProjectionTable

CONSTANTS
    Batches,                 \* the CommitBatch values callers may submit
    Stores,                  \* open ControlPlaneStore handles, in any processes
    MaxOperationsPerCommit,  \* Limits::max_operations_per_commit
    PageLimit                \* the limit an event consumer reads with

VARIABLES
    durable,   \* the committed database image
    tx,        \* the transaction that holds the write lock, or Idle
    writer,    \* store -> "open", or "poisoned" after an unknown COMMIT
    drawn,     \* claim transaction ids drawn so far
    receipts,  \* history: the (id, sequence) pairs of all receipts returned
    refused,   \* history: ids whose caller was last told "not committed"
    consumed   \* the events a polling consumer has been given, in order

viewVars == <<storeVars, logVars, projectionVars>>
historyVars == <<receipts, refused>>
controlVars == <<viewVars, durable, tx, writer, drawn, historyVars, consumed>>

BatchIds == {b.transaction_id : b \in Batches}
ClaimIds == TxIds \ BatchIds

ASSUME BatchAssumption == BatchIds \subseteq TxIds /\ PageLimit \in Nat

BatchOperations == UNION {{b.operations[i] : i \in DOMAIN b.operations} : b \in Batches}

\* The Rust types of a batch's fields, with Time for the range of a timestamp: a
\* job operation carries the arguments its kind has.
ASSUME OperationAssumption ==
    /\ \A b \in Batches : b.committed_at_ms \in Time /\ b.operations \in Seq(BatchOperations)
    /\ \A op \in BatchOperations :
          /\ op.op = "EnqueueJob" => op.spec \in JobSpecs
          /\ op.op = "FailJob" => op.retry_after_ms \in Time \cup {None}
          /\ op.op = "ResolveJob" => op.resolution \in Resolutions
          /\ op.op = "ExtendLease" => op.new_expiry_ms \in Time

Idle == [kind |-> "idle"]

\* The tables of the writing connection.
View == [jobs |-> jobs, active_partitions |-> active_partitions,
         queue_cursors |-> queue_cursors, claim_receipts |-> claim_receipts,
         transactions |-> transactions, events |-> events, streams |-> streams,
         projection_meta |-> projection_meta, projection_entries |-> projection_entries]

ControlInit ==
    /\ Init /\ InitLog /\ InitProjections
    /\ durable = View
    /\ tx = Idle
    /\ writer = [s \in Stores |-> "open"]
    /\ drawn = {} /\ receipts = {} /\ refused = {} /\ consumed = <<>>

\* The transaction is gone: the connection sees the committed rows again.
Rollback ==
    /\ jobs' = durable.jobs
    /\ active_partitions' = durable.active_partitions
    /\ queue_cursors' = durable.queue_cursors
    /\ claim_receipts' = durable.claim_receipts
    /\ transactions' = durable.transactions
    /\ events' = durable.events
    /\ streams' = durable.streams
    /\ stream_versions' = NoStreams
    /\ projection_meta' = durable.projection_meta
    /\ projection_entries' = durable.projection_entries
    /\ UNCHANGED durable

\* The streams are written back and the whole image becomes the committed one.
Persist ==
    /\ streams' = FlushedStreams
    /\ stream_versions' = NoStreams
    /\ UNCHANGED <<storeVars, events, projectionVars>>
    /\ durable' = View'

\* CommitBatch::request_digest: everything in the batch but its id.
RequestDigest(b) == <<b.committed_at_ms, b.expected_stream_versions, b.operations>>

\* A claim is stored with a checksum of 16 bytes, a batch with a digest of 32.
ASSUME DigestAssumption == \A b \in Batches : RequestDigest(b) # ClaimDigest

-----------------------------------------------------------------------------
(* Submitting a batch.  Each action starts by taking the writer, which      *)
(* reopens a poisoned connection.                                          *)

\* validate_batch: the checks that need no database.
ValidBatch(b) ==
    /\ Len(b.operations) <= MaxOperationsPerCommit
    /\ \A i \in DOMAIN b.operations :
          b.operations[i].op = "ProjectionPatch" => PatchValid(b.operations[i].patch)

IsCommitted(b) == b.transaction_id \in DOMAIN transactions

SameContent(b) == transactions[b.transaction_id].request_digest = RequestDigest(b)

\* The writer is taken by a caller of store s; nobody else holds the lock.
TakeWriter(s) ==
    /\ tx = Idle
    /\ writer' = [writer EXCEPT ![s] = "open"]

\* A batch refused before anything is written: invalid, or a stale expectation.
RefuseBatch(s, b) ==
    /\ TakeWriter(s)
    /\ \/ ~ValidBatch(b)
       \/ ~IsCommitted(b) /\ ~ExpectedVersionsHold(b.expected_stream_versions)
    /\ refused' = IF IsCommitted(b) THEN refused ELSE refused \cup {b.transaction_id}
    /\ UNCHANGED <<viewVars, durable, tx, drawn, receipts, consumed>>

\* The id is committed already: the original receipt for the same content, an
\* error for any other; nothing is applied again.
ResubmitBatch(s, b) ==
    /\ TakeWriter(s)
    /\ ValidBatch(b) /\ IsCommitted(b)
    /\ receipts' = IF SameContent(b)
                   THEN receipts \cup
                          {<<b.transaction_id, transactions[b.transaction_id].transaction_sequence>>}
                   ELSE receipts
    /\ UNCHANGED <<viewVars, durable, tx, drawn, refused, consumed>>

BeginBatch(s, b) ==
    /\ TakeWriter(s)
    /\ ValidBatch(b) /\ ~IsCommitted(b)
    /\ ExpectedVersionsHold(b.expected_stream_versions)
    /\ LoadExpected(b.expected_stream_versions)
    /\ InsertTransaction(b.transaction_id, RequestDigest(b))
    /\ tx' = [kind |-> "batch", store |-> s, batch |-> b, next |-> 1]
    /\ refused' = refused \ {b.transaction_id}
    /\ UNCHANGED <<jobVars, events, streams, projectionVars, durable, drawn, receipts, consumed>>

-----------------------------------------------------------------------------
(* The operations of the batch, in order *)

CanApply(op, now) ==
    CASE op.op = "AppendEvent" -> CanAppendEvent(op.event_id)
      [] op.op = "ProjectionPatch" -> CanApplyPatch(op.patch)
      [] op.op = "EnqueueJob" -> CanEnqueue(op.spec)
      [] op.op = "AckJob" -> CanReport(op.job_id, "Succeeded", op.lease_token)
      [] op.op = "FailJob" -> CanFail(op.job_id, op.lease_token, op.retry_after_ms, now)
      [] op.op = "CancelJob" -> CanCancel(op.job_id, op.lease_token)
      [] op.op = "ResolveJob" -> CanResolve(op.job_id, op.resolution)
      [] op.op = "ExtendLease" -> CanExtend(op.job_id, op.lease_token, op.new_expiry_ms, now)

ApplyJobOperation(op, now) ==
    \/ op.op = "EnqueueJob" /\ ApplyEnqueue(op.spec)
    \/ op.op = "AckJob" /\ ApplyAck(op.job_id, op.lease_token)
    \/ op.op = "FailJob" /\ ApplyFail(op.job_id, op.lease_token, op.retry_after_ms, now)
    \/ op.op = "CancelJob" /\ ApplyCancel(op.job_id, op.lease_token)
    \/ op.op = "ResolveJob" /\ ApplyResolve(op.job_id, op.resolution)
    \/ op.op = "ExtendLease" /\ ApplyExtendLease(op.job_id, op.lease_token, op.new_expiry_ms, now)

InBatch == tx.kind = "batch"
MoreOperations == InBatch /\ tx.next <= Len(tx.batch.operations)
Operation == tx.batch.operations[tx.next]

ExecOperation ==
    /\ MoreOperations
    /\ \/ /\ Operation.op = "AppendEvent"
          /\ AppendEvent(tx.batch.transaction_id, Operation.event_id, Operation.stream_id)
          /\ UNCHANGED <<jobVars, projectionVars>>
       \/ /\ Operation.op = "ProjectionPatch"
          /\ ApplyProjectionPatch(Operation.patch)
          /\ UNCHANGED <<jobVars, logVars>>
       \/ /\ ApplyJobOperation(Operation, tx.batch.committed_at_ms)
          /\ UNCHANGED <<logVars, projectionVars>>
    /\ tx' = [tx EXCEPT !.next = @ + 1]
    /\ UNCHANGED <<transactions, durable, writer, drawn, historyVars, consumed>>

\* Mutant: the operations before the failing one stay in the transaction,
\* which is committed.
RejectOperation_KeepsPrefix ==
    /\ MoreOperations
    /\ ~CanApply(Operation, tx.batch.committed_at_ms)
    /\ Persist
    /\ tx' = Idle
    /\ refused' = refused \cup {tx.batch.transaction_id}
    /\ UNCHANGED <<writer, drawn, receipts, consumed>>

\* One operation fails: the whole batch is rolled back and the caller told.
RejectOperation ==
    /\ MoreOperations
    /\ ~CanApply(Operation, tx.batch.committed_at_ms)
    /\ Rollback
    /\ tx' = Idle
    /\ refused' = refused \cup {tx.batch.transaction_id}
    /\ UNCHANGED <<writer, drawn, receipts, consumed>>

-----------------------------------------------------------------------------
(* Claims and lease extensions are transactions of their own *)

BeginClaim(s) ==
    /\ TakeWriter(s)
    /\ \E t \in ClaimIds \ drawn, queue \in Queues, worker \in Workers, now \in Clocks,
          lease_ms \in LeaseDurations, limit \in ClaimLimits :
          /\ ClaimJobs(t, queue, worker, now, lease_ms, limit)
          /\ drawn' = drawn \cup {t}
    /\ tx' = [kind |-> "claim", store |-> s]
    /\ UNCHANGED <<logVars, projectionVars, durable, historyVars, consumed>>

BeginExtend(s) ==
    /\ TakeWriter(s)
    /\ \E id \in JobIds, token \in IssuedTokens, new_expiry \in Time, now \in Clocks :
          ApplyExtendLease(id, token, new_expiry, now)
    /\ tx' = [kind |-> "extend", store |-> s]
    /\ UNCHANGED <<transactions, logVars, projectionVars, durable, drawn, historyVars, consumed>>

-----------------------------------------------------------------------------
(* COMMIT.  SQLite either persists the whole transaction or none of it; the *)
(* caller may not learn which.                                             *)

ReadyToCommit == tx.kind \in {"claim", "extend"} \/ (InBatch /\ ~MoreOperations)

\* Mutant: a receipt is returned whatever COMMIT did.
CommitSucceeds_Unchecked ==
    /\ ReadyToCommit
    /\ Persist \/ Rollback
    /\ tx' = Idle
    /\ receipts' = IF InBatch
                   THEN receipts \cup {<<tx.batch.transaction_id,
                            transactions[tx.batch.transaction_id].transaction_sequence>>}
                   ELSE receipts
    /\ UNCHANGED <<writer, drawn, refused, consumed>>

\* COMMIT succeeds; a batch's caller gets its receipt.
CommitSucceeds ==
    /\ ReadyToCommit
    /\ Persist
    /\ tx' = Idle
    /\ receipts' = IF InBatch
                   THEN receipts \cup {<<tx.batch.transaction_id,
                            transactions[tx.batch.transaction_id].transaction_sequence>>}
                   ELSE receipts
    /\ UNCHANGED <<writer, drawn, refused, consumed>>

\* Mutant: a failed COMMIT is reported as "not committed".
CommitIndeterminate_AsRefusal ==
    /\ ReadyToCommit
    /\ Persist \/ Rollback
    /\ tx' = Idle
    /\ writer' = [writer EXCEPT ![tx.store] = "poisoned"]
    /\ refused' = IF InBatch THEN refused \cup {tx.batch.transaction_id} ELSE refused
    /\ UNCHANGED <<drawn, receipts, consumed>>

\* COMMIT reports an error.  It may have persisted or not; the caller is told
\* Indeterminate and the connection is discarded.
CommitIndeterminate ==
    /\ ReadyToCommit
    /\ Persist \/ Rollback
    /\ tx' = Idle
    /\ writer' = [writer EXCEPT ![tx.store] = "poisoned"]
    /\ UNCHANGED <<drawn, historyVars, consumed>>

\* The process dies, or the calling thread panics, before COMMIT; or it dies
\* right after COMMIT persisted and before the caller hears of it.
Crash ==
    /\ tx # Idle
    /\ Rollback \/ (ReadyToCommit /\ Persist)
    /\ tx' = Idle
    /\ UNCHANGED <<writer, drawn, historyVars, consumed>>

-----------------------------------------------------------------------------
(* Reading *)

\* Mutant: the row is looked up on a pooled reader, without the writer.
RecoverTransaction_Reader(s, t) ==
    /\ IF t \in DOMAIN durable.transactions
       THEN /\ receipts' = receipts \cup {<<t, durable.transactions[t].transaction_sequence>>}
            /\ UNCHANGED refused
       ELSE /\ refused' = refused \cup {t}
            /\ UNCHANGED receipts
    /\ UNCHANGED <<viewVars, durable, tx, writer, drawn, consumed>>

\* recover_transaction, on a connection of its own store: it needs that
\* store's writer, so no call of the store is under way, but one of another
\* process may be.
RecoverTransaction(s, t) ==
    /\ tx # Idle => tx.store # s
    /\ writer' = [writer EXCEPT ![s] = "open"]
    /\ IF t \in DOMAIN durable.transactions
       THEN /\ receipts' = receipts \cup {<<t, durable.transactions[t].transaction_sequence>>}
            /\ UNCHANGED refused
       ELSE /\ refused' = IF InBatch /\ tx.batch.transaction_id = t THEN refused
                          ELSE refused \cup {t}
            /\ UNCHANGED receipts
    /\ UNCHANGED <<viewVars, durable, tx, drawn, consumed>>

\* The rows a pooled read-only connection sees.
ReaderLog == durable.events

\* A consumer polls events_after with the sequence of the last event it got.
PollEvents ==
    /\ consumed' = consumed \o EventsAfter(ReaderLog, Len(consumed), PageLimit)
    /\ consumed' # consumed
    /\ UNCHANGED <<viewVars, durable, tx, writer, drawn, historyVars>>

\* COALESCE(MAX(stream_version), 0) over a stream's events.
LastVersion(log, stream) ==
    Max({0} \cup {log[i].stream_version : i \in {k \in DOMAIN log : log[k].stream_id = stream}})

\* verify: the semantic checks, each one query, by the name it reports.
SemanticFindings(db) ==
    LET NoLease(row) == row.lease_token = None /\ row.worker_id = None
                        /\ row.lease_expires_at_ms = None
        FullLease(row) == row.lease_token # None /\ row.worker_id # None
                          /\ row.lease_expires_at_ms # None
        Rows == {db.jobs[id] : id \in DOMAIN db.jobs}
    IN  {check \in {"stream_versions", "terminal_jobs", "active_partitions", "leased_jobs",
                    "claim_receipts"} :
         \/ /\ check = "stream_versions"
            /\ \/ \E s \in DOMAIN db.streams : db.streams[s] # LastVersion(db.events, s)
               \/ \E i \in DOMAIN db.events : db.events[i].stream_id \notin DOMAIN db.streams
         \/ /\ check = "terminal_jobs"
            /\ \E row \in Rows : row.state \in TerminalStates /\ ~NoLease(row)
         \/ /\ check = "active_partitions"
            /\ \E p \in db.active_partitions : ~HasActiveJob(db.jobs, p)
         \/ /\ check = "leased_jobs"
            /\ \E row \in Rows : row.state = "Leased" /\ ~FullLease(row)
         \/ /\ check = "claim_receipts"
            /\ \E r \in db.claim_receipts :
                  r.job_id \notin DOMAIN db.jobs \/ r.transaction_id \notin DOMAIN db.transactions}

ControlNext ==
    \/ \E s \in Stores, b \in Batches :
          RefuseBatch(s, b) \/ ResubmitBatch(s, b) \/ BeginBatch(s, b)
    \/ ExecOperation \/ RejectOperation
    \/ \E s \in Stores : BeginClaim(s) \/ BeginExtend(s)
    \/ CommitSucceeds \/ CommitIndeterminate \/ Crash
    \/ \E s \in Stores, t \in BatchIds : RecoverTransaction(s, t)
    \/ PollEvents

ControlSpec == ControlInit /\ [][ControlNext]_controlVars
=============================================================================

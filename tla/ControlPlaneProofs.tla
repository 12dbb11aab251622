------------------------- MODULE ControlPlaneProofs -------------------------
(***************************************************************************)
(* Proofs about whole transactions.  First: what the job tables, the event *)
(* log and the transaction table promise holds of the committed image      *)
(* through every rollback, unknown COMMIT and crash.  Then: every step of  *)
(* the store leaves the abstract store of module AtomicStore as it is or   *)
(* is one of its steps.  Last: a batch takes effect whole.                 *)
(***************************************************************************)
EXTENDS ControlPlaneRefinement, JobStoreProofs, FiniteSetTheorems, SequenceTheorems,
        WellFoundedInduction

\* The job tables of the committed image.
Committed == INSTANCE JobStoreProofs WITH
    jobs <- durable.jobs,
    active_partitions <- durable.active_partitions,
    queue_cursors <- durable.queue_cursors,
    claim_receipts <- durable.claim_receipts,
    transactions <- durable.transactions

\* A log and a table of stream versions that belong together: the versions of a
\* stream's events are 1, 2, ... up to the version in the table, each once and
\* in the order of the log.
LogOK(log, versions) ==
    /\ log \in Seq({log[i] : i \in DOMAIN log})
    /\ versions \in [DOMAIN versions -> Nat]
    /\ \A i \in DOMAIN log :
          /\ log[i].stream_id \in DOMAIN versions
          /\ log[i].stream_version \in 1 .. versions[log[i].stream_id]
    /\ \A s \in DOMAIN versions : \A k \in 1 .. versions[s] :
          \E i \in DOMAIN log : log[i].stream_id = s /\ log[i].stream_version = k
    /\ \A i, j \in DOMAIN log :
          i < j /\ log[i].stream_id = log[j].stream_id
              => log[i].stream_version < log[j].stream_version

\* Outside a transaction the connection sees the committed rows.
SeesCommitted ==
    /\ jobs = durable.jobs /\ active_partitions = durable.active_partitions
    /\ queue_cursors = durable.queue_cursors /\ claim_receipts = durable.claim_receipts
    /\ transactions = durable.transactions
    /\ events = durable.events /\ streams = durable.streams /\ stream_versions = NoStreams

BatchTx == [kind : {"batch"}, store : Stores, batch : Batches, next : Nat \ {0}]
ClaimTx == [kind : {"claim"}, store : Stores]
ExtendTx == [kind : {"extend"}, store : Stores]

\* The transaction that holds the lock, and the one row it may have added to
\* the transaction table.
LockHolder ==
    \/ tx = Idle /\ SeesCommitted
    \/ /\ tx \in BatchTx
       /\ tx.batch.transaction_id \notin refused
       /\ tx.batch.transaction_id \notin DOMAIN durable.transactions
       /\ DOMAIN transactions = DOMAIN durable.transactions \cup {tx.batch.transaction_id}
    \/ /\ tx \in ClaimTx
       /\ \E t \in ClaimIds : DOMAIN transactions = DOMAIN durable.transactions \cup {t}
    \/ tx \in ExtendTx /\ transactions = durable.transactions

\* The rows of the transaction table are never rewritten, claims use the ids
\* drawn for them, and callers are told of batches only.
TransactionTable ==
    /\ \A t \in DOMAIN durable.transactions :
          t \in DOMAIN transactions /\ transactions[t] = durable.transactions[t]
    /\ DOMAIN transactions \cap ClaimIds \subseteq drawn
    /\ refused \subseteq BatchIds

LogInv ==
    /\ streams \in [DOMAIN streams -> Nat]
    /\ stream_versions \in [DOMAIN stream_versions -> Nat]
    /\ LogOK(events, FlushedStreams)
    /\ LogOK(durable.events, durable.streams)

\* The job tables a transaction works on and the committed ones.
JobsInv == JobInv /\ ReceiptInv /\ Committed!JobInv /\ Committed!ReceiptInv

\* The inductive invariant of the store.
ControlInv ==
    JobsInv /\ LogInv /\ LockHolder /\ TransactionTable /\ ReceiptsDurable /\ RefusalsAreFinal

-----------------------------------------------------------------------------
\* The operators both images are described with mean the same.
LEMMA SameOperators ==
    /\ Committed!JobRow = JobRow /\ Committed!ReceiptRow = ReceiptRow
    /\ Committed!JobIds = JobIds /\ Committed!TerminalStates = TerminalStates
    /\ \A row : /\ Committed!IsActive(row) <=> IsActive(row)
                /\ Committed!PartitionOf(row) = PartitionOf(row)
                /\ Committed!RowChecks(row) <=> RowChecks(row)
                /\ Committed!AttemptsOK(row) <=> AttemptsOK(row)
    /\ \A rows, p : Committed!HasActiveJob(rows, p) <=> HasActiveJob(rows, p)
<1>1. /\ Committed!JobIds = JobIds /\ Committed!Time = Time
      /\ Committed!TerminalStates = TerminalStates
      /\ Committed!ActiveStates = ActiveStates
  BY DEF Committed!JobIds, JobIds, Committed!Time, Time,
         Committed!TerminalStates, TerminalStates, Committed!ActiveStates, ActiveStates
<1>2. Committed!JobStates = JobStates /\ Committed!Tokens = Tokens
  BY <1>1 DEF Committed!JobStates, JobStates, Committed!Tokens, Tokens
<1>3. Committed!JobRow = JobRow /\ Committed!ReceiptRow = ReceiptRow
  BY <1>1, <1>2 DEF Committed!JobRow, JobRow, Committed!ReceiptRow, ReceiptRow
<1>4. \A row : /\ Committed!IsActive(row) <=> IsActive(row)
               /\ Committed!PartitionOf(row) = PartitionOf(row)
               /\ Committed!RowChecks(row) <=> RowChecks(row)
               /\ Committed!AttemptsOK(row) <=> AttemptsOK(row)
  BY <1>1 DEF Committed!IsActive, IsActive, Committed!PartitionOf, PartitionOf,
         Committed!RowChecks, RowChecks, Committed!AttemptsOK, AttemptsOK
<1>5. \A rows, p : Committed!HasActiveJob(rows, p) <=> HasActiveJob(rows, p)
  BY <1>4 DEF Committed!HasActiveJob, HasActiveJob
<1> QED
  BY <1>1, <1>3, <1>4, <1>5

\* The invariant of the job tables speaks of nothing else.
LEMMA JobsUntouched ==
    ASSUME JobInv, ReceiptInv, UNCHANGED storeVars
    PROVE  JobInv' /\ ReceiptInv'
BY NextInv, NextReceipts

\* The invariant of the committed tables speaks of nothing else.
LEMMA CommittedUntouched ==
    ASSUME Committed!JobInv, Committed!ReceiptInv, UNCHANGED durable
    PROVE  Committed!JobInv' /\ Committed!ReceiptInv'
<1>1. Committed!TypeOK' /\ Committed!SchemaChecks' /\ Committed!AttemptsBounded'
  BY DEF Committed!JobInv, Committed!TypeOK, Committed!SchemaChecks,
         Committed!AttemptsBounded
<1>2. Committed!MaxExists'
  <2>1. /\ Committed!EnqueueSequences' = Committed!EnqueueSequences
        /\ Committed!TransactionSequences' = Committed!TransactionSequences
    BY DEF Committed!EnqueueSequences, Committed!TransactionSequences
  <2> QED
    BY <2>1 DEF Committed!JobInv, Committed!MaxExists
<1>3. Committed!PartitionOrder' /\ Committed!ActivePartitionsExact'
  BY DEF Committed!JobInv, Committed!PartitionOrder, Committed!ActivePartitionsExact
<1>4. Committed!ReceiptInv'
  BY DEF Committed!ReceiptInv, Committed!ReceiptPerAttempt,
         Committed!LeaseMatchesReceipt, Committed!ReceiptOrigin, Committed!TokensUnique
<1> QED
  BY <1>1, <1>2, <1>3, <1>4 DEF Committed!JobInv

\* Two images with equal job tables satisfy the invariant alike: a rollback
\* brings the committed tables back, a commit makes the tables the committed ones.
LEMMA RollbackRestores ==
    ASSUME Committed!JobInv, Committed!ReceiptInv, Rollback
    PROVE  JobInv' /\ ReceiptInv' /\ Committed!JobInv' /\ Committed!ReceiptInv'
<1>1. TypeOK'
  BY SameOperators DEF Rollback, Committed!JobInv, Committed!TypeOK, TypeOK
<1>2. MaxExists'
  <2>1. /\ EnqueueSequences' = Committed!EnqueueSequences
        /\ TransactionSequences' = Committed!TransactionSequences
    BY DEF Rollback, Committed!EnqueueSequences, EnqueueSequences,
           Committed!TransactionSequences, TransactionSequences
  <2> QED
    BY <2>1 DEF Committed!JobInv, Committed!MaxExists, MaxExists
<1>3. SchemaChecks' /\ AttemptsBounded'
  BY SameOperators DEF Rollback, Committed!JobInv, Committed!SchemaChecks, SchemaChecks,
         Committed!AttemptsBounded, AttemptsBounded
<1>4. PartitionOrder' /\ ActivePartitionsExact'
  BY SameOperators DEF Rollback, Committed!JobInv, Committed!PartitionOrder, PartitionOrder,
         Committed!ActivePartitionsExact, ActivePartitionsExact
<1>5. ReceiptPerAttempt'
  BY SameOperators DEF Rollback, Committed!ReceiptInv, Committed!ReceiptPerAttempt,
         ReceiptPerAttempt
<1>6. LeaseMatchesReceipt' /\ ReceiptOrigin' /\ TokensUnique'
  BY DEF Rollback, Committed!ReceiptInv, Committed!LeaseMatchesReceipt, LeaseMatchesReceipt,
         Committed!ReceiptOrigin, ReceiptOrigin, Committed!TokensUnique, TokensUnique
<1>7. UNCHANGED durable
  BY DEF Rollback
<1> QED
  BY <1>1, <1>2, <1>3, <1>4, <1>5, <1>6, <1>7, CommittedUntouched DEF JobInv, ReceiptInv

\* A commit makes the transaction's tables the committed ones.
LEMMA PersistPublishes ==
    ASSUME JobInv, ReceiptInv, Persist
    PROVE  JobInv' /\ ReceiptInv' /\ Committed!JobInv' /\ Committed!ReceiptInv'
<1>1. /\ jobs' = jobs /\ active_partitions' = active_partitions
      /\ queue_cursors' = queue_cursors /\ claim_receipts' = claim_receipts
      /\ transactions' = transactions
  BY DEF Persist, storeVars
<1>2. /\ durable'.jobs = jobs /\ durable'.active_partitions = active_partitions
      /\ durable'.queue_cursors = queue_cursors /\ durable'.claim_receipts = claim_receipts
      /\ durable'.transactions = transactions
  BY <1>1 DEF Persist, View
<1>3. UNCHANGED storeVars
  BY <1>1 DEF storeVars
<1>4. JobInv' /\ ReceiptInv'
  BY <1>3, JobsUntouched
<1>5. Committed!TypeOK'
  BY <1>2, SameOperators DEF JobInv, Committed!TypeOK, TypeOK
<1>6. Committed!MaxExists'
  <2>1. /\ Committed!EnqueueSequences' = EnqueueSequences
        /\ Committed!TransactionSequences' = TransactionSequences
    BY <1>2 DEF Committed!EnqueueSequences, EnqueueSequences,
                Committed!TransactionSequences, TransactionSequences
  <2> QED
    BY <2>1 DEF JobInv, Committed!MaxExists, MaxExists
<1>7. Committed!SchemaChecks' /\ Committed!AttemptsBounded'
  BY <1>2, SameOperators DEF JobInv, Committed!SchemaChecks, SchemaChecks,
         Committed!AttemptsBounded, AttemptsBounded
<1>8. Committed!PartitionOrder' /\ Committed!ActivePartitionsExact'
  BY <1>2, SameOperators DEF JobInv, Committed!PartitionOrder, PartitionOrder,
         Committed!ActivePartitionsExact, ActivePartitionsExact
<1>9. Committed!ReceiptPerAttempt'
  BY <1>2, SameOperators DEF ReceiptInv, Committed!ReceiptPerAttempt, ReceiptPerAttempt
<1>10. Committed!LeaseMatchesReceipt' /\ Committed!ReceiptOrigin' /\ Committed!TokensUnique'
  BY <1>2 DEF ReceiptInv, Committed!LeaseMatchesReceipt, LeaseMatchesReceipt,
         Committed!ReceiptOrigin, ReceiptOrigin, Committed!TokensUnique, TokensUnique
<1> QED
  BY <1>4, <1>5, <1>6, <1>7, <1>8, <1>9, <1>10
     DEF Committed!JobInv, Committed!ReceiptInv

-----------------------------------------------------------------------------
\* A stream without events may be in the table, at version 0.
LEMMA EmptyStreamsKeepLog ==
    ASSUME NEW log, NEW old, NEW new, LogOK(log, old),
           new \in [DOMAIN new -> Nat], DOMAIN old \subseteq DOMAIN new,
           \A s \in DOMAIN new : new[s] = IF s \in DOMAIN old THEN old[s] ELSE 0
    PROVE  LogOK(log, new)
<1>1. \A s \in DOMAIN old : new[s] = old[s]
  OBVIOUS
<1>2. \A s \in DOMAIN new \ DOMAIN old : 1 .. new[s] = {}
  OBVIOUS
<1>3. \A i \in DOMAIN log : /\ log[i].stream_id \in DOMAIN new
                            /\ log[i].stream_version \in 1 .. new[log[i].stream_id]
  BY <1>1 DEF LogOK
<1>4. \A s \in DOMAIN new : \A k \in 1 .. new[s] :
          \E i \in DOMAIN log : log[i].stream_id = s /\ log[i].stream_version = k
  <2> SUFFICES ASSUME NEW s \in DOMAIN new, NEW k \in 1 .. new[s]
               PROVE  \E i \in DOMAIN log : log[i].stream_id = s /\ log[i].stream_version = k
    OBVIOUS
  <2>1. s \in DOMAIN old
    BY <1>2
  <2>2. k \in 1 .. old[s]
    BY <1>1, <2>1
  <2> QED
    BY <2>1, <2>2 DEF LogOK
<1> QED
  BY <1>3, <1>4 DEF LogOK

\* An event at the next version of its stream keeps the log and the table
\* together.
LEMMA AppendKeepsLog ==
    ASSUME NEW log, NEW versions, NEW e, LogOK(log, versions),
           e.stream_version = (IF e.stream_id \in DOMAIN versions
                               THEN versions[e.stream_id] ELSE 0) + 1
    PROVE  LogOK(Append(log, e),
                 [s \in DOMAIN versions \cup {e.stream_id} |->
                     IF s = e.stream_id THEN e.stream_version ELSE versions[s]])
<1> DEFINE stream == e.stream_id
           next == e.stream_version
           longer == Append(log, e)
           new == [s \in DOMAIN versions \cup {stream} |-> IF s = stream THEN next ELSE versions[s]]
           n == Len(log)
<1>1. /\ log \in Seq({log[i] : i \in DOMAIN log}) /\ n \in Nat /\ DOMAIN log = 1 .. n
      /\ versions \in [DOMAIN versions -> Nat]
  BY DEF LogOK
<1>2. next \in Nat \ {0} /\ (stream \in DOMAIN versions => next = versions[stream] + 1)
      /\ (stream \notin DOMAIN versions => next = 1)
  BY <1>1
<1>3. /\ DOMAIN longer = 1 .. n + 1 /\ longer[n + 1] = e
      /\ \A i \in 1 .. n : longer[i] = log[i]
  BY <1>1
<1>4. /\ DOMAIN new = DOMAIN versions \cup {stream} /\ new[stream] = next
      /\ \A s \in DOMAIN versions \ {stream} : new[s] = versions[s]
  OBVIOUS
<1> HIDE DEF stream, next
<1>5. longer \in Seq({longer[i] : i \in DOMAIN longer})
  <2>1. log \in Seq({longer[i] : i \in DOMAIN longer})
    BY <1>1, <1>3
  <2>2. e \in {longer[i] : i \in DOMAIN longer}
    BY <1>1, <1>3
  <2> QED
    BY <2>1, <2>2
<1>6. new \in [DOMAIN new -> Nat]
  BY <1>1, <1>2
<1> HIDE DEF longer, new, n
<1>7. ASSUME NEW i \in DOMAIN longer
      PROVE  /\ longer[i].stream_id \in DOMAIN new
             /\ longer[i].stream_version \in 1 .. new[longer[i].stream_id]
  <2>1. CASE i = n + 1
    BY <1>2, <1>3, <1>4, <2>1 DEF stream, next
  <2>2. CASE i \in 1 .. n
    <3>1. /\ log[i].stream_id \in DOMAIN versions
          /\ log[i].stream_version \in 1 .. versions[log[i].stream_id]
      BY <1>1, <2>2 DEF LogOK
    <3>2. versions[log[i].stream_id] \in Nat /\ new[log[i].stream_id] \in Nat
          /\ versions[log[i].stream_id] <= new[log[i].stream_id]
      BY <1>1, <1>2, <1>4, <3>1
    <3> QED
      BY <1>3, <1>4, <2>2, <3>1, <3>2
  <2> QED
    BY <1>1, <1>3, <2>1, <2>2
<1>8. ASSUME NEW s \in DOMAIN new, NEW k \in 1 .. new[s]
      PROVE  \E i \in DOMAIN longer : longer[i].stream_id = s /\ longer[i].stream_version = k
  <2>1. CASE s = stream /\ k = next
    BY <1>1, <1>3, <2>1 DEF stream, next
  <2>2. CASE ~(s = stream /\ k = next)
    <3>1. s \in DOMAIN versions /\ k \in 1 .. versions[s]
      BY <1>1, <1>2, <1>4, <2>2
    <3>2. PICK i \in DOMAIN log : log[i].stream_id = s /\ log[i].stream_version = k
      BY <3>1 DEF LogOK
    <3> QED
      BY <1>1, <1>3, <3>2
  <2> QED
    BY <2>1, <2>2
<1>9. ASSUME NEW i \in DOMAIN longer, NEW j \in DOMAIN longer, i < j,
             longer[i].stream_id = longer[j].stream_id
      PROVE  longer[i].stream_version < longer[j].stream_version
  <2>1. i \in 1 .. n /\ longer[i] = log[i]
    BY <1>1, <1>3, <1>9
  <2>2. CASE j \in 1 .. n
    BY <1>1, <1>3, <1>9, <2>1, <2>2 DEF LogOK
  <2>3. CASE j = n + 1
    <3>1. log[i].stream_id = stream /\ longer[j].stream_version = next
      BY <1>3, <1>9, <2>1, <2>3 DEF stream, next
    <3>2. stream \in DOMAIN versions /\ log[i].stream_version \in 1 .. versions[stream]
      BY <1>1, <2>1, <3>1 DEF LogOK
    <3> QED
      BY <1>1, <1>2, <2>1, <3>1, <3>2
  <2> QED
    BY <1>1, <1>3, <2>2, <2>3
<1>10. LogOK(longer, new)
  BY <1>5, <1>6, <1>7, <1>8, <1>9 DEF LogOK
<1> QED
  BY <1>10 DEF longer, new, stream, next

\* commit::commit loads the expected streams, found or not.
LEMMA LoadKeepsLog ==
    ASSUME LogInv, stream_versions = NoStreams, NEW expected, LoadExpected(expected),
           UNCHANGED <<events, streams, durable>>
    PROVE  LogInv'
<1> DEFINE loaded == {expected[i].stream_id : i \in DOMAIN expected}
<1>1. FlushedStreams = streams
  BY DEF FlushedStreams, KnownVersion, CurrentStreamVersion, NoStreams, LogInv
<1>2. \A s : CurrentStreamVersion(s) \in Nat
  BY DEF CurrentStreamVersion, LogInv
<1>3. stream_versions' = [s \in loaded |-> CurrentStreamVersion(s)]
  BY DEF LoadExpected
<1> HIDE DEF loaded
<1>4. stream_versions' \in [DOMAIN stream_versions' -> Nat]
  BY <1>2, <1>3
<1>5. /\ FlushedStreams' \in [DOMAIN FlushedStreams' -> Nat]
      /\ DOMAIN streams \subseteq DOMAIN FlushedStreams'
      /\ \A s \in DOMAIN FlushedStreams' :
            FlushedStreams'[s] = IF s \in DOMAIN streams THEN streams[s] ELSE 0
  BY <1>2, <1>3 DEF FlushedStreams, KnownVersion, CurrentStreamVersion
<1>6. LogOK(events, FlushedStreams')
  BY <1>1, <1>5, EmptyStreamsKeepLog DEF LogInv
<1> QED
  BY <1>4, <1>6 DEF LogInv, LogOK

\* insert_event takes the next version of its stream, whether the running batch
\* has met the stream or not.
LEMMA AppendEventKeepsLog ==
    ASSUME LogInv, NEW t, NEW event_id, NEW stream, AppendEvent(t, event_id, stream),
           UNCHANGED durable
    PROVE  LogInv'
<1> DEFINE next == KnownVersion(stream) + 1
           e == [event_id |-> event_id, transaction_id |-> t, stream_id |-> stream,
                 stream_version |-> next]
           versions == FlushedStreams
           grown == [s \in DOMAIN versions \cup {stream} |-> IF s = stream THEN next ELSE versions[s]]
<1>1. KnownVersion(stream) \in Nat
  BY DEF KnownVersion, CurrentStreamVersion, LogInv
<1>2. KnownVersion(stream) = IF stream \in DOMAIN versions THEN versions[stream] ELSE 0
  BY DEF FlushedStreams, KnownVersion, CurrentStreamVersion
<1>3. /\ events' = Append(events, e) /\ streams' = streams
      /\ stream_versions' = [s \in DOMAIN stream_versions \cup {stream} |->
                                IF s = stream THEN next ELSE stream_versions[s]]
  BY DEF AppendEvent
<1>4. stream_versions' \in [DOMAIN stream_versions' -> Nat]
  BY <1>1, <1>3 DEF LogInv
<1>5. FlushedStreams' = grown
  BY <1>3 DEF FlushedStreams, KnownVersion, CurrentStreamVersion
<1>6. LogOK(events', grown)
  <2>1. e.stream_id = stream /\ e.stream_version = next
    OBVIOUS
  <2>2. e.stream_version = (IF e.stream_id \in DOMAIN versions THEN versions[e.stream_id] ELSE 0) + 1
    BY <1>2, <2>1
  <2> HIDE DEF e, next, versions
  <2>3. LogOK(Append(events, e),
              [s \in DOMAIN versions \cup {e.stream_id} |->
                  IF s = e.stream_id THEN e.stream_version ELSE versions[s]])
    BY <2>2, AppendKeepsLog DEF LogInv, versions
  <2> QED
    BY <1>3, <2>1, <2>3
<1> QED
  BY <1>3, <1>4, <1>5, <1>6 DEF LogInv

\* A rollback brings the committed log and streams back.
LEMMA RollbackKeepsLog ==
    ASSUME LogInv, Rollback
    PROVE  LogInv'
<1>1. durable.streams \in [DOMAIN durable.streams -> Nat]
  BY DEF LogInv, LogOK
<1>2. /\ events' = durable.events /\ streams' = durable.streams
      /\ stream_versions' = NoStreams /\ durable' = durable
  BY DEF Rollback
<1>3. FlushedStreams' = durable.streams
  BY <1>1, <1>2 DEF FlushedStreams, KnownVersion, CurrentStreamVersion, NoStreams
<1>4. stream_versions' \in [DOMAIN stream_versions' -> Nat]
  BY <1>2 DEF NoStreams
<1> QED
  BY <1>1, <1>2, <1>3, <1>4 DEF LogInv

\* A commit writes every version the transaction reached to the table.
LEMMA PersistKeepsLog ==
    ASSUME LogInv, Persist
    PROVE  LogInv'
<1>1. /\ events' = events /\ streams' = FlushedStreams /\ stream_versions' = NoStreams
      /\ durable'.events = events /\ durable'.streams = FlushedStreams
  BY DEF Persist, View
<1>2. FlushedStreams \in [DOMAIN FlushedStreams -> Nat]
  BY DEF LogInv, LogOK
<1> DEFINE flushed == FlushedStreams
<1>3. FlushedStreams' = flushed
  <2>1. streams' \in [DOMAIN streams' -> Nat]
    BY <1>1, <1>2
  <2>2. FlushedStreams' = streams'
    BY <1>1, <2>1 DEF FlushedStreams, KnownVersion, CurrentStreamVersion, NoStreams
  <2> QED
    BY <1>1, <2>2
<1>4. stream_versions' \in [DOMAIN stream_versions' -> Nat]
  BY <1>1 DEF NoStreams
<1> QED
  BY <1>1, <1>2, <1>3, <1>4 DEF LogInv

-----------------------------------------------------------------------------
\* Every operation a batch can hold keeps the invariants of the job tables.
LEMMA JobOperationKeepsJobs ==
    ASSUME JobInv, ReceiptInv, NEW op \in BatchOperations, NEW now \in Time,
           ApplyJobOperation(op, now), UNCHANGED transactions
    PROVE  JobInv' /\ ReceiptInv'
<1>1. CASE op.op = "EnqueueJob" /\ ApplyEnqueue(op.spec)
  BY <1>1, OperationAssumption, EnqueueKeepsInv, EnqueueIsQuiet, QuietKeepsReceipts
<1>2. CASE op.op = "AckJob" /\ ApplyAck(op.job_id, op.lease_token)
  BY <1>2, AckKeepsInv, AckIsQuiet, QuietKeepsReceipts
<1>3. CASE op.op = "FailJob" /\ ApplyFail(op.job_id, op.lease_token, op.retry_after_ms, now)
  BY <1>3, OperationAssumption, FailKeepsInv, FailIsQuiet, QuietKeepsReceipts
<1>4. CASE op.op = "CancelJob" /\ ApplyCancel(op.job_id, op.lease_token)
  BY <1>4, CancelKeepsInv, CancelIsQuiet, QuietKeepsReceipts
<1>5. CASE op.op = "ResolveJob" /\ ApplyResolve(op.job_id, op.resolution)
  BY <1>5, OperationAssumption, ResolveKeepsInv, ResolveIsQuiet, QuietKeepsReceipts
<1>6. CASE /\ op.op = "ExtendLease"
           /\ ApplyExtendLease(op.job_id, op.lease_token, op.new_expiry_ms, now)
  BY <1>6, OperationAssumption, ExtendKeepsInv, ExtendKeepsReceipts
<1> QED
  BY <1>1, <1>2, <1>3, <1>4, <1>5, <1>6 DEF ApplyJobOperation

\* The row of a new transaction changes nothing about jobs and receipts.
LEMMA NewTransactionKeepsJobs ==
    ASSUME JobInv, ReceiptInv, NEW t \in TxIds, t \notin DOMAIN transactions, NEW digest,
           InsertTransaction(t, digest), UNCHANGED jobVars
    PROVE  JobInv' /\ ReceiptInv'
<1>1. /\ jobs' = jobs /\ active_partitions' = active_partitions
      /\ queue_cursors' = queue_cursors /\ claim_receipts' = claim_receipts
  BY DEF jobVars
<1>2. /\ DOMAIN transactions' \subseteq TxIds
      /\ \A u \in DOMAIN transactions' : transactions'[u].transaction_sequence \in Nat
      /\ \E m \in TransactionSequences' \cup {0} :
            \A n \in TransactionSequences' \cup {0} : m >= n
  BY InsertTransactionKeepsInv DEF JobInv
<1>3. TypeOK'
  BY <1>1, <1>2 DEF JobInv, TypeOK
<1>4. EnqueueSequences' = EnqueueSequences
  BY <1>1 DEF EnqueueSequences
<1>5. MaxExists'
  BY <1>2, <1>4 DEF JobInv, MaxExists
<1>6. SchemaChecks' /\ AttemptsBounded' /\ PartitionOrder' /\ ActivePartitionsExact'
  BY <1>1 DEF JobInv, SchemaChecks, AttemptsBounded, PartitionOrder, ActivePartitionsExact
<1>7. DOMAIN transactions' = DOMAIN transactions \cup {t}
  BY DEF InsertTransaction
<1>8. QuietStep
  BY <1>1, <1>7 DEF QuietStep
<1> QED
  BY <1>3, <1>5, <1>6, <1>8, QuietKeepsReceipts DEF JobInv

-----------------------------------------------------------------------------
(* The steps of the store.  They come in three kinds: the database stays as *)
(* it is, a transaction ends, a transaction begins or proceeds.            *)

\* A step that only answers somebody keeps the invariant when the answer is true.
LEMMA AnswerKeepsInv ==
    ASSUME ControlInv, UNCHANGED <<viewVars, durable, tx, drawn>>,
           \A r \in receipts' \ receipts :
               /\ r[1] \in DOMAIN durable.transactions
               /\ durable.transactions[r[1]].transaction_sequence = r[2],
           \A t \in refused' \ refused :
               /\ t \in BatchIds \ DOMAIN durable.transactions
               /\ InBatch => t # tx.batch.transaction_id
    PROVE  ControlInv'
<1>1. /\ UNCHANGED <<jobs, active_partitions, queue_cursors, claim_receipts, transactions>>
      /\ UNCHANGED <<events, streams, stream_versions>>
      /\ durable' = durable /\ tx' = tx /\ drawn' = drawn
  BY DEF viewVars, storeVars, logVars
<1>2. JobsInv'
  BY <1>1, JobsUntouched, CommittedUntouched DEF ControlInv, JobsInv, storeVars
<1>3. LogInv'
  <2>1. FlushedStreams' = FlushedStreams
    BY <1>1 DEF FlushedStreams, KnownVersion, CurrentStreamVersion
  <2> QED
    BY <1>1, <2>1 DEF ControlInv, LogInv
<1>4. LockHolder'
  BY <1>1 DEF ControlInv, LockHolder, SeesCommitted, BatchTx, InBatch
<1>5. TransactionTable' /\ RefusalsAreFinal'
  BY <1>1 DEF ControlInv, TransactionTable, RefusalsAreFinal
<1>6. ReceiptsDurable'
  BY <1>1 DEF ControlInv, ReceiptsDurable
<1> QED
  BY <1>2, <1>3, <1>4, <1>5, <1>6 DEF ControlInv

\* A transaction that ends without an effect leaves its batch, if it is one,
\* free to be refused.
LEMMA RollbackKeepsInv ==
    ASSUME ControlInv, Rollback, tx # Idle, tx' = Idle, UNCHANGED <<drawn, receipts>>,
           \A t \in refused' \ refused : InBatch /\ t = tx.batch.transaction_id
    PROVE  ControlInv'
<1>1. /\ durable' = durable /\ jobs' = durable.jobs
      /\ active_partitions' = durable.active_partitions
      /\ queue_cursors' = durable.queue_cursors /\ claim_receipts' = durable.claim_receipts
      /\ transactions' = durable.transactions /\ events' = durable.events
      /\ streams' = durable.streams /\ stream_versions' = NoStreams
  BY DEF Rollback
<1>2. JobsInv'
  BY RollbackRestores DEF ControlInv, JobsInv
<1>3. LogInv'
  BY RollbackKeepsLog DEF ControlInv
<1>4. LockHolder'
  BY <1>1 DEF LockHolder, SeesCommitted
<1>5. \A t \in refused' \ refused : t \in BatchIds \ DOMAIN durable.transactions
  BY DEF ControlInv, LockHolder, InBatch, BatchTx, ClaimTx, ExtendTx, BatchIds, Idle
<1>6. TransactionTable' /\ RefusalsAreFinal'
  BY <1>1, <1>5 DEF ControlInv, TransactionTable, RefusalsAreFinal
<1>7. ReceiptsDurable'
  BY <1>1 DEF ControlInv, ReceiptsDurable
<1> QED
  BY <1>2, <1>3, <1>4, <1>6, <1>7 DEF ControlInv

\* A transaction that ends with its effect adds one row to the transaction
\* table, of which nobody was told that it is not there.
LEMMA PersistKeepsInv ==
    ASSUME ControlInv, Persist, tx # Idle, tx' = Idle, UNCHANGED <<drawn, refused>>,
           \A r \in receipts' \ receipts :
               /\ InBatch
               /\ r = <<tx.batch.transaction_id,
                        transactions[tx.batch.transaction_id].transaction_sequence>>
    PROVE  ControlInv'
<1>1. /\ jobs' = durable'.jobs /\ active_partitions' = durable'.active_partitions
      /\ queue_cursors' = durable'.queue_cursors /\ claim_receipts' = durable'.claim_receipts
      /\ transactions' = durable'.transactions /\ events' = durable'.events
      /\ streams' = durable'.streams /\ stream_versions' = NoStreams
      /\ durable'.transactions = transactions
  BY DEF Persist, View, storeVars
<1>2. JobsInv'
  BY PersistPublishes DEF ControlInv, JobsInv
<1>3. LogInv'
  BY PersistKeepsLog DEF ControlInv
<1>4. LockHolder'
  BY <1>1 DEF LockHolder, SeesCommitted
<1>5. TransactionTable'
  BY <1>1 DEF ControlInv, TransactionTable
<1>6. RefusalsAreFinal'
  <2>1. \A t \in DOMAIN transactions \ DOMAIN durable.transactions : t \notin refused
    BY DEF ControlInv, LockHolder, TransactionTable, ClaimIds
  <2> QED
    BY <1>1, <2>1 DEF ControlInv, RefusalsAreFinal
<1>7. ReceiptsDurable'
  <2>1. InBatch => tx.batch.transaction_id \in DOMAIN transactions
    BY DEF ControlInv, LockHolder, InBatch, Idle, BatchTx, ClaimTx, ExtendTx
  <2> QED
    BY <1>1, <2>1 DEF ControlInv, ReceiptsDurable, TransactionTable
<1> QED
  BY <1>2, <1>3, <1>4, <1>5, <1>6, <1>7 DEF ControlInv

\* Beginning a batch adds its row to the transaction table, loads the expected
\* streams and takes its id off the list of refused ones.
LEMMA BeginBatchKeepsInv ==
    ASSUME ControlInv, NEW s \in Stores, NEW b \in Batches, BeginBatch(s, b)
    PROVE  ControlInv'
<1> DEFINE t == b.transaction_id
<1>1. /\ tx = Idle /\ t \notin DOMAIN transactions
      /\ LoadExpected(b.expected_stream_versions)
      /\ InsertTransaction(t, RequestDigest(b))
      /\ tx' = [kind |-> "batch", store |-> s, batch |-> b, next |-> 1]
      /\ refused' = refused \ {t}
      /\ UNCHANGED <<jobVars, events, streams, durable, drawn, receipts>>
  BY DEF BeginBatch, TakeWriter, IsCommitted
<1>2. SeesCommitted
  BY <1>1 DEF ControlInv, LockHolder, Idle, BatchTx, ClaimTx, ExtendTx
<1>3. t \in BatchIds /\ t \in TxIds /\ t \notin ClaimIds
  BY BatchAssumption DEF BatchIds, ClaimIds
<1>4. tx' \in BatchTx /\ tx'.batch = b
  BY <1>1 DEF BatchTx
<1>5. /\ DOMAIN transactions' = DOMAIN transactions \cup {t}
      /\ \A u \in DOMAIN transactions : transactions'[u] = transactions[u]
  BY <1>1 DEF InsertTransaction
<1> HIDE DEF t
<1>6. JobsInv'
  BY <1>1, <1>3, NewTransactionKeepsJobs, CommittedUntouched DEF ControlInv, JobsInv
<1>7. LogInv'
  BY <1>1, <1>2, LoadKeepsLog DEF ControlInv, SeesCommitted
<1>8. LockHolder'
  BY <1>1, <1>2, <1>4, <1>5 DEF LockHolder, SeesCommitted, t
<1>9. TransactionTable' /\ RefusalsAreFinal' /\ ReceiptsDurable'
  BY <1>1, <1>2, <1>3, <1>5 DEF ControlInv, TransactionTable, RefusalsAreFinal,
                                ReceiptsDurable, SeesCommitted
<1> QED
  BY <1>6, <1>7, <1>8, <1>9 DEF ControlInv

\* One operation of a batch changes the jobs, the log or a projection, and not
\* the transaction table.
LEMMA ExecOperationKeepsInv ==
    ASSUME ControlInv, ExecOperation
    PROVE  ControlInv'
<1>1. /\ InBatch /\ tx.next <= Len(tx.batch.operations)
      /\ tx' = [tx EXCEPT !.next = @ + 1]
      /\ UNCHANGED <<transactions, durable, drawn, receipts, refused>>
  BY DEF ExecOperation, MoreOperations, historyVars
<1>2. /\ tx \in BatchTx
      /\ tx.batch.transaction_id \notin refused
      /\ tx.batch.transaction_id \notin DOMAIN durable.transactions
      /\ DOMAIN transactions = DOMAIN durable.transactions \cup {tx.batch.transaction_id}
  BY <1>1 DEF ControlInv, LockHolder, InBatch, Idle, BatchTx, ClaimTx, ExtendTx
<1>3. tx' \in BatchTx /\ tx'.batch = tx.batch
  BY <1>1, <1>2 DEF BatchTx
<1>4. /\ tx.batch.committed_at_ms \in Time
      /\ Operation \in BatchOperations
  <2>1. tx.batch \in Batches /\ tx.next \in Nat \ {0}
    BY <1>2 DEF BatchTx
  <2>2. tx.next \in DOMAIN tx.batch.operations
    BY <1>1, <2>1, OperationAssumption
  <2> QED
    BY <2>1, <2>2, OperationAssumption DEF Operation
<1>5. JobInv' /\ ReceiptInv' /\ LogInv'
  <2>1. CASE /\ AppendEvent(tx.batch.transaction_id, Operation.event_id, Operation.stream_id)
             /\ UNCHANGED jobVars
    <3>1. UNCHANGED storeVars
      BY <1>1, <2>1 DEF jobVars, storeVars
    <3> QED
      BY <1>1, <2>1, <3>1, JobsUntouched, AppendEventKeepsLog DEF ControlInv, JobsInv
  <2>2. CASE UNCHANGED <<jobVars, logVars>>
    <3>1. UNCHANGED storeVars
      BY <1>1, <2>2 DEF jobVars, storeVars
    <3>2. /\ events' = events /\ FlushedStreams' = FlushedStreams
          /\ streams' = streams /\ stream_versions' = stream_versions
      BY <2>2 DEF logVars, FlushedStreams, KnownVersion, CurrentStreamVersion
    <3> QED
      BY <1>1, <3>1, <3>2, JobsUntouched DEF ControlInv, JobsInv, LogInv
  <2>3. CASE /\ ApplyJobOperation(Operation, tx.batch.committed_at_ms)
             /\ UNCHANGED logVars
    <3>1. JobInv' /\ ReceiptInv'
      BY <1>1, <1>4, <2>3, JobOperationKeepsJobs DEF ControlInv, JobsInv
    <3>2. /\ events' = events /\ FlushedStreams' = FlushedStreams
          /\ streams' = streams /\ stream_versions' = stream_versions
      BY <2>3 DEF logVars, FlushedStreams, KnownVersion, CurrentStreamVersion
    <3> QED
      BY <1>1, <3>1, <3>2 DEF ControlInv, LogInv
  <2> QED
    BY <2>1, <2>2, <2>3 DEF ExecOperation
<1>6. Committed!JobInv' /\ Committed!ReceiptInv'
  BY <1>1, CommittedUntouched DEF ControlInv, JobsInv
<1>7. LockHolder'
  BY <1>1, <1>2, <1>3 DEF LockHolder
<1>8. TransactionTable' /\ RefusalsAreFinal' /\ ReceiptsDurable'
  BY <1>1 DEF ControlInv, TransactionTable, RefusalsAreFinal, ReceiptsDurable
<1> QED
  BY <1>5, <1>6, <1>7, <1>8 DEF ControlInv, JobsInv

\* A claim adds its row to the transaction table, under an id never drawn before.
LEMMA BeginClaimKeepsInv ==
    ASSUME ControlInv, NEW s \in Stores, BeginClaim(s)
    PROVE  ControlInv'
<1>1. /\ tx = Idle /\ tx' = [kind |-> "claim", store |-> s]
      /\ UNCHANGED <<events, streams, stream_versions, durable, receipts, refused>>
  BY DEF BeginClaim, TakeWriter, logVars, historyVars
<1>2. PICK t \in ClaimIds \ drawn, queue \in Queues, worker \in Workers, now \in Clocks,
           lease_ms \in LeaseDurations, limit \in ClaimLimits :
           /\ ClaimJobs(t, queue, worker, now, lease_ms, limit)
           /\ drawn' = drawn \cup {t}
  BY DEF BeginClaim
<1>3. SeesCommitted
  BY <1>1 DEF ControlInv, LockHolder, Idle, BatchTx, ClaimTx, ExtendTx
<1>4. t \in TxIds /\ t \notin DOMAIN transactions /\ now \in Time
  BY <1>2, SpecAssumption DEF ControlInv, TransactionTable, ClaimIds
<1>5. JobInv' /\ ReceiptInv'
  BY <1>2, <1>4, ClaimKeepsInv, ClaimKeepsReceipts DEF ControlInv, JobsInv
<1>6. Committed!JobInv' /\ Committed!ReceiptInv'
  BY <1>1, CommittedUntouched DEF ControlInv, JobsInv
<1>7. LogInv'
  <2>1. FlushedStreams' = FlushedStreams
    BY <1>1 DEF FlushedStreams, KnownVersion, CurrentStreamVersion
  <2> QED
    BY <1>1, <2>1 DEF ControlInv, LogInv
<1>8. /\ DOMAIN transactions' = DOMAIN transactions \cup {t}
      /\ \A u \in DOMAIN transactions : transactions'[u] = transactions[u]
  BY <1>2, <1>4 DEF ClaimJobs, InsertTransaction
<1>9. LockHolder'
  BY <1>1, <1>2, <1>3, <1>8 DEF LockHolder, SeesCommitted, ClaimTx
<1>10. TransactionTable' /\ RefusalsAreFinal' /\ ReceiptsDurable'
  BY <1>1, <1>2, <1>3, <1>8 DEF ControlInv, TransactionTable, RefusalsAreFinal,
                                ReceiptsDurable, SeesCommitted
<1> QED
  BY <1>5, <1>6, <1>7, <1>9, <1>10 DEF ControlInv, JobsInv

\* An extension of its own leaves no row in the transaction table.
LEMMA BeginExtendKeepsInv ==
    ASSUME ControlInv, NEW s \in Stores, BeginExtend(s)
    PROVE  ControlInv'
<1>1. /\ tx = Idle /\ tx' = [kind |-> "extend", store |-> s]
      /\ UNCHANGED <<transactions, events, streams, stream_versions, durable, drawn,
                     receipts, refused>>
  BY DEF BeginExtend, TakeWriter, logVars, historyVars
<1>2. SeesCommitted
  BY <1>1 DEF ControlInv, LockHolder, Idle, BatchTx, ClaimTx, ExtendTx
<1>3. JobInv' /\ ReceiptInv'
  BY <1>1, ExtendKeepsInv, ExtendKeepsReceipts DEF BeginExtend, ControlInv, JobsInv
<1>4. Committed!JobInv' /\ Committed!ReceiptInv'
  BY <1>1, CommittedUntouched DEF ControlInv, JobsInv
<1>5. LogInv'
  <2>1. FlushedStreams' = FlushedStreams
    BY <1>1 DEF FlushedStreams, KnownVersion, CurrentStreamVersion
  <2> QED
    BY <1>1, <2>1 DEF ControlInv, LogInv
<1>6. LockHolder'
  BY <1>1, <1>2 DEF LockHolder, SeesCommitted, ExtendTx
<1>7. TransactionTable' /\ RefusalsAreFinal' /\ ReceiptsDurable'
  BY <1>1 DEF ControlInv, TransactionTable, RefusalsAreFinal, ReceiptsDurable
<1> QED
  BY <1>3, <1>4, <1>5, <1>6, <1>7 DEF ControlInv, JobsInv

-----------------------------------------------------------------------------
\* A new database satisfies the invariant.
LEMMA InitControl == ControlInit => ControlInv
<1> SUFFICES ASSUME ControlInit PROVE ControlInv
  OBVIOUS
<1>1. /\ durable.jobs = jobs /\ durable.active_partitions = active_partitions
      /\ durable.queue_cursors = queue_cursors /\ durable.claim_receipts = claim_receipts
      /\ durable.transactions = transactions
      /\ durable.events = events /\ durable.streams = streams
  BY DEF ControlInit, View
<1>2. Init /\ InitLog /\ tx = Idle /\ drawn = {} /\ receipts = {} /\ refused = {}
  BY DEF ControlInit
<1>3. JobInv /\ ReceiptInv
  BY <1>2, InitInv, InitReceipts
<1>4. Committed!TypeOK
  BY <1>1, <1>3, SameOperators DEF JobInv, Committed!TypeOK, TypeOK
<1>5. Committed!JobInv
  <2>1. Committed!EnqueueSequences = {} /\ Committed!TransactionSequences = {}
    BY <1>1, <1>2 DEF Committed!EnqueueSequences, Committed!TransactionSequences, Init
  <2>2. Committed!MaxExists
    BY <2>1 DEF Committed!MaxExists
  <2>3. Committed!SchemaChecks /\ Committed!AttemptsBounded /\ Committed!PartitionOrder
        /\ Committed!ActivePartitionsExact
    BY <1>1, <1>2 DEF Init, Committed!SchemaChecks, Committed!AttemptsBounded,
           Committed!PartitionOrder, Committed!ActivePartitionsExact, Committed!HasActiveJob
  <2> QED
    BY <1>4, <2>2, <2>3 DEF Committed!JobInv
<1>6. Committed!ReceiptInv
  BY <1>1, <1>2 DEF Init, Committed!ReceiptInv, Committed!ReceiptPerAttempt,
         Committed!LeaseMatchesReceipt, Committed!ReceiptOrigin, Committed!TokensUnique
<1>7. LogInv
  <2>1. events = <<>> /\ streams = NoStreams /\ stream_versions = NoStreams
    BY <1>2 DEF InitLog
  <2>2. FlushedStreams = NoStreams
    BY <2>1 DEF FlushedStreams, NoStreams
  <2>3. LogOK(<<>>, NoStreams)
    BY DEF LogOK, NoStreams
  <2>4. NoStreams \in [DOMAIN NoStreams -> Nat]
    BY DEF NoStreams
  <2> QED
    BY <1>1, <2>1, <2>2, <2>3, <2>4 DEF LogInv
<1>8. LockHolder
  BY <1>1, <1>2 DEF LockHolder, SeesCommitted, InitLog
<1>9. TransactionTable /\ ReceiptsDurable /\ RefusalsAreFinal
  BY <1>1, <1>2 DEF TransactionTable, ReceiptsDurable, RefusalsAreFinal, Init
<1> QED
  BY <1>3, <1>5, <1>6, <1>7, <1>8, <1>9 DEF ControlInv, JobsInv

\* Every step of the store keeps the invariant.
LEMMA NextControl == ControlInv /\ [ControlNext]_controlVars => ControlInv'
<1> SUFFICES ASSUME ControlInv, [ControlNext]_controlVars PROVE ControlInv'
  OBVIOUS
<1>1. ASSUME NEW s \in Stores, NEW b \in Batches, RefuseBatch(s, b) PROVE ControlInv'
  <2>1. /\ UNCHANGED <<viewVars, durable, tx, drawn>> /\ receipts' = receipts /\ tx = Idle
        /\ refused' = IF IsCommitted(b) THEN refused ELSE refused \cup {b.transaction_id}
    BY <1>1 DEF RefuseBatch, TakeWriter
  <2>2. transactions = durable.transactions /\ ~InBatch
    BY <2>1 DEF ControlInv, LockHolder, SeesCommitted, InBatch, Idle, BatchTx, ClaimTx, ExtendTx
  <2>3. \A t \in refused' \ refused : t \in BatchIds \ DOMAIN durable.transactions
    BY <2>1, <2>2 DEF IsCommitted, BatchIds
  <2> QED
    BY <2>1, <2>2, <2>3, AnswerKeepsInv
<1>2. ASSUME NEW s \in Stores, NEW b \in Batches, ResubmitBatch(s, b) PROVE ControlInv'
  <2>1. /\ UNCHANGED <<viewVars, durable, tx, drawn>> /\ refused' = refused /\ tx = Idle
        /\ IsCommitted(b)
        /\ \A r \in receipts' \ receipts :
              r = <<b.transaction_id, transactions[b.transaction_id].transaction_sequence>>
    BY <1>2 DEF ResubmitBatch, TakeWriter
  <2>2. transactions = durable.transactions
    BY <2>1 DEF ControlInv, LockHolder, SeesCommitted, Idle, BatchTx, ClaimTx, ExtendTx
  <2> QED
    BY <2>1, <2>2, AnswerKeepsInv DEF IsCommitted
<1>3. ASSUME NEW s \in Stores, NEW t \in BatchIds, RecoverTransaction(s, t) PROVE ControlInv'
  <2>1. /\ UNCHANGED <<viewVars, durable, tx, drawn>>
        /\ \A r \in receipts' \ receipts :
              /\ t \in DOMAIN durable.transactions
              /\ r = <<t, durable.transactions[t].transaction_sequence>>
        /\ \A u \in refused' \ refused :
              /\ u = t /\ t \notin DOMAIN durable.transactions
              /\ InBatch => tx.batch.transaction_id # t
    BY <1>3 DEF RecoverTransaction
  <2> QED
    BY <2>1, AnswerKeepsInv
<1>4. CASE PollEvents \/ UNCHANGED controlVars
  <2>1. UNCHANGED <<viewVars, durable, tx, drawn>> /\ receipts' = receipts /\ refused' = refused
    BY <1>4 DEF PollEvents, controlVars, historyVars
  <2> QED
    BY <2>1, AnswerKeepsInv
<1>5. CASE RejectOperation
  <2>1. InBatch /\ tx # Idle /\ Rollback /\ tx' = Idle /\ UNCHANGED <<drawn, receipts>>
        /\ refused' = refused \cup {tx.batch.transaction_id}
    BY <1>5 DEF RejectOperation, MoreOperations, InBatch, Idle
  <2> QED
    BY <2>1, RollbackKeepsInv
<1>6. ReadyToCommit => tx # Idle
  BY DEF ReadyToCommit, InBatch, Idle
<1>7. CASE CommitSucceeds
  <2>1. /\ tx # Idle /\ Persist /\ tx' = Idle /\ UNCHANGED <<drawn, refused>>
        /\ receipts' = IF InBatch
                       THEN receipts \cup {<<tx.batch.transaction_id,
                                transactions[tx.batch.transaction_id].transaction_sequence>>}
                       ELSE receipts
    BY <1>6, <1>7 DEF CommitSucceeds
  <2> QED
    BY <2>1, PersistKeepsInv
<1>8. CASE CommitIndeterminate
  <2>1. /\ tx # Idle /\ tx' = Idle /\ UNCHANGED <<drawn, receipts, refused>>
        /\ Persist \/ Rollback
    BY <1>6, <1>8 DEF CommitIndeterminate, historyVars
  <2> QED
    BY <2>1, PersistKeepsInv, RollbackKeepsInv
<1>9. CASE Crash
  <2>1. /\ tx # Idle /\ tx' = Idle /\ UNCHANGED <<drawn, receipts, refused>>
        /\ Rollback \/ Persist
    BY <1>9 DEF Crash, historyVars
  <2> QED
    BY <2>1, PersistKeepsInv, RollbackKeepsInv
<1> QED
  BY <1>1, <1>2, <1>3, <1>4, <1>5, <1>7, <1>8, <1>9, BeginBatchKeepsInv,
     ExecOperationKeepsInv, BeginClaimKeepsInv, BeginExtendKeepsInv DEF ControlNext

\* The invariant of the store holds in every reachable state.
THEOREM ControlInvariant == ControlSpec => []ControlInv
BY InitControl, NextControl, PTL DEF ControlSpec

\* Every receipt ever returned names a transaction that is committed now,
\* under the sequence it has.
THEOREM ReceiptsStayTrue == ControlSpec => []ReceiptsDurable
<1>1. ControlInv => ReceiptsDurable
  BY DEF ControlInv
<1> QED
  BY <1>1, ControlInvariant, PTL

\* A caller told that its transaction is not committed was told the truth.
THEOREM RefusalsStayTrue == ControlSpec => []RefusalsAreFinal
<1>1. ControlInv => RefusalsAreFinal
  BY DEF ControlInv
<1> QED
  BY <1>1, ControlInvariant, PTL

\* What is proved of the job tables and of the receipts operation by operation
\* holds of the committed tables, whatever became of the transactions: attempts
\* are bounded, partitions are worked in order, active_partitions is exact, and
\* each attempt has its receipt.
THEOREM CommittedJobsSound ==
    ControlSpec => [](/\ Committed!SchemaChecks /\ Committed!AttemptsBounded
                      /\ Committed!PartitionOrder /\ Committed!ActivePartitionsExact
                      /\ Committed!ReceiptPerAttempt /\ Committed!LeaseMatchesReceipt)
<1>1. ControlInv => /\ Committed!SchemaChecks /\ Committed!AttemptsBounded
                    /\ Committed!PartitionOrder /\ Committed!ActivePartitionsExact
                    /\ Committed!ReceiptPerAttempt /\ Committed!LeaseMatchesReceipt
  BY DEF ControlInv, JobsInv, Committed!JobInv, Committed!ReceiptInv
<1> QED
  BY <1>1, ControlInvariant, PTL

\* The committed versions of every stream are 1, 2, ... up to the version in the
\* streams table, each once and in the order of the log.
THEOREM CommittedStreamsDense == ControlSpec => []LogOK(durable.events, durable.streams)
<1>1. ControlInv => LogOK(durable.events, durable.streams)
  BY DEF ControlInv, LogInv
<1> QED
  BY <1>1, ControlInvariant, PTL

-----------------------------------------------------------------------------
\* The greatest version among a stream's events is the one in its row.
LEMMA LastVersionIsStored ==
    ASSUME NEW log, NEW versions, LogOK(log, versions), NEW s \in DOMAIN versions
    PROVE  versions[s] = LastVersion(log, s)
<1> DEFINE used == {0} \cup {log[i].stream_version :
                                i \in {k \in DOMAIN log : log[k].stream_id = s}}
<1>1. versions[s] \in Nat
  BY DEF LogOK
<1>2. \A n \in used : n \in Nat /\ n <= versions[s]
  BY <1>1 DEF LogOK
<1>3. versions[s] \in used
  <2>1. CASE versions[s] = 0
    BY <2>1
  <2>2. CASE versions[s] # 0
    <3>1. versions[s] \in 1 .. versions[s]
      BY <1>1, <2>2
    <3>2. PICK i \in DOMAIN log : log[i].stream_id = s /\ log[i].stream_version = versions[s]
      BY <3>1 DEF LogOK
    <3> QED
      BY <3>2
  <2> QED
    BY <2>1, <2>2
<1> HIDE DEF used
<1>4. Max(used) \in used /\ \A n \in used : Max(used) >= n
  BY <1>2, <1>3 DEF Max
<1>5. versions[s] = Max(used)
  BY <1>1, <1>2, <1>3, <1>4
<1> QED
  BY <1>5 DEF used, LastVersion

\* No query of verify finds a row in a committed image the invariant allows.
LEMMA NothingToReport == ControlInv => VerifyClean
<1> SUFFICES ASSUME ControlInv PROVE SemanticFindings(durable) = {}
  BY DEF VerifyClean
<1>1. \A s \in DOMAIN durable.streams :
          durable.streams[s] = LastVersion(durable.events, s)
  BY LastVersionIsStored DEF ControlInv, LogInv
<1>2. \A i \in DOMAIN durable.events : durable.events[i].stream_id \in DOMAIN durable.streams
  BY DEF ControlInv, LogInv, LogOK
<1>3. \A id \in DOMAIN durable.jobs : RowChecks(durable.jobs[id])
  BY SameOperators DEF ControlInv, JobsInv, Committed!JobInv, Committed!SchemaChecks
<1>4. "Leased" \notin TerminalStates
  BY DEF TerminalStates
<1>5. \A p \in durable.active_partitions : HasActiveJob(durable.jobs, p)
  BY SameOperators DEF ControlInv, JobsInv, Committed!JobInv, Committed!TypeOK,
                       Committed!ActivePartitionsExact
<1>6. \A r \in durable.claim_receipts :
          r.job_id \in DOMAIN durable.jobs /\ r.transaction_id \in DOMAIN durable.transactions
  BY DEF ControlInv, JobsInv, Committed!ReceiptInv, Committed!ReceiptOrigin
<1>7. \A id \in DOMAIN durable.jobs :
          /\ durable.jobs[id].state \in TerminalStates =>
                /\ durable.jobs[id].lease_token = None /\ durable.jobs[id].worker_id = None
                /\ durable.jobs[id].lease_expires_at_ms = None
          /\ durable.jobs[id].state = "Leased" =>
                /\ durable.jobs[id].lease_token # None /\ durable.jobs[id].worker_id # None
                /\ durable.jobs[id].lease_expires_at_ms # None
  BY <1>3, <1>4 DEF RowChecks
<1> QED
  BY <1>1, <1>2, <1>5, <1>6, <1>7 DEF SemanticFindings

\* verify never reports a finding about committed rows.
THEOREM VerifyFindsNothing == ControlSpec => []VerifyClean
BY ControlInvariant, NothingToReport, PTL

-----------------------------------------------------------------------------

\* A nonempty set of naturals has a least element.
LEMMA LeastOf ==
    ASSUME NEW S \in SUBSET Nat, S # {}
    PROVE  \E m \in S : \A n \in S : m <= n
<1>1. PICK m \in S : \A n \in S : <<n, m>> \notin OpToRel(<, Nat)
  BY WFMin, NatLessThanWellFounded
<1>2. \A n \in S : ~(n < m)
  BY <1>1 DEF OpToRel
<1> QED
  BY <1>2

-----------------------------------------------------------------------------
(* The events of a batch *)

\* One line of the recursion that collects a batch's events.
Collected(f, operations, n) ==
    IF n = 0 THEN <<>>
    ELSE IF operations[n].op = "AppendEvent" THEN Append(f[n - 1], operations[n])
    ELSE f[n - 1]

\* The recursion has a solution up to every index: the first index without one
\* could be reached from the solution before it.
LEMMA CollectionExists ==
    ASSUME NEW operations, NEW n \in Nat
    PROVE  \E f : f = [i \in 0 .. n |-> Collected(f, operations, i)]
<1> DEFINE Good(k) == \E f : f = [i \in 0 .. k |-> Collected(f, operations, i)]
           bad == {k \in Nat : ~Good(k)}
<1> SUFFICES ASSUME bad # {} PROVE FALSE
  OBVIOUS
<1>1. PICK m \in bad : \A k \in bad : m <= k
  <2>1. bad \in SUBSET Nat
    OBVIOUS
  <2> HIDE DEF bad
  <2> QED
    BY <2>1, LeastOf
<1>2. m \in Nat /\ ~Good(m)
  OBVIOUS
<1>3. CASE m = 0
  <2> DEFINE f == [i \in 0 .. 0 |-> <<>>]
  <2>1. f = [i \in 0 .. 0 |-> Collected(f, operations, i)]
    BY DEF Collected
  <2> QED
    BY <1>2, <1>3, <2>1
<1>4. CASE m # 0
  <2>1. m - 1 \in Nat /\ ~(m <= m - 1)
    BY <1>2, <1>4
  <2>2. Good(m - 1)
    BY <1>1, <2>1
  <2>3. PICK g : g = [i \in 0 .. m - 1 |-> Collected(g, operations, i)]
    BY <2>2
  <2> DEFINE f == [i \in 0 .. m |-> IF i < m THEN g[i] ELSE Collected(g, operations, m)]
  <2>4. \A i \in 0 .. m : f[i] = Collected(f, operations, i)
    <3> TAKE i \in 0 .. m
    <3>1. CASE i = 0
      BY <2>1, <2>3, <3>1, <1>4 DEF Collected
    <3>2. CASE i # 0 /\ i < m
      <4>1. i \in 0 .. m - 1 /\ i - 1 \in 0 .. m /\ i - 1 < m
        BY <3>2, <1>2
      <4>2. f[i] = g[i] /\ f[i - 1] = g[i - 1]
        BY <3>2, <4>1
      <4>3. g[i] = Collected(g, operations, i)
        BY <2>3, <4>1
      <4> QED
        BY <3>2, <4>2, <4>3 DEF Collected
    <3>3. CASE i = m
      <4>1. f[m] = Collected(g, operations, m) /\ f[m - 1] = g[m - 1]
        BY <1>2, <1>4
      <4> QED
        BY <1>4, <3>3, <4>1 DEF Collected
    <3> QED
      BY <1>2, <3>1, <3>2, <3>3
  <2>5. f = [i \in 0 .. m |-> f[i]]
    OBVIOUS
  <2>6. f = [i \in 0 .. m |-> Collected(f, operations, i)]
    <3> HIDE DEF f
    <3> QED
      BY <2>4, <2>5
  <2> QED
    BY <1>2, <2>6
<1> QED
  BY <1>3, <1>4

\* What AppendsUpTo collects, one operation after the other.
LEMMA AppendsStep ==
    ASSUME NEW S, NEW operations \in Seq(S)
    PROVE  /\ AppendsUpTo(operations)[0] = <<>>
           /\ \A n \in 1 .. Len(operations) :
                 AppendsUpTo(operations)[n] = Collected(AppendsUpTo(operations), operations, n)
<1>1. Len(operations) \in Nat
  OBVIOUS
<1>2. \E f : f = [i \in 0 .. Len(operations) |-> Collected(f, operations, i)]
  BY <1>1, CollectionExists
<1>3. AppendsUpTo(operations) =
        [i \in 0 .. Len(operations) |-> Collected(AppendsUpTo(operations), operations, i)]
  BY <1>2 DEF AppendsUpTo, Collected
<1>4. \A i \in 0 .. Len(operations) :
        AppendsUpTo(operations)[i] = Collected(AppendsUpTo(operations), operations, i)
  BY <1>3
<1> QED
  BY <1>1, <1>4 DEF Collected

\* They are sequences of operations.
LEMMA AppendsType ==
    ASSUME NEW S, NEW operations \in Seq(S), NEW n \in 0 .. Len(operations)
    PROVE  AppendsUpTo(operations)[n] \in Seq(S)
<1> DEFINE bad == {k \in 0 .. Len(operations) : AppendsUpTo(operations)[k] \notin Seq(S)}
<1> SUFFICES ASSUME bad # {} PROVE FALSE
  OBVIOUS
<1>1. PICK m \in bad : \A k \in bad : m <= k
  <2>1. bad \in SUBSET Nat
    OBVIOUS
  <2> HIDE DEF bad
  <2> QED
    BY <2>1, LeastOf
<1>2. m \in 0 .. Len(operations) /\ AppendsUpTo(operations)[m] \notin Seq(S)
  OBVIOUS
<1>3. m # 0
  <2>1. AppendsUpTo(operations)[0] = <<>>
    BY AppendsStep
  <2>2. <<>> \in Seq(S)
    OBVIOUS
  <2> QED
    BY <1>2, <2>1, <2>2
<1>4. m - 1 \in 0 .. Len(operations) /\ ~(m <= m - 1)
  BY <1>2, <1>3
<1>5. AppendsUpTo(operations)[m - 1] \in Seq(S)
  BY <1>1, <1>4
<1>6. operations[m] \in S
  BY <1>2, <1>3
<1>7. AppendsUpTo(operations)[m] = Collected(AppendsUpTo(operations), operations, m)
  BY <1>2, <1>3, AppendsStep
<1> QED
  BY <1>2, <1>3, <1>5, <1>6, <1>7 DEF Collected

-----------------------------------------------------------------------------
(* Counting *)

\* The rows of a stream.
OfStream(rows, stream) == {i \in DOMAIN rows : rows[i].stream_id = stream}
Count(rows, stream) == Cardinality(OfStream(rows, stream))

\* The number of a row among the first k of its stream.
RankIn(rows, k) == Cardinality({i \in 1 .. k : rows[i].stream_id = rows[k].stream_id})

\* What appending does to a sequence.
LEMMA AppendFacts ==
    ASSUME NEW S, NEW rows \in Seq(S), NEW e \in S
    PROVE  /\ Len(Append(rows, e)) = Len(rows) + 1
           /\ DOMAIN Append(rows, e) = 1 .. Len(rows) + 1
           /\ Append(rows, e)[Len(rows) + 1] = e
           /\ \A i \in 1 .. Len(rows) : Append(rows, e)[i] = rows[i]
OBVIOUS

\* Counts are natural numbers, and one more row counts for its stream.
LEMMA CountAppend ==
    ASSUME NEW S, NEW rows \in Seq(S), NEW e \in S, NEW stream
    PROVE  /\ Count(rows, stream) \in Nat
           /\ Count(Append(rows, e), stream) =
                  IF e.stream_id = stream THEN Count(rows, stream) + 1 ELSE Count(rows, stream)
<1> DEFINE n == Len(rows)
           longer == Append(rows, e)
<1>1. /\ n \in Nat /\ DOMAIN rows = 1 .. n /\ DOMAIN longer = 1 .. n + 1
      /\ longer[n + 1] = e /\ \A i \in 1 .. n : longer[i] = rows[i]
  OBVIOUS
<1>2. IsFiniteSet(OfStream(rows, stream))
  <2>1. OfStream(rows, stream) \in SUBSET (1 .. n)
    BY <1>1 DEF OfStream
  <2>2. IsFiniteSet(1 .. n)
    BY <1>1, FS_Interval
  <2> QED
    BY <2>1, <2>2, FS_Subset
<1>3. Count(rows, stream) \in Nat
  BY <1>2, FS_CardinalityType DEF Count
<1> HIDE DEF n, longer
<1>4. CASE e.stream_id = stream
  <2>1. OfStream(longer, stream) = OfStream(rows, stream) \cup {n + 1}
    BY <1>1, <1>4 DEF OfStream
  <2>2. n + 1 \notin OfStream(rows, stream)
    BY <1>1 DEF OfStream
  <2> QED
    BY <1>2, <1>3, <1>4, <2>1, <2>2, FS_AddElement DEF Count, longer
<1>5. CASE e.stream_id # stream
  <2>1. OfStream(longer, stream) = OfStream(rows, stream)
    BY <1>1, <1>5 DEF OfStream
  <2> QED
    BY <1>3, <1>5, <2>1 DEF Count, longer
<1> QED
  BY <1>4, <1>5

\* Ranks do not change when a row is added, whose own rank is the new count.
LEMMA RankAppend ==
    ASSUME NEW S, NEW rows \in Seq(S), NEW e \in S
    PROVE  /\ \A k \in 1 .. Len(rows) : RankIn(Append(rows, e), k) = RankIn(rows, k)
           /\ RankIn(Append(rows, e), Len(rows) + 1) = Count(Append(rows, e), e.stream_id)
<1> DEFINE n == Len(rows)
           longer == Append(rows, e)
<1>1. /\ n \in Nat /\ DOMAIN longer = 1 .. n + 1
      /\ longer[n + 1] = e /\ \A i \in 1 .. n : longer[i] = rows[i]
  OBVIOUS
<1> HIDE DEF n, longer
<1>2. ASSUME NEW k \in 1 .. n PROVE RankIn(longer, k) = RankIn(rows, k)
  <2>1. {i \in 1 .. k : longer[i].stream_id = longer[k].stream_id}
           = {i \in 1 .. k : rows[i].stream_id = rows[k].stream_id}
    BY <1>1
  <2> QED
    BY <2>1 DEF RankIn
<1>3. RankIn(longer, n + 1) = Count(longer, e.stream_id)
  <2>1. {i \in 1 .. n + 1 : longer[i].stream_id = longer[n + 1].stream_id}
           = OfStream(longer, e.stream_id)
    BY <1>1 DEF OfStream
  <2> QED
    BY <2>1 DEF RankIn, Count
<1> QED
  BY <1>2, <1>3 DEF n, longer

-----------------------------------------------------------------------------
(* The invariant of the refinement *)

\* The events a batch has appended before its n-th operation.
Done(b, n) == AppendsUpTo(b.operations)[n - 1]

\* The row of the k-th of them.
Entry(b, done, k) ==
    [event_id |-> done[k].event_id, transaction_id |-> b.transaction_id,
     stream_id |-> done[k].stream_id,
     stream_version |-> Count(durable.events, done[k].stream_id) + RankIn(done, k)]

\* The row that the transaction under way has added to the transaction table.
NewRowOK(t, digest) ==
    /\ t \in DOMAIN transactions \ DOMAIN durable.transactions
    /\ DOMAIN transactions = DOMAIN durable.transactions \cup {t}
    /\ transactions[t].transaction_sequence = Cardinality(DOMAIN durable.transactions) + 1
    /\ transactions[t].request_digest = digest

\* A batch before its n-th operation: what it has appended so far is what the
\* abstract store will publish, and its expectations still hold of the
\* committed streams.
Progress(b, n) ==
    /\ b \in Batches
    /\ n \in 1 .. Len(b.operations) + 1
    /\ NewRowOK(b.transaction_id, RequestDigest(b))
    /\ Len(events) = Len(durable.events) + Len(Done(b, n))
    /\ \A k \in 1 .. Len(Done(b, n)) :
          events[Len(durable.events) + k] = Entry(b, Done(b, n), k)
    /\ \A s : KnownVersion(s) = Count(durable.events, s) + Count(Done(b, n), s)
    /\ \A k \in DOMAIN b.expected_stream_versions :
          Count(durable.events, b.expected_stream_versions[k].stream_id)
              = b.expected_stream_versions[k].version

\* The committed log is a prefix of the one the transaction sees, no event is
\* in it twice, and a stream's version is the number of its events.
LogsAgree ==
    /\ streams = durable.streams
    /\ \A i \in DOMAIN durable.events : i \in DOMAIN events /\ events[i] = durable.events[i]
    /\ \A i, j \in DOMAIN events : events[i].event_id = events[j].event_id => i = j
    /\ \A s : KnownVersion(s) = Count(events, s)
    /\ \A s : CurrentStreamVersion(s) = Count(durable.events, s)

\* The transaction under way, by its kind.
Underway ==
    /\ ~InBatch => events = durable.events /\ stream_versions = NoStreams
    /\ tx.kind = "claim" => \E t \in ClaimIds : NewRowOK(t, ClaimDigest)
    /\ InBatch => Progress(tx.batch, tx.next)

\* A consumer has been given a prefix of the committed log.
ConsumedPrefix ==
    /\ consumed \in Seq({durable.events[i] : i \in DOMAIN durable.events})
    /\ Len(consumed) <= Len(durable.events)
    /\ \A i \in 1 .. Len(consumed) : consumed[i] = durable.events[i]

TablesInv ==
    Numbered(transactions) /\ Numbered(durable.transactions) /\ LogsAgree /\ Underway

\* Both logs are sequences.
LEMMA LogsAreSequences ==
    ASSUME ControlInv
    PROVE  /\ events \in Seq({events[i] : i \in DOMAIN events})
           /\ durable.events \in Seq({durable.events[i] : i \in DOMAIN durable.events})
           /\ Len(events) \in Nat /\ DOMAIN events = 1 .. Len(events)
           /\ Len(durable.events) \in Nat /\ DOMAIN durable.events = 1 .. Len(durable.events)
<1>1. /\ events \in Seq({events[i] : i \in DOMAIN events})
      /\ durable.events \in Seq({durable.events[i] : i \in DOMAIN durable.events})
  BY DEF ControlInv, LogInv, LogOK
<1> QED
  BY <1>1

\* What a batch has appended so far is a sequence of operations.
LEMMA DoneType ==
    ASSUME NEW b \in Batches, NEW n \in 1 .. Len(b.operations) + 1
    PROVE  /\ b.operations \in Seq(BatchOperations)
           /\ Len(b.operations) \in Nat
           /\ Done(b, n) \in Seq(BatchOperations)
           /\ Len(Done(b, n)) \in Nat
<1>1. b.operations \in Seq(BatchOperations)
  BY OperationAssumption
<1>2. Len(b.operations) \in Nat /\ n - 1 \in 0 .. Len(b.operations)
  BY <1>1
<1>3. Done(b, n) \in Seq(BatchOperations)
  BY <1>1, <1>2, AppendsType DEF Done
<1> QED
  BY <1>1, <1>2, <1>3

\* Answers and reads change none of this.
LEMMA AnswerKeepsTables ==
    ASSUME TablesInv, UNCHANGED <<viewVars, durable, tx>>
    PROVE  TablesInv'
<1>1. UNCHANGED <<transactions, events, streams, stream_versions, durable, tx>>
  BY DEF viewVars, storeVars, logVars
<1>2. Numbered(transactions)' /\ Numbered(durable.transactions)'
  BY <1>1 DEF TablesInv, Numbered
<1>3. LogsAgree'
  BY <1>1 DEF TablesInv, LogsAgree, KnownVersion, CurrentStreamVersion
<1>4. Underway'
  BY <1>1 DEF TablesInv, Underway, InBatch, Progress, NewRowOK, KnownVersion,
              CurrentStreamVersion, Entry
<1> QED
  BY <1>2, <1>3, <1>4 DEF TablesInv

\* A rollback leaves the committed tables.
LEMMA RollbackKeepsTables ==
    ASSUME TablesInv, Rollback, tx' = Idle
    PROVE  TablesInv'
<1>1. /\ transactions' = durable.transactions /\ events' = durable.events
      /\ streams' = durable.streams /\ stream_versions' = NoStreams /\ durable' = durable
  BY DEF Rollback
<1>2. Numbered(transactions)' /\ Numbered(durable.transactions)'
  BY <1>1 DEF TablesInv, Numbered
<1>3. \A s : KnownVersion(s)' = CurrentStreamVersion(s)' /\ CurrentStreamVersion(s)' = CurrentStreamVersion(s)
  BY <1>1 DEF KnownVersion, CurrentStreamVersion, NoStreams, TablesInv, LogsAgree
<1>4. \A i, j \in DOMAIN durable.events :
          durable.events[i].event_id = durable.events[j].event_id => i = j
  BY DEF TablesInv, LogsAgree
<1>5. \A s : Count(events, s)' = Count(durable.events, s) /\ Count(durable.events, s)' = Count(durable.events, s)
  BY <1>1
<1>6. LogsAgree'
  BY <1>1, <1>3, <1>4, <1>5 DEF LogsAgree, TablesInv
<1>7. Underway'
  BY <1>1 DEF Underway, InBatch, Idle
<1> QED
  BY <1>2, <1>6, <1>7 DEF TablesInv

\* A commit makes the tables of the transaction the committed ones.
LEMMA PersistKeepsTables ==
    ASSUME TablesInv, Persist, tx' = Idle
    PROVE  TablesInv'
<1>1. /\ transactions' = transactions /\ events' = events
      /\ streams' = FlushedStreams /\ stream_versions' = NoStreams
      /\ durable'.transactions = transactions /\ durable'.events = events
      /\ durable'.streams = FlushedStreams
  BY DEF Persist, View, storeVars
<1>2. Numbered(transactions)' /\ Numbered(durable.transactions)'
  BY <1>1 DEF TablesInv, Numbered
<1>3. \A s : CurrentStreamVersion(s)' = KnownVersion(s)
  BY <1>1 DEF KnownVersion, CurrentStreamVersion, FlushedStreams
<1>4. \A s : KnownVersion(s)' = CurrentStreamVersion(s)'
  BY <1>1 DEF KnownVersion, CurrentStreamVersion, NoStreams
<1>5. \A s : Count(events, s)' = Count(events, s) /\ Count(durable.events, s)' = Count(events, s)
  BY <1>1
<1>6. LogsAgree'
  BY <1>1, <1>3, <1>4, <1>5 DEF LogsAgree, TablesInv
<1>7. Underway'
  BY <1>1 DEF Underway, InBatch, Idle
<1> QED
  BY <1>2, <1>6, <1>7 DEF TablesInv

\* The row that a transaction adds to the committed ones.
LEMMA NewRowAdded ==
    ASSUME Numbered(transactions), transactions = durable.transactions, NEW t,
           t \notin DOMAIN transactions, NEW digest, InsertTransaction(t, digest),
           UNCHANGED durable
    PROVE  Numbered(transactions)' /\ Numbered(durable.transactions)' /\ NewRowOK(t, digest)'
<1>1. /\ Numbered(transactions')
      /\ DOMAIN transactions' = DOMAIN transactions \cup {t}
      /\ transactions'[t].transaction_sequence = Cardinality(DOMAIN transactions) + 1
      /\ transactions'[t].request_digest = digest
  BY InsertNumbers
<1>2. durable'.transactions = transactions
  OBVIOUS
<1>3. NewRowOK(t, digest)'
  BY <1>1, <1>2 DEF NewRowOK
<1>4. Numbered(durable'.transactions)
  BY <1>2
<1> QED
  BY <1>1, <1>3, <1>4

\* The start of a batch loads the versions it expects and adds its row.
LEMMA BeginBatchKeepsTables ==
    ASSUME ControlInv, TablesInv, NEW s \in Stores, NEW b \in Batches, BeginBatch(s, b)
    PROVE  TablesInv'
<1> DEFINE t == b.transaction_id
           expected == b.expected_stream_versions
<1>1. /\ tx = Idle /\ t \notin DOMAIN transactions
      /\ ExpectedVersionsHold(expected) /\ LoadExpected(expected)
      /\ InsertTransaction(t, RequestDigest(b))
      /\ tx' = [kind |-> "batch", store |-> s, batch |-> b, next |-> 1]
      /\ UNCHANGED <<events, streams, durable>>
  BY DEF BeginBatch, TakeWriter, IsCommitted
<1>2. transactions = durable.transactions
  BY <1>1 DEF ControlInv, LockHolder, SeesCommitted, Idle, BatchTx, ClaimTx, ExtendTx
<1>3. events = durable.events /\ stream_versions = NoStreams
  BY <1>1 DEF TablesInv, Underway, InBatch, Idle
<1>4. /\ Numbered(transactions') /\ NewRowOK(t, RequestDigest(b))'
      /\ Numbered(durable.transactions)'
  BY <1>1, <1>2, NewRowAdded DEF TablesInv
<1>5. \A x : KnownVersion(x)' = CurrentStreamVersion(x) /\ CurrentStreamVersion(x)' = CurrentStreamVersion(x)
  BY <1>1 DEF LoadExpected, KnownVersion, CurrentStreamVersion
<1>6. \A x : Count(events, x)' = Count(durable.events, x)
             /\ Count(durable.events, x)' = Count(durable.events, x)
  BY <1>1, <1>3
<1>7. LogsAgree'
  BY <1>1, <1>3, <1>5, <1>6 DEF TablesInv, LogsAgree
<1>8. b.operations \in Seq(BatchOperations) /\ Len(b.operations) \in Nat
  BY OperationAssumption
<1>9. Done(b, 1) = <<>>
  BY <1>8, AppendsStep DEF Done
<1>10. Progress(b, 1)'
  <2>1. \A x : Count(Done(b, 1), x) = 0
    <3>1. \A x : OfStream(Done(b, 1), x) = {}
      BY <1>9 DEF OfStream
    <3> QED
      BY <3>1, FS_EmptySet DEF Count
  <2>2. \A x : Count(durable.events, x) \in Nat
    <3>1. \A x : CurrentStreamVersion(x) \in Nat
      BY DEF ControlInv, LogInv, CurrentStreamVersion
    <3> QED
      BY <3>1 DEF TablesInv, LogsAgree
  <2>3. \A x : KnownVersion(x)' = Count(durable.events, x)' + Count(Done(b, 1), x)
    BY <1>5, <1>6, <2>1, <2>2 DEF TablesInv, LogsAgree
  <2>4. \A k \in DOMAIN expected :
           Count(durable.events, expected[k].stream_id) = expected[k].version
    BY <1>1 DEF ExpectedVersionsHold, TablesInv, LogsAgree
  <2>5. 1 \in 1 .. Len(b.operations) + 1
    BY <1>8
  <2>6. Len(events)' = Len(durable.events)' + Len(Done(b, 1))
    BY <1>1, <1>3, <1>9, LogsAreSequences
  <2>7. 1 .. Len(Done(b, 1)) = {}
    BY <1>9
  <2> QED
    BY <1>1, <1>4, <2>3, <2>4, <2>5, <2>6, <2>7 DEF Progress
<1>11. Underway'
  BY <1>1, <1>10 DEF Underway, InBatch
<1> QED
  BY <1>4, <1>7, <1>11 DEF TablesInv

\* A claim adds its row and touches no event.
LEMMA BeginClaimKeepsTables ==
    ASSUME ControlInv, TablesInv, NEW s \in Stores, BeginClaim(s)
    PROVE  TablesInv'
<1>1. /\ tx = Idle /\ tx' = [kind |-> "claim", store |-> s]
      /\ UNCHANGED <<events, streams, stream_versions, durable>>
  BY DEF BeginClaim, TakeWriter, logVars
<1>2. PICK t \in ClaimIds \ drawn : InsertTransaction(t, ClaimDigest)
  BY DEF BeginClaim, ClaimJobs
<1>3. transactions = durable.transactions
  BY <1>1 DEF ControlInv, LockHolder, SeesCommitted, Idle, BatchTx, ClaimTx, ExtendTx
<1>4. t \notin DOMAIN transactions
  BY <1>2 DEF ControlInv, TransactionTable
<1>5. /\ Numbered(transactions') /\ NewRowOK(t, ClaimDigest)'
      /\ Numbered(durable.transactions)'
  BY <1>1, <1>2, <1>3, <1>4, NewRowAdded DEF TablesInv
<1>6. events = durable.events /\ stream_versions = NoStreams
  BY <1>1 DEF TablesInv, Underway, InBatch, Idle
<1>7. LogsAgree'
  BY <1>1 DEF TablesInv, LogsAgree, KnownVersion, CurrentStreamVersion
<1>8. Underway'
  BY <1>1, <1>2, <1>5, <1>6 DEF Underway, InBatch
<1> QED
  BY <1>5, <1>7, <1>8 DEF TablesInv

\* An extension touches neither table.
LEMMA BeginExtendKeepsTables ==
    ASSUME TablesInv, NEW s \in Stores, BeginExtend(s)
    PROVE  TablesInv'
<1>1. /\ tx = Idle /\ tx' = [kind |-> "extend", store |-> s]
      /\ UNCHANGED <<transactions, events, streams, stream_versions, durable>>
  BY DEF BeginExtend, TakeWriter, logVars
<1>2. events = durable.events /\ stream_versions = NoStreams
  BY <1>1 DEF TablesInv, Underway, InBatch, Idle
<1>3. LogsAgree'
  BY <1>1 DEF TablesInv, LogsAgree, KnownVersion, CurrentStreamVersion
<1>4. Underway'
  BY <1>1, <1>2 DEF Underway, InBatch
<1>5. Numbered(transactions)' /\ Numbered(durable.transactions)'
  BY <1>1 DEF TablesInv, Numbered
<1> QED
  BY <1>3, <1>4, <1>5 DEF TablesInv

\* An event is appended where the abstract store will publish it.
LEMMA AppendKeepsProgress ==
    ASSUME ControlInv, TablesInv, NEW b, NEW n, Progress(b, n), n <= Len(b.operations),
           b.operations[n].op = "AppendEvent",
           AppendEvent(b.transaction_id, b.operations[n].event_id, b.operations[n].stream_id),
           UNCHANGED <<transactions, durable>>
    PROVE  LogsAgree' /\ Progress(b, n + 1)'
<1> DEFINE op == b.operations[n]
           done == Done(b, n)
           more == Done(b, n + 1)
           stream == op.stream_id
           next == KnownVersion(stream) + 1
           e == [event_id |-> op.event_id, transaction_id |-> b.transaction_id,
                 stream_id |-> stream, stream_version |-> next]
           old == Len(durable.events)
<1>1. /\ b \in Batches /\ n \in 1 .. Len(b.operations) + 1
      /\ b.operations \in Seq(BatchOperations) /\ Len(b.operations) \in Nat
      /\ done \in Seq(BatchOperations) /\ Len(done) \in Nat
  BY DoneType DEF Progress
<1>2. n \in 1 .. Len(b.operations) /\ op \in BatchOperations
  BY <1>1
<1>3. more = Append(done, op)
  <2>1. AppendsUpTo(b.operations)[n] = Collected(AppendsUpTo(b.operations), b.operations, n)
    BY <1>1, <1>2, AppendsStep
  <2>2. n # 0 /\ (n + 1) - 1 = n
    BY <1>2
  <2> QED
    BY <2>1, <2>2 DEF Collected, Done
<1>4. /\ events' = Append(events, e)
      /\ \A i \in DOMAIN events : events[i].event_id # op.event_id
      /\ streams' = streams
      /\ stream_versions' = [x \in DOMAIN stream_versions \cup {stream} |->
                                IF x = stream THEN next ELSE stream_versions[x]]
  BY DEF AppendEvent, CanAppendEvent
<1>5. \A x : KnownVersion(x)' = IF x = stream THEN next ELSE KnownVersion(x)
  BY <1>4 DEF KnownVersion, CurrentStreamVersion
<1>6. /\ old \in Nat /\ Len(events) \in Nat /\ DOMAIN events = 1 .. Len(events)
      /\ DOMAIN durable.events = 1 .. old
      /\ events \in Seq({events[i] : i \in DOMAIN events} \cup {e})
  BY LogsAreSequences
<1>6a. /\ Len(events') = Len(events) + 1
       /\ DOMAIN events' = 1 .. Len(events) + 1
       /\ events'[Len(events) + 1] = e
       /\ \A i \in 1 .. Len(events) : events'[i] = events[i]
  <2> HIDE DEF e
  <2> DEFINE S == {events[i] : i \in DOMAIN events} \cup {e}
  <2>1. events \in Seq(S) /\ e \in S
    BY <1>6
  <2> HIDE DEF S
  <2> QED
    BY <1>4, <2>1, AppendFacts
<1> HIDE DEF op, done, more, e
<1>7. \A x : Count(events, x) \in Nat
             /\ Count(events', x) = IF e.stream_id = x THEN Count(events, x) + 1 ELSE Count(events, x)
  <2>1. e \in {events[i] : i \in DOMAIN events} \cup {e}
    OBVIOUS
  <2> QED
    BY <1>4, <1>6, <2>1, CountAppend
<1>8. \A x : Count(done, x) \in Nat
             /\ Count(more, x) = IF op.stream_id = x THEN Count(done, x) + 1 ELSE Count(done, x)
  BY <1>1, <1>2, <1>3, CountAppend
<1>9. e.stream_id = stream /\ e.stream_version = next /\ e.event_id = op.event_id
      /\ e.transaction_id = b.transaction_id /\ op.stream_id = stream
  BY DEF e, op
<1>10. \A x : KnownVersion(x) = Count(events, x)
              /\ KnownVersion(x) = Count(durable.events, x) + Count(done, x)
              /\ CurrentStreamVersion(x) = Count(durable.events, x)
  BY DEF TablesInv, LogsAgree, Progress, done
<1>11. \A x : CurrentStreamVersion(x) \in Nat
  BY DEF ControlInv, LogInv, CurrentStreamVersion
<1>12. \A x : KnownVersion(x)' = Count(events', x)
              /\ KnownVersion(x)' = Count(durable.events, x) + Count(more, x)
  BY <1>5, <1>7, <1>8, <1>9, <1>10, <1>11
<1>13. LogsAgree'
  <2>1. \A i \in DOMAIN durable.events : i \in DOMAIN events' /\ events'[i] = durable.events[i]
    BY <1>6, <1>6a DEF TablesInv, LogsAgree
  <2>2. \A i, j \in DOMAIN events' : events'[i].event_id = events'[j].event_id => i = j
    BY <1>4, <1>6, <1>6a, <1>9 DEF TablesInv, LogsAgree
  <2>3. streams' = durable'.streams
    BY <1>4 DEF TablesInv, LogsAgree
  <2>4. \A x : CurrentStreamVersion(x)' = Count(durable.events, x)
    BY <1>4, <1>10 DEF CurrentStreamVersion
  <2> QED
    BY <1>12, <2>1, <2>2, <2>3, <2>4 DEF LogsAgree
<1>14. Len(events') = old + Len(more)
  <2>1. Len(events) = old + Len(done)
    BY DEF Progress, done
  <2> QED
    <3>1. Len(more) = Len(done) + 1
      BY <1>1, <1>2, <1>3, AppendFacts
    <3> HIDE DEF old
    <3> QED
      BY <1>1, <1>6a, <1>6, <2>1, <3>1
<1>15. ASSUME NEW k \in 1 .. Len(more)
       PROVE  events'[old + k] = Entry(b, more, k)
  <2>1. Len(more) = Len(done) + 1 /\ Len(events) = old + Len(done)
    BY <1>1, <1>2, <1>3 DEF Progress, done
  <2>2. CASE k = Len(done) + 1
    <3>1. events'[old + k] = e
      <4> HIDE DEF old
      <4>1. old + k = Len(events) + 1
        BY <1>1, <1>6, <2>1, <2>2
      <4> QED
        BY <1>6a, <4>1
    <3>2. more[k] = op
      BY <1>1, <1>2, <1>3, <2>2
    <3>3. RankIn(more, k) = Count(more, stream)
      BY <1>1, <1>2, <1>3, <1>9, <2>2, RankAppend
    <3>4. next = Count(durable.events, stream) + RankIn(more, k)
      BY <1>8, <1>9, <1>10, <1>11, <3>3
    <3> QED
      BY <3>1, <3>2, <3>4 DEF Entry, e, op
  <2>3. CASE k # Len(done) + 1
    <3>1. k \in 1 .. Len(done)
      BY <1>1, <2>1, <2>3
    <3>2. events'[old + k] = events[old + k]
      <4> HIDE DEF old
      <4>1. old + k \in 1 .. Len(events)
        BY <1>1, <1>6, <2>1, <3>1
      <4> QED
        BY <1>6a, <4>1
    <3>3. events[old + k] = Entry(b, done, k)
      BY <3>1 DEF Progress, done
    <3>4. more[k] = done[k]
      BY <1>1, <1>2, <1>3, <3>1
    <3>5. RankIn(more, k) = RankIn(done, k)
      BY <1>1, <1>2, <1>3, <3>1, RankAppend
    <3> QED
      BY <3>2, <3>3, <3>4, <3>5 DEF Entry
  <2> QED
    BY <2>2, <2>3
<1>16. Progress(b, n + 1)'
  <2>1. n + 1 \in 1 .. Len(b.operations) + 1
    BY <1>1, <1>2
  <2>2. NewRowOK(b.transaction_id, RequestDigest(b))'
    BY DEF Progress, NewRowOK
  <2>3. \A k \in 1 .. Len(more) : Entry(b, more, k)' = Entry(b, more, k)
    BY DEF Entry
  <2>4. \A k \in DOMAIN b.expected_stream_versions :
          Count(durable.events, b.expected_stream_versions[k].stream_id)
              = b.expected_stream_versions[k].version
    BY DEF Progress
  <2> QED
    BY <1>1, <1>12, <1>14, <1>15, <2>1, <2>2, <2>3, <2>4 DEF Progress, more
<1> QED
  BY <1>13, <1>16

\* One operation of a batch.
LEMMA ExecKeepsTables ==
    ASSUME ControlInv, TablesInv, ExecOperation
    PROVE  TablesInv'
<1>0. PICK b, n : b = tx.batch /\ n = tx.next
  OBVIOUS
<1>1. /\ InBatch /\ n <= Len(b.operations) /\ tx' = [tx EXCEPT !.next = @ + 1]
      /\ UNCHANGED <<transactions, durable>>
  BY <1>0 DEF ExecOperation, MoreOperations
<1>2. Progress(b, n)
  BY <1>0, <1>1 DEF TablesInv, Underway
<1>3. tx \in BatchTx
  BY <1>1 DEF ControlInv, LockHolder, InBatch, Idle, BatchTx, ClaimTx, ExtendTx
<1>4. tx'.kind = "batch" /\ tx'.batch = b /\ tx'.next = n + 1
  BY <1>0, <1>1, <1>3 DEF BatchTx
<1>5. Numbered(transactions)' /\ Numbered(durable.transactions)'
  BY <1>1 DEF TablesInv, Numbered
<1>6. LogsAgree' /\ Progress(b, n + 1)'
  <2>1. CASE /\ Operation.op = "AppendEvent"
             /\ AppendEvent(tx.batch.transaction_id, Operation.event_id, Operation.stream_id)
    BY <1>0, <1>1, <1>2, <2>1, AppendKeepsProgress DEF Operation
  <2>2. CASE Operation.op # "AppendEvent" /\ UNCHANGED logVars
    <3>1. UNCHANGED <<events, streams, stream_versions>>
      BY <2>2 DEF logVars
    <3>2. LogsAgree'
      BY <1>1, <3>1 DEF TablesInv, LogsAgree, KnownVersion, CurrentStreamVersion
    <3>3. /\ b \in Batches /\ n \in 1 .. Len(b.operations) + 1
          /\ b.operations \in Seq(BatchOperations) /\ Len(b.operations) \in Nat
      BY <1>2, DoneType DEF Progress
    <3>4. n \in 1 .. Len(b.operations) /\ n # 0 /\ (n + 1) - 1 = n
      BY <1>1, <3>3
    <3>5. AppendsUpTo(b.operations)[n] = Collected(AppendsUpTo(b.operations), b.operations, n)
      BY <3>3, <3>4, AppendsStep
    <3>6. Done(b, n + 1) = Done(b, n)
      BY <1>0, <2>2, <3>4, <3>5 DEF Done, Collected, Operation
    <3>7. n + 1 \in 1 .. Len(b.operations) + 1
      BY <3>3, <3>4
    <3>8. \A x : KnownVersion(x)' = KnownVersion(x)
      BY <3>1 DEF KnownVersion, CurrentStreamVersion
    <3>9. \A k : Entry(b, Done(b, n), k)' = Entry(b, Done(b, n), k)
      BY <1>1 DEF Entry
    <3>10. Progress(b, n + 1)'
      BY <1>1, <1>2, <3>1, <3>6, <3>7, <3>8, <3>9 DEF Progress, NewRowOK
    <3> QED
      BY <3>2, <3>10
  <2> QED
    BY <2>1, <2>2 DEF ExecOperation, ApplyJobOperation
<1>7. Underway'
  BY <1>4, <1>6 DEF Underway, InBatch
<1> QED
  BY <1>5, <1>6, <1>7 DEF TablesInv

\* The tables start empty.
LEMMA InitTables == ControlInit => TablesInv
<1> SUFFICES ASSUME ControlInit PROVE TablesInv
  OBVIOUS
<1>1. /\ transactions = [t \in {} |-> None] /\ events = <<>> /\ streams = NoStreams
      /\ stream_versions = NoStreams /\ tx = Idle
      /\ durable.transactions = transactions /\ durable.events = events
      /\ durable.streams = streams
  BY DEF ControlInit, Init, InitLog, View
<1>2. DOMAIN transactions = {} /\ Cardinality(DOMAIN transactions) = 0
      /\ IsFiniteSet(DOMAIN transactions)
  BY <1>1, FS_EmptySet
<1>3. Numbered(transactions) /\ Numbered(durable.transactions)
  BY <1>1, <1>2 DEF Numbered
<1>4. \A x : Count(events, x) = 0
  <2>1. \A x : OfStream(events, x) = {}
    BY <1>1 DEF OfStream
  <2> QED
    BY <2>1, FS_EmptySet DEF Count
<1>5. \A x : KnownVersion(x) = 0 /\ CurrentStreamVersion(x) = 0
  BY <1>1 DEF KnownVersion, CurrentStreamVersion, NoStreams
<1>6. LogsAgree
  BY <1>1, <1>4, <1>5 DEF LogsAgree
<1>7. Underway
  BY <1>1 DEF Underway, InBatch, Idle
<1> QED
  BY <1>3, <1>6, <1>7 DEF TablesInv

\* Every step keeps the tables in agreement.
LEMMA TablesStep ==
    ASSUME ControlInv, TablesInv, [ControlNext]_controlVars
    PROVE  TablesInv'
<1>1. ASSUME NEW s \in Stores, NEW b \in Batches, RefuseBatch(s, b) \/ ResubmitBatch(s, b)
      PROVE  TablesInv'
  BY <1>1, AnswerKeepsTables DEF RefuseBatch, ResubmitBatch
<1>2. ASSUME NEW s \in Stores, NEW t \in BatchIds, RecoverTransaction(s, t) PROVE TablesInv'
  BY <1>2, AnswerKeepsTables DEF RecoverTransaction
<1>3. CASE PollEvents
  BY <1>3, AnswerKeepsTables DEF PollEvents
<1>4. CASE UNCHANGED controlVars
  BY <1>4, AnswerKeepsTables DEF controlVars
<1>5. CASE RejectOperation
  BY <1>5, RollbackKeepsTables DEF RejectOperation
<1>6. CASE CommitSucceeds
  BY <1>6, PersistKeepsTables DEF CommitSucceeds
<1>7. CASE CommitIndeterminate
  BY <1>7, PersistKeepsTables, RollbackKeepsTables DEF CommitIndeterminate
<1>8. CASE Crash
  BY <1>8, PersistKeepsTables, RollbackKeepsTables DEF Crash
<1> QED
  BY <1>1, <1>2, <1>3, <1>4, <1>5, <1>6, <1>7, <1>8, BeginBatchKeepsTables,
     BeginClaimKeepsTables, BeginExtendKeepsTables, ExecKeepsTables DEF ControlNext

-----------------------------------------------------------------------------
(* The steps of the abstract store *)

\* CommittedLog and CommittedRequest of any transaction table.
RequestIn(row, t) ==
    IF row.request_digest = ClaimDigest THEN ClaimRequest(t)
    ELSE Request(t, row.request_digest[2], row.request_digest[3])

LogOf(table) ==
    [i \in 1 .. Cardinality(DOMAIN table) |->
        RequestIn(table[CHOOSE t \in DOMAIN table : table[t].transaction_sequence = i],
                  CHOOSE t \in DOMAIN table : table[t].transaction_sequence = i)]

\* The log lists each transaction at its number.
LEMMA LogEntry ==
    ASSUME NEW table, Numbered(table)
    PROVE  /\ Cardinality(DOMAIN table) \in Nat
           /\ Len(LogOf(table)) = Cardinality(DOMAIN table)
           /\ DOMAIN LogOf(table) = 1 .. Cardinality(DOMAIN table)
           /\ LogOf(table) \in Seq({LogOf(table)[i] : i \in DOMAIN LogOf(table)})
           /\ \A t \in DOMAIN table :
                 /\ table[t].transaction_sequence \in DOMAIN LogOf(table)
                 /\ LogOf(table)[table[t].transaction_sequence] = RequestIn(table[t], t)
                 /\ RequestIn(table[t], t).id = t
<1> DEFINE n == Cardinality(DOMAIN table)
           at(i) == CHOOSE t \in DOMAIN table : table[t].transaction_sequence = i
<1>1. n \in Nat
  BY FS_CardinalityType DEF Numbered
<1>2. LogOf(table) = [i \in 1 .. n |-> RequestIn(table[at(i)], at(i))]
  BY DEF LogOf
<1>3. \A t \in DOMAIN table : at(table[t].transaction_sequence) = t
  <2> TAKE t \in DOMAIN table
  <2>1. /\ at(table[t].transaction_sequence) \in DOMAIN table
        /\ table[at(table[t].transaction_sequence)].transaction_sequence
               = table[t].transaction_sequence
    OBVIOUS
  <2> HIDE DEF at
  <2> QED
    BY <2>1 DEF Numbered
<1>4. \A t \in DOMAIN table : table[t].transaction_sequence \in 1 .. n
  BY DEF Numbered
<1>5. \A t \in DOMAIN table : RequestIn(table[t], t).id = t
  BY DEF RequestIn, ClaimRequest, Request
<1> HIDE DEF n, at
<1>6. \A t \in DOMAIN table :
         LogOf(table)[table[t].transaction_sequence] = RequestIn(table[t], t)
  BY <1>2, <1>3, <1>4
<1>7. DOMAIN LogOf(table) = 1 .. n /\ Len(LogOf(table)) = n
  BY <1>1, <1>2
<1>8. LogOf(table) \in Seq({LogOf(table)[i] : i \in DOMAIN LogOf(table)})
  BY <1>1, <1>2, <1>7
<1> QED
  BY <1>1, <1>4, <1>5, <1>6, <1>7, <1>8 DEF n

\* The refinement mapping's log is the log of the committed table.
LEMMA CommittedLogIs ==
    CommittedLog = LogOf(durable.transactions) /\ CommittedLog' = LogOf(durable'.transactions)
BY DEF CommittedLog, LogOf, CommittedRequest, RequestIn, ExpectationsOf, OperationsOf

\* The abstract store's committed ids are those of the committed table.
LEMMA SameCommittedIds ==
    ASSUME Numbered(durable.transactions)
    PROVE  Abstract!CommittedIds = DOMAIN durable.transactions
<1> DEFINE table == durable.transactions
           L == LogOf(table)
<1>1. Abstract!CommittedIds = {L[i].id : i \in DOMAIN L}
  BY CommittedLogIs DEF Abstract!CommittedIds
<1>2. \A t \in DOMAIN table : /\ table[t].transaction_sequence \in DOMAIN L
                              /\ L[table[t].transaction_sequence].id = t
  <2>1. \A t \in DOMAIN table : /\ table[t].transaction_sequence \in DOMAIN L
                                /\ L[table[t].transaction_sequence] = RequestIn(table[t], t)
                                /\ RequestIn(table[t], t).id = t
    BY LogEntry
  <2> HIDE DEF table, L
  <2> QED
    BY <2>1
<1>3. \A i \in DOMAIN L : L[i].id \in DOMAIN table
  <2> TAKE i \in DOMAIN L
  <2>1. i \in 1 .. Cardinality(DOMAIN table)
    BY LogEntry
  <2>2. PICK t \in DOMAIN table : table[t].transaction_sequence = i
    BY <2>1 DEF Numbered
  <2> HIDE DEF table, L
  <2> QED
    BY <1>2, <2>2
<1> HIDE DEF L, table
<1>4. Abstract!CommittedIds = DOMAIN table
  BY <1>1, <1>2, <1>3
<1> QED
  BY <1>4 DEF table

\* A new row lengthens the log by its request.
LEMMA LogGrows ==
    ASSUME TablesInv, TransactionTable, NEW t, NEW digest, NewRowOK(t, digest)
    PROVE  /\ LogOf(transactions) = Append(LogOf(durable.transactions), RequestIn(transactions[t], t))
           /\ transactions[t].transaction_sequence = Len(LogOf(durable.transactions)) + 1
<1> DEFINE old == durable.transactions
           n == Cardinality(DOMAIN old)
           r == RequestIn(transactions[t], t)
<1>1. Numbered(old) /\ Numbered(transactions)
  BY DEF TablesInv
<1>2. /\ n \in Nat /\ Len(LogOf(old)) = n /\ DOMAIN LogOf(old) = 1 .. n
      /\ LogOf(old) \in Seq({LogOf(old)[i] : i \in DOMAIN LogOf(old)})
  BY <1>1, LogEntry
<1>3. /\ t \notin DOMAIN old /\ DOMAIN transactions = DOMAIN old \cup {t}
      /\ transactions[t].transaction_sequence = n + 1
  BY DEF NewRowOK
<1>4. Cardinality(DOMAIN transactions) = n + 1
  BY <1>1, <1>3, FS_AddElement DEF Numbered
<1>5. DOMAIN LogOf(transactions) = 1 .. n + 1 /\ Len(LogOf(transactions)) = n + 1
  BY <1>1, <1>4, LogEntry
<1>6. LogOf(transactions)[n + 1] = r
  BY <1>1, <1>3, LogEntry
<1>7. ASSUME NEW i \in 1 .. n PROVE LogOf(transactions)[i] = LogOf(old)[i]
  <2>1. PICK u \in DOMAIN old : old[u].transaction_sequence = i
    BY <1>1 DEF Numbered
  <2>2. u \in DOMAIN transactions /\ transactions[u] = old[u]
    BY <2>1 DEF TransactionTable
  <2>3. LogOf(old)[i] = RequestIn(old[u], u)
    BY <1>1, <2>1, LogEntry
  <2>4. LogOf(transactions)[i] = RequestIn(transactions[u], u)
    BY <1>1, <2>1, <2>2, LogEntry
  <2> QED
    BY <2>2, <2>3, <2>4
<1>8. LogOf(transactions) = Append(LogOf(old), r)
  <2> DEFINE S == {LogOf(old)[i] : i \in DOMAIN LogOf(old)} \cup {r}
             A == Append(LogOf(old), r)
  <2>1. LogOf(old) \in Seq(S) /\ r \in S
    BY <1>2
  <2> HIDE DEF S, r
  <2>2. DOMAIN A = 1 .. n + 1 /\ A[n + 1] = r /\ \A i \in 1 .. n : A[i] = LogOf(old)[i]
    BY <1>2, <2>1, AppendFacts
  <2>3. \A i \in 1 .. n + 1 : LogOf(transactions)[i] = A[i]
    BY <1>2, <1>6, <1>7, <2>2
  <2>4. A = [i \in 1 .. n + 1 |-> A[i]]
    BY <1>2, <2>1, <2>2
  <2>5. LogOf(transactions) = [i \in 1 .. n + 1 |-> LogOf(transactions)[i]]
    BY <1>5 DEF LogOf
  <2> HIDE DEF A, n, old
  <2>6. LogOf(transactions) = A
    BY <2>3, <2>4, <2>5
  <2> QED
    BY <2>6 DEF A, r, old
<1> QED
  BY <1>2, <1>3, <1>8

\* The abstract store counts as this one does.
LEMMA SameCardinality == \A S : Abstract!Cardinality(S) = Cardinality(S)
BY DEF Abstract!Cardinality, Cardinality

\* The abstract version of a stream is the number of its committed events.
LEMMA VersionIsCount == \A x : Abstract!Version(x) = Count(durable.events, x)
BY SameCardinality DEF Abstract!Version, Count, OfStream

\* A function on 1 .. n is a sequence.
LEMMA FunctionIsSequence ==
    ASSUME NEW S, NEW n \in Nat, NEW f \in [1 .. n -> S]
    PROVE  f \in Seq(S) /\ Len(f) = n
OBVIOUS

\* A sequence is its first part followed by the rest.
LEMMA Concatenated ==
    ASSUME NEW S, NEW long \in Seq(S), NEW old \in Seq(S), NEW P \in Seq(S),
           Len(long) = Len(old) + Len(P),
           \A i \in 1 .. Len(old) : long[i] = old[i],
           \A k \in 1 .. Len(P) : long[Len(old) + k] = P[k]
    PROVE  long = old \o P
<1>1. PICK m, d : m = Len(old) /\ d = Len(P)
  OBVIOUS
<1>2. m \in Nat /\ d \in Nat /\ Len(long) = m + d
  BY <1>1
<1>3. /\ old \o P \in Seq(S) /\ Len(old \o P) = m + d
      /\ \A i \in 1 .. m + d : (old \o P)[i] = IF i <= m THEN old[i] ELSE P[i - m]
  BY <1>1, ConcatProperties
<1>4. \A i \in 1 .. m + d : long[i] = (old \o P)[i]
  <2> TAKE i \in 1 .. m + d
  <2>1. CASE i <= m
    BY <1>1, <1>2, <1>3, <2>1
  <2>2. CASE ~(i <= m)
    <3>1. i - m \in 1 .. d /\ m + (i - m) = i
      BY <1>2, <2>2
    <3>2. long[i] = P[i - m]
      BY <1>1, <3>1
    <3> QED
      BY <1>3, <2>2, <3>2
  <2> QED
    BY <2>1, <2>2
<1> QED
  BY <1>2, <1>3, <1>4, SeqEqual

\* A batch whose operations are all done is admissible to the abstract store,
\* and has appended what that store publishes for it.
LEMMA BatchPublishes ==
    ASSUME ControlInv, TablesInv, NEW b, NEW n, Progress(b, n), n = Len(b.operations) + 1
    PROVE  /\ Abstract!Admissible(BatchRequest(b))
           /\ events = durable.events \o Abstract!Published(BatchRequest(b))
<1> DEFINE r == BatchRequest(b)
           done == Done(b, n)
           old == durable.events
<1>1. /\ b \in Batches /\ b.operations \in Seq(BatchOperations) /\ Len(b.operations) \in Nat
      /\ done \in Seq(BatchOperations) /\ Len(done) \in Nat
      /\ DOMAIN done = 1 .. Len(done)
  BY DoneType DEF Progress
<1>2. r.appends = done /\ r.id = b.transaction_id /\ r.expects = b.expected_stream_versions
  BY <1>1 DEF BatchRequest, Request, Appends, Done
<1>3. /\ events \in Seq({events[i] : i \in DOMAIN events}) /\ Len(events) \in Nat
      /\ DOMAIN events = 1 .. Len(events) /\ Len(old) \in Nat /\ DOMAIN old = 1 .. Len(old)
      /\ old \in Seq({old[i] : i \in DOMAIN old})
  BY LogsAreSequences
<1>4. /\ Len(events) = Len(old) + Len(done)
      /\ \A k \in 1 .. Len(done) : events[Len(old) + k] = Entry(b, done, k)
  BY DEF Progress
<1>5. \A k \in 1 .. Len(done) : Entry(b, done, k).event_id = done[k].event_id
  BY DEF Entry
<1>6. /\ \A i \in DOMAIN old : events[i] = old[i]
      /\ \A i, j \in DOMAIN events : events[i].event_id = events[j].event_id => i = j
  BY DEF TablesInv, LogsAgree
<1>7. DOMAIN Abstract!Published(r) = 1 .. Len(done)
  BY <1>1, <1>2 DEF Abstract!Published
<1>8. \A k \in 1 .. Len(done) : Abstract!Published(r)[k] = Entry(b, done, k)
  <2>1. \A k \in 1 .. Len(done) : Abstract!Rank(r, k) = RankIn(done, k)
    BY <1>2, SameCardinality DEF Abstract!Rank, RankIn
  <2>2. \A k \in 1 .. Len(done) :
           Abstract!Published(r)[k] =
              [event_id |-> done[k].event_id, transaction_id |-> b.transaction_id,
               stream_id |-> done[k].stream_id,
               stream_version |-> Abstract!Version(done[k].stream_id) + Abstract!Rank(r, k)]
    BY <1>1, <1>2 DEF Abstract!Published
  <2> HIDE DEF r, done
  <2> QED
    BY <2>1, <2>2, VersionIsCount DEF Entry
<1> HIDE DEF r, done, old
<1>9. \A k \in DOMAIN r.expects : Abstract!Version(r.expects[k].stream_id) = r.expects[k].version
  <2>1. \A k \in DOMAIN r.expects : Count(old, r.expects[k].stream_id) = r.expects[k].version
    BY <1>2 DEF Progress, old
  <2> QED
    BY <2>1, VersionIsCount DEF old
<1>10. PICK m, d : m = Len(old) /\ d = Len(done)
  OBVIOUS
<1>11. /\ m \in Nat /\ d \in Nat /\ DOMAIN old = 1 .. m /\ DOMAIN r.appends = 1 .. d
       /\ DOMAIN events = 1 .. m + d /\ Len(events) = m + d
  BY <1>1, <1>2, <1>3, <1>4, <1>10
<1>12. \A k \in 1 .. d : /\ events[m + k] = Abstract!Published(r)[k]
                         /\ events[m + k].event_id = r.appends[k].event_id
  BY <1>2, <1>4, <1>5, <1>8, <1>10
<1>13. \A i \in 1 .. m : events[i] = old[i]
  BY <1>6, <1>11
<1>14. ASSUME NEW k \in DOMAIN r.appends
       PROVE  /\ \A i \in DOMAIN old : old[i].event_id # r.appends[k].event_id
              /\ \A i \in 1 .. (k - 1) : r.appends[i].event_id # r.appends[k].event_id
  <2>1. k \in 1 .. d /\ m + k \in DOMAIN events
    BY <1>11
  <2>2. ASSUME NEW i \in DOMAIN old PROVE old[i].event_id # r.appends[k].event_id
    <3>1. i \in DOMAIN events /\ i # m + k
      BY <1>11, <2>1
    <3>2. events[i].event_id # events[m + k].event_id
      BY <1>6, <2>1, <3>1
    <3>3. events[i] = old[i] /\ events[m + k].event_id = r.appends[k].event_id
      BY <1>11, <1>12, <1>13, <2>1
    <3> QED
      BY <3>2, <3>3
  <2>3. ASSUME NEW i \in 1 .. (k - 1) PROVE r.appends[i].event_id # r.appends[k].event_id
    <3>1. i \in 1 .. d /\ m + i \in DOMAIN events /\ m + i # m + k
      BY <1>11, <2>1
    <3>2. events[m + i].event_id # events[m + k].event_id
      BY <1>6, <2>1, <3>1
    <3> QED
      BY <1>12, <2>1, <3>1, <3>2
  <2> QED
    BY <2>2, <2>3
<1>15. Abstract!Admissible(r)
  BY <1>9, <1>14 DEF Abstract!Admissible, old
<1>16. events = old \o Abstract!Published(r)
  <2> DEFINE P == Abstract!Published(r)
             S == {events[i] : i \in DOMAIN events}
  <2>1. P = [k \in 1 .. d |-> P[k]]
    BY <1>11 DEF Abstract!Published
  <2>2. \A k \in 1 .. d : events[m + k] = P[k]
    BY <1>12
  <2> HIDE DEF P
  <2>3. \A k \in 1 .. d : P[k] \in S
    <3>1. \A k \in 1 .. d : m + k \in DOMAIN events
      BY <1>11
    <3> QED
      BY <2>2, <3>1
  <2>4. \A i \in 1 .. m : old[i] \in S
    <3>1. \A i \in 1 .. m : i \in DOMAIN events
      BY <1>11
    <3> QED
      BY <1>13, <3>1
  <2>5. events \in Seq(S)
    BY <1>3
  <2> HIDE DEF S
  <2>6. P \in [1 .. d -> S]
    BY <2>1, <2>3
  <2>7. P \in Seq(S) /\ Len(P) = d
    BY <1>11, <2>6, FunctionIsSequence
  <2>8. old = [i \in 1 .. m |-> old[i]]
    BY <1>3, <1>10
  <2>9. old \in [1 .. m -> S]
    BY <2>4, <2>8
  <2>10. old \in Seq(S)
    BY <1>11, <2>9, FunctionIsSequence
  <2>11. /\ Len(events) = Len(old) + Len(P)
         /\ \A i \in 1 .. Len(old) : events[i] = old[i]
         /\ \A k \in 1 .. Len(P) : events[Len(old) + k] = P[k]
    BY <1>10, <1>11, <1>13, <2>2, <2>7
  <2>12. events = old \o P
    BY <2>5, <2>7, <2>10, <2>11, Concatenated
  <2> QED
    BY <2>12 DEF P
<1> QED
  BY <1>15, <1>16 DEF r, old

\* What callers may ask the abstract store for.
AllRequests == {BatchRequest(b) : b \in Batches} \cup {ClaimRequest(t) : t \in ClaimIds}

\* A commit that makes a new row durable is a commit of the abstract store.
LEMMA RowCommits ==
    ASSUME ControlInv, TablesInv, NEW t, NEW digest, NewRowOK(t, digest), Persist,
           NEW r, r = RequestIn(transactions[t], t), r.id = t, t \notin refused,
           Abstract!Admissible(r),
           events = durable.events \o Abstract!Published(r),
           receipts' \in {receipts,
                          receipts \cup {<<t, transactions[t].transaction_sequence>>}},
           UNCHANGED <<refused, consumed>>
    PROVE  Abstract!Commit(r)
<1>1. durable'.transactions = transactions /\ durable'.events = events
  BY DEF Persist, View, storeVars
<1>2. /\ LogOf(transactions) = Append(LogOf(durable.transactions), r)
      /\ transactions[t].transaction_sequence = Len(LogOf(durable.transactions)) + 1
  BY LogGrows DEF ControlInv
<1>3. CommittedLog' = Append(CommittedLog, r)
  BY <1>1, <1>2, CommittedLogIs
<1>4. receipts' \in {receipts, receipts \cup {<<r.id, Len(CommittedLog) + 1>>}}
  BY <1>2, CommittedLogIs
<1>5. r.id \notin Abstract!CommittedIds \cup refused
  BY SameCommittedIds DEF TablesInv, NewRowOK
<1>6. (durable.events)' = durable.events \o Abstract!Published(r)
  BY <1>1
<1> QED
  BY <1>3, <1>4, <1>5, <1>6 DEF Abstract!Commit

\* The request of a batch, as the transaction table stores it.
LEMMA BatchRequestStored ==
    ASSUME NEW b \in Batches, NewRowOK(b.transaction_id, RequestDigest(b))
    PROVE  RequestIn(transactions[b.transaction_id], b.transaction_id) = BatchRequest(b)
<1>1. /\ transactions[b.transaction_id].request_digest = RequestDigest(b)
      /\ RequestDigest(b) # ClaimDigest
  BY DigestAssumption DEF NewRowOK
<1>2. RequestDigest(b)[2] = b.expected_stream_versions /\ RequestDigest(b)[3] = b.operations
  BY DEF RequestDigest
<1> QED
  BY <1>1, <1>2 DEF RequestIn, BatchRequest

\* The COMMIT of a batch.
LEMMA BatchCommits ==
    ASSUME ControlInv, TablesInv, InBatch, ~MoreOperations, Persist,
           receipts' \in {receipts, receipts \cup {<<tx.batch.transaction_id,
                              transactions[tx.batch.transaction_id].transaction_sequence>>}},
           UNCHANGED <<refused, consumed>>
    PROVE  \E r \in AllRequests : Abstract!Commit(r)
<1>1. PICK b, n : b = tx.batch /\ n = tx.next
  OBVIOUS
<1>2. Progress(b, n) /\ b \in Batches /\ NewRowOK(b.transaction_id, RequestDigest(b))
  BY <1>1 DEF TablesInv, Underway, Progress
<1>3. n = Len(b.operations) + 1
  <2>1. b.operations \in Seq(BatchOperations)
    BY <1>2, OperationAssumption
  <2>2. Len(b.operations) \in Nat /\ n \in 1 .. Len(b.operations) + 1
    BY <1>2, <2>1 DEF Progress
  <2>3. ~(n <= Len(b.operations))
    BY <1>1 DEF MoreOperations
  <2> QED
    BY <2>2, <2>3
<1>4. /\ Abstract!Admissible(BatchRequest(b))
      /\ events = durable.events \o Abstract!Published(BatchRequest(b))
  BY <1>2, <1>3, BatchPublishes
<1>5. BatchRequest(b).id = b.transaction_id
  BY DEF BatchRequest, Request
<1>6. RequestIn(transactions[b.transaction_id], b.transaction_id) = BatchRequest(b)
  BY <1>2, BatchRequestStored
<1>7. b.transaction_id \notin refused
  BY <1>1 DEF ControlInv, LockHolder, InBatch, Idle, ClaimTx, ExtendTx
<1>8. receipts' \in {receipts, receipts \cup
                       {<<b.transaction_id, transactions[b.transaction_id].transaction_sequence>>}}
  BY <1>1
<1>9. BatchRequest(b) \in AllRequests
  BY <1>2 DEF AllRequests
<1>10. Abstract!Commit(BatchRequest(b))
  BY <1>2, <1>4, <1>5, <1>6, <1>7, <1>8, RowCommits
<1> QED
  BY <1>9, <1>10

\* A claim asks for no event.
LEMMA ClaimPublishesNothing ==
    ASSUME ControlInv, NEW t
    PROVE  /\ Abstract!Admissible(ClaimRequest(t))
           /\ durable.events = durable.events \o Abstract!Published(ClaimRequest(t))
           /\ ClaimRequest(t).id = t
<1> DEFINE r == ClaimRequest(t)
<1>1. <<>> \in Seq({}) /\ Len(<<>>) = 0
  OBVIOUS
<1>2. Appends(<<>>) = <<>>
  BY <1>1, AppendsStep DEF Appends
<1>3. r.appends = <<>> /\ r.expects = <<>> /\ r.id = t
  BY <1>2 DEF ClaimRequest, Request
<1> HIDE DEF r
<1>4. DOMAIN r.appends = {} /\ DOMAIN r.expects = {}
  BY <1>3
<1>5. Abstract!Admissible(r)
  BY <1>4 DEF Abstract!Admissible
<1>6. Abstract!Published(r) = <<>>
  BY <1>4 DEF Abstract!Published
<1>7. durable.events \o <<>> = durable.events
  BY LogsAreSequences, ConcatEmptySeq
<1> QED
  BY <1>3, <1>5, <1>6, <1>7 DEF r

\* The COMMIT of a claim.
LEMMA ClaimCommits ==
    ASSUME ControlInv, TablesInv, tx.kind = "claim", Persist,
           UNCHANGED <<receipts, refused, consumed>>
    PROVE  \E r \in AllRequests : Abstract!Commit(r)
<1>1. PICK t \in ClaimIds : NewRowOK(t, ClaimDigest)
  BY DEF TablesInv, Underway
<1>2. events = durable.events
  BY DEF TablesInv, Underway, InBatch
<1>3. RequestIn(transactions[t], t) = ClaimRequest(t)
  BY <1>1 DEF NewRowOK, RequestIn
<1>4. t \notin refused
  BY <1>1 DEF ControlInv, TransactionTable, ClaimIds
<1>5. /\ Abstract!Admissible(ClaimRequest(t))
      /\ events = durable.events \o Abstract!Published(ClaimRequest(t))
      /\ ClaimRequest(t).id = t
  BY <1>2, ClaimPublishesNothing
<1>6. receipts' \in {receipts, receipts \cup {<<t, transactions[t].transaction_sequence>>}}
  OBVIOUS
<1>7. Abstract!Commit(ClaimRequest(t))
  BY <1>1, <1>3, <1>4, <1>5, <1>6, RowCommits
<1> QED
  BY <1>1, <1>7 DEF AllRequests

\* What the refinement mapping shows of a step.
AbstractStep == Abstract!AbstractNext \/ UNCHANGED Abstract!abstractVars

\* A step that leaves the committed tables and the histories alone is invisible.
LEMMA Unseen ==
    ASSUME durable'.transactions = durable.transactions, durable'.events = durable.events,
           UNCHANGED <<receipts, refused, consumed>>
    PROVE  AbstractStep
<1>1. CommittedLog' = CommittedLog
  BY CommittedLogIs
<1> QED
  BY <1>1 DEF AbstractStep, Abstract!abstractVars

\* A receipt for a committed transaction.
LEMMA ReceiptAcknowledges ==
    ASSUME TablesInv, NEW t \in DOMAIN durable.transactions,
           receipts' = receipts \cup {<<t, durable.transactions[t].transaction_sequence>>},
           UNCHANGED <<durable, refused, consumed>>
    PROVE  AbstractStep
<1> DEFINE i == durable.transactions[t].transaction_sequence
<1>1. CommittedLog' = CommittedLog
  BY CommittedLogIs
<1>2. Numbered(durable.transactions)
  BY DEF TablesInv
<1>3. i \in DOMAIN CommittedLog /\ CommittedLog[i].id = t
  <2>1. /\ i \in DOMAIN LogOf(durable.transactions)
        /\ LogOf(durable.transactions)[i] = RequestIn(durable.transactions[t], t)
        /\ RequestIn(durable.transactions[t], t).id = t
    BY <1>2, LogEntry
  <2> QED
    BY <2>1, CommittedLogIs
<1>4. receipts' = receipts \cup {<<CommittedLog[i].id, i>>}
  BY <1>3
<1> HIDE DEF i
<1>5. Abstract!Acknowledge
  BY <1>1, <1>3, <1>4 DEF Abstract!Acknowledge
<1> QED
  BY <1>5 DEF AbstractStep, Abstract!AbstractNext

\* An error for a transaction that is not committed.
LEMMA ErrorDenies ==
    ASSUME TablesInv, NEW t \in BatchIds, t \notin DOMAIN durable.transactions,
           refused' = refused \cup {t},
           UNCHANGED <<durable, receipts, consumed>>
    PROVE  AbstractStep
<1>1. CommittedLog' = CommittedLog
  BY CommittedLogIs
<1>2. t \notin Abstract!CommittedIds
  BY SameCommittedIds DEF TablesInv
<1>3. Abstract!Deny(t)
  BY <1>1, <1>2 DEF Abstract!Deny
<1>4. t \in Abstract!RequestIds
  <2>1. PICK b \in Batches : t = b.transaction_id
    BY DEF BatchIds
  <2>2. BatchRequest(b).id = t
    BY <2>1 DEF BatchRequest, Request
  <2> QED
    BY <2>2 DEF Abstract!RequestIds
<1> QED
  BY <1>3, <1>4 DEF AbstractStep, Abstract!AbstractNext

\* Handing in a batch.
LEMMA BeginSubmits ==
    ASSUME NEW b \in Batches, refused' = refused \ {b.transaction_id},
           UNCHANGED <<durable, receipts, consumed>>
    PROVE  AbstractStep
<1>1. CommittedLog' = CommittedLog
  BY CommittedLogIs
<1>2. BatchRequest(b).id = b.transaction_id
  BY DEF BatchRequest, Request
<1>3. Abstract!Submit(BatchRequest(b))
  BY <1>1, <1>2 DEF Abstract!Submit
<1> QED
  BY <1>3 DEF AbstractStep, Abstract!AbstractNext

\* A COMMIT that persists, whether or not its caller hears of it.
LEMMA CommitIsOneStep ==
    ASSUME ControlInv, TablesInv, ReadyToCommit, Persist,
           \/ UNCHANGED receipts
           \/ /\ InBatch
              /\ receipts' = receipts \cup {<<tx.batch.transaction_id,
                                 transactions[tx.batch.transaction_id].transaction_sequence>>},
           UNCHANGED <<refused, consumed>>
    PROVE  AbstractStep
<1>1. CASE InBatch
  <2>1. ~MoreOperations
    BY <1>1 DEF ReadyToCommit, InBatch
  <2>2. \E r \in AllRequests : Abstract!Commit(r)
    BY <1>1, <2>1, BatchCommits
  <2> QED
    BY <2>2 DEF AbstractStep, Abstract!AbstractNext, AllRequests
<1>2. CASE tx.kind = "claim"
  <2>1. UNCHANGED receipts
    BY <1>2 DEF InBatch
  <2>2. \E r \in AllRequests : Abstract!Commit(r)
    BY <1>2, <2>1, ClaimCommits
  <2> QED
    BY <2>2 DEF AbstractStep, Abstract!AbstractNext, AllRequests
<1>3. CASE tx.kind = "extend"
  <2>1. UNCHANGED receipts /\ events = durable.events
    BY <1>3 DEF InBatch, TablesInv, Underway
  <2>2. transactions = durable.transactions
    BY <1>3 DEF ControlInv, LockHolder, Idle, BatchTx, ClaimTx, ExtendTx
  <2>3. durable'.transactions = transactions /\ durable'.events = events
    BY DEF Persist, View, storeVars
  <2> QED
    BY <2>1, <2>2, <2>3, Unseen
<1> QED
  BY <1>1, <1>2, <1>3 DEF ReadyToCommit

\* Events handed to a consumer.
LEMMA PollDelivers ==
    ASSUME ControlInv, ConsumedPrefix, PollEvents
    PROVE  AbstractStep /\ ConsumedPrefix'
<1> DEFINE feed == durable.events
           S == {feed[i] : i \in DOMAIN feed}
<1>1. PICK n, m, len : /\ n = Len(consumed) /\ len = Len(feed)
                       /\ m = IF len < n + PageLimit THEN len ELSE n + PageLimit
  OBVIOUS
<1>2. /\ feed \in Seq(S) /\ len \in Nat /\ DOMAIN feed = 1 .. len
      /\ consumed \in Seq(S) /\ n \in Nat /\ n <= len
      /\ \A i \in 1 .. n : consumed[i] = feed[i]
  BY <1>1, LogsAreSequences DEF ConsumedPrefix
<1>3. m \in n .. len
  BY <1>1, <1>2, BatchAssumption
<1> DEFINE page == SubSeq(feed, n + 1, m)
<1>4. consumed' = consumed \o page /\ UNCHANGED <<durable, receipts, refused>>
  BY <1>1 DEF PollEvents, EventsAfter, ReaderLog, historyVars
<1>5. \A i \in n + 1 .. m : feed[i] \in S
  <2>1. \A i \in n + 1 .. m : i \in DOMAIN feed
    BY <1>2, <1>3
  <2> QED
    BY <2>1
<1> HIDE DEF S, feed
<1>6. /\ page \in Seq(S) /\ Len(page) = m - n
      /\ \A i \in 1 .. m - n : page[i] = feed[n + i]
  <2>1. n + 1 \in Int /\ m \in Int
    BY <1>2, <1>3
  <2>2. /\ page \in Seq(S) /\ Len(page) = IF n + 1 <= m THEN m - (n + 1) + 1 ELSE 0
        /\ \A i \in 1 .. m - (n + 1) + 1 : page[i] = feed[(n + 1) + i - 1]
    BY <1>5, <2>1, SubSeqProperties
  <2> HIDE DEF page
  <2> QED
    BY <1>2, <1>3, <2>2
<1> HIDE DEF page
<1>7. /\ consumed' \in Seq(S) /\ Len(consumed') = m
      /\ \A i \in 1 .. m : consumed'[i] = IF i <= n THEN consumed[i] ELSE page[i - n]
  <2>1. consumed \in Seq(S) /\ page \in Seq(S)
    BY <1>2, <1>6
  <2>2. /\ consumed \o page \in Seq(S) /\ Len(consumed \o page) = Len(consumed) + Len(page)
        /\ \A i \in 1 .. Len(consumed) + Len(page) :
              (consumed \o page)[i] = IF i <= Len(consumed) THEN consumed[i]
                                      ELSE page[i - Len(consumed)]
    BY <2>1, ConcatProperties
  <2>3. Len(consumed) = n /\ Len(consumed) + Len(page) = m
    BY <1>1, <1>2, <1>3, <1>6
  <2> QED
    BY <1>4, <2>2, <2>3
<1>8. \A i \in 1 .. m : consumed'[i] = feed[i]
  <2> TAKE i \in 1 .. m
  <2>1. CASE i <= n
    BY <1>2, <1>3, <1>7, <2>1
  <2>2. CASE ~(i <= n)
    <3>1. i - n \in 1 .. m - n /\ n + (i - n) = i
      BY <1>2, <1>3, <2>2
    <3>2. page[i - n] = feed[i]
      BY <1>6, <3>1
    <3> QED
      BY <1>7, <2>2, <3>2
  <2> QED
    BY <2>1, <2>2
<1>9. ConsumedPrefix'
  <2>1. feed' = feed /\ S' = S
    BY <1>4 DEF feed, S
  <2>2. /\ consumed' \in Seq(S) /\ Len(consumed') <= Len(feed)
        /\ \A i \in 1 .. Len(consumed') : consumed'[i] = feed[i]
    BY <1>1, <1>2, <1>3, <1>7, <1>8
  <2> QED
    BY <1>4, <2>2 DEF ConsumedPrefix, S, feed
<1>10. AbstractStep
  <2>1. CommittedLog' = CommittedLog
    BY <1>4, CommittedLogIs
  <2>2. m \in Len(consumed) .. Len(durable.events)
    BY <1>1, <1>3 DEF feed
  <2>3. consumed' = consumed \o SubSeq(durable.events, Len(consumed) + 1, m)
    BY <1>1, <1>4 DEF page, feed
  <2>4. (durable.events)' = durable.events
    BY <1>4
  <2>5. Abstract!Deliver
    BY <1>4, <2>1, <2>2, <2>3, <2>4 DEF Abstract!Deliver
  <2> QED
    BY <2>5 DEF AbstractStep, Abstract!AbstractNext
<1> QED
  BY <1>9, <1>10

\* What a consumer was given stays a prefix of the committed log, which only grows.
LEMMA GivenStays ==
    ASSUME ControlInv, TablesInv, ConsumedPrefix, UNCHANGED consumed,
           durable'.events \in {durable.events, events}
    PROVE  ConsumedPrefix'
<1>1. CASE durable'.events = durable.events
  BY <1>1 DEF ConsumedPrefix
<1>2. CASE durable'.events = events
  <2> DEFINE old == durable.events
             S == {old[i] : i \in DOMAIN old}
             T == {events[i] : i \in DOMAIN events}
  <2>1. PICK n : n = Len(consumed)
    OBVIOUS
  <2>2. /\ Len(old) \in Nat /\ DOMAIN old = 1 .. Len(old)
        /\ Len(events) \in Nat /\ DOMAIN events = 1 .. Len(events)
    BY LogsAreSequences
  <2>3. /\ consumed \in Seq(S) /\ n <= Len(old)
        /\ \A i \in 1 .. n : consumed[i] = old[i]
    BY <2>1 DEF ConsumedPrefix
  <2>4. \A i \in DOMAIN old : i \in DOMAIN events /\ events[i] = old[i]
    BY DEF TablesInv, LogsAgree
  <2>5. Len(old) <= Len(events)
    BY <2>2, <2>4
  <2>6. n \in Nat /\ n <= Len(events)
    <3> HIDE DEF S
    <3> QED
      BY <2>1, <2>2, <2>3, <2>5
  <2>7. \A i \in 1 .. n : consumed[i] = events[i] /\ consumed[i] \in T
    BY <2>2, <2>3, <2>4, <2>6
  <2>8. consumed \in Seq(T)
    <3>1. consumed = [i \in 1 .. n |-> consumed[i]]
      BY <2>1, <2>3
    <3> HIDE DEF T
    <3>2. consumed \in [1 .. n -> T]
      BY <2>7, <3>1
    <3> QED
      BY <2>6, <3>2, FunctionIsSequence
  <2> QED
    BY <1>2, <2>1, <2>6, <2>7, <2>8 DEF ConsumedPrefix
<1> QED
  BY <1>1, <1>2

\* What the abstract store assumes of its requests is true of the store's.
LEMMA RequestsHaveSequences ==
    \A r \in AllRequests : r.appends \in Seq({r.appends[i] : i \in DOMAIN r.appends})
<1> SUFFICES ASSUME NEW r \in AllRequests
             PROVE  r.appends \in Seq({r.appends[i] : i \in DOMAIN r.appends})
  OBVIOUS
<1>1. \E operations \in Seq(BatchOperations) : r.appends = Appends(operations)
  <2>1. CASE \E b \in Batches : r = BatchRequest(b)
    BY <2>1, OperationAssumption DEF BatchRequest, Request
  <2>2. CASE \E t \in ClaimIds : r = ClaimRequest(t)
    <3>1. <<>> \in Seq(BatchOperations)
      OBVIOUS
    <3>2. r.appends = Appends(<<>>)
      BY <2>2 DEF ClaimRequest, Request
    <3> QED
      BY <3>1, <3>2
  <2> QED
    BY <2>1, <2>2 DEF AllRequests
<1>2. PICK operations \in Seq(BatchOperations) : r.appends = Appends(operations)
  BY <1>1
<1>3. Len(operations) \in 0 .. Len(operations)
  OBVIOUS
<1>4. r.appends \in Seq(BatchOperations)
  BY <1>2, <1>3, AppendsType DEF Appends
<1> QED
  BY <1>4

\* The inductive invariant of the refinement.
RefinementInv == ControlInv /\ TablesInv /\ ConsumedPrefix

\* The initial states map to the initial state of the abstract store.
LEMMA InitMaps == ControlInit => Abstract!AbstractInit /\ ConsumedPrefix
<1> SUFFICES ASSUME ControlInit PROVE Abstract!AbstractInit /\ ConsumedPrefix
  OBVIOUS
<1>1. /\ durable.transactions = [t \in {} |-> None] /\ durable.events = <<>>
      /\ receipts = {} /\ refused = {} /\ consumed = <<>>
  BY DEF ControlInit, Init, InitLog, View
<1>2. CommittedLog = <<>>
  <2>1. DOMAIN durable.transactions = {} /\ Cardinality(DOMAIN durable.transactions) = 0
    BY <1>1, FS_EmptySet
  <2>2. LogOf(durable.transactions) = <<>>
    BY <2>1 DEF LogOf
  <2> QED
    BY <2>2, CommittedLogIs
<1>3. ConsumedPrefix
  BY <1>1 DEF ConsumedPrefix
<1> QED
  BY <1>1, <1>2, <1>3 DEF Abstract!AbstractInit

\* Every step of the store is one of the abstract store, or invisible there, and
\* keeps a consumer's events a prefix of the log.
LEMMA StepMaps ==
    ASSUME RefinementInv, [ControlNext]_controlVars
    PROVE  AbstractStep /\ ConsumedPrefix'
<1> USE DEF RefinementInv
<1>1. ASSUME UNCHANGED <<durable, consumed>> PROVE ConsumedPrefix'
  BY <1>1, GivenStays
<1>2. ASSUME Rollback \/ Persist, UNCHANGED consumed PROVE ConsumedPrefix'
  <2>1. durable'.events \in {durable.events, events}
    BY <1>2 DEF Rollback, Persist, View
  <2> QED
    BY <1>2, <2>1, GivenStays
<1>3. ASSUME Rollback, UNCHANGED <<receipts, refused, consumed>> PROVE AbstractStep
  BY <1>3, Unseen DEF Rollback
<1>4. tx = Idle => transactions = durable.transactions
  BY DEF ControlInv, LockHolder, SeesCommitted, Idle, BatchTx, ClaimTx, ExtendTx
<1>5. ASSUME NEW s \in Stores, NEW b \in Batches, RefuseBatch(s, b)
      PROVE  AbstractStep /\ ConsumedPrefix'
  <2>1. /\ transactions = durable.transactions /\ b.transaction_id \in BatchIds
        /\ UNCHANGED <<durable, receipts, consumed>>
        /\ refused' = IF b.transaction_id \in DOMAIN transactions THEN refused
                      ELSE refused \cup {b.transaction_id}
    BY <1>4, <1>5 DEF RefuseBatch, TakeWriter, IsCommitted, BatchIds
  <2>2. AbstractStep
    BY <2>1, Unseen, ErrorDenies
  <2> QED
    BY <1>1, <2>1, <2>2
<1>6. ASSUME NEW s \in Stores, NEW b \in Batches, ResubmitBatch(s, b)
      PROVE  AbstractStep /\ ConsumedPrefix'
  <2> DEFINE t == b.transaction_id
  <2>1. /\ transactions = durable.transactions /\ t \in DOMAIN transactions
        /\ UNCHANGED <<durable, refused, consumed>>
        /\ \/ UNCHANGED receipts
           \/ receipts' = receipts \cup {<<t, transactions[t].transaction_sequence>>}
    BY <1>4, <1>6 DEF ResubmitBatch, TakeWriter, IsCommitted
  <2> HIDE DEF t
  <2>2. AbstractStep
    BY <2>1, Unseen, ReceiptAcknowledges
  <2> QED
    BY <1>1, <2>1, <2>2
<1>7. ASSUME NEW s \in Stores, NEW b \in Batches, BeginBatch(s, b)
      PROVE  AbstractStep /\ ConsumedPrefix'
  BY <1>1, <1>7, BeginSubmits DEF BeginBatch
<1>8. CASE ExecOperation
  BY <1>1, <1>8, Unseen DEF ExecOperation, historyVars
<1>9. CASE RejectOperation
  <2>1. PICK t : t = tx.batch.transaction_id
    OBVIOUS
  <2>2. t \in BatchIds /\ t \notin DOMAIN durable.transactions
    BY <1>9, <2>1 DEF RejectOperation, MoreOperations, InBatch, ControlInv, LockHolder, Idle,
                      BatchTx, ClaimTx, ExtendTx, BatchIds
  <2>3. refused' = refused \cup {t} /\ UNCHANGED <<durable, receipts, consumed>>
    BY <1>9, <2>1 DEF RejectOperation, Rollback
  <2>4. AbstractStep
    BY <2>2, <2>3, ErrorDenies
  <2> QED
    BY <1>1, <2>3, <2>4
<1>10. ASSUME NEW s \in Stores, BeginClaim(s) \/ BeginExtend(s)
       PROVE  AbstractStep /\ ConsumedPrefix'
  <2>1. UNCHANGED <<durable, receipts, refused, consumed>>
    BY <1>10 DEF BeginClaim, BeginExtend, historyVars
  <2> QED
    BY <1>1, <2>1, Unseen
<1>11. CASE CommitSucceeds
  <2>1. /\ ReadyToCommit /\ Persist /\ UNCHANGED <<refused, consumed>>
        /\ \/ UNCHANGED receipts
           \/ /\ InBatch
              /\ receipts' = receipts \cup {<<tx.batch.transaction_id,
                                 transactions[tx.batch.transaction_id].transaction_sequence>>}
    BY <1>11 DEF CommitSucceeds
  <2>2. AbstractStep
    BY <2>1, CommitIsOneStep
  <2> QED
    BY <1>2, <2>1, <2>2
<1>12. CASE CommitIndeterminate \/ Crash
  <2>1. /\ UNCHANGED <<receipts, refused, consumed>>
        /\ Rollback \/ (ReadyToCommit /\ Persist)
    BY <1>12 DEF CommitIndeterminate, Crash, historyVars
  <2>2. AbstractStep
    BY <1>3, <2>1, CommitIsOneStep
  <2> QED
    BY <1>2, <2>1, <2>2
<1>13. ASSUME NEW s \in Stores, NEW t \in BatchIds, RecoverTransaction(s, t)
       PROVE  AbstractStep /\ ConsumedPrefix'
  <2>1. UNCHANGED <<durable, consumed>>
    BY <1>13 DEF RecoverTransaction
  <2>2. CASE t \in DOMAIN durable.transactions
    BY <1>13, <2>1, <2>2, <1>1, ReceiptAcknowledges DEF RecoverTransaction
  <2>3. CASE t \notin DOMAIN durable.transactions
    <3>1. UNCHANGED receipts /\ refused' \in {refused, refused \cup {t}}
      BY <1>13, <2>3 DEF RecoverTransaction
    <3> QED
      BY <1>1, <2>1, <2>3, <3>1, Unseen, ErrorDenies
  <2> QED
    BY <2>2, <2>3
<1>14. CASE PollEvents
  BY <1>14, PollDelivers
<1>15. CASE UNCHANGED controlVars
  <2>1. UNCHANGED <<durable, receipts, refused, consumed>>
    BY <1>15 DEF controlVars, historyVars
  <2> QED
    BY <1>1, <2>1, Unseen
<1> QED
  BY <1>5, <1>6, <1>7, <1>8, <1>9, <1>10, <1>11, <1>12, <1>13, <1>14, <1>15 DEF ControlNext

\* The store implements the atomic store (commit::commit, recover_transaction,
\* events_after): its committed image is one list of transactions that take
\* effect whole and one at a time, with their events at the next versions of
\* their streams; no receipt and no refusal is ever wrong, whatever COMMIT does
\* and whenever a process dies; and a polling consumer is given that list's
\* events in order, without a gap.
THEOREM StoreIsAtomic == ControlSpec => ImplementsAtomicStore
<1>1. ControlInit => RefinementInv /\ Abstract!AbstractInit
  BY InitControl, InitTables, InitMaps DEF RefinementInv
<1>2. RefinementInv /\ [ControlNext]_controlVars
         => RefinementInv' /\ [Abstract!AbstractNext]_Abstract!abstractVars
  <2> SUFFICES ASSUME RefinementInv, [ControlNext]_controlVars
               PROVE  RefinementInv' /\ [Abstract!AbstractNext]_Abstract!abstractVars
    OBVIOUS
  <2>1. ControlInv /\ TablesInv
    BY DEF RefinementInv
  <2>2. ControlInv'
    BY <2>1, NextControl
  <2>3. TablesInv'
    BY <2>1, TablesStep
  <2>4. AbstractStep /\ ConsumedPrefix'
    BY StepMaps
  <2> QED
    BY <2>2, <2>3, <2>4 DEF RefinementInv, AbstractStep
<1> QED
  BY <1>1, <1>2, PTL DEF ControlSpec, ImplementsAtomicStore, Abstract!AbstractSpec

-----------------------------------------------------------------------------
(* A batch takes effect whole: what the operations applied so far account  *)
(* for                                                                     *)

\* The (batch, index) pairs of the operations of the batches in a table: the
\* digest a batch is stored with is its content.
OpPairs(table) ==
    UNION {{t} \X DOMAIN table[t].request_digest[3] : t \in DOMAIN table \cap BatchIds}
OpOf(table, o) == table[o[1]].request_digest[3][o[2]]

\* The operations the writing connection has applied: all of the committed
\* batches, and those before `next` of the one under way.
Applied ==
    {o \in OpPairs(transactions) :
        InBatch /\ o[1] = tx.batch.transaction_id => o[2] < tx.next}

EnqueuedBy(table, S) ==
    {OpOf(table, o).spec.job_id : o \in {q \in S : OpOf(table, q).op = "EnqueueJob"}}
PatchesOf(table, S, p) ==
    {o \in S : OpOf(table, o).op = "ProjectionPatch" /\ OpOf(table, o).patch.projection = p}
VersionIn(meta, p) == IF p \in DOMAIN meta THEN meta[p] ELSE 0

\* The jobs that exist and the versions of the projections are those the
\* operations S account for.
Accounted(ids, meta, table, S) ==
    /\ ids = EnqueuedBy(table, S)
    /\ \A p : /\ IsFiniteSet(PatchesOf(table, S, p))
              /\ VersionIn(meta, p) = Cardinality(PatchesOf(table, S, p))

\* The events of transaction t are the run after `before`, in the order asked.
RunOf(log, t, asked, before) ==
    /\ \A i \in DOMAIN log :
          log[i].transaction_id = t <=> i \in before + 1 .. before + Len(asked)
    /\ \A k \in DOMAIN asked :
          /\ log[before + k].event_id = asked[k].event_id
          /\ log[before + k].stream_id = asked[k].stream_id

EventsWhole(log, table) ==
    /\ \A t \in DOMAIN table \cap BatchIds :
          /\ Appends(table[t].request_digest[3]) \in Seq(BatchOperations)
          /\ \E before \in 0 .. Len(log) - Len(Appends(table[t].request_digest[3])) :
                RunOf(log, t, Appends(table[t].request_digest[3]), before)
    /\ \A i \in DOMAIN log : log[i].transaction_id \in DOMAIN table \cap BatchIds

AtomicInv ==
    /\ Accounted(DOMAIN jobs, projection_meta, transactions, Applied)
    /\ Accounted(DOMAIN durable.jobs, durable.projection_meta, durable.transactions,
                 OpPairs(durable.transactions))
    /\ EventsWhole(durable.events, durable.transactions)

\* The pairs depend on the rows of the batches only.
LEMMA SamePairs ==
    ASSUME NEW old, NEW new, DOMAIN new \cap BatchIds = DOMAIN old \cap BatchIds,
           \A t \in DOMAIN old \cap BatchIds : new[t] = old[t]
    PROVE  /\ OpPairs(new) = OpPairs(old)
           /\ \A o \in OpPairs(old) : OpOf(new, o) = OpOf(old, o)
<1>1. \A t \in DOMAIN old \cap BatchIds :
         {t} \X DOMAIN new[t].request_digest[3] = {t} \X DOMAIN old[t].request_digest[3]
  OBVIOUS
<1>2. OpPairs(new) = OpPairs(old)
  BY <1>1 DEF OpPairs
<1>3. \A o \in OpPairs(old) : o[1] \in DOMAIN old \cap BatchIds
  BY DEF OpPairs
<1> QED
  BY <1>2, <1>3 DEF OpOf

\* The account of a set of operations depends on what they are only.
LEMMA SameAccount ==
    ASSUME NEW ids, NEW meta, NEW old, NEW new, NEW S, Accounted(ids, meta, old, S),
           \A o \in S : OpOf(new, o) = OpOf(old, o)
    PROVE  Accounted(ids, meta, new, S)
<1>1. EnqueuedBy(new, S) = EnqueuedBy(old, S)
  BY DEF EnqueuedBy
<1>2. \A p : PatchesOf(new, S, p) = PatchesOf(old, S, p)
  BY DEF PatchesOf
<1> QED
  BY <1>1, <1>2 DEF Accounted

\* One more operation accounts for the job it enqueues or the version it gives.
LEMMA AccountGrows ==
    ASSUME NEW ids, NEW meta, NEW table, NEW S, Accounted(ids, meta, table, S),
           NEW o, o \notin S, NEW op, op = OpOf(table, o), NEW ids2, NEW meta2,
           ids2 = IF op.op = "EnqueueJob" THEN ids \cup {op.spec.job_id} ELSE ids,
           \A p : VersionIn(meta2, p) = IF op.op = "ProjectionPatch" /\ op.patch.projection = p
                                        THEN VersionIn(meta, p) + 1 ELSE VersionIn(meta, p)
    PROVE  Accounted(ids2, meta2, table, S \cup {o})
<1>1. ids2 = EnqueuedBy(table, S \cup {o})
  <2>1. CASE op.op = "EnqueueJob"
    <3>1. EnqueuedBy(table, S \cup {o}) = EnqueuedBy(table, S) \cup {op.spec.job_id}
      BY <2>1 DEF EnqueuedBy
    <3> QED
      BY <2>1, <3>1 DEF Accounted
  <2>2. CASE op.op # "EnqueueJob"
    <3>1. EnqueuedBy(table, S \cup {o}) = EnqueuedBy(table, S)
      BY <2>2 DEF EnqueuedBy
    <3> QED
      BY <2>2, <3>1 DEF Accounted
  <2> QED
    BY <2>1, <2>2
<1>2. ASSUME NEW p
      PROVE  /\ IsFiniteSet(PatchesOf(table, S \cup {o}, p))
             /\ VersionIn(meta2, p) = Cardinality(PatchesOf(table, S \cup {o}, p))
  <2>1. IsFiniteSet(PatchesOf(table, S, p)) /\ VersionIn(meta, p) = Cardinality(PatchesOf(table, S, p))
    BY DEF Accounted
  <2>2. CASE op.op = "ProjectionPatch" /\ op.patch.projection = p
    <3>1. PatchesOf(table, S \cup {o}, p) = PatchesOf(table, S, p) \cup {o}
      BY <2>2 DEF PatchesOf
    <3>2. o \notin PatchesOf(table, S, p)
      BY DEF PatchesOf
    <3>3. /\ IsFiniteSet(PatchesOf(table, S, p) \cup {o})
          /\ Cardinality(PatchesOf(table, S, p) \cup {o}) = Cardinality(PatchesOf(table, S, p)) + 1
      BY <2>1, <3>2, FS_AddElement
    <3>4. VersionIn(meta2, p) = VersionIn(meta, p) + 1
      BY <2>2
    <3> QED
      BY <2>1, <3>1, <3>3, <3>4
  <2>3. CASE ~(op.op = "ProjectionPatch" /\ op.patch.projection = p)
    <3>1. PatchesOf(table, S \cup {o}, p) = PatchesOf(table, S, p)
      BY <2>3 DEF PatchesOf
    <3> QED
      BY <2>1, <2>3, <3>1
  <2> QED
    BY <2>2, <2>3
<1> QED
  BY <1>1, <1>2 DEF Accounted

\* Answers change no table.
LEMMA AnswerKeepsAtomic ==
    ASSUME AtomicInv, UNCHANGED <<viewVars, durable, tx>>
    PROVE  AtomicInv'
<1>1. UNCHANGED <<jobs, projection_meta, transactions, durable, tx>>
  BY DEF viewVars, storeVars, jobVars, projectionVars
<1>2. Applied' = Applied
  BY <1>1 DEF Applied, OpPairs, InBatch
<1>3. Accounted(DOMAIN jobs', projection_meta', transactions', Applied')
  BY <1>1, <1>2 DEF AtomicInv
<1>4. /\ Accounted(DOMAIN durable'.jobs, durable'.projection_meta, durable'.transactions,
                   OpPairs(durable'.transactions))
      /\ EventsWhole(durable'.events, durable'.transactions)
  BY <1>1 DEF AtomicInv
<1> QED
  BY <1>3, <1>4 DEF AtomicInv

\* After a rollback the connection accounts for the committed batches.
LEMMA RollbackKeepsAtomic ==
    ASSUME AtomicInv, Rollback, tx' = Idle
    PROVE  AtomicInv'
<1>1. /\ jobs' = durable.jobs /\ projection_meta' = durable.projection_meta
      /\ transactions' = durable.transactions /\ durable' = durable
  BY DEF Rollback
<1>2. Applied' = OpPairs(durable.transactions)
  <2>1. ~InBatch'
    BY DEF InBatch, Idle
  <2> QED
    BY <1>1, <2>1 DEF Applied
<1>3. Accounted(DOMAIN jobs', projection_meta', transactions', Applied')
  BY <1>1, <1>2 DEF AtomicInv
<1>4. /\ Accounted(DOMAIN durable'.jobs, durable'.projection_meta, durable'.transactions,
                   OpPairs(durable'.transactions))
      /\ EventsWhole(durable'.events, durable'.transactions)
  BY <1>1 DEF AtomicInv
<1> QED
  BY <1>3, <1>4 DEF AtomicInv

\* The rows of the batch tables outside a batch.
LEMMA NoBatchUnderway ==
    ASSUME ControlInv, TablesInv, ~InBatch
    PROVE  /\ DOMAIN transactions \cap BatchIds = DOMAIN durable.transactions \cap BatchIds
           /\ \A t \in DOMAIN durable.transactions \cap BatchIds :
                 transactions[t] = durable.transactions[t]
           /\ events = durable.events
<1>1. \A t \in DOMAIN durable.transactions :
          t \in DOMAIN transactions /\ transactions[t] = durable.transactions[t]
  BY DEF ControlInv, TransactionTable
<1>2. \/ transactions = durable.transactions
      \/ \E t \in ClaimIds : DOMAIN transactions = DOMAIN durable.transactions \cup {t}
  BY DEF ControlInv, LockHolder, SeesCommitted, InBatch, BatchTx
<1>3. events = durable.events
  BY DEF TablesInv, Underway
<1> QED
  BY <1>1, <1>2, <1>3 DEF ClaimIds

\* At COMMIT all operations of the batch have been applied.
LEMMA AllApplied ==
    ASSUME ControlInv, TablesInv, ReadyToCommit
    PROVE  Applied = OpPairs(transactions)
<1>1. CASE ~InBatch
  BY <1>1 DEF Applied
<1>2. CASE InBatch
  <2>1. PICK b, n : b = tx.batch /\ n = tx.next
    OBVIOUS
  <2>2. Progress(b, n) /\ ~(n <= Len(b.operations))
    BY <1>2, <2>1 DEF TablesInv, Underway, ReadyToCommit, MoreOperations, InBatch
  <2>3. /\ b.operations \in Seq(BatchOperations) /\ Len(b.operations) \in Nat
        /\ n \in 1 .. Len(b.operations) + 1
    BY <2>2, DoneType DEF Progress
  <2>4. transactions[b.transaction_id].request_digest[3] = b.operations
    BY <2>2 DEF Progress, NewRowOK, RequestDigest
  <2>5. ASSUME NEW o \in OpPairs(transactions), o[1] = b.transaction_id
        PROVE  o[2] < n
    <3>1. o[2] \in DOMAIN b.operations
      BY <2>4, <2>5 DEF OpPairs
    <3>2. o[2] \in 1 .. Len(b.operations)
      BY <2>3, <3>1
    <3> QED
      BY <2>2, <2>3, <3>2
  <2> QED
    BY <2>1, <2>5 DEF Applied
<1> QED
  BY <1>1, <1>2

\* A commit publishes the events of the batch as one run at the end of the log.
LEMMA PersistKeepsEvents ==
    ASSUME ControlInv, TablesInv, AtomicInv, ReadyToCommit
    PROVE  EventsWhole(events, transactions)
<1>1. CASE ~InBatch
  <2>1. /\ DOMAIN transactions \cap BatchIds = DOMAIN durable.transactions \cap BatchIds
        /\ \A t \in DOMAIN durable.transactions \cap BatchIds :
                 transactions[t] = durable.transactions[t]
        /\ events = durable.events
    BY <1>1, NoBatchUnderway
  <2>2. EventsWhole(durable.events, durable.transactions)
    BY DEF AtomicInv
  <2> QED
    BY <2>1, <2>2 DEF EventsWhole
<1>2. CASE InBatch
  <2>1. PICK b, n, t, old, done :
            /\ b = tx.batch /\ n = tx.next /\ t = b.transaction_id
            /\ old = Len(durable.events) /\ done = Done(b, n)
    OBVIOUS
  <2>2. Progress(b, n) /\ ~(n <= Len(b.operations))
    BY <1>2, <2>1 DEF TablesInv, Underway, ReadyToCommit, MoreOperations, InBatch
  <2>3. /\ b \in Batches /\ b.operations \in Seq(BatchOperations) /\ Len(b.operations) \in Nat
        /\ n \in 1 .. Len(b.operations) + 1
        /\ done \in Seq(BatchOperations) /\ Len(done) \in Nat
    BY <2>1, <2>2, DoneType DEF Progress
  <2>4. n - 1 = Len(b.operations)
    BY <2>2, <2>3
  <2>5. t \in BatchIds
    BY <2>1, <2>3 DEF BatchIds
  <2>6. Appends(transactions[t].request_digest[3]) = done
    <3>1. transactions[t].request_digest[3] = b.operations
      BY <2>1, <2>2 DEF Progress, NewRowOK, RequestDigest
    <3> QED
      BY <2>1, <2>4, <3>1 DEF Done, Appends
  <2>7. /\ t \notin DOMAIN durable.transactions
        /\ DOMAIN transactions = DOMAIN durable.transactions \cup {t}
    BY <2>1, <2>2 DEF Progress, NewRowOK
  <2>8. \A u \in DOMAIN durable.transactions : transactions[u] = durable.transactions[u]
    BY DEF ControlInv, TransactionTable
  <2>9. /\ old \in Nat /\ DOMAIN durable.events = 1 .. old
        /\ Len(events) = old + Len(done) /\ DOMAIN events = 1 .. old + Len(done)
        /\ DOMAIN done = 1 .. Len(done)
    BY <2>1, <2>2, <2>3, LogsAreSequences DEF Progress
  <2>10. \A i \in 1 .. old : events[i] = durable.events[i]
    BY <2>9 DEF TablesInv, LogsAgree
  <2>11. \A k \in 1 .. Len(done) : /\ events[old + k].transaction_id = t
                                   /\ events[old + k].event_id = done[k].event_id
                                   /\ events[old + k].stream_id = done[k].stream_id
    <3>1. \A k \in 1 .. Len(done) : events[old + k] = Entry(b, done, k)
      BY <2>1, <2>2 DEF Progress
    <3>2. \A k : /\ Entry(b, done, k).transaction_id = b.transaction_id
                 /\ Entry(b, done, k).event_id = done[k].event_id
                 /\ Entry(b, done, k).stream_id = done[k].stream_id
      BY DEF Entry
    <3> TAKE k \in 1 .. Len(done)
    <3>3. events[old + k] = Entry(b, done, k)
      BY <3>1
    <3>4. b.transaction_id = t
      BY <2>1
    <3> QED
      BY <3>2, <3>3, <3>4
  <2>12. \A i \in old + 1 .. old + Len(done) : events[i].transaction_id = t
    <3>1. \A i \in old + 1 .. old + Len(done) : i - old \in 1 .. Len(done) /\ i = old + (i - old)
      BY <2>3, <2>9
    <3> QED
      BY <2>11, <3>1
  <2>13. EventsWhole(durable.events, durable.transactions)
    BY DEF AtomicInv
  <2>14. \A i \in 1 .. old :
            /\ events[i].transaction_id \in DOMAIN durable.transactions \cap BatchIds
            /\ events[i].transaction_id # t
    BY <2>7, <2>9, <2>10, <2>13 DEF EventsWhole
  <2>15. \A i \in DOMAIN events : i \in 1 .. old \/ i \in old + 1 .. old + Len(done)
    BY <2>3, <2>9
  <2>16. RunOf(events, t, done, old)
    <3>1. \A i \in 1 .. old : i \notin old + 1 .. old + Len(done)
      BY <2>9
    <3> QED
      BY <2>9, <2>11, <2>12, <2>14, <2>15, <3>1 DEF RunOf
  <2>17. ASSUME NEW u \in DOMAIN transactions \cap BatchIds
         PROVE  /\ Appends(transactions[u].request_digest[3]) \in Seq(BatchOperations)
                /\ \E before \in 0 .. Len(events) - Len(Appends(transactions[u].request_digest[3])) :
                      RunOf(events, u, Appends(transactions[u].request_digest[3]), before)
    <3>1. CASE u = t
      <4>1. old \in 0 .. Len(events) - Len(done)
        BY <2>3, <2>9
      <4> QED
        BY <2>3, <2>6, <2>16, <3>1, <4>1
    <3>2. CASE u # t
      <4>1. u \in DOMAIN durable.transactions \cap BatchIds /\ transactions[u] = durable.transactions[u]
        BY <2>7, <2>8, <3>2
      <4>2. PICK asked : asked = Appends(transactions[u].request_digest[3])
        OBVIOUS
      <4>3. asked \in Seq(BatchOperations)
        BY <2>13, <4>1, <4>2 DEF EventsWhole
      <4>4. PICK before \in 0 .. old - Len(asked) : RunOf(durable.events, u, asked, before)
        BY <2>1, <2>13, <4>1, <4>2 DEF EventsWhole
      <4>5. /\ Len(asked) \in Nat /\ DOMAIN asked = 1 .. Len(asked)
            /\ before \in Nat /\ before + Len(asked) <= old
        BY <2>9, <4>3, <4>4
      <4>6. before \in 0 .. Len(events) - Len(asked)
        BY <2>3, <2>9, <4>5
      <4>7. \A i \in DOMAIN events :
               events[i].transaction_id = u <=> i \in before + 1 .. before + Len(asked)
        <5>1. \A i \in 1 .. old : events[i].transaction_id = u
                                     <=> i \in before + 1 .. before + Len(asked)
          BY <2>9, <2>10, <4>4 DEF RunOf
        <5>2. \A i \in old + 1 .. old + Len(done) : i \notin before + 1 .. before + Len(asked)
          BY <2>3, <2>9, <4>5
        <5> QED
          BY <2>12, <2>15, <3>2, <5>1, <5>2
      <4>8. \A k \in DOMAIN asked : /\ events[before + k].event_id = asked[k].event_id
                                    /\ events[before + k].stream_id = asked[k].stream_id
        <5>1. \A k \in DOMAIN asked : before + k \in 1 .. old
          BY <2>9, <4>5
        <5> QED
          BY <2>10, <4>4, <5>1 DEF RunOf
      <4>9. RunOf(events, u, asked, before)
        BY <4>7, <4>8 DEF RunOf
      <4> QED
        BY <4>2, <4>3, <4>6, <4>9
    <3> QED
      BY <3>1, <3>2
  <2>18. \A i \in DOMAIN events : events[i].transaction_id \in DOMAIN transactions \cap BatchIds
    BY <2>5, <2>7, <2>12, <2>14, <2>15
  <2> QED
    BY <2>17, <2>18 DEF EventsWhole
<1> QED
  BY <1>1, <1>2

\* A commit publishes what the connection accounts for.
LEMMA PersistKeepsAtomic ==
    ASSUME ControlInv, TablesInv, AtomicInv, ReadyToCommit, Persist, tx' = Idle
    PROVE  AtomicInv'
<1>1. /\ jobs' = jobs /\ projection_meta' = projection_meta /\ transactions' = transactions
      /\ events' = events /\ durable' = View'
  BY DEF Persist, storeVars, jobVars, projectionVars
<1>2. /\ durable'.jobs = jobs /\ durable'.projection_meta = projection_meta
      /\ durable'.transactions = transactions /\ durable'.events = events
  BY <1>1 DEF View
<1>3. Accounted(DOMAIN jobs, projection_meta, transactions, OpPairs(transactions))
  BY AllApplied DEF AtomicInv
<1>4. Applied' = OpPairs(transactions)
  <2>1. ~InBatch'
    BY DEF InBatch, Idle
  <2> QED
    BY <1>1, <2>1 DEF Applied
<1>5. Accounted(DOMAIN jobs', projection_meta', transactions', Applied')
  BY <1>1, <1>3, <1>4
<1>6. Accounted(DOMAIN durable'.jobs, durable'.projection_meta, durable'.transactions,
                OpPairs(durable'.transactions))
  BY <1>2, <1>3
<1>7. EventsWhole(durable'.events, durable'.transactions)
  BY <1>2, PersistKeepsEvents
<1> QED
  BY <1>5, <1>6, <1>7 DEF AtomicInv

\* A transaction that begins with nothing applied, and no batch before it.
LEMMA BeginKeepsAtomic ==
    ASSUME AtomicInv, ~InBatch, UNCHANGED <<durable, projection_meta>>,
           DOMAIN jobs' = DOMAIN jobs, Applied' = OpPairs(transactions),
           \A o \in OpPairs(transactions) : OpOf(transactions', o) = OpOf(transactions, o)
    PROVE  AtomicInv'
<1>1. Applied = OpPairs(transactions)
  BY DEF Applied
<1>2. Accounted(DOMAIN jobs, projection_meta, transactions, OpPairs(transactions))
  BY <1>1 DEF AtomicInv
<1>3. Accounted(DOMAIN jobs, projection_meta, transactions', OpPairs(transactions))
  BY <1>2, SameAccount
<1>4. Accounted(DOMAIN jobs', projection_meta', transactions', Applied')
  BY <1>3
<1>5. /\ Accounted(DOMAIN durable'.jobs, durable'.projection_meta, durable'.transactions,
                   OpPairs(durable'.transactions))
      /\ EventsWhole(durable'.events, durable'.transactions)
  BY DEF AtomicInv
<1> QED
  BY <1>4, <1>5 DEF AtomicInv

\* A batch begins with none of its operations applied.
LEMMA BeginBatchKeepsAtomic ==
    ASSUME ControlInv, AtomicInv, NEW s \in Stores, NEW b \in Batches, BeginBatch(s, b)
    PROVE  AtomicInv'
<1>1. PICK t : t = b.transaction_id
  OBVIOUS
<1>2. /\ tx = Idle /\ t \notin DOMAIN transactions
      /\ tx'.kind = "batch" /\ tx'.batch = b /\ tx'.next = 1
      /\ UNCHANGED <<jobs, projection_meta, durable>>
      /\ DOMAIN transactions' = DOMAIN transactions \cup {t}
      /\ transactions'[t].request_digest = RequestDigest(b)
      /\ \A u \in DOMAIN transactions : transactions'[u] = transactions[u]
  BY <1>1 DEF BeginBatch, TakeWriter, IsCommitted, InsertTransaction, jobVars, projectionVars
<1>3. b.operations \in Seq(BatchOperations) /\ Len(b.operations) \in Nat
  BY OperationAssumption
<1>4. transactions'[t].request_digest[3] = b.operations
  BY <1>2 DEF RequestDigest
<1>5. /\ \A o \in OpPairs(transactions) : o \in OpPairs(transactions') /\ o[1] # t
      /\ \A o \in OpPairs(transactions') :
            o[1] # t => o \in OpPairs(transactions)
      /\ \A o \in OpPairs(transactions') : o[1] = t => o[2] \in 1 .. Len(b.operations)
  <2>1. ASSUME NEW o \in OpPairs(transactions)
        PROVE  o \in OpPairs(transactions') /\ o[1] # t
    BY <1>2 DEF OpPairs
  <2>2. ASSUME NEW o \in OpPairs(transactions'), o[1] # t
        PROVE  o \in OpPairs(transactions)
    BY <1>2, <2>2 DEF OpPairs
  <2>3. ASSUME NEW o \in OpPairs(transactions'), o[1] = t
        PROVE  o[2] \in 1 .. Len(b.operations)
    <3>1. o[2] \in DOMAIN b.operations
      BY <1>4, <2>3 DEF OpPairs
    <3> QED
      BY <1>3, <3>1
  <2> QED
    BY <2>1, <2>2, <2>3
<1>6. Applied' = OpPairs(transactions)
  <2>1. Applied' = {o \in OpPairs(transactions') : o[1] = t => o[2] < 1}
    BY <1>1, <1>2 DEF Applied, InBatch
  <2>2. \A k \in 1 .. Len(b.operations) : ~(k < 1)
    BY <1>3
  <2> QED
    BY <1>5, <2>1, <2>2
<1>7. \A o \in OpPairs(transactions) : OpOf(transactions', o) = OpOf(transactions, o)
  <2>1. \A o \in OpPairs(transactions) : o[1] \in DOMAIN transactions
    BY DEF OpPairs
  <2> QED
    BY <1>2, <2>1 DEF OpOf
<1>8. ~InBatch
  BY <1>2 DEF InBatch, Idle
<1> QED
  BY <1>2, <1>6, <1>7, <1>8, BeginKeepsAtomic

\* A claim adds no batch and no job.
LEMMA BeginClaimKeepsAtomic ==
    ASSUME ControlInv, AtomicInv, NEW s \in Stores, BeginClaim(s)
    PROVE  AtomicInv'
<1>1. /\ tx = Idle /\ tx'.kind = "claim" /\ UNCHANGED <<projection_meta, durable>>
  BY DEF BeginClaim, TakeWriter, projectionVars
<1>2. PICK t \in ClaimIds \ drawn, queue \in Queues, worker \in Workers, now \in Clocks,
           lease_ms \in LeaseDurations, limit \in ClaimLimits :
           ClaimJobs(t, queue, worker, now, lease_ms, limit)
  BY DEF BeginClaim
<1>3. DOMAIN jobs' = DOMAIN jobs
  BY <1>2 DEF ClaimJobs
<1>4. /\ DOMAIN transactions' = DOMAIN transactions \cup {t}
      /\ \A u \in DOMAIN transactions : u # t => transactions'[u] = transactions[u]
  BY <1>2 DEF ClaimJobs, InsertTransaction
<1>5. /\ DOMAIN transactions' \cap BatchIds = DOMAIN transactions \cap BatchIds
      /\ \A u \in DOMAIN transactions \cap BatchIds : transactions'[u] = transactions[u]
  BY <1>2, <1>4 DEF ClaimIds
<1>6. /\ OpPairs(transactions') = OpPairs(transactions)
      /\ \A o \in OpPairs(transactions) : OpOf(transactions', o) = OpOf(transactions, o)
  BY <1>5, SamePairs
<1>7. ~InBatch /\ ~InBatch'
  BY <1>1 DEF InBatch, Idle
<1>8. Applied' = OpPairs(transactions)
  BY <1>6, <1>7 DEF Applied
<1> QED
  BY <1>1, <1>3, <1>6, <1>7, <1>8, BeginKeepsAtomic

\* Neither does a lease extension.
LEMMA BeginExtendKeepsAtomic ==
    ASSUME ControlInv, AtomicInv, NEW s \in Stores, BeginExtend(s)
    PROVE  AtomicInv'
<1>1. /\ tx = Idle /\ tx'.kind = "extend" /\ UNCHANGED <<transactions, projection_meta, durable>>
  BY DEF BeginExtend, TakeWriter, projectionVars
<1>2. DOMAIN jobs' = DOMAIN jobs
  BY DEF BeginExtend, ApplyExtendLease
<1>3. ~InBatch /\ ~InBatch'
  BY <1>1 DEF InBatch, Idle
<1>4. Applied' = OpPairs(transactions)
  BY <1>1, <1>3 DEF Applied
<1> QED
  BY <1>1, <1>2, <1>3, <1>4, BeginKeepsAtomic

\* What an operation of a batch enqueues or patches.
LEMMA OperationEffect ==
    ASSUME NEW op, NEW now, NEW t,
           \/ /\ op.op = "AppendEvent"
              /\ UNCHANGED <<jobVars, projectionVars>>
           \/ /\ op.op = "ProjectionPatch"
              /\ ApplyProjectionPatch(op.patch)
              /\ UNCHANGED jobVars
           \/ /\ ApplyJobOperation(op, now)
              /\ UNCHANGED projectionVars
    PROVE  /\ DOMAIN jobs' = IF op.op = "EnqueueJob" THEN DOMAIN jobs \cup {op.spec.job_id}
                             ELSE DOMAIN jobs
           /\ \A p : VersionIn(projection_meta', p) =
                        IF op.op = "ProjectionPatch" /\ op.patch.projection = p
                        THEN VersionIn(projection_meta, p) + 1 ELSE VersionIn(projection_meta, p)
<1>1. CASE op.op = "AppendEvent" /\ UNCHANGED <<jobVars, projectionVars>>
  BY <1>1 DEF jobVars, projectionVars
<1>2. CASE op.op = "ProjectionPatch" /\ ApplyProjectionPatch(op.patch) /\ UNCHANGED jobVars
  <2>1. op.patch.new_version = VersionIn(projection_meta, op.patch.projection) + 1
    BY <1>2 DEF ApplyProjectionPatch, CanApplyPatch, PatchValid, ProjectionVersion, VersionIn
  <2>2. projection_meta' = [p \in DOMAIN projection_meta \cup {op.patch.projection} |->
                              IF p = op.patch.projection THEN op.patch.new_version
                              ELSE projection_meta[p]]
    BY <1>2 DEF ApplyProjectionPatch
  <2>3. \A p : VersionIn(projection_meta', p) =
                  IF p = op.patch.projection THEN op.patch.new_version
                  ELSE VersionIn(projection_meta, p)
    BY <2>2 DEF VersionIn
  <2> QED
    BY <1>2, <2>1, <2>3 DEF jobVars
<1>3. CASE ApplyJobOperation(op, now) /\ UNCHANGED projectionVars
  <2>1. op.op # "ProjectionPatch" /\ projection_meta' = projection_meta
    BY <1>3 DEF ApplyJobOperation, projectionVars
  <2>2. DOMAIN jobs' = IF op.op = "EnqueueJob" THEN DOMAIN jobs \cup {op.spec.job_id}
                       ELSE DOMAIN jobs
    <3>1. CASE op.op = "EnqueueJob" /\ ApplyEnqueue(op.spec)
      BY <3>1 DEF ApplyEnqueue
    <3>2. CASE op.op = "AckJob" /\ ApplyAck(op.job_id, op.lease_token)
      BY <3>2 DEF ApplyAck, SetTerminal
    <3>3. CASE op.op = "FailJob" /\ ApplyFail(op.job_id, op.lease_token, op.retry_after_ms, now)
      BY <3>3 DEF ApplyFail, SetTerminal, SetNonterminal
    <3>4. CASE op.op = "CancelJob" /\ ApplyCancel(op.job_id, op.lease_token)
      BY <3>4 DEF ApplyCancel, SetTerminal
    <3>5. CASE op.op = "ResolveJob" /\ ApplyResolve(op.job_id, op.resolution)
      BY <3>5 DEF ApplyResolve, SetTerminal, SetNonterminal
    <3>6. CASE /\ op.op = "ExtendLease"
               /\ ApplyExtendLease(op.job_id, op.lease_token, op.new_expiry_ms, now)
      BY <3>6 DEF ApplyExtendLease
    <3> QED
      BY <1>3, <3>1, <3>2, <3>3, <3>4, <3>5, <3>6 DEF ApplyJobOperation
  <2> QED
    BY <2>1, <2>2
<1> QED
  BY <1>1, <1>2, <1>3

\* An operation of the batch is one more that is applied.
LEMMA ExecKeepsAtomic ==
    ASSUME ControlInv, TablesInv, AtomicInv, ExecOperation
    PROVE  AtomicInv'
<1>1. PICK b, n, t, op : /\ b = tx.batch /\ n = tx.next /\ t = b.transaction_id
                         /\ op = Operation
  OBVIOUS
<1>2. /\ InBatch /\ n <= Len(b.operations) /\ tx' = [tx EXCEPT !.next = @ + 1]
      /\ UNCHANGED <<transactions, durable>>
  BY <1>1 DEF ExecOperation, MoreOperations
<1>3. Progress(b, n)
  BY <1>1, <1>2 DEF TablesInv, Underway
<1>4. tx \in BatchTx
  BY <1>2 DEF ControlInv, LockHolder, InBatch, Idle, BatchTx, ClaimTx, ExtendTx
<1>5. tx'.kind = "batch" /\ tx'.batch = b /\ tx'.next = n + 1
  BY <1>1, <1>2, <1>4 DEF BatchTx
<1>6. /\ b \in Batches /\ b.operations \in Seq(BatchOperations) /\ Len(b.operations) \in Nat
      /\ n \in 1 .. Len(b.operations)
  <2>1. /\ b \in Batches /\ b.operations \in Seq(BatchOperations) /\ Len(b.operations) \in Nat
        /\ n \in 1 .. Len(b.operations) + 1
    BY <1>3, DoneType DEF Progress
  <2> QED
    BY <1>2, <2>1
<1>7. /\ t \in DOMAIN transactions \cap BatchIds
      /\ transactions[t].request_digest[3] = b.operations
  BY <1>1, <1>3, <1>6 DEF Progress, NewRowOK, RequestDigest, BatchIds
<1>8. op = b.operations[n] /\ op = OpOf(transactions, <<t, n>>)
  BY <1>1, <1>7 DEF Operation, OpOf
<1>9. <<t, n>> \notin Applied
  BY <1>1, <1>2, <1>6 DEF Applied
<1>10. Applied' = Applied \cup {<<t, n>>}
  <2>1. /\ Applied = {o \in OpPairs(transactions) : o[1] = t => o[2] < n}
        /\ Applied' = {o \in OpPairs(transactions) : o[1] = t => o[2] < n + 1}
    BY <1>1, <1>2, <1>5 DEF Applied, InBatch
  <2>2. <<t, n>> \in OpPairs(transactions)
    BY <1>6, <1>7 DEF OpPairs
  <2>3. \A o \in OpPairs(transactions) :
           /\ o = <<o[1], o[2]>>
           /\ o[1] = t => o[2] \in 1 .. Len(b.operations)
    <3> TAKE o \in OpPairs(transactions)
    <3>1. PICK u \in DOMAIN transactions \cap BatchIds :
             o \in {u} \X DOMAIN transactions[u].request_digest[3]
      BY DEF OpPairs
    <3>2. o = <<o[1], o[2]>> /\ o[1] = u /\ o[2] \in DOMAIN transactions[u].request_digest[3]
      BY <3>1
    <3> QED
      BY <1>6, <1>7, <3>2
  <2>4. \A k \in 1 .. Len(b.operations) : k < n + 1 <=> k < n \/ k = n
    BY <1>6
  <2>5. ASSUME NEW o \in OpPairs(transactions), o[1] = t
        PROVE  o[2] < n + 1 <=> o[2] < n \/ o = <<t, n>>
    BY <2>3, <2>4, <2>5
  <2>6. ASSUME NEW o \in OpPairs(transactions), o[1] # t
        PROVE  o # <<t, n>>
    BY <2>6
  <2> QED
    BY <2>1, <2>2, <2>5, <2>6
<1>11. /\ DOMAIN jobs' = IF op.op = "EnqueueJob" THEN DOMAIN jobs \cup {op.spec.job_id}
                         ELSE DOMAIN jobs
       /\ \A p : VersionIn(projection_meta', p) =
                    IF op.op = "ProjectionPatch" /\ op.patch.projection = p
                    THEN VersionIn(projection_meta, p) + 1 ELSE VersionIn(projection_meta, p)
  BY <1>1, OperationEffect DEF ExecOperation
<1>12. Accounted(DOMAIN jobs, projection_meta, transactions, Applied)
  BY DEF AtomicInv
<1>13. Accounted(DOMAIN jobs', projection_meta', transactions, Applied \cup {<<t, n>>})
  <2>1. PICK S, ids, meta, ids2, meta2 :
            /\ S = Applied /\ ids = DOMAIN jobs /\ meta = projection_meta
            /\ ids2 = DOMAIN jobs' /\ meta2 = projection_meta'
    OBVIOUS
  <2> QED
    BY <2>1, <1>8, <1>9, <1>11, <1>12, AccountGrows
<1>14. Accounted(DOMAIN jobs', projection_meta', transactions', Applied')
  BY <1>2, <1>10, <1>13
<1>15. /\ Accounted(DOMAIN durable'.jobs, durable'.projection_meta, durable'.transactions,
                    OpPairs(durable'.transactions))
       /\ EventsWhole(durable'.events, durable'.transactions)
  BY <1>2 DEF AtomicInv
<1> QED
  BY <1>14, <1>15 DEF AtomicInv

\* A new database accounts for nothing.
LEMMA InitAtomic == ControlInit => AtomicInv
<1> SUFFICES ASSUME ControlInit PROVE AtomicInv
  OBVIOUS
<1>1. /\ DOMAIN jobs = {} /\ DOMAIN projection_meta = {} /\ DOMAIN transactions = {}
      /\ events = <<>> /\ tx = Idle
      /\ durable.jobs = jobs /\ durable.projection_meta = projection_meta
      /\ durable.transactions = transactions /\ durable.events = events
  BY DEF ControlInit, Init, InitLog, InitProjections, View
<1>2. OpPairs(transactions) = {}
  BY <1>1 DEF OpPairs
<1>3. Applied = {}
  BY <1>2 DEF Applied
<1>4. Accounted(DOMAIN jobs, projection_meta, transactions, {})
  <2>1. EnqueuedBy(transactions, {}) = {} /\ \A p : PatchesOf(transactions, {}, p) = {}
    BY DEF EnqueuedBy, PatchesOf
  <2>2. \A p : VersionIn(projection_meta, p) = 0
    BY <1>1 DEF VersionIn
  <2> QED
    BY <1>1, <2>1, <2>2, FS_EmptySet DEF Accounted
<1>5. EventsWhole(durable.events, durable.transactions)
  BY <1>1 DEF EventsWhole
<1> QED
  BY <1>1, <1>2, <1>3, <1>4, <1>5 DEF AtomicInv

\* Every step keeps the account.
LEMMA AtomicStep ==
    ASSUME ControlInv, TablesInv, AtomicInv, [ControlNext]_controlVars
    PROVE  AtomicInv'
<1>1. ASSUME NEW s \in Stores, NEW b \in Batches, RefuseBatch(s, b) \/ ResubmitBatch(s, b)
      PROVE  AtomicInv'
  BY <1>1, AnswerKeepsAtomic DEF RefuseBatch, ResubmitBatch
<1>2. ASSUME NEW s \in Stores, NEW t \in BatchIds, RecoverTransaction(s, t) PROVE AtomicInv'
  BY <1>2, AnswerKeepsAtomic DEF RecoverTransaction
<1>3. CASE PollEvents
  BY <1>3, AnswerKeepsAtomic DEF PollEvents
<1>4. CASE UNCHANGED controlVars
  BY <1>4, AnswerKeepsAtomic DEF controlVars
<1>5. CASE RejectOperation
  BY <1>5, RollbackKeepsAtomic DEF RejectOperation
<1>6. CASE CommitSucceeds
  BY <1>6, PersistKeepsAtomic DEF CommitSucceeds
<1>7. CASE CommitIndeterminate
  BY <1>7, PersistKeepsAtomic, RollbackKeepsAtomic DEF CommitIndeterminate
<1>8. CASE Crash
  BY <1>8, PersistKeepsAtomic, RollbackKeepsAtomic DEF Crash
<1> QED
  BY <1>1, <1>2, <1>3, <1>4, <1>5, <1>6, <1>7, <1>8, BeginBatchKeepsAtomic,
     BeginClaimKeepsAtomic, BeginExtendKeepsAtomic, ExecKeepsAtomic DEF ControlNext

\* The account of the committed image, as BatchesAtomic puts it.
LEMMA AtomicMeaning == AtomicInv => BatchesAtomic
<1> SUFFICES ASSUME AtomicInv PROVE BatchesAtomic
  OBVIOUS
<1> DEFINE pairs == OpPairs(durable.transactions)
<1>1. /\ Accounted(DOMAIN durable.jobs, durable.projection_meta, durable.transactions, pairs)
      /\ EventsWhole(durable.events, durable.transactions)
  BY DEF AtomicInv
<1>2. \A kind : CommittedOps(kind) = {o \in pairs : OpOf(durable.transactions, o).op = kind}
  BY DEF CommittedOps, CommittedBatches, OperationsOf, OpPairs, OpOf
<1> HIDE DEF pairs
<1>3. EnqueuedBy(durable.transactions, pairs)
        = {OperationsOf(o[1])[o[2]].spec.job_id : o \in CommittedOps("EnqueueJob")}
  BY <1>2 DEF EnqueuedBy, OpOf, OperationsOf
<1>4. \A p : PatchesOf(durable.transactions, pairs, p)
        = {o \in CommittedOps("ProjectionPatch") : OperationsOf(o[1])[o[2]].patch.projection = p}
  BY <1>2 DEF PatchesOf, OpOf, OperationsOf
<1>5. \A p \in DOMAIN durable.projection_meta :
         durable.projection_meta[p] = Cardinality({o \in CommittedOps("ProjectionPatch") :
                                          OperationsOf(o[1])[o[2]].patch.projection = p})
  BY <1>1, <1>4 DEF Accounted, VersionIn
<1>6. DOMAIN durable.jobs
        = {OperationsOf(o[1])[o[2]].spec.job_id : o \in CommittedOps("EnqueueJob")}
  BY <1>1, <1>3 DEF Accounted
<1>7. \A t \in CommittedBatches :
         \E before \in 0 .. Len(durable.events) - Len(Appends(OperationsOf(t))) :
             RunOf(durable.events, t, Appends(OperationsOf(t)), before)
  BY <1>1 DEF EventsWhole, CommittedBatches, OperationsOf
<1>8. \A i \in DOMAIN durable.events : durable.events[i].transaction_id \in CommittedBatches
  BY <1>1 DEF EventsWhole, CommittedBatches
<1> QED
  BY <1>5, <1>6, <1>7, <1>8 DEF BatchesAtomic, RunOf

\* A commit batch is all or nothing, through every failed operation, unknown
\* COMMIT and crash: its events are one run of the log in the order of its
\* operations, the jobs are those committed batches enqueued, and a projection's
\* version counts the committed patches (commit::commit).
THEOREM BatchesTakeEffectWhole == ControlSpec => []BatchesAtomic
<1> DEFINE Inv == ControlInv /\ TablesInv /\ AtomicInv
<1>1. ControlInit => Inv
  BY InitControl, InitTables, InitAtomic
<1>2. Inv /\ [ControlNext]_controlVars => Inv'
  BY NextControl, TablesStep, AtomicStep
<1>3. Inv => BatchesAtomic
  BY AtomicMeaning
<1> HIDE DEF Inv
<1> QED
  BY <1>1, <1>2, <1>3, PTL DEF ControlSpec
=============================================================================

--------------------------- MODULE JobStoreProofs ---------------------------
(***************************************************************************)
(* Proofs that the job tables keep their invariants for every set of jobs, *)
(* queues, partitions, workers and timestamps.  The first part is about    *)
(* the rows of jobs and the active partitions (JobInv); the second, about  *)
(* the receipts claims leave behind (ReceiptInv): one for each attempt,    *)
(* agreeing with the row of the current lease, so that recovery of a claim *)
(* whose answer was lost hands a job out at most once.                     *)
(***************************************************************************)
EXTENDS JobStoreInvariants, FiniteSetTheorems, TLAPS

\* MAX(enqueue_sequence) and MAX(transaction_sequence) exist.
MaxExists ==
    /\ \E m \in EnqueueSequences \cup {0} : \A n \in EnqueueSequences \cup {0} : m >= n
    /\ \E m \in TransactionSequences \cup {0} : \A n \in TransactionSequences \cup {0} : m >= n

\* The next sequence number is a positive natural greater than all in use.
LEMMA NextSequenceFresh ==
    ASSUME NEW used \in SUBSET Nat,
           \E m \in used \cup {0} : \A n \in used \cup {0} : m >= n
    PROVE  /\ NextSequence(used) \in Nat \ {0}
           /\ \A n \in used : n < NextSequence(used)
<1> DEFINE top == Max(used \cup {0})
<1>1. top \in used \cup {0} /\ \A n \in used \cup {0} : top >= n
  BY DEF Max
<1>2. NextSequence(used) = top + 1
  BY DEF NextSequence
<1> HIDE DEF top
<1>3. top \in Nat
  BY <1>1
<1> QED
  BY <1>1, <1>2, <1>3

\* A released row keeps its schema.
LEMMA ReleasedType ==
    ASSUME NEW row \in JobRow, NEW state \in JobStates, NEW retry \in Time \cup {None}
    PROVE  /\ Released(row, state, retry) \in JobRow
           /\ Released(row, state, retry).spec = row.spec
           /\ Released(row, state, retry).enqueue_sequence = row.enqueue_sequence
           /\ Released(row, state, retry).attempt = row.attempt
           /\ Released(row, state, retry).state = state
           /\ Released(row, state, retry).lease_token = None
           /\ Released(row, state, retry).worker_id = None
           /\ Released(row, state, retry).lease_expires_at_ms = None
           /\ Released(row, state, retry).retry_after_ms = retry
BY DEF Released, JobRow

\* A leased row keeps its schema.
LEMMA LeasedType ==
    ASSUME NEW row \in JobRow, NEW token \in Tokens, NEW worker \in Workers,
           NEW expiry \in Time
    PROVE  /\ LeasedRow(row, token, worker, expiry) \in JobRow
           /\ LeasedRow(row, token, worker, expiry).spec = row.spec
           /\ LeasedRow(row, token, worker, expiry).enqueue_sequence = row.enqueue_sequence
           /\ LeasedRow(row, token, worker, expiry).attempt = row.attempt + 1
           /\ LeasedRow(row, token, worker, expiry).state = "Leased"
           /\ LeasedRow(row, token, worker, expiry).lease_token = token
           /\ LeasedRow(row, token, worker, expiry).worker_id = worker
           /\ LeasedRow(row, token, worker, expiry).lease_expires_at_ms = expiry
           /\ LeasedRow(row, token, worker, expiry).retry_after_ms = None
<1>1. "Leased" \in JobStates
  BY DEF JobStates, ActiveStates
<1>2. row.attempt + 1 \in Nat
  BY DEF JobRow
<1> QED
  BY <1>1, <1>2 DEF LeasedRow, JobRow

-----------------------------------------------------------------------------
\* The inductive invariant of the job tables.
JobInv ==
    TypeOK /\ MaxExists /\ SchemaChecks /\ AttemptsBounded /\ PartitionOrder
    /\ ActivePartitionsExact

\* What every operation except enqueue does to the job table: rows keep their
\* identity and their constraints, only unfinished jobs change, only the head
\* of a partition changes other than by cancellation, and the partitions of the
\* jobs that became terminal are drained.
TableStep(touched) ==
    /\ jobs' \in [DOMAIN jobs -> JobRow]
    /\ \A id \in DOMAIN jobs :
          /\ jobs'[id].spec = jobs[id].spec
          /\ jobs'[id].enqueue_sequence = jobs[id].enqueue_sequence
          /\ RowChecks(jobs'[id])
          /\ AttemptsOK(jobs'[id])
          /\ IsActive(jobs'[id]) => IsActive(jobs[id])
          /\ IsActive(jobs[id]) => IsActive(jobs'[id]) \/ PartitionOf(jobs[id]) \in touched
          /\ \/ jobs'[id] = jobs[id]
             \/ jobs'[id].state = "Cancelled" /\ jobs'[id].attempt = jobs[id].attempt
             \/ IsHead(jobs, id)
    /\ active_partitions' = Drained(jobs', touched)

\* A job that has been leased and is not finished is the head of its partition.
LEMMA StartedIsHead ==
    ASSUME TypeOK, PartitionOrder, NEW id \in DOMAIN jobs,
           IsActive(jobs[id]), jobs[id].attempt > 0
    PROVE  IsHead(jobs, id)
<1>1. SUFFICES ASSUME NEW other \in DOMAIN jobs, IsActive(jobs[other]),
                      PartitionOf(jobs[other]) = PartitionOf(jobs[id])
               PROVE  jobs[id].enqueue_sequence <= jobs[other].enqueue_sequence
  BY DEF IsHead
<1>2. jobs[id] \in JobRow /\ jobs[other] \in JobRow
  BY DEF TypeOK
<1>3. ~(jobs[other].enqueue_sequence < jobs[id].enqueue_sequence)
  BY <1>1, <1>2 DEF PartitionOrder, JobRow
<1> QED
  BY <1>2, <1>3 DEF JobRow

\* A table step keeps every invariant of the job table.
LEMMA TableStepKeepsRows ==
    ASSUME TypeOK, SchemaChecks, AttemptsBounded, PartitionOrder, ActivePartitionsExact,
           NEW touched, TableStep(touched)
    PROVE  /\ DOMAIN jobs' = DOMAIN jobs
           /\ \A id \in DOMAIN jobs' : jobs'[id].spec.job_id = id
           /\ active_partitions' \subseteq Queues \X Partitions
           /\ EnqueueSequences' = EnqueueSequences
           /\ SchemaChecks' /\ AttemptsBounded' /\ PartitionOrder' /\ ActivePartitionsExact'
<1>1. DOMAIN jobs' = DOMAIN jobs
  BY DEF TableStep
<1>2. \A id \in DOMAIN jobs : PartitionOf(jobs'[id]) = PartitionOf(jobs[id])
  BY DEF TableStep, PartitionOf
<1>3. \A id \in DOMAIN jobs' : jobs'[id].spec.job_id = id
  BY <1>1 DEF TableStep, TypeOK
<1>4. active_partitions' \subseteq Queues \X Partitions
  BY DEF TableStep, Drained, TypeOK
<1>5. EnqueueSequences' = EnqueueSequences
  BY <1>1 DEF TableStep, EnqueueSequences
<1>6. SchemaChecks'
  BY <1>1 DEF TableStep, SchemaChecks
<1>7. AttemptsBounded'
  BY <1>1 DEF TableStep, AttemptsBounded
<1>8. PartitionOrder'
  <2>1. SUFFICES ASSUME NEW a \in DOMAIN jobs, NEW b \in DOMAIN jobs,
                        PartitionOf(jobs[a]) = PartitionOf(jobs[b]),
                        jobs[a].enqueue_sequence < jobs[b].enqueue_sequence,
                        IsActive(jobs'[a])
                 PROVE  jobs'[b].attempt = 0 /\ jobs'[b].state \in {"Pending", "Cancelled"}
    BY <1>1, <1>2 DEF TableStep, PartitionOrder
  <2>2. IsActive(jobs[a])
    BY <2>1 DEF TableStep
  <2>3. jobs[b].attempt = 0 /\ jobs[b].state \in {"Pending", "Cancelled"}
    BY <2>1, <2>2 DEF PartitionOrder
  <2>4. ~IsHead(jobs, b)
    <3>1. jobs[a].enqueue_sequence \in Nat /\ jobs[b].enqueue_sequence \in Nat
      BY DEF TypeOK, JobRow
    <3> QED
      BY <2>1, <2>2, <3>1 DEF IsHead
  <2> QED
    BY <2>3, <2>4 DEF TableStep
<1>9. ActivePartitionsExact'
  <2>1. SUFFICES ASSUME NEW q \in Queues, NEW p \in Partitions
                 PROVE  <<q, p>> \in active_partitions' <=> HasActiveJob(jobs', <<q, p>>)
    BY DEF ActivePartitionsExact
  <2>2. <<q, p>> \in active_partitions <=> HasActiveJob(jobs, <<q, p>>)
    BY DEF ActivePartitionsExact
  <2>3. HasActiveJob(jobs', <<q, p>>) => HasActiveJob(jobs, <<q, p>>)
    BY <1>1, <1>2 DEF HasActiveJob, TableStep
  <2>4. HasActiveJob(jobs, <<q, p>>) /\ <<q, p>> \notin touched => HasActiveJob(jobs', <<q, p>>)
    BY <1>1, <1>2 DEF HasActiveJob, TableStep
  <2> QED
    BY <2>2, <2>3, <2>4 DEF TableStep, Drained
<1> QED
  BY <1>1, <1>3, <1>4, <1>5, <1>6, <1>7, <1>8, <1>9

-----------------------------------------------------------------------------
\* An operation that changes the job table alone keeps the inductive invariant
\* when it is a table step.
LEMMA TableStepKeepsInv ==
    ASSUME JobInv, NEW touched, TableStep(touched), UNCHANGED transactions,
           queue_cursors' \in [Queues -> Partitions \cup {None}],
           claim_receipts' \subseteq ReceiptRow
    PROVE  JobInv'
<1>1. TypeOK'
  BY TableStepKeepsRows DEF JobInv, TypeOK, TableStep
<1>2. MaxExists'
  BY TableStepKeepsRows DEF JobInv, MaxExists, TransactionSequences
<1> QED
  BY <1>1, <1>2, TableStepKeepsRows DEF JobInv

\* set_terminal: a job whose transition the table admits reaches a terminal state.
LEMMA SetTerminalStep ==
    ASSUME JobInv, NEW id \in DOMAIN jobs, NEW state \in TerminalStates,
           CanTransitionTo(jobs[id].state, state), SetTerminal(id, state),
           UNCHANGED transactions
    PROVE  JobInv' /\ TableStep({PartitionOf(jobs[id])})
<1> DEFINE row == Released(jobs[id], state, None)
<1>1. TypeOK /\ jobs[id] \in JobRow /\ state \in JobStates
  BY DEF JobInv, TypeOK, JobStates
<1>2. /\ row \in JobRow /\ row.spec = jobs[id].spec
      /\ row.enqueue_sequence = jobs[id].enqueue_sequence
      /\ row.attempt = jobs[id].attempt /\ row.state = state /\ row.lease_token = None
      /\ row.worker_id = None /\ row.lease_expires_at_ms = None
  BY <1>1, ReleasedType
<1>3. jobs' = [jobs EXCEPT ![id] = row]
  BY DEF SetTerminal
<1> HIDE DEF row
<1>4. jobs' \in [DOMAIN jobs -> JobRow]
  BY <1>1, <1>2, <1>3 DEF TypeOK
<1>5. RowChecks(row) /\ AttemptsOK(row)
  BY <1>2 DEF RowChecks, AttemptsOK, TerminalStates, JobInv, AttemptsBounded
<1>6. IsActive(jobs[id]) /\ ~IsActive(row)
  BY <1>2 DEF IsActive, CanTransitionTo, TerminalStates, ActiveStates
<1>7. state = "Cancelled" \/ IsHead(jobs, id)
  <2>1. state = "Cancelled" \/ jobs[id].state \in {"Leased", "Uncertain"}
    BY DEF CanTransitionTo, TerminalStates
  <2>2. jobs[id].state \in {"Leased", "Uncertain"} => jobs[id].attempt > 0
    BY DEF JobInv, AttemptsBounded, AttemptsOK
  <2> QED
    BY <1>1, <1>6, <2>1, <2>2, StartedIsHead DEF JobInv
<1>8. TableStep({PartitionOf(jobs[id])})
  <2>1. \A x \in DOMAIN jobs : x # id => jobs'[x] = jobs[x]
    BY <1>1, <1>3 DEF TypeOK
  <2>2. jobs'[id] = row
    BY <1>1, <1>3 DEF TypeOK
  <2>3. \A x \in DOMAIN jobs : RowChecks(jobs[x]) /\ AttemptsOK(jobs[x])
    BY DEF JobInv, SchemaChecks, AttemptsBounded
  <2>4. active_partitions' = Drained(jobs', {PartitionOf(jobs[id])})
    BY DEF SetTerminal
  <2> QED
    BY <1>2, <1>4, <1>5, <1>6, <1>7, <2>1, <2>2, <2>3, <2>4 DEF TableStep
<1>9. JobInv'
  BY <1>8, TableStepKeepsInv DEF SetTerminal, JobInv, TypeOK
<1> QED
  BY <1>8, <1>9

\* set_nonterminal: a leased or uncertain job with an attempt left waits again.
LEMMA SetNonterminalStep ==
    ASSUME JobInv, NEW id \in DOMAIN jobs, NEW state \in {"Pending", "RetryWait"},
           NEW retry \in Time \cup {None}, state = "RetryWait" => retry # None,
           CanTransitionTo(jobs[id].state, state), ~Exhausted(jobs[id]),
           SetNonterminal(id, state, retry), UNCHANGED transactions
    PROVE  JobInv' /\ TableStep({})
<1> DEFINE row == Released(jobs[id], state, retry)
<1>1. TypeOK /\ jobs[id] \in JobRow /\ state \in JobStates
  BY DEF JobInv, TypeOK, JobStates, ActiveStates
<1>2. /\ row \in JobRow /\ row.spec = jobs[id].spec
      /\ row.enqueue_sequence = jobs[id].enqueue_sequence
      /\ row.attempt = jobs[id].attempt /\ row.state = state /\ row.lease_token = None
      /\ row.worker_id = None /\ row.lease_expires_at_ms = None /\ row.retry_after_ms = retry
  BY <1>1, ReleasedType
<1>3. jobs' = [jobs EXCEPT ![id] = row]
  BY DEF SetNonterminal
<1> HIDE DEF row
<1>4. jobs' \in [DOMAIN jobs -> JobRow]
  BY <1>1, <1>2, <1>3 DEF TypeOK
<1>5. jobs[id].state \in {"Leased", "Uncertain"} /\ jobs[id].attempt > 0
  BY DEF CanTransitionTo, JobInv, AttemptsBounded, AttemptsOK
<1>6. RowChecks(row) /\ AttemptsOK(row)
  <2>1. RowChecks(row)
    BY <1>2 DEF RowChecks
  <2>2. jobs[id].attempt \in Nat /\ jobs[id].spec.max_attempts \in Nat
    BY <1>1, SpecAssumption DEF JobRow, JobSpecType
  <2>3. jobs[id].attempt < jobs[id].spec.max_attempts
    BY <2>2 DEF Exhausted
  <2> QED
    BY <1>2, <1>5, <2>1, <2>2, <2>3 DEF AttemptsOK
<1>7. IsActive(jobs[id]) /\ IsActive(row)
  BY <1>2, <1>5 DEF IsActive, ActiveStates
<1>8. IsHead(jobs, id)
  BY <1>1, <1>5, <1>7, StartedIsHead DEF JobInv
<1>9. TableStep({})
  <2>1. \A x \in DOMAIN jobs : x # id => jobs'[x] = jobs[x]
    BY <1>1, <1>3 DEF TypeOK
  <2>2. jobs'[id] = row
    BY <1>1, <1>3 DEF TypeOK
  <2>3. \A x \in DOMAIN jobs : RowChecks(jobs[x]) /\ AttemptsOK(jobs[x])
    BY DEF JobInv, SchemaChecks, AttemptsBounded
  <2>4. active_partitions' = Drained(jobs', {})
    BY DEF SetNonterminal, Drained
  <2> QED
    BY <1>2, <1>4, <1>6, <1>7, <1>8, <2>1, <2>2, <2>3, <2>4 DEF TableStep
<1>10. JobInv'
  BY <1>9, TableStepKeepsInv DEF SetNonterminal, JobInv, TypeOK
<1> QED
  BY <1>9, <1>10

-----------------------------------------------------------------------------
(* One lemma per operation *)

\* apply_ack keeps the invariant.
LEMMA AckKeepsInv ==
    ASSUME JobInv, NEW id, NEW token, ApplyAck(id, token), UNCHANGED transactions
    PROVE  JobInv'
BY SetTerminalStep DEF ApplyAck, CanReport, TerminalStates

\* apply_fail keeps the invariant: the retry branch only runs with attempts left.
LEMMA FailKeepsInv ==
    ASSUME JobInv, NEW id, NEW token, NEW retry_after \in Time \cup {None}, NEW now \in Time,
           ApplyFail(id, token, retry_after, now), UNCHANGED transactions
    PROVE  JobInv'
<1>1. id \in DOMAIN jobs
  BY DEF ApplyFail, CanFail
<1>2. CASE Exhausted(jobs[id])
  <2>1. CanTransitionTo(jobs[id].state, "Dead") /\ SetTerminal(id, "Dead")
    BY <1>2 DEF ApplyFail, CanFail, CanReport
  <2> QED
    BY <1>1, <2>1, SetTerminalStep DEF TerminalStates
<1>3. CASE ~Exhausted(jobs[id])
  <2>1. CanTransitionTo(jobs[id].state, "RetryWait")
    BY <1>3 DEF ApplyFail, CanFail, CanReport
  <2>2. PICK t \in RetryTimes(retry_after, now) : SetNonterminal(id, "RetryWait", t)
    BY <1>3 DEF ApplyFail
  <2>3. t \in Time /\ t # None
    <3>1. t \in Time
      BY <2>2 DEF RetryTimes
    <3>2. t \in Nat
      BY <3>1, SpecAssumption DEF Time
    <3> QED
      BY <3>1, <3>2, NoneAssumption
  <2> QED
    BY <1>1, <1>3, <2>1, <2>2, <2>3, SetNonterminalStep
<1> QED
  BY <1>2, <1>3

\* apply_cancel keeps the invariant.
LEMMA CancelKeepsInv ==
    ASSUME JobInv, NEW id, NEW token, ApplyCancel(id, token), UNCHANGED transactions
    PROVE  JobInv'
BY SetTerminalStep DEF ApplyCancel, CanCancel, TerminalStates

\* apply_resolve keeps the invariant: a retry without attempts left is dead.
LEMMA ResolveKeepsInv ==
    ASSUME JobInv, NEW id, NEW resolution \in Resolutions, ApplyResolve(id, resolution),
           UNCHANGED transactions
    PROVE  JobInv'
<1> DEFINE to == ResolvedState(jobs[id], resolution)
<1>1. id \in DOMAIN jobs /\ CanTransitionTo(jobs[id].state, to)
  BY DEF ApplyResolve, CanResolve
<1>2. \/ to \in TerminalStates
      \/ to = "Pending" /\ ~Exhausted(jobs[id]) /\ to \notin TerminalStates
  BY DEF ResolvedState, Resolutions, TerminalStates
<1>3. CASE to \in TerminalStates
  <2>1. SetTerminal(id, to)
    BY <1>3 DEF ApplyResolve
  <2> HIDE DEF to
  <2> QED
    BY <1>1, <1>3, <2>1, SetTerminalStep
<1>4. CASE to = "Pending" /\ ~Exhausted(jobs[id]) /\ to \notin TerminalStates
  <2>1. SetNonterminal(id, to, None)
    BY <1>4 DEF ApplyResolve
  <2> HIDE DEF to
  <2> QED
    BY <1>1, <1>4, <2>1, SetNonterminalStep
<1> QED
  BY <1>2, <1>3, <1>4

\* apply_extend_lease keeps the invariant: only the expiry of a lease moves.
LEMMA ExtendKeepsInv ==
    ASSUME JobInv, NEW id, NEW token, NEW new_expiry \in Time, NEW now,
           ApplyExtendLease(id, token, new_expiry, now), UNCHANGED transactions
    PROVE  JobInv'
<1> DEFINE row == [jobs[id] EXCEPT !.lease_expires_at_ms = new_expiry]
<1>1. id \in DOMAIN jobs /\ TypeOK /\ jobs[id] \in JobRow /\ jobs[id].state = "Leased"
  BY DEF ApplyExtendLease, CanExtend, JobInv, TypeOK
<1>2. jobs' = [jobs EXCEPT ![id] = row]
  BY DEF ApplyExtendLease
<1>3. /\ row \in JobRow /\ row.spec = jobs[id].spec
      /\ row.enqueue_sequence = jobs[id].enqueue_sequence /\ row.attempt = jobs[id].attempt
      /\ row.state = jobs[id].state /\ row.lease_token = jobs[id].lease_token
      /\ row.worker_id = jobs[id].worker_id /\ row.lease_expires_at_ms = new_expiry
  BY <1>1 DEF JobRow
<1>4. new_expiry # None
  BY SpecAssumption, NoneAssumption DEF Time
<1>5. claim_receipts' \subseteq ReceiptRow
  BY <1>1 DEF ApplyExtendLease, ExtendedReceipts, TypeOK, ReceiptRow
<1> HIDE DEF row
<1>6. \A x \in DOMAIN jobs : RowChecks(jobs[x]) /\ AttemptsOK(jobs[x])
  BY DEF JobInv, SchemaChecks, AttemptsBounded
<1>7. RowChecks(row) /\ AttemptsOK(row)
  BY <1>1, <1>3, <1>4, <1>6 DEF RowChecks, AttemptsOK
<1>8. IsActive(row) /\ IsActive(jobs[id]) /\ IsHead(jobs, id)
  <2>1. IsActive(row) /\ IsActive(jobs[id])
    BY <1>1, <1>3 DEF IsActive, ActiveStates
  <2>2. jobs[id].attempt > 0
    BY <1>1, <1>6 DEF AttemptsOK
  <2> QED
    BY <1>1, <2>1, <2>2, StartedIsHead DEF JobInv
<1>9. TableStep({})
  <2>1. \A x \in DOMAIN jobs : x # id => jobs'[x] = jobs[x]
    BY <1>1, <1>2 DEF TypeOK
  <2>2. jobs'[id] = row /\ jobs' \in [DOMAIN jobs -> JobRow]
    BY <1>1, <1>2, <1>3 DEF TypeOK
  <2>3. active_partitions' = Drained(jobs', {})
    BY DEF ApplyExtendLease, Drained
  <2> QED
    BY <1>3, <1>6, <1>7, <1>8, <2>1, <2>2, <2>3 DEF TableStep
<1> QED
  BY <1>5, <1>9, TableStepKeepsInv DEF ApplyExtendLease, JobInv, TypeOK

\* The part of the invariant that is about transactions.
TransactionsOK ==
    /\ DOMAIN transactions \subseteq TxIds
    /\ \A u \in DOMAIN transactions : transactions[u].transaction_sequence \in Nat
    /\ \E m \in TransactionSequences \cup {0} : \A n \in TransactionSequences \cup {0} : m >= n

\* apply_enqueue keeps the invariant: the new job is last in its partition.
LEMMA EnqueueKeepsRows ==
    ASSUME JobInv, NEW spec \in JobSpecs, ApplyEnqueue(spec), TransactionsOK'
    PROVE  JobInv'
<1> DEFINE new == spec.job_id
           row == NewRow(spec)
<1>1. TypeOK /\ spec \in JobSpecType /\ new \in JobIds /\ new \notin DOMAIN jobs
  BY SpecAssumption DEF JobInv, JobIds, ApplyEnqueue, CanEnqueue
<1>2. EnqueueSequences \subseteq Nat
  BY <1>1 DEF TypeOK, JobRow, EnqueueSequences
<1>3. /\ NextSequence(EnqueueSequences) \in Nat \ {0}
      /\ \A n \in EnqueueSequences : n < NextSequence(EnqueueSequences)
  BY <1>2, NextSequenceFresh DEF JobInv, MaxExists
<1>4. /\ row \in JobRow /\ row.spec = spec /\ row.state = "Pending" /\ row.attempt = 0
      /\ row.enqueue_sequence = NextSequence(EnqueueSequences)
      /\ row.lease_token = None /\ row.worker_id = None /\ row.lease_expires_at_ms = None
  BY <1>3 DEF NewRow, JobRow, JobStates, ActiveStates
<1>5. jobs' = [id \in DOMAIN jobs \cup {new} |-> IF id = new THEN row ELSE jobs[id]]
  BY DEF ApplyEnqueue
<1> HIDE DEF row
<1>6. /\ DOMAIN jobs' = DOMAIN jobs \cup {new}
      /\ jobs'[new] = row
      /\ \A id \in DOMAIN jobs : jobs'[id] = jobs[id]
  BY <1>1, <1>5
<1>7. \A id \in DOMAIN jobs : jobs[id].enqueue_sequence \in EnqueueSequences
  BY DEF EnqueueSequences
<1>8. TypeOK'
  <2>1. jobs' \in [DOMAIN jobs' -> JobRow]
    BY <1>1, <1>4, <1>5, <1>6 DEF TypeOK
  <2>2. \A id \in DOMAIN jobs' : jobs'[id].spec.job_id = id
    BY <1>1, <1>4, <1>6 DEF TypeOK
  <2>3. active_partitions' \subseteq Queues \X Partitions
    BY <1>1 DEF ApplyEnqueue, TypeOK, JobSpecType
  <2>4. UNCHANGED <<queue_cursors, claim_receipts>>
    BY DEF ApplyEnqueue
  <2> QED
    BY <1>1, <1>6, <2>1, <2>2, <2>3, <2>4 DEF TypeOK, TransactionsOK
<1>9. MaxExists'
  <2>1. EnqueueSequences' = EnqueueSequences \cup {row.enqueue_sequence}
    BY <1>6 DEF EnqueueSequences
  <2>2. ASSUME NEW n \in EnqueueSequences \cup {0, row.enqueue_sequence}
        PROVE  row.enqueue_sequence >= n
    <3>1. row.enqueue_sequence \in Nat /\ row.enqueue_sequence >= 0
      BY <1>3, <1>4
    <3>2. CASE n \in EnqueueSequences
      <4>1. n \in Nat /\ n < row.enqueue_sequence
        BY <1>2, <1>3, <1>4, <3>2
      <4> QED
        BY <3>1, <4>1
    <3> QED
      BY <3>1, <3>2
  <2>3. \E m \in EnqueueSequences' \cup {0} : \A n \in EnqueueSequences' \cup {0} : m >= n
    BY <2>1, <2>2
  <2>4. \E m \in TransactionSequences' \cup {0} :
           \A n \in TransactionSequences' \cup {0} : m >= n
    BY DEF TransactionsOK
  <2> QED
    BY <2>3, <2>4 DEF MaxExists
<1>10. SchemaChecks'
  <2>1. RowChecks(row)
    BY <1>4 DEF RowChecks
  <2>2. \A id \in DOMAIN jobs : jobs[id].enqueue_sequence # row.enqueue_sequence
    BY <1>2, <1>3, <1>4, <1>7
  <2> QED
    BY <1>6, <2>1, <2>2 DEF JobInv, SchemaChecks
<1>11. AttemptsBounded'
  <2>1. spec.max_attempts \in Nat \ {0}
    BY <1>1 DEF JobSpecType
  <2>2. AttemptsOK(row)
    BY <1>4, <2>1 DEF AttemptsOK
  <2> QED
    BY <1>6, <2>2 DEF JobInv, AttemptsBounded
<1>12. PartitionOrder'
  <2>1. ASSUME NEW n \in EnqueueSequences PROVE ~(row.enqueue_sequence < n)
    <3>1. n \in Nat /\ row.enqueue_sequence \in Nat /\ n < row.enqueue_sequence
      BY <1>2, <1>3, <1>4
    <3> QED
      BY <3>1
  <2>2. ~(row.enqueue_sequence < row.enqueue_sequence)
    BY <1>3, <1>4
  <2>3. SUFFICES ASSUME NEW a \in DOMAIN jobs', NEW b \in DOMAIN jobs',
                        PartitionOf(jobs'[a]) = PartitionOf(jobs'[b]),
                        jobs'[a].enqueue_sequence < jobs'[b].enqueue_sequence,
                        IsActive(jobs'[a])
                 PROVE  jobs'[b].attempt = 0 /\ jobs'[b].state \in {"Pending", "Cancelled"}
    BY DEF PartitionOrder
  <2>4. CASE b = new
    BY <1>4, <1>6, <2>4
  <2>5. CASE b # new
    <3>1. a # new
      BY <1>6, <1>7, <2>1, <2>3, <2>5
    <3> QED
      BY <1>6, <2>3, <2>5, <3>1 DEF JobInv, PartitionOrder
  <2> QED
    BY <2>4, <2>5
<1>13. ActivePartitionsExact'
  <2>1. PartitionOf(row) = <<spec.queue, spec.partition_key>> /\ IsActive(row)
    BY <1>4 DEF PartitionOf, IsActive, ActiveStates
  <2>2. \A p : HasActiveJob(jobs', p) <=> HasActiveJob(jobs, p) \/ p = PartitionOf(row)
    BY <1>6, <2>1 DEF HasActiveJob
  <2> QED
    BY <2>1, <2>2 DEF JobInv, ActivePartitionsExact, ApplyEnqueue
<1> QED
  BY <1>8, <1>9, <1>10, <1>11, <1>12, <1>13 DEF JobInv

LEMMA EnqueueKeepsInv ==
    ASSUME JobInv, NEW spec \in JobSpecs, ApplyEnqueue(spec), UNCHANGED transactions
    PROVE  JobInv'
<1>1. TransactionSequences' = TransactionSequences
  BY DEF TransactionSequences
<1>2. TransactionsOK'
  BY <1>1 DEF JobInv, TypeOK, MaxExists, TransactionsOK
<1> QED
  BY <1>2, EnqueueKeepsRows

\* The rows of a transaction table are numbered 1, 2, ... without gaps.
Numbered(table) ==
    /\ IsFiniteSet(DOMAIN table)
    /\ \A t \in DOMAIN table : table[t].transaction_sequence \in 1 .. Cardinality(DOMAIN table)
    /\ \A k \in 1 .. Cardinality(DOMAIN table) :
          \E t \in DOMAIN table : table[t].transaction_sequence = k
    /\ \A t, u \in DOMAIN table :
          table[t].transaction_sequence = table[u].transaction_sequence => t = u

\* A new transaction gets the next number.
LEMMA InsertNumbers ==
    ASSUME Numbered(transactions), NEW t, t \notin DOMAIN transactions, NEW digest,
           InsertTransaction(t, digest)
    PROVE  /\ Numbered(transactions')
           /\ DOMAIN transactions' = DOMAIN transactions \cup {t}
           /\ Cardinality(DOMAIN transactions) \in Nat
           /\ transactions'[t].transaction_sequence = Cardinality(DOMAIN transactions) + 1
           /\ transactions'[t].request_digest = digest
           /\ \A u \in DOMAIN transactions : transactions'[u] = transactions[u]
<1> DEFINE n == Cardinality(DOMAIN transactions)
           next == NextSequence(TransactionSequences)
<1>1. n \in Nat /\ IsFiniteSet(DOMAIN transactions)
  BY FS_CardinalityType DEF Numbered
<1>2. TransactionSequences = 1 .. n
  BY <1>1 DEF Numbered, TransactionSequences
<1>3. next = n + 1
  <2> DEFINE top == Max((1 .. n) \cup {0})
  <2>1. n \in (1 .. n) \cup {0} /\ \A k \in (1 .. n) \cup {0} : n >= k
    BY <1>1
  <2>2. top \in (1 .. n) \cup {0} /\ \A k \in (1 .. n) \cup {0} : top >= k
    BY <2>1 DEF Max
  <2> HIDE DEF top, n
  <2>3. top = n
    BY <1>1, <2>1, <2>2
  <2> QED
    BY <1>2, <2>3 DEF NextSequence, top
<1>4. transactions' = [u \in DOMAIN transactions \cup {t} |->
                          IF u = t THEN [transaction_sequence |-> next, request_digest |-> digest]
                          ELSE transactions[u]]
  BY DEF InsertTransaction
<1>5. /\ DOMAIN transactions' = DOMAIN transactions \cup {t}
      /\ transactions'[t].transaction_sequence = n + 1
      /\ transactions'[t].request_digest = digest
      /\ \A u \in DOMAIN transactions : transactions'[u] = transactions[u]
  BY <1>3, <1>4
<1>6. IsFiniteSet(DOMAIN transactions') /\ Cardinality(DOMAIN transactions') = n + 1
  BY <1>1, <1>5, FS_AddElement
<1>7. Numbered(transactions')
  <2> DEFINE seq(u) == transactions'[u].transaction_sequence
  <2>1. \A u \in DOMAIN transactions : seq(u) \in 1 .. n
    BY <1>5 DEF Numbered
  <2>2. \A u \in DOMAIN transactions' : seq(u) \in 1 .. n + 1
    BY <1>1, <1>5, <2>1
  <2>3. \A k \in 1 .. n + 1 : \E u \in DOMAIN transactions' : seq(u) = k
    <3> TAKE k \in 1 .. n + 1
    <3>1. CASE k = n + 1
      BY <1>5, <3>1
    <3>2. CASE k # n + 1
      <4>1. k \in 1 .. n
        BY <1>1, <3>2
      <4>2. PICK u \in DOMAIN transactions : transactions[u].transaction_sequence = k
        BY <4>1 DEF Numbered
      <4> QED
        BY <1>5, <4>2
    <3> QED
      BY <3>1, <3>2
  <2>4. ASSUME NEW u \in DOMAIN transactions', NEW v \in DOMAIN transactions', seq(u) = seq(v)
        PROVE  u = v
    <3>1. CASE u = t \/ v = t
      BY <1>1, <1>5, <2>1, <2>4, <3>1
    <3>2. CASE u # t /\ v # t
      BY <1>5, <2>4, <3>2 DEF Numbered
    <3> QED
      BY <3>1, <3>2
  <2> QED
    BY <1>6, <2>2, <2>3, <2>4 DEF Numbered
<1> QED
  BY <1>1, <1>5, <1>7

\* insert_claim_transaction numbers the new transaction past all others.
LEMMA InsertTransactionKeepsInv ==
    ASSUME TypeOK, MaxExists, NEW t \in TxIds, t \notin DOMAIN transactions,
           NEW digest, InsertTransaction(t, digest)
    PROVE  /\ DOMAIN transactions' \subseteq TxIds
           /\ \A u \in DOMAIN transactions' : transactions'[u].transaction_sequence \in Nat
           /\ \E m \in TransactionSequences' \cup {0} :
                 \A n \in TransactionSequences' \cup {0} : m >= n
<1> DEFINE next == NextSequence(TransactionSequences)
<1>1. TransactionSequences \subseteq Nat
  BY DEF TypeOK, TransactionSequences
<1>2. next \in Nat \ {0} /\ \A n \in TransactionSequences : n < next
  BY <1>1, NextSequenceFresh DEF MaxExists
<1> HIDE DEF next
<1>3. /\ DOMAIN transactions' = DOMAIN transactions \cup {t}
      /\ transactions'[t].transaction_sequence = next
      /\ \A u \in DOMAIN transactions : transactions'[u] = transactions[u]
  BY DEF InsertTransaction, next
<1>4. TransactionSequences' = TransactionSequences \cup {next}
  BY <1>3 DEF TransactionSequences
<1>5. \A n \in TransactionSequences' \cup {0} : next >= n
  BY <1>1, <1>2, <1>4
<1> QED
  BY <1>2, <1>3, <1>4, <1>5 DEF TypeOK

\* What claim_jobs does to a job whose lease it repairs.
LEMMA RepairedRow ==
    ASSUME JobInv, NEW id \in DOMAIN jobs, jobs[id].state = "Leased"
    PROVE  LET row == Released(jobs[id], MaintenanceState(jobs[id]), None) IN
           /\ row \in JobRow /\ row.spec = jobs[id].spec
           /\ row.enqueue_sequence = jobs[id].enqueue_sequence
           /\ RowChecks(row) /\ AttemptsOK(row)
           /\ row.state = MaintenanceState(jobs[id])
           /\ IsActive(row) \/ MaintenanceState(jobs[id]) = "Dead"
           /\ IsActive(jobs[id]) /\ IsHead(jobs, id)
<1> DEFINE to == MaintenanceState(jobs[id])
           row == Released(jobs[id], to, None)
<1>1. TypeOK /\ jobs[id] \in JobRow /\ AttemptsOK(jobs[id])
  BY DEF JobInv, TypeOK, AttemptsBounded
<1>2. to \in {"Uncertain", "Dead"} \/ (to = "Pending" /\ ~Exhausted(jobs[id]))
  BY DEF MaintenanceState
<1> HIDE DEF to
<1>3. to \in JobStates
  BY <1>2 DEF JobStates, ActiveStates, TerminalStates
<1>4. /\ row \in JobRow /\ row.spec = jobs[id].spec
      /\ row.enqueue_sequence = jobs[id].enqueue_sequence
      /\ row.attempt = jobs[id].attempt /\ row.state = to /\ row.lease_token = None
      /\ row.worker_id = None /\ row.lease_expires_at_ms = None
  BY <1>1, <1>3, ReleasedType
<1> HIDE DEF row
<1>5. RowChecks(row)
  BY <1>2, <1>4 DEF RowChecks
<1>6. jobs[id].attempt \in Nat /\ jobs[id].spec.max_attempts \in Nat
  BY <1>1, SpecAssumption DEF JobRow, JobSpecType
<1>7. AttemptsOK(row)
  BY <1>1, <1>2, <1>4, <1>6 DEF AttemptsOK, Exhausted
<1>8. IsActive(row) \/ to = "Dead"
  BY <1>2, <1>4 DEF IsActive, ActiveStates
<1>9. IsActive(jobs[id]) /\ IsHead(jobs, id)
  <2>1. IsActive(jobs[id]) /\ jobs[id].attempt > 0
    BY <1>1 DEF IsActive, ActiveStates, AttemptsOK
  <2> QED
    BY <1>1, <2>1, StartedIsHead DEF JobInv
<1> QED
  BY <1>4, <1>5, <1>7, <1>8, <1>9 DEF row, to

\* What claim_jobs does to a job it leases.
LEMMA GrantedRow ==
    ASSUME JobInv, NEW id \in DOMAIN jobs, jobs[id].state \in {"Pending", "RetryWait"},
           NEW token \in Tokens, NEW worker \in Workers, NEW expiry \in Time
    PROVE  LET row == LeasedRow(jobs[id], token, worker, expiry) IN
           /\ row \in JobRow /\ row.spec = jobs[id].spec
           /\ row.enqueue_sequence = jobs[id].enqueue_sequence
           /\ RowChecks(row) /\ AttemptsOK(row) /\ IsActive(row) /\ IsActive(jobs[id])
<1> DEFINE row == LeasedRow(jobs[id], token, worker, expiry)
<1>1. jobs[id] \in JobRow /\ AttemptsOK(jobs[id])
  BY DEF JobInv, TypeOK, AttemptsBounded
<1>2. /\ row \in JobRow /\ row.spec = jobs[id].spec
      /\ row.enqueue_sequence = jobs[id].enqueue_sequence
      /\ row.attempt = jobs[id].attempt + 1 /\ row.state = "Leased"
      /\ row.lease_token = token /\ row.worker_id = worker /\ row.lease_expires_at_ms = expiry
  BY <1>1, LeasedType
<1> HIDE DEF row
<1>3. token # None /\ worker # None /\ expiry # None
  BY SpecAssumption, NoneAssumption DEF Time
<1>4. RowChecks(row)
  BY <1>2, <1>3 DEF RowChecks
<1>5. jobs[id].attempt \in Nat /\ jobs[id].spec.max_attempts \in Nat
  BY <1>1, SpecAssumption DEF JobRow, JobSpecType
<1>6. AttemptsOK(row)
  BY <1>1, <1>2, <1>5 DEF AttemptsOK
<1>7. IsActive(row) /\ IsActive(jobs[id])
  BY <1>2 DEF IsActive, ActiveStates
<1> QED
  BY <1>2, <1>4, <1>6, <1>7 DEF row

\* claim_jobs keeps the invariant: it repairs expired leases, which only heads
\* hold, and leases only heads.
LEMMA ClaimKeepsInv ==
    ASSUME JobInv, NEW t \in TxIds, t \notin DOMAIN transactions, NEW queue \in Queues,
           NEW worker \in Workers, NEW now \in Time, NEW lease_ms,
           NEW limit, ClaimJobs(t, queue, worker, now, lease_ms, limit)
    PROVE  JobInv'
<1> DEFINE expiry == now + lease_ms
           grants == LeasePlan(queue, now, limit)
<1>1. TypeOK /\ expiry \in Time
  BY DEF JobInv, ClaimJobs
<1>2. PICK repairs \in MaintenancePlans(queue, now) :
        /\ jobs' = [id \in DOMAIN jobs |->
                       IF id \in repairs
                       THEN Released(jobs[id], MaintenanceState(jobs[id]), None)
                       ELSE IF id \in grants
                       THEN LeasedRow(jobs[id], <<t, id>>, worker, expiry)
                       ELSE jobs[id]]
        /\ active_partitions' = Drained(jobs', {PartitionOf(jobs[id]) : id \in
                                    {r \in repairs : MaintenanceState(jobs[r]) = "Dead"}})
  BY DEF ClaimJobs
<1>3. \A id \in repairs : id \in DOMAIN jobs /\ jobs[id].state = "Leased"
  BY <1>2 DEF MaintenancePlans, ExpiredLeases
<1>4. \A id \in grants : /\ id \in DOMAIN jobs /\ IsHead(jobs, id)
                         /\ jobs[id].state \in {"Pending", "RetryWait"}
  BY DEF LeasePlan, ReadyHeads, IsReady
<1>5. \A id \in DOMAIN jobs : <<t, id>> \in Tokens
  BY <1>1 DEF TypeOK, Tokens
<1>6. claim_receipts' \subseteq ReceiptRow
  <2>1. \A id \in grants : ClaimReceipt(t, id, worker, expiry) \in ReceiptRow
    BY <1>1, <1>4, <1>5 DEF ClaimReceipt, ReceiptRow, TypeOK, JobRow
  <2> QED
    BY <1>1, <2>1 DEF ClaimJobs, TypeOK
<1>7. queue_cursors' \in [Queues -> Partitions \cup {None}]
  BY <1>1 DEF ClaimJobs, TypeOK
<1>8. InsertTransaction(t, ClaimDigest)
  BY DEF ClaimJobs
<1> HIDE DEF grants, expiry
<1> DEFINE dead == {r \in repairs : MaintenanceState(jobs[r]) = "Dead"}
           touched == {PartitionOf(jobs[id]) : id \in dead}
<1>9. TableStep(touched)
  <2>1. \A id \in repairs : jobs'[id] = Released(jobs[id], MaintenanceState(jobs[id]), None)
    BY <1>2, <1>3
  <2>2. \A id \in grants \ repairs : jobs'[id] = LeasedRow(jobs[id], <<t, id>>, worker, expiry)
    BY <1>2, <1>4
  <2>3. \A id \in DOMAIN jobs : id \notin repairs /\ id \notin grants => jobs'[id] = jobs[id]
    BY <1>2
  <2> DEFINE Good(id) ==
          /\ jobs'[id] \in JobRow
          /\ jobs'[id].spec = jobs[id].spec
          /\ jobs'[id].enqueue_sequence = jobs[id].enqueue_sequence
          /\ RowChecks(jobs'[id])
          /\ AttemptsOK(jobs'[id])
          /\ IsActive(jobs'[id]) => IsActive(jobs[id])
          /\ IsActive(jobs[id]) => IsActive(jobs'[id]) \/ PartitionOf(jobs[id]) \in touched
          /\ jobs'[id] = jobs[id] \/ IsHead(jobs, id)
  <2>4. ASSUME NEW id \in repairs PROVE Good(id)
    <3>1. id \in DOMAIN jobs /\ jobs[id].state = "Leased"
      BY <1>3
    <3>2. MaintenanceState(jobs[id]) = "Dead" => PartitionOf(jobs[id]) \in touched
      OBVIOUS
    <3> QED
      BY <2>1, <3>1, <3>2, RepairedRow
  <2>5. ASSUME NEW id \in grants \ repairs PROVE Good(id)
    <3>1. /\ id \in DOMAIN jobs /\ jobs[id].state \in {"Pending", "RetryWait"}
          /\ IsHead(jobs, id) /\ <<t, id>> \in Tokens /\ expiry \in Time
      BY <1>1, <1>4, <1>5
    <3>2. jobs'[id] = LeasedRow(jobs[id], <<t, id>>, worker, expiry)
      BY <2>2
    <3> HIDE DEF touched
    <3> QED
      BY <3>1, <3>2, GrantedRow
  <2>6. ASSUME NEW id \in DOMAIN jobs, id \notin repairs, id \notin grants PROVE Good(id)
    BY <1>1, <2>3, <2>6 DEF JobInv, TypeOK, SchemaChecks, AttemptsBounded
  <2>7. \A id \in DOMAIN jobs : Good(id)
    BY <2>4, <2>5, <2>6
  <2>8. jobs' \in [DOMAIN jobs -> JobRow]
    BY <1>2, <2>7
  <2> HIDE DEF touched
  <2> QED
    BY <1>2, <2>7, <2>8 DEF TableStep, touched
<1> HIDE DEF touched
<1>10. TypeOK'
  BY <1>1, <1>6, <1>7, <1>8, <1>9, TableStepKeepsRows, InsertTransactionKeepsInv
     DEF JobInv, TypeOK, TableStep
<1>11. MaxExists'
  BY <1>8, <1>9, TableStepKeepsRows, InsertTransactionKeepsInv DEF JobInv, MaxExists
<1> QED
  BY <1>9, <1>10, <1>11, TableStepKeepsRows DEF JobInv

-----------------------------------------------------------------------------
\* The empty tables satisfy the invariant.
LEMMA InitInv == Init => JobInv
BY DEF Init, JobInv, TypeOK, MaxExists, EnqueueSequences, TransactionSequences,
       SchemaChecks, AttemptsBounded, PartitionOrder, ActivePartitionsExact, HasActiveJob

\* Every step of the job store keeps the invariant.
LEMMA NextInv == JobInv /\ [Next]_storeVars => JobInv'
<1> SUFFICES ASSUME JobInv, [Next]_storeVars PROVE JobInv'
  OBVIOUS
<1>1. CASE Enqueue
  BY <1>1, EnqueueKeepsInv DEF Enqueue
<1>2. CASE Ack
  BY <1>2, AckKeepsInv DEF Ack
<1>3. CASE Fail
  BY <1>3, FailKeepsInv, SpecAssumption DEF Fail
<1>4. CASE Cancel
  BY <1>4, CancelKeepsInv DEF Cancel
<1>5. CASE Resolve
  BY <1>5, ResolveKeepsInv DEF Resolve
<1>6. CASE ExtendLease
  BY <1>6, ExtendKeepsInv DEF ExtendLease
<1>7. CASE Claim
  BY <1>7, ClaimKeepsInv, SpecAssumption DEF Claim
<1>8. CASE UNCHANGED storeVars
  <2>1. TypeOK'
    BY <1>8 DEF storeVars, JobInv, TypeOK
  <2>2. MaxExists'
    BY <1>8 DEF storeVars, JobInv, MaxExists, EnqueueSequences, TransactionSequences
  <2>3. SchemaChecks' /\ AttemptsBounded' /\ PartitionOrder'
    BY <1>8 DEF storeVars, JobInv, SchemaChecks, AttemptsBounded, PartitionOrder
  <2>4. ActivePartitionsExact'
    BY <1>8 DEF storeVars, JobInv, ActivePartitionsExact
  <2> QED
    BY <2>1, <2>2, <2>3, <2>4 DEF JobInv
<1> QED
  BY <1>1, <1>2, <1>3, <1>4, <1>5, <1>6, <1>7, <1>8 DEF Next

\* The inductive invariant holds in every reachable state.
THEOREM JobInvariant == Spec => []JobInv
BY InitInv, NextInv, PTL DEF Spec

\* Every table always holds rows of its schema.
THEOREM TypeCorrect == Spec => []TypeOK
<1>1. JobInv => TypeOK
  BY DEF JobInv
<1> QED
  BY <1>1, JobInvariant, PTL

\* The schema's CHECK and UNIQUE constraints never reject a write.
THEOREM SchemaChecksHold == Spec => []SchemaChecks
<1>1. JobInv => SchemaChecks
  BY DEF JobInv
<1> QED
  BY <1>1, JobInvariant, PTL

\* No job is ever attempted more often than max_attempts, whichever of
\* failure, expiry and resolution brought it back.
THEOREM AttemptsAreBounded == Spec => []AttemptsBounded
<1>1. JobInv => AttemptsBounded
  BY DEF JobInv
<1> QED
  BY <1>1, JobInvariant, PTL

\* No job starts before every earlier job of its partition is finished.
THEOREM PartitionsAreOrdered == Spec => []PartitionOrder
<1>1. JobInv => PartitionOrder
  BY DEF JobInv
<1> QED
  BY <1>1, JobInvariant, PTL

\* active_partitions lists exactly the partitions with unfinished jobs.
THEOREM ActivePartitionsAreExact == Spec => []ActivePartitionsExact
<1>1. JobInv => ActivePartitionsExact
  BY DEF JobInv
<1> QED
  BY <1>1, JobInvariant, PTL

-----------------------------------------------------------------------------
\* A receipt carries the token drawn for its job in its transaction, and both
\* are in the tables.
ReceiptOrigin ==
    \A r \in claim_receipts : /\ r.lease_token = <<r.transaction_id, r.job_id>>
                              /\ r.transaction_id \in DOMAIN transactions
                              /\ r.job_id \in DOMAIN jobs

\* No token is given out twice.
TokensUnique ==
    \A r, s \in claim_receipts : r.lease_token = s.lease_token => r = s

\* What makes the two invariants about receipts inductive.
ReceiptInv == ReceiptPerAttempt /\ LeaseMatchesReceipt /\ ReceiptOrigin /\ TokensUnique

\* What every operation but a claim and an extension does, seen from the
\* receipts: no attempt begins and no lease changes, some may end.
QuietStep ==
    /\ claim_receipts' = claim_receipts
    /\ DOMAIN transactions \subseteq DOMAIN transactions'
    /\ DOMAIN jobs \subseteq DOMAIN jobs'
    /\ \A id \in DOMAIN jobs :
          /\ jobs'[id].attempt = jobs[id].attempt
          /\ jobs'[id].state = "Leased" => jobs'[id] = jobs[id]
    /\ \A id \in DOMAIN jobs' \ DOMAIN jobs :
          jobs'[id].attempt = 0 /\ jobs'[id].state # "Leased"

-----------------------------------------------------------------------------
\* A quiet step leaves the receipts as true as they were.
LEMMA QuietKeepsReceipts ==
    ASSUME ReceiptInv, QuietStep
    PROVE  ReceiptInv'
<1>1. ReceiptPerAttempt'
  <2>1. SUFFICES ASSUME NEW id \in JobIds
                 PROVE  LET mine == {r \in claim_receipts : r.job_id = id}
                            done == IF id \in DOMAIN jobs' THEN jobs'[id].attempt ELSE 0
                        IN  /\ \A r \in mine : r.attempt \in 1 .. done
                            /\ \A k \in 1 .. done : \E r \in mine : r.attempt = k
                            /\ \A r, s \in mine : r.attempt = s.attempt => r = s
    BY DEF ReceiptPerAttempt, QuietStep
  <2>2. (IF id \in DOMAIN jobs' THEN jobs'[id].attempt ELSE 0)
            = (IF id \in DOMAIN jobs THEN jobs[id].attempt ELSE 0)
    BY DEF QuietStep
  <2> QED
    BY <2>2 DEF ReceiptInv, ReceiptPerAttempt
<1>2. LeaseMatchesReceipt'
  BY DEF ReceiptInv, LeaseMatchesReceipt, QuietStep
<1>3. ReceiptOrigin' /\ TokensUnique'
  BY DEF ReceiptInv, ReceiptOrigin, TokensUnique, QuietStep
<1> QED
  BY <1>1, <1>2, <1>3 DEF ReceiptInv

\* apply_enqueue is quiet: a new job has no attempt.
LEMMA EnqueueIsQuiet ==
    ASSUME NEW spec, ApplyEnqueue(spec), UNCHANGED transactions
    PROVE  QuietStep
<1>1. NewRow(spec).attempt = 0 /\ NewRow(spec).state = "Pending"
  BY DEF NewRow
<1> QED
  BY <1>1 DEF ApplyEnqueue, CanEnqueue, QuietStep

\* set_terminal is quiet.
LEMMA SetTerminalIsQuiet ==
    ASSUME JobInv, NEW id \in DOMAIN jobs, NEW state \in TerminalStates,
           SetTerminal(id, state), UNCHANGED transactions
    PROVE  QuietStep
<1>1. jobs[id] \in JobRow /\ state \in JobStates /\ state # "Leased"
  BY DEF JobInv, TypeOK, JobStates, TerminalStates
<1>2. /\ Released(jobs[id], state, None).attempt = jobs[id].attempt
      /\ Released(jobs[id], state, None).state = state
  BY <1>1, ReleasedType
<1> QED
  BY <1>1, <1>2 DEF SetTerminal, QuietStep

\* set_nonterminal is quiet.
LEMMA SetNonterminalIsQuiet ==
    ASSUME JobInv, NEW id \in DOMAIN jobs, NEW state \in {"Pending", "RetryWait"},
           NEW retry \in Time \cup {None}, SetNonterminal(id, state, retry),
           UNCHANGED transactions
    PROVE  QuietStep
<1>1. jobs[id] \in JobRow /\ state \in JobStates /\ state # "Leased"
  BY DEF JobInv, TypeOK, JobStates, ActiveStates
<1>2. /\ Released(jobs[id], state, retry).attempt = jobs[id].attempt
      /\ Released(jobs[id], state, retry).state = state
  BY <1>1, ReleasedType
<1> QED
  BY <1>1, <1>2 DEF SetNonterminal, QuietStep

\* apply_ack is quiet.
LEMMA AckIsQuiet ==
    ASSUME JobInv, NEW id, NEW token, ApplyAck(id, token), UNCHANGED transactions
    PROVE  QuietStep
BY SetTerminalIsQuiet DEF ApplyAck, CanReport, TerminalStates

\* apply_fail is quiet.
LEMMA FailIsQuiet ==
    ASSUME JobInv, NEW id, NEW token, NEW retry_after \in Time \cup {None}, NEW now,
           ApplyFail(id, token, retry_after, now), UNCHANGED transactions
    PROVE  QuietStep
<1>1. id \in DOMAIN jobs
  BY DEF ApplyFail, CanFail
<1>2. CASE Exhausted(jobs[id])
  BY <1>1, <1>2, SetTerminalIsQuiet DEF ApplyFail, TerminalStates
<1>3. CASE ~Exhausted(jobs[id])
  <2>1. PICK t \in RetryTimes(retry_after, now) : SetNonterminal(id, "RetryWait", t)
    BY <1>3 DEF ApplyFail
  <2>2. t \in Time \cup {None}
    BY <2>1 DEF RetryTimes
  <2> QED
    BY <1>1, <2>1, <2>2, SetNonterminalIsQuiet
<1> QED
  BY <1>2, <1>3

\* apply_cancel is quiet.
LEMMA CancelIsQuiet ==
    ASSUME JobInv, NEW id, NEW token, ApplyCancel(id, token), UNCHANGED transactions
    PROVE  QuietStep
BY SetTerminalIsQuiet DEF ApplyCancel, CanCancel, TerminalStates

\* apply_resolve is quiet.
LEMMA ResolveIsQuiet ==
    ASSUME JobInv, NEW id, NEW resolution \in Resolutions, ApplyResolve(id, resolution),
           UNCHANGED transactions
    PROVE  QuietStep
<1> DEFINE to == ResolvedState(jobs[id], resolution)
<1>1. id \in DOMAIN jobs
  BY DEF ApplyResolve, CanResolve
<1>2. to \in TerminalStates \/ to = "Pending"
  BY DEF ResolvedState, Resolutions, TerminalStates
<1>3. to \in TerminalStates => SetTerminal(id, to)
  BY DEF ApplyResolve
<1>4. to \notin TerminalStates => SetNonterminal(id, to, None)
  BY DEF ApplyResolve
<1> HIDE DEF to
<1> QED
  BY <1>1, <1>2, <1>3, <1>4, SetTerminalIsQuiet, SetNonterminalIsQuiet

-----------------------------------------------------------------------------
\* apply_extend_lease moves the expiry of the row and of its receipt alike.
LEMMA ExtendKeepsReceipts ==
    ASSUME JobInv, ReceiptInv, NEW id, NEW token, NEW new_expiry, NEW now,
           ApplyExtendLease(id, token, new_expiry, now), UNCHANGED transactions
    PROVE  ReceiptInv'
<1> DEFINE moved(r) == IF r.job_id = id /\ r.lease_token = token
                       THEN [r EXCEPT !.lease_expires_at_ms = new_expiry]
                       ELSE r
<1>1. /\ id \in DOMAIN jobs /\ jobs[id] \in JobRow /\ jobs[id].lease_token = token
      /\ jobs[id].state = "Leased" /\ claim_receipts \subseteq ReceiptRow
  BY DEF ApplyExtendLease, CanExtend, HoldsToken, JobInv, TypeOK
<1>2. /\ DOMAIN jobs' = DOMAIN jobs
      /\ \A x \in DOMAIN jobs : x # id => jobs'[x] = jobs[x]
      /\ jobs'[id] = [jobs[id] EXCEPT !.lease_expires_at_ms = new_expiry]
  BY <1>1 DEF ApplyExtendLease
<1>3. /\ jobs'[id].state = jobs[id].state /\ jobs'[id].attempt = jobs[id].attempt
      /\ jobs'[id].lease_token = token /\ jobs'[id].worker_id = jobs[id].worker_id
      /\ jobs'[id].lease_expires_at_ms = new_expiry
  BY <1>1, <1>2 DEF JobRow
<1>4. claim_receipts' = {moved(r) : r \in claim_receipts}
  BY DEF ApplyExtendLease, ExtendedReceipts
<1>5. \A r \in claim_receipts :
        /\ moved(r).transaction_id = r.transaction_id /\ moved(r).job_id = r.job_id
        /\ moved(r).lease_token = r.lease_token /\ moved(r).attempt = r.attempt
        /\ moved(r).worker_id = r.worker_id
        /\ r.job_id = id /\ r.lease_token = token => moved(r).lease_expires_at_ms = new_expiry
        /\ r.job_id # id => moved(r) = r
  BY <1>1 DEF ReceiptRow
<1> HIDE DEF moved
<1>6. ReceiptPerAttempt'
  <2>1. \A x \in DOMAIN jobs : jobs'[x].attempt = jobs[x].attempt
    BY <1>2, <1>3
  <2>2. SUFFICES ASSUME NEW x \in JobIds
                 PROVE  LET mine == {r \in claim_receipts' : r.job_id = x}
                            done == IF x \in DOMAIN jobs THEN jobs[x].attempt ELSE 0
                        IN  /\ \A r \in mine : r.attempt \in 1 .. done
                            /\ \A k \in 1 .. done : \E r \in mine : r.attempt = k
                            /\ \A r, s \in mine : r.attempt = s.attempt => r = s
    BY <1>2, <2>1 DEF ReceiptPerAttempt
  <2> DEFINE done == IF x \in DOMAIN jobs THEN jobs[x].attempt ELSE 0
             old == {r \in claim_receipts : r.job_id = x}
  <2>3. /\ \A r \in old : r.attempt \in 1 .. done
        /\ \A k \in 1 .. done : \E r \in old : r.attempt = k
        /\ \A r, s \in old : r.attempt = s.attempt => r = s
    BY DEF ReceiptInv, ReceiptPerAttempt
  <2>4. {r \in claim_receipts' : r.job_id = x} = {moved(r) : r \in old}
    BY <1>4, <1>5
  <2> HIDE DEF done
  <2>5. \A r \in {moved(s) : s \in old} : r.attempt \in 1 .. done
    BY <1>5, <2>3
  <2>6. \A k \in 1 .. done : \E r \in {moved(s) : s \in old} : r.attempt = k
    BY <1>5, <2>3
  <2>7. \A r, s \in {moved(u) : u \in old} : r.attempt = s.attempt => r = s
    BY <1>5, <2>3
  <2> QED
    BY <2>4, <2>5, <2>6, <2>7 DEF done
<1>7. LeaseMatchesReceipt'
  <2>1. SUFFICES ASSUME NEW x \in DOMAIN jobs, jobs'[x].state = "Leased"
                 PROVE  \E r \in claim_receipts' :
                            /\ r.job_id = x
                            /\ r.lease_token = jobs'[x].lease_token
                            /\ r.attempt = jobs'[x].attempt
                            /\ r.worker_id = jobs'[x].worker_id
                            /\ r.lease_expires_at_ms = jobs'[x].lease_expires_at_ms
    BY <1>2 DEF LeaseMatchesReceipt
  <2>2. jobs[x].state = "Leased"
    BY <1>1, <1>2, <2>1
  <2>3. PICK r \in claim_receipts : /\ r.job_id = x
                                    /\ r.lease_token = jobs[x].lease_token
                                    /\ r.attempt = jobs[x].attempt
                                    /\ r.worker_id = jobs[x].worker_id
                                    /\ r.lease_expires_at_ms = jobs[x].lease_expires_at_ms
    BY <2>2 DEF ReceiptInv, LeaseMatchesReceipt
  <2>4. moved(r) \in claim_receipts'
    BY <1>4, <2>3
  <2>5. CASE x = id
    BY <1>1, <1>3, <1>5, <2>3, <2>4, <2>5
  <2>6. CASE x # id
    BY <1>2, <1>5, <2>3, <2>4, <2>6
  <2> QED
    BY <2>5, <2>6
<1>8. ReceiptOrigin' /\ TokensUnique'
  BY <1>2, <1>4, <1>5 DEF ReceiptInv, ReceiptOrigin, TokensUnique
<1> QED
  BY <1>6, <1>7, <1>8 DEF ReceiptInv

\* What claim_jobs does to rows and receipts: the ready jobs it grants get leases
\* under tokens of its transaction, the leased jobs it repairs lose theirs, and
\* no other row changes.
Claimed(t, worker, expiry, grants, repairs) ==
    /\ \A id \in grants : /\ jobs[id].state \in {"Pending", "RetryWait"}
                           /\ jobs'[id].state = "Leased"
                           /\ jobs'[id].attempt = jobs[id].attempt + 1
                           /\ jobs'[id].lease_token = <<t, id>>
                           /\ jobs'[id].worker_id = worker
                           /\ jobs'[id].lease_expires_at_ms = expiry
                           /\ jobs'[id].spec = jobs[id].spec
    /\ \A id \in repairs : /\ jobs[id].state = "Leased"
                            /\ jobs'[id].state = MaintenanceState(jobs[id])
                            /\ jobs'[id].state # "Leased"
                            /\ jobs'[id].attempt = jobs[id].attempt
                            /\ jobs'[id].spec = jobs[id].spec
    /\ DOMAIN jobs' = DOMAIN jobs
    /\ \A id \in DOMAIN jobs \ (grants \cup repairs) : jobs'[id] = jobs[id]
    /\ claim_receipts' = claim_receipts \cup
                            {ClaimReceipt(t, id, worker, expiry) : id \in grants}
    /\ DOMAIN transactions' = DOMAIN transactions \cup {t}

\* Every claim is of that form.
LEMMA ClaimEffect ==
    ASSUME JobInv, NEW t \in TxIds, NEW queue \in Queues, NEW worker \in Workers,
           NEW now \in Time, NEW lease_ms, NEW limit,
           ClaimJobs(t, queue, worker, now, lease_ms, limit)
    PROVE  \E grants, repairs \in SUBSET DOMAIN jobs, expiry \in Time :
               Claimed(t, worker, expiry, grants, repairs)
<1> DEFINE expiry == now + lease_ms
           grants == LeasePlan(queue, now, limit)
<1>1. TypeOK /\ expiry \in Time
  BY DEF JobInv, ClaimJobs
<1>2. PICK repairs \in MaintenancePlans(queue, now) :
        jobs' = [id \in DOMAIN jobs |->
                    IF id \in repairs
                    THEN Released(jobs[id], MaintenanceState(jobs[id]), None)
                    ELSE IF id \in grants
                    THEN LeasedRow(jobs[id], <<t, id>>, worker, expiry)
                    ELSE jobs[id]]
  BY DEF ClaimJobs
<1>3. /\ repairs \subseteq DOMAIN jobs
      /\ \A id \in repairs : jobs[id].state = "Leased"
  BY <1>2 DEF MaintenancePlans, ExpiredLeases
<1>4. /\ grants \subseteq DOMAIN jobs
      /\ \A id \in grants : jobs[id].state \in {"Pending", "RetryWait"}
  BY DEF LeasePlan, ReadyHeads, IsReady
<1>5. /\ claim_receipts' = claim_receipts \cup
                              {ClaimReceipt(t, id, worker, expiry) : id \in grants}
      /\ DOMAIN transactions' = DOMAIN transactions \cup {t}
  BY DEF ClaimJobs, InsertTransaction
<1> HIDE DEF grants, expiry
<1>6. ASSUME NEW id \in grants
      PROVE  /\ jobs'[id].state = "Leased" /\ jobs'[id].attempt = jobs[id].attempt + 1
             /\ jobs'[id].lease_token = <<t, id>> /\ jobs'[id].worker_id = worker
             /\ jobs'[id].lease_expires_at_ms = expiry /\ jobs'[id].spec = jobs[id].spec
  <2>1. id \in DOMAIN jobs /\ id \notin repairs
    BY <1>3, <1>4
  <2>2. jobs'[id] = LeasedRow(jobs[id], <<t, id>>, worker, expiry)
    BY <1>2, <2>1
  <2>3. jobs[id] \in JobRow /\ <<t, id>> \in Tokens
    BY <1>1, <2>1 DEF TypeOK, Tokens
  <2> QED
    BY <1>1, <2>2, <2>3, LeasedType
<1>7. ASSUME NEW id \in repairs
      PROVE  /\ jobs'[id].state = MaintenanceState(jobs[id]) /\ jobs'[id].state # "Leased"
             /\ jobs'[id].attempt = jobs[id].attempt /\ jobs'[id].spec = jobs[id].spec
  <2>1. id \in DOMAIN jobs /\ jobs[id] \in JobRow
    BY <1>1, <1>3 DEF TypeOK
  <2>2. jobs'[id] = Released(jobs[id], MaintenanceState(jobs[id]), None)
    BY <1>2, <2>1
  <2>3. MaintenanceState(jobs[id]) \in JobStates /\ MaintenanceState(jobs[id]) # "Leased"
    BY DEF MaintenanceState, JobStates, ActiveStates, TerminalStates
  <2> QED
    BY <2>1, <2>2, <2>3, ReleasedType
<1>8. \A id \in DOMAIN jobs \ (grants \cup repairs) : jobs'[id] = jobs[id]
  BY <1>2
<1>9. DOMAIN jobs' = DOMAIN jobs
  BY <1>2
<1>10. grants \in SUBSET DOMAIN jobs /\ repairs \in SUBSET DOMAIN jobs
  BY <1>3, <1>4
<1>11. Claimed(t, worker, expiry, grants, repairs)
  BY <1>3, <1>4, <1>5, <1>6, <1>7, <1>8, <1>9 DEF Claimed
<1> QED
  BY <1>1, <1>10, <1>11

\* claim_jobs leaves one receipt for each attempt it begins, under tokens no
\* receipt carries yet.
LEMMA ClaimKeepsReceipts ==
    ASSUME JobInv, ReceiptInv, NEW t \in TxIds, t \notin DOMAIN transactions,
           NEW queue \in Queues, NEW worker \in Workers, NEW now \in Time,
           NEW lease_ms, NEW limit,
           ClaimJobs(t, queue, worker, now, lease_ms, limit)
    PROVE  ReceiptInv'
<1>1. PICK grants \in SUBSET DOMAIN jobs, repairs \in SUBSET DOMAIN jobs, expiry \in Time :
          Claimed(t, worker, expiry, grants, repairs)
  BY ClaimEffect
<1> DEFINE new(id) == ClaimReceipt(t, id, worker, expiry)
<1>2. \A id : /\ new(id).transaction_id = t /\ new(id).job_id = id
              /\ new(id).lease_token = <<t, id>> /\ new(id).attempt = jobs[id].attempt + 1
              /\ new(id).worker_id = worker /\ new(id).lease_expires_at_ms = expiry
  BY DEF ClaimReceipt
<1>3. claim_receipts' = claim_receipts \cup {new(id) : id \in grants}
  BY <1>1 DEF Claimed
<1> HIDE DEF new
<1>4. \A id \in DOMAIN jobs : jobs[id].attempt \in Nat
  BY DEF JobInv, TypeOK, JobRow
<1>5. \A id \in DOMAIN jobs \ grants : jobs'[id].attempt = jobs[id].attempt
  BY <1>1 DEF Claimed
<1>6. ReceiptPerAttempt'
  <2>1. SUFFICES ASSUME NEW x \in JobIds
                 PROVE  LET mine == {r \in claim_receipts' : r.job_id = x}
                            done == IF x \in DOMAIN jobs THEN jobs'[x].attempt ELSE 0
                        IN  /\ \A r \in mine : r.attempt \in 1 .. done
                            /\ \A k \in 1 .. done : \E r \in mine : r.attempt = k
                            /\ \A r, s \in mine : r.attempt = s.attempt => r = s
    BY <1>1 DEF Claimed, ReceiptPerAttempt
  <2> DEFINE done == IF x \in DOMAIN jobs THEN jobs[x].attempt ELSE 0
             old == {r \in claim_receipts : r.job_id = x}
  <2>2. /\ \A r \in old : r.attempt \in 1 .. done
        /\ \A k \in 1 .. done : \E r \in old : r.attempt = k
        /\ \A r, s \in old : r.attempt = s.attempt => r = s
    BY DEF ReceiptInv, ReceiptPerAttempt
  <2>3. CASE x \in grants
    <3>1. {r \in claim_receipts' : r.job_id = x} = old \cup {new(x)}
      BY <1>2, <1>3, <2>3
    <3>2. /\ x \in DOMAIN jobs /\ done \in Nat /\ done = jobs[x].attempt
          /\ jobs'[x].attempt = done + 1 /\ new(x).attempt = done + 1
      BY <1>1, <1>2, <1>4, <2>3 DEF Claimed
    <3> HIDE DEF done, old
    <3>3. \A r \in old \cup {new(x)} : r.attempt \in 1 .. done + 1
      BY <2>2, <3>2
    <3>4. \A k \in 1 .. done + 1 : \E r \in old \cup {new(x)} : r.attempt = k
      <4> TAKE k \in 1 .. done + 1
      <4>1. k \in 1 .. done \/ k = done + 1
        BY <3>2
      <4> QED
        BY <2>2, <3>2, <4>1
    <3>5. \A r, s \in old \cup {new(x)} : r.attempt = s.attempt => r = s
      <4>1. \A r \in old : r.attempt # new(x).attempt
        BY <2>2, <3>2
      <4> QED
        BY <2>2, <4>1
    <3> QED
      BY <3>1, <3>2, <3>3, <3>4, <3>5
  <2>4. CASE x \notin grants
    <3>1. {r \in claim_receipts' : r.job_id = x} = old
      BY <1>2, <1>3, <2>4
    <3>2. (IF x \in DOMAIN jobs THEN jobs'[x].attempt ELSE 0) = done
      BY <1>5, <2>4
    <3> HIDE DEF done, old
    <3> QED
      BY <2>2, <3>1, <3>2
  <2> QED
    BY <2>3, <2>4
<1>7. LeaseMatchesReceipt'
  <2>1. \A id \in grants : new(id) \in claim_receipts'
    BY <1>3
  <2>2. \A id \in DOMAIN jobs \ grants : jobs'[id].state = "Leased" => jobs'[id] = jobs[id]
    BY <1>1 DEF Claimed
  <2>3. claim_receipts \subseteq claim_receipts'
    BY <1>3
  <2> QED
    BY <1>1, <1>2, <2>1, <2>2, <2>3 DEF Claimed, ReceiptInv, LeaseMatchesReceipt
<1>8. ReceiptOrigin'
  BY <1>1, <1>2, <1>3 DEF Claimed, ReceiptInv, ReceiptOrigin
<1>9. TokensUnique'
  <2>1. \A r \in claim_receipts, id \in grants : r.lease_token # new(id).lease_token
    BY <1>2 DEF ReceiptInv, ReceiptOrigin
  <2>2. \A a, b \in grants : new(a).lease_token = new(b).lease_token => a = b
    BY <1>2
  <2> QED
    BY <1>3, <2>1, <2>2 DEF ReceiptInv, TokensUnique
<1> QED
  BY <1>6, <1>7, <1>8, <1>9 DEF ReceiptInv

-----------------------------------------------------------------------------
\* The empty tables satisfy the invariant.
LEMMA InitReceipts == Init => ReceiptInv
BY DEF Init, ReceiptInv, ReceiptPerAttempt, LeaseMatchesReceipt, ReceiptOrigin, TokensUnique

\* Every step of the job store keeps the invariant.
LEMMA NextReceipts == JobInv /\ ReceiptInv /\ [Next]_storeVars => ReceiptInv'
<1> SUFFICES ASSUME JobInv, ReceiptInv, [Next]_storeVars PROVE ReceiptInv'
  OBVIOUS
<1>1. CASE Enqueue
  BY <1>1, EnqueueIsQuiet, QuietKeepsReceipts DEF Enqueue
<1>2. CASE Ack
  BY <1>2, AckIsQuiet, QuietKeepsReceipts DEF Ack
<1>3. CASE Fail
  BY <1>3, FailIsQuiet, QuietKeepsReceipts, SpecAssumption DEF Fail
<1>4. CASE Cancel
  BY <1>4, CancelIsQuiet, QuietKeepsReceipts DEF Cancel
<1>5. CASE Resolve
  BY <1>5, ResolveIsQuiet, QuietKeepsReceipts DEF Resolve
<1>6. CASE ExtendLease
  BY <1>6, ExtendKeepsReceipts DEF ExtendLease
<1>7. CASE Claim
  BY <1>7, ClaimKeepsReceipts, SpecAssumption DEF Claim
<1>8. CASE UNCHANGED storeVars
  <2>1. QuietStep
    BY <1>8 DEF storeVars, QuietStep
  <2> QED
    BY <2>1, QuietKeepsReceipts
<1> QED
  BY <1>1, <1>2, <1>3, <1>4, <1>5, <1>6, <1>7, <1>8 DEF Next

\* The receipts are right in every reachable state.
THEOREM ReceiptInvariant == Spec => [](JobInv /\ ReceiptInv)
BY InitInv, NextInv, InitReceipts, NextReceipts, PTL DEF Spec

\* Each attempt of a job has exactly one claim receipt.
THEOREM ReceiptsMatchAttempts == Spec => []ReceiptPerAttempt
<1>1. ReceiptInv => ReceiptPerAttempt
  BY DEF ReceiptInv
<1> QED
  BY <1>1, ReceiptInvariant, PTL

\* The receipt of a current lease says what the job row says.
THEOREM LeasesMatchReceipts == Spec => []LeaseMatchesReceipt
<1>1. ReceiptInv => LeaseMatchesReceipt
  BY DEF ReceiptInv
<1> QED
  BY <1>1, ReceiptInvariant, PTL

-----------------------------------------------------------------------------
\* A receipt recovery still calls current is the one receipt of the job's
\* current lease, and says what the row says.
LEMMA CurrentReceipt ==
    ASSUME JobInv, ReceiptInv, NEW r \in claim_receipts, NEW now, StillCurrent(r, now)
    PROVE  /\ r.job_id \in DOMAIN jobs /\ jobs[r.job_id].state = "Leased"
           /\ r.lease_token = jobs[r.job_id].lease_token
           /\ r.attempt = jobs[r.job_id].attempt
           /\ r.worker_id = jobs[r.job_id].worker_id
           /\ r.lease_expires_at_ms = jobs[r.job_id].lease_expires_at_ms
<1>1. /\ r.job_id \in DOMAIN jobs /\ jobs[r.job_id].state = "Leased"
      /\ r.lease_token = jobs[r.job_id].lease_token
  BY DEF StillCurrent, ReceiptInv, ReceiptOrigin
<1>2. PICK s \in claim_receipts :
          /\ s.lease_token = jobs[r.job_id].lease_token
          /\ s.attempt = jobs[r.job_id].attempt
          /\ s.worker_id = jobs[r.job_id].worker_id
          /\ s.lease_expires_at_ms = jobs[r.job_id].lease_expires_at_ms
  BY <1>1 DEF ReceiptInv, LeaseMatchesReceipt
<1>3. r = s
  BY <1>1, <1>2 DEF ReceiptInv, TokensUnique
<1> QED
  BY <1>1, <1>2, <1>3

\* recover_claim is sound in every state the invariants allow.
LEMMA RecoveryFromReceipts == JobInv /\ ReceiptInv => RecoverySound
<1> SUFFICES ASSUME JobInv, ReceiptInv, NEW t \in TxIds, NEW now \in Time
             PROVE  LET recovered == RecoverClaim(t, now) IN
        /\ \A r \in recovered.jobs :
              /\ r.attempt = jobs[r.job_id].attempt
              /\ r.worker_id = jobs[r.job_id].worker_id
              /\ r.lease_expires_at_ms = jobs[r.job_id].lease_expires_at_ms
              /\ r.job_id \notin recovered.stale_jobs
              /\ \A u \in TxIds \ {t} : \A s \in RecoverClaim(u, now).jobs :
                    s.job_id # r.job_id
        /\ recovered.outcome = "Absent" <=> t \notin DOMAIN transactions
        /\ \A id \in DOMAIN jobs :
              jobs[id].state = "Leased" /\ jobs[id].lease_token[1] = t =>
                  (id \in {r.job_id : r \in recovered.jobs}
                      <=> id \notin ExpiredLeases(jobs[id].spec.queue, now))
  BY DEF RecoverySound
<1> DEFINE recovered == RecoverClaim(t, now)
           Receipts(u) == {r \in claim_receipts : r.transaction_id = u}
<1>1. \A u : RecoverClaim(u, now).jobs = {r \in Receipts(u) : StillCurrent(r, now)}
  BY DEF RecoverClaim
<1>2. recovered.stale_jobs = {r.job_id : r \in {s \in Receipts(t) : ~StillCurrent(s, now)}}
  BY DEF RecoverClaim
<1>3. recovered.outcome = IF Receipts(t) # {} THEN "Committed"
                          ELSE IF t \in DOMAIN transactions THEN "MaintenanceCommitted"
                          ELSE "Absent"
  BY DEF RecoverClaim
<1>4. Receipts(t) # {} => t \in DOMAIN transactions
  BY DEF ReceiptInv, ReceiptOrigin
<1>5. recovered.outcome = "Absent" <=> t \notin DOMAIN transactions
  <2> HIDE DEF recovered, Receipts
  <2> QED
    BY <1>3, <1>4
<1> HIDE DEF recovered
<1>6. \A u, v : \A r \in Receipts(u), s \in Receipts(v) :
          r.job_id = s.job_id /\ u = v => r = s
  BY DEF ReceiptInv, ReceiptOrigin, TokensUnique
<1>7. ASSUME NEW r \in recovered.jobs
      PROVE  /\ r.attempt = jobs[r.job_id].attempt
             /\ r.worker_id = jobs[r.job_id].worker_id
             /\ r.lease_expires_at_ms = jobs[r.job_id].lease_expires_at_ms
             /\ r.job_id \notin recovered.stale_jobs
             /\ \A u \in TxIds \ {t} : \A s \in RecoverClaim(u, now).jobs :
                   s.job_id # r.job_id
  <2>1. r \in Receipts(t) /\ r \in claim_receipts /\ StillCurrent(r, now)
    BY <1>1 DEF recovered
  <2>2. /\ r.attempt = jobs[r.job_id].attempt
        /\ r.worker_id = jobs[r.job_id].worker_id
        /\ r.lease_expires_at_ms = jobs[r.job_id].lease_expires_at_ms
        /\ r.lease_token = jobs[r.job_id].lease_token
    BY <2>1, CurrentReceipt
  <2>3. r.job_id \notin recovered.stale_jobs
    BY <1>2, <1>6, <2>1
  <2>4. ASSUME NEW u \in TxIds \ {t}, NEW s \in RecoverClaim(u, now).jobs,
               s.job_id = r.job_id
        PROVE  FALSE
    <3>1. s \in Receipts(u) /\ s \in claim_receipts /\ StillCurrent(s, now)
      BY <1>1
    <3>2. s.lease_token = jobs[s.job_id].lease_token
      BY <3>1, CurrentReceipt
    <3>3. s = r
      BY <2>1, <2>2, <2>4, <3>1, <3>2 DEF ReceiptInv, TokensUnique
    <3> QED
      BY <2>1, <3>1, <3>3
  <2> QED
    BY <2>2, <2>3, <2>4
<1>8. ASSUME NEW id \in DOMAIN jobs, jobs[id].state = "Leased", jobs[id].lease_token[1] = t
      PROVE  id \in {r.job_id : r \in recovered.jobs}
                 <=> id \notin ExpiredLeases(jobs[id].spec.queue, now)
  <2>1. PICK r \in claim_receipts : r.job_id = id /\ r.lease_token = jobs[id].lease_token
    BY <1>8 DEF ReceiptInv, LeaseMatchesReceipt
  <2>2. r \in Receipts(t)
    BY <1>8, <2>1 DEF ReceiptInv, ReceiptOrigin
  <2>3. jobs[id].lease_expires_at_ms \in Time
    BY <1>8 DEF JobInv, TypeOK, JobRow, SchemaChecks, RowChecks
  <2>4. jobs[id].lease_expires_at_ms \in Nat /\ now \in Nat
    BY <2>3, SpecAssumption DEF Time
  <2>5. id \notin ExpiredLeases(jobs[id].spec.queue, now)
            <=> jobs[id].lease_expires_at_ms >= now
    BY <1>8, <2>4 DEF ExpiredLeases
  <2>6. StillCurrent(r, now) <=> jobs[id].lease_expires_at_ms >= now
    BY <1>8, <2>1 DEF StillCurrent
  <2>7. id \in {s.job_id : s \in recovered.jobs} <=> StillCurrent(r, now)
    BY <1>1, <1>6, <2>1, <2>2 DEF recovered
  <2> QED
    BY <2>5, <2>6, <2>7
<1> QED
  BY <1>5, <1>7, <1>8 DEF recovered

\* Recovery of a claim whose answer was lost hands a job out under one claim
\* only, with its current lease, and agrees with maintenance on every clock.
THEOREM RecoveryIsSound == Spec => []RecoverySound
BY ReceiptInvariant, RecoveryFromReceipts, PTL

-----------------------------------------------------------------------------
\* The rows of finished jobs.
FinishedKept ==
    \A id \in DOMAIN jobs :
        jobs[id].state \in TerminalStates => id \in DOMAIN jobs' /\ jobs'[id] = jobs[id]

\* A transition leads out of no terminal state, so writing a job that may take
\* one leaves the finished jobs alone.
LEMMA TransitionKeepsFinished ==
    ASSUME JobInv, NEW id \in DOMAIN jobs, NEW to, CanTransitionTo(jobs[id].state, to),
           NEW row, jobs' = [jobs EXCEPT ![id] = row]
    PROVE  FinishedKept
<1>1. jobs[id].state \notin TerminalStates
  BY DEF CanTransitionTo, TerminalStates
<1> QED
  BY <1>1 DEF JobInv, TypeOK, FinishedKept

\* No step of the job store changes a finished job.
LEMMA StepKeepsFinished ==
    JobInv /\ [Next]_storeVars => [FinishedKept]_storeVars
<1> SUFFICES ASSUME JobInv, Next PROVE FinishedKept
  OBVIOUS
<1> USE DEF SetTerminal, SetNonterminal
<1>1. CASE Enqueue
  BY <1>1 DEF Enqueue, ApplyEnqueue, CanEnqueue, FinishedKept
<1>2. CASE Ack
  BY <1>2, TransitionKeepsFinished DEF Ack, ApplyAck, CanReport
<1>3. CASE Fail
  <2>1. PICK id \in JobIds, token \in IssuedTokens, retry_after \in Clocks \cup {None},
             now \in Clocks : ApplyFail(id, token, retry_after, now)
    BY <1>3 DEF Fail
  <2>2. id \in DOMAIN jobs /\ \E to : CanTransitionTo(jobs[id].state, to)
    BY <2>1 DEF ApplyFail, CanFail, CanReport
  <2>3. \E row : jobs' = [jobs EXCEPT ![id] = row]
    BY <2>1 DEF ApplyFail
  <2> QED
    BY <2>2, <2>3, TransitionKeepsFinished
<1>4. CASE Cancel
  BY <1>4, TransitionKeepsFinished DEF Cancel, ApplyCancel, CanCancel
<1>5. CASE Resolve
  <2>1. PICK id \in JobIds, resolution \in Resolutions : ApplyResolve(id, resolution)
    BY <1>5 DEF Resolve
  <2>2. id \in DOMAIN jobs /\ \E to : CanTransitionTo(jobs[id].state, to)
    BY <2>1 DEF ApplyResolve, CanResolve
  <2>3. \E row : jobs' = [jobs EXCEPT ![id] = row]
    BY <2>1 DEF ApplyResolve
  <2> QED
    BY <2>2, <2>3, TransitionKeepsFinished
<1>6. CASE ExtendLease
  <2>1. PICK id \in JobIds, token \in IssuedTokens, new_expiry \in Time, now \in Clocks :
             ApplyExtendLease(id, token, new_expiry, now)
    BY <1>6 DEF ExtendLease
  <2>2. id \in DOMAIN jobs /\ CanTransitionTo(jobs[id].state, "Leased")
    BY <2>1 DEF ApplyExtendLease, CanExtend, CanTransitionTo
  <2>3. \E row : jobs' = [jobs EXCEPT ![id] = row]
    BY <2>1 DEF ApplyExtendLease
  <2> QED
    BY <2>2, <2>3, TransitionKeepsFinished
<1>7. CASE Claim
  <2>1. PICK t \in TxIds, worker \in Workers, grants \in SUBSET DOMAIN jobs,
             repairs \in SUBSET DOMAIN jobs, expiry \in Time :
             Claimed(t, worker, expiry, grants, repairs)
    BY <1>7, ClaimEffect, SpecAssumption DEF Claim
  <2> QED
    BY <2>1 DEF Claimed, FinishedKept, TerminalStates
<1> QED
  BY <1>1, <1>2, <1>3, <1>4, <1>5, <1>6, <1>7 DEF Next

\* A job in a terminal state never changes again.
THEOREM FinishedJobsStay == Spec => TerminalIsFinal
<1>1. JobInv /\ [Next]_storeVars
         => [\A id \in DOMAIN jobs :
                jobs[id].state \in TerminalStates =>
                    id \in DOMAIN jobs' /\ jobs'[id] = jobs[id]]_storeVars
  BY StepKeepsFinished DEF FinishedKept
<1> QED
  BY <1>1, JobInvariant, PTL DEF Spec, TerminalIsFinal
=============================================================================

------------------------- MODULE JobStoreInvariants -------------------------
(***************************************************************************)
(* What the job tables promise after any sequence of operations.           *)
(***************************************************************************)
EXTENDS JobStore

\* Type invariant: every table holds rows of its schema, for known jobs,
\* queues and transactions.
TypeOK ==
    /\ DOMAIN jobs \subseteq JobIds
    /\ jobs \in [DOMAIN jobs -> JobRow]
    /\ \A id \in DOMAIN jobs : jobs[id].spec.job_id = id
    /\ active_partitions \subseteq Queues \X Partitions
    /\ queue_cursors \in [Queues -> Partitions \cup {None}]
    /\ claim_receipts \subseteq ReceiptRow
    /\ DOMAIN transactions \subseteq TxIds
    /\ \A t \in DOMAIN transactions : transactions[t].transaction_sequence \in Nat

\* The CHECK constraints of migration v2 on one row: a leased row carries a
\* whole lease, any other row none of it, and a job waiting for a retry knows
\* its retry time.
RowChecks(row) ==
    /\ (row.state = "Leased") <=> (row.lease_token # None)
    /\ (row.state = "Leased") <=> (row.worker_id # None)
    /\ (row.state = "Leased") <=> (row.lease_expires_at_ms # None)
    /\ row.state = "RetryWait" => row.retry_after_ms # None

\* The constraints of migration v2 never reject a row the operations write:
\* the CHECKs above and the UNIQUE enqueue_sequence.
SchemaChecks ==
    /\ \A id \in DOMAIN jobs : RowChecks(jobs[id])
    /\ \A a, b \in DOMAIN jobs :
          jobs[a].enqueue_sequence = jobs[b].enqueue_sequence => a = b

\* A job never has more attempts than it may, and one that may still be leased
\* has an attempt left.
AttemptsOK(row) ==
    /\ row.attempt <= row.spec.max_attempts
    /\ row.state \in {"Pending", "RetryWait"} => row.attempt < row.spec.max_attempts
    /\ row.state \in {"Leased", "RetryWait", "Uncertain"} => row.attempt > 0

\* max_attempts holds whatever mixture of failures, expiries, resolutions and
\* claims a job went through (apply_fail, apply_resolve and plan_maintenance
\* each decide alone whether the job is exhausted).
AttemptsBounded == \A id \in DOMAIN jobs : AttemptsOK(jobs[id])

\* A partition is worked strictly in enqueue order: while a job is not
\* terminal, every later job of its partition was never leased; it is pending,
\* or it was cancelled (plan_leases looks at one head per partition).
PartitionOrder ==
    \A a, b \in DOMAIN jobs :
        /\ PartitionOf(jobs[a]) = PartitionOf(jobs[b])
        /\ jobs[a].enqueue_sequence < jobs[b].enqueue_sequence
        /\ IsActive(jobs[a])
        => jobs[b].attempt = 0 /\ jobs[b].state \in {"Pending", "Cancelled"}

\* active_partitions lists exactly the partitions with unfinished work: one it
\* loses is never claimed from again, one it keeps is scanned for ever
\* (apply_enqueue adds, drain_partition_if_empty removes).
ActivePartitionsExact ==
    \A q \in Queues, p \in Partitions :
        <<q, p>> \in active_partitions <=> HasActiveJob(jobs, <<q, p>>)

\* Each attempt of a job has exactly one claim receipt, so each indeterminate
\* claim can be recovered (the insert into claim_receipts in claim_jobs).
ReceiptPerAttempt ==
    \A id \in JobIds :
        LET mine == {r \in claim_receipts : r.job_id = id}
            done == IF id \in DOMAIN jobs THEN jobs[id].attempt ELSE 0
        IN  /\ \A r \in mine : r.attempt \in 1 .. done
            /\ \A k \in 1 .. done : \E r \in mine : r.attempt = k
            /\ \A r, s \in mine : r.attempt = s.attempt => r = s

\* The receipt of a current lease says what the job row says, extensions
\* included (the second UPDATE of apply_extend_lease).
LeaseMatchesReceipt ==
    \A id \in DOMAIN jobs : jobs[id].state = "Leased" =>
        \E r \in claim_receipts :
            /\ r.job_id = id
            /\ r.lease_token = jobs[id].lease_token
            /\ r.attempt = jobs[id].attempt
            /\ r.worker_id = jobs[id].worker_id
            /\ r.lease_expires_at_ms = jobs[id].lease_expires_at_ms

\* recover_claim hands a job out as executable under one claim only, and with
\* the attempt, worker and expiry of its row; every other receipt of the claim
\* is reported stale.  It agrees with plan_maintenance on every clock: a lease
\* is either recoverable or due for repair, never both and never neither.
RecoverySound ==
    \A t \in TxIds, now \in Time :
        LET recovered == RecoverClaim(t, now) IN
        /\ \A r \in recovered.jobs :
              /\ r.attempt = jobs[r.job_id].attempt
              /\ r.worker_id = jobs[r.job_id].worker_id
              /\ r.lease_expires_at_ms = jobs[r.job_id].lease_expires_at_ms
              /\ r.job_id \notin recovered.stale_jobs
              /\ \A u \in TxIds \ {t} : \A s \in RecoverClaim(u, now).jobs :
                    s.job_id # r.job_id
        /\ recovered.outcome = "Absent" <=> t \notin DOMAIN transactions
        /\ \A id \in DOMAIN jobs :
              jobs[id].state = "Leased" /\ jobs[id].lease_token[1] = t =>
                  (id \in {r.job_id : r \in recovered.jobs}
                      <=> id \notin ExpiredLeases(jobs[id].spec.queue, now))

-----------------------------------------------------------------------------
\* A job in a terminal state never changes again (JobState::is_terminal).
TerminalIsFinal ==
    [][\A id \in DOMAIN jobs :
          jobs[id].state \in TerminalStates => id \in DOMAIN jobs' /\ jobs'[id] = jobs[id]]_storeVars

\* The doc comment of can_transition_to: a leased job returns to Pending only
\* when it is explicitly idempotent (expired-lease maintenance).  The code
\* does not keep this: see the run that refutes it.
LeasedToPendingOnlyIdempotent ==
    [][\A id \in DOMAIN jobs : jobs[id].state = "Leased" /\ jobs'[id].state = "Pending" =>
          jobs[id].spec.effect_mode = "ExplicitlyIdempotent"]_storeVars
=============================================================================

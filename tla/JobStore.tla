------------------------------ MODULE JobStore ------------------------------
(***************************************************************************)
(* The job tables of the store and every operation that changes them       *)
(* (src/store/jobs.rs): enqueue, ack, fail, cancel, resolve and extend,    *)
(* which a commit batch applies one after the other, and claim_jobs, which *)
(* repairs expired leases and grants new ones in one transaction.          *)
(*                                                                         *)
(* The variables are the rows a writer sees inside its transaction.  Here  *)
(* each operation is a step of its own, so every sequence of operations    *)
(* that batches can be made of is a behaviour; module ControlPlane adds    *)
(* the transaction boundaries.                                             *)
(*                                                                         *)
(* An operation whose checks fail returns an error and changes nothing: its *)
(* action is disabled.  Timestamps are the caller's (now_ms,               *)
(* committed_at_ms): each call brings its own, in any order.  Columns no   *)
(* operation ever reads back (payload, result digest, error summary,       *)
(* terminal time, updated_transaction_id, first_active_sequence) are left  *)
(* out.                                                                    *)
(***************************************************************************)
EXTENDS Naturals, FiniteSets, FiniteSetsExt, JobLifecycle

CONSTANTS
    JobSpecs,       \* the job specifications callers may enqueue
    Queues,         \* queue names
    Partitions,     \* partition keys, naturals: only their order matters
    Workers,        \* worker identities
    TxIds,          \* identifiers Id::new() can draw for a claim transaction
    MaxTime,        \* the last timestamp; plays i64::MAX
    Clocks,         \* the now_ms and retry_after_ms values callers bring
    LeaseDurations, \* the lease_ms values of claim requests, all positive
    ClaimLimits,    \* the limit values of claim requests
    DEFAULT_RETRY_DELAY_MS,
    MAINTENANCE_LIMIT,
    ClaimDigest,    \* the request digest of a claim, matched by no batch
    None            \* SQL NULL

Time == 0 .. MaxTime

JobSpecType == [job_id : {spec.job_id : spec \in JobSpecs}, queue : Queues,
                partition_key : Partitions, not_before_ms : Time,
                max_attempts : Nat \ {0}, effect_mode : EffectModes]

JobIds == {spec.job_id : spec \in JobSpecs}

\* The random Id drawn for one lease: it is fresh, so the pair of the (fresh)
\* claim transaction and the job stands for it.
Tokens == TxIds \X JobIds

ASSUME SpecAssumption ==
    /\ JobSpecs \subseteq JobSpecType
    /\ Partitions \subseteq Nat
    /\ MaxTime \in Nat
    /\ Clocks \subseteq Time
    /\ LeaseDurations \subseteq Nat \ {0}
    /\ ClaimLimits \subseteq Nat
    /\ DEFAULT_RETRY_DELAY_MS \in Nat
    /\ MAINTENANCE_LIMIT \in Nat

ASSUME NoneAssumption ==
    None \notin Nat /\ None \notin Partitions /\ None \notin Workers /\ None \notin Tokens

VARIABLES
    jobs,              \* job_id -> row, for the enqueued jobs
    active_partitions, \* the (queue, partition_key) pairs a claim looks at
    queue_cursors,     \* queue -> the partition leased last, or None
    claim_receipts,    \* the rows claims leave for recovery; never deleted
    transactions       \* transaction_id -> row, for the committed transactions

jobVars == <<jobs, active_partitions, queue_cursors, claim_receipts>>
storeVars == <<jobs, active_partitions, queue_cursors, claim_receipts, transactions>>

JobRow == [spec : JobSpecs, enqueue_sequence : Nat, state : JobStates, attempt : Nat,
           lease_token : Tokens \cup {None}, worker_id : Workers \cup {None},
           lease_expires_at_ms : Time \cup {None}, retry_after_ms : Time \cup {None}]

ReceiptRow == [transaction_id : TxIds, job_id : JobIds, lease_token : Tokens,
               attempt : Nat, worker_id : Workers, lease_expires_at_ms : Time]

Init ==
    /\ jobs = [id \in {} |-> None]
    /\ active_partitions = {}
    /\ queue_cursors = [q \in Queues |-> None]
    /\ claim_receipts = {}
    /\ transactions = [t \in {} |-> None]

-----------------------------------------------------------------------------
(* Reading rows *)

IsActive(row) == row.state \in ActiveStates

PartitionOf(row) == <<row.spec.queue, row.spec.partition_key>>

HasActiveJob(rows, partition) ==
    \E id \in DOMAIN rows : PartitionOf(rows[id]) = partition /\ IsActive(rows[id])

\* Mutant: the query forgets that a leased or uncertain job still blocks.
IsHead_SkipsBusy(rows, id) ==
    LET Free(row) == row.state \in {"Pending", "RetryWait"} IN
    /\ Free(rows[id])
    /\ \A other \in DOMAIN rows :
          PartitionOf(rows[other]) = PartitionOf(rows[id]) /\ Free(rows[other])
              => rows[id].enqueue_sequence <= rows[other].enqueue_sequence

\* SELECT ... state IN (active) ORDER BY enqueue_sequence LIMIT 1
IsHead(rows, id) ==
    /\ IsActive(rows[id])
    /\ \A other \in DOMAIN rows :
          PartitionOf(rows[other]) = PartitionOf(rows[id]) /\ IsActive(rows[other])
              => rows[id].enqueue_sequence <= rows[other].enqueue_sequence

\* COALESCE(MAX(...), 0) + 1
NextSequence(used) == Max(used \cup {0}) + 1

EnqueueSequences == {jobs[id].enqueue_sequence : id \in DOMAIN jobs}

TransactionSequences == {transactions[t].transaction_sequence : t \in DOMAIN transactions}

\* Mutant: any token ever given out acts on a leased job.
HoldsToken_AnyToken(row, token) == row.lease_token # None

HoldsToken(row, token) == row.lease_token = token

\* Mutant: one attempt too many.
Exhausted_OffByOne(row) == row.attempt > row.spec.max_attempts

Exhausted(row) == row.attempt >= row.spec.max_attempts

-----------------------------------------------------------------------------
(* Writing rows *)

\* Mutant: the expiry column is not cleared.
Released_KeepsExpiry(row, state, retry_after) ==
    [row EXCEPT !.state = state, !.lease_token = None, !.worker_id = None,
                !.retry_after_ms = retry_after]

\* set_terminal and set_nonterminal: every lease column becomes NULL.
Released(row, state, retry_after) ==
    [row EXCEPT !.state = state, !.lease_token = None, !.worker_id = None,
                !.lease_expires_at_ms = None, !.retry_after_ms = retry_after]

\* Mutant: drained without looking for other active jobs.
Drained_Always(rows, partitions) == active_partitions \ partitions

\* drain_partition_if_empty for each partition a job of which became terminal.
Drained(rows, partitions) ==
    {p \in active_partitions : p \in partitions => HasActiveJob(rows, p)}

SetTerminal(id, state) ==
    /\ jobs' = [jobs EXCEPT ![id] = Released(@, state, None)]
    /\ active_partitions' = Drained(jobs', {PartitionOf(jobs[id])})
    /\ UNCHANGED <<queue_cursors, claim_receipts>>

SetNonterminal(id, state, retry_after) ==
    /\ jobs' = [jobs EXCEPT ![id] = Released(@, state, retry_after)]
    /\ UNCHANGED <<active_partitions, queue_cursors, claim_receipts>>

-----------------------------------------------------------------------------
(* The operations of a commit batch *)

CanEnqueue(spec) == spec.job_id \notin DOMAIN jobs

NewRow(spec) ==
    [spec |-> spec, enqueue_sequence |-> NextSequence(EnqueueSequences),
     state |-> "Pending", attempt |-> 0, lease_token |-> None, worker_id |-> None,
     lease_expires_at_ms |-> None, retry_after_ms |-> None]

ApplyEnqueue(spec) ==
    /\ CanEnqueue(spec)
    /\ jobs' = [id \in DOMAIN jobs \cup {spec.job_id} |->
                   IF id = spec.job_id THEN NewRow(spec) ELSE jobs[id]]
    /\ active_partitions' = active_partitions \cup {<<spec.queue, spec.partition_key>>}
    /\ UNCHANGED <<queue_cursors, claim_receipts>>

\* The checks a token holder's report on a job passes: the row exists, the
\* transition is in the table and the token is the current one.  Whether the
\* lease has expired is not asked.
CanReport(id, to, token) ==
    /\ id \in DOMAIN jobs
    /\ CanTransitionTo(jobs[id].state, to)
    /\ HoldsToken(jobs[id], token)

ApplyAck(id, token) ==
    /\ CanReport(id, "Succeeded", token)
    /\ SetTerminal(id, "Succeeded")

\* Mutant: the addition is not checked.
RetryTimes_Unchecked(retry_after, now) ==
    IF retry_after # None THEN {retry_after} ELSE {now + DEFAULT_RETRY_DELAY_MS}

\* The caller's retry_after_ms, or now + the default delay, which must not overflow.
RetryTimes(retry_after, now) ==
    IF retry_after # None THEN {retry_after} ELSE {now + DEFAULT_RETRY_DELAY_MS} \cap Time

CanFail(id, token, retry_after, now) ==
    /\ id \in DOMAIN jobs
    /\ \/ Exhausted(jobs[id]) /\ CanReport(id, "Dead", token)
       \/ /\ ~Exhausted(jobs[id])
          /\ CanReport(id, "RetryWait", token)
          /\ RetryTimes(retry_after, now) # {}

ApplyFail(id, token, retry_after, now) ==
    /\ CanFail(id, token, retry_after, now)
    /\ IF Exhausted(jobs[id])
       THEN SetTerminal(id, "Dead")
       ELSE \E t \in RetryTimes(retry_after, now) : SetNonterminal(id, "RetryWait", t)

\* Without a token only a pending job may be cancelled.
CanCancel(id, token) ==
    /\ id \in DOMAIN jobs
    /\ CanTransitionTo(jobs[id].state, "Cancelled")
    /\ IF token = None THEN jobs[id].state = "Pending" ELSE HoldsToken(jobs[id], token)

ApplyCancel(id, token) ==
    /\ CanCancel(id, token)
    /\ SetTerminal(id, "Cancelled")

Resolutions == {"Retry", "MarkSucceeded", "MarkDead"}

\* Where a resolution takes the job: a retry without attempts left is dead.
ResolvedState(row, resolution) ==
    CASE resolution = "MarkSucceeded" -> "Succeeded"
      [] resolution = "MarkDead" -> "Dead"
      [] resolution = "Retry" -> IF Exhausted(row) THEN "Dead" ELSE "Pending"

\* No token is asked for, and no state beyond what the table admits.
CanResolve(id, resolution) ==
    /\ id \in DOMAIN jobs
    /\ CanTransitionTo(jobs[id].state, ResolvedState(jobs[id], resolution))

ApplyResolve(id, resolution) ==
    /\ CanResolve(id, resolution)
    /\ LET to == ResolvedState(jobs[id], resolution) IN
       IF to \in TerminalStates THEN SetTerminal(id, to) ELSE SetNonterminal(id, to, None)

CanExtend(id, token, new_expiry, now) ==
    /\ id \in DOMAIN jobs
    /\ jobs[id].state = "Leased"
    /\ HoldsToken(jobs[id], token)
    /\ now <= jobs[id].lease_expires_at_ms
    /\ new_expiry > jobs[id].lease_expires_at_ms

\* Mutant: the receipt is forgotten.
ExtendedReceipts_Unchanged(id, token, new_expiry) == claim_receipts

\* UPDATE claim_receipts ... WHERE job_id = id AND lease_token = token
ExtendedReceipts(id, token, new_expiry) ==
    {IF r.job_id = id /\ r.lease_token = token
     THEN [r EXCEPT !.lease_expires_at_ms = new_expiry]
     ELSE r : r \in claim_receipts}

\* Used by a batch and, as a transaction of its own, by extend_lease.
ApplyExtendLease(id, token, new_expiry, now) ==
    /\ CanExtend(id, token, new_expiry, now)
    /\ jobs' = [jobs EXCEPT ![id].lease_expires_at_ms = new_expiry]
    /\ claim_receipts' = ExtendedReceipts(id, token, new_expiry)
    /\ UNCHANGED <<active_partitions, queue_cursors>>

-----------------------------------------------------------------------------
(* claim_jobs *)

\* Mutant: only the leases that can be given to another worker are repaired.
ExpiredLeases_IdempotentOnly(queue, now) ==
    {id \in DOMAIN jobs : /\ jobs[id].spec.queue = queue
                          /\ jobs[id].spec.effect_mode = "ExplicitlyIdempotent"
                          /\ jobs[id].state = "Leased"
                          /\ jobs[id].lease_expires_at_ms < now}

ExpiredLeases(queue, now) ==
    {id \in DOMAIN jobs : /\ jobs[id].spec.queue = queue
                          /\ jobs[id].state = "Leased"
                          /\ jobs[id].lease_expires_at_ms < now}

\* ORDER BY lease_expires_at_ms LIMIT MAINTENANCE_LIMIT, ties in any order.
MaintenancePlans(queue, now) ==
    LET expired == ExpiredLeases(queue, now) IN
    {plan \in SUBSET expired :
        /\ Cardinality(plan) <= MAINTENANCE_LIMIT
        /\ plan = expired \/ Cardinality(plan) = MAINTENANCE_LIMIT
        /\ \A a \in plan, b \in expired \ plan :
              jobs[a].lease_expires_at_ms <= jobs[b].lease_expires_at_ms}

\* Mutant: the effect mode is not looked at.
MaintenanceState_IgnoresMode(row) == IF Exhausted(row) THEN "Dead" ELSE "Pending"

MaintenanceState(row) ==
    IF row.spec.effect_mode = "RequiresReconciliation" THEN "Uncertain"
    ELSE IF Exhausted(row) THEN "Dead" ELSE "Pending"

IsReady(row, now) ==
    /\ row.state \in {"Pending", "RetryWait"}
    /\ row.spec.not_before_ms <= now
    /\ row.state = "RetryWait" => row.retry_after_ms <= now

\* The heads of the queue's active partitions that may be leased now.
ReadyHeads(queue, now) ==
    {id \in DOMAIN jobs : /\ jobs[id].spec.queue = queue
                          /\ PartitionOf(jobs[id]) \in active_partitions
                          /\ IsHead(jobs, id)
                          /\ IsReady(jobs[id], now)}

\* Mutant: every claim starts at the first partition.
VisitedBefore_NoCursor(p, q, cursor) == p < q

\* The round: the partitions after the cursor, then the others, each in key order.
VisitedBefore(p, q, cursor) ==
    IF cursor = None \/ (p > cursor) = (q > cursor) THEN p < q ELSE p > cursor

\* Mutant: one lease too many.
LeasePlan_OneMore(queue, now, limit) ==
    LET ready == ReadyHeads(queue, now) IN
    {id \in ready :
        Cardinality({other \in ready : VisitedBefore(jobs[other].spec.partition_key,
                                                     jobs[id].spec.partition_key,
                                                     queue_cursors[queue])}) <= limit}

\* The ready heads met before `limit` leases are planned.
LeasePlan(queue, now, limit) ==
    LET ready == ReadyHeads(queue, now) IN
    {id \in ready :
        Cardinality({other \in ready : VisitedBefore(jobs[other].spec.partition_key,
                                                     jobs[id].spec.partition_key,
                                                     queue_cursors[queue])}) < limit}

\* The partition of the lease planned last; it becomes the queue's cursor.
LastLeased(plan, partition, cursor) ==
    \E id \in plan :
        /\ jobs[id].spec.partition_key = partition
        /\ \A other \in plan \ {id} :
              VisitedBefore(jobs[other].spec.partition_key, partition, cursor)

LeasedRow(row, token, worker, expiry) ==
    [row EXCEPT !.state = "Leased", !.attempt = row.attempt + 1, !.lease_token = token,
                !.worker_id = worker, !.lease_expires_at_ms = expiry,
                !.retry_after_ms = None]

\* Mutant: the attempt of the row before the lease.
ClaimReceipt_OldAttempt(t, id, worker, expiry) ==
    [transaction_id |-> t, job_id |-> id, lease_token |-> <<t, id>>,
     attempt |-> jobs[id].attempt, worker_id |-> worker, lease_expires_at_ms |-> expiry]

ClaimReceipt(t, id, worker, expiry) ==
    [transaction_id |-> t, job_id |-> id, lease_token |-> <<t, id>>,
     attempt |-> jobs[id].attempt + 1, worker_id |-> worker,
     lease_expires_at_ms |-> expiry]

InsertTransaction(t, digest) ==
    transactions' = [u \in DOMAIN transactions \cup {t} |->
                        IF u = t THEN [transaction_sequence |-> NextSequence(TransactionSequences),
                                       request_digest |-> digest]
                        ELSE transactions[u]]

\* Both plans are made from the state before the call, so a lease repaired by
\* this call is not granted again by it.  With nothing planned the call is a
\* no-op and leaves no transaction behind.
ClaimJobs(t, queue, worker, now, lease_ms, limit) ==
    LET expiry == now + lease_ms
        grants == LeasePlan(queue, now, limit)
    IN
    /\ expiry \in Time
    /\ \E repairs \in MaintenancePlans(queue, now) :
        /\ repairs # {} \/ grants # {}
        /\ \A id \in repairs : CanTransitionTo(jobs[id].state, MaintenanceState(jobs[id]))
        /\ jobs' = [id \in DOMAIN jobs |->
                       IF id \in repairs
                       THEN Released(jobs[id], MaintenanceState(jobs[id]), None)
                       ELSE IF id \in grants
                       THEN LeasedRow(jobs[id], <<t, id>>, worker, expiry)
                       ELSE jobs[id]]
        /\ active_partitions' = Drained(jobs', {PartitionOf(jobs[id]) : id \in
                                    {r \in repairs : MaintenanceState(jobs[r]) = "Dead"}})
    /\ claim_receipts' = claim_receipts \cup
                            {ClaimReceipt(t, id, worker, expiry) : id \in grants}
    /\ IF grants = {}
       THEN UNCHANGED queue_cursors
       ELSE \E p \in Partitions :
               /\ LastLeased(grants, p, queue_cursors[queue])
               /\ queue_cursors' = [queue_cursors EXCEPT ![queue] = p]
    /\ InsertTransaction(t, ClaimDigest)

\* Mutant: any lease of the job will do.
StillCurrent_AnyToken(receipt, now) ==
    LET row == jobs[receipt.job_id] IN
    row.state = "Leased" /\ row.lease_expires_at_ms >= now

\* A recovered lease may be executed only while it is the job's current one.
StillCurrent(receipt, now) ==
    LET row == jobs[receipt.job_id] IN
    /\ row.state = "Leased"
    /\ row.lease_token = receipt.lease_token
    /\ row.lease_expires_at_ms >= now

RecoverClaim(t, now) ==
    LET receipts == {r \in claim_receipts : r.transaction_id = t} IN
    [outcome |-> IF receipts # {} THEN "Committed"
                 ELSE IF t \in DOMAIN transactions THEN "MaintenanceCommitted" ELSE "Absent",
     jobs |-> {r \in receipts : StillCurrent(r, now)},
     stale_jobs |-> {r.job_id : r \in {s \in receipts : ~StillCurrent(s, now)}}]

-----------------------------------------------------------------------------
(* The specification: any caller issues any operation at any time.  Callers *)
(* hold only tokens a committed claim gave out.                            *)

IssuedTokens == {r.lease_token : r \in claim_receipts}

Enqueue == \E spec \in JobSpecs : ApplyEnqueue(spec) /\ UNCHANGED transactions

Ack == \E id \in JobIds, token \in IssuedTokens :
          ApplyAck(id, token) /\ UNCHANGED transactions

Fail == \E id \in JobIds, token \in IssuedTokens, retry_after \in Clocks \cup {None}, now \in Clocks :
           ApplyFail(id, token, retry_after, now) /\ UNCHANGED transactions

Cancel == \E id \in JobIds, token \in IssuedTokens \cup {None} :
             ApplyCancel(id, token) /\ UNCHANGED transactions

Resolve == \E id \in JobIds, resolution \in Resolutions :
              ApplyResolve(id, resolution) /\ UNCHANGED transactions

ExtendLease == \E id \in JobIds, token \in IssuedTokens, new_expiry \in Time, now \in Clocks :
                  ApplyExtendLease(id, token, new_expiry, now) /\ UNCHANGED transactions

Claim == \E t \in TxIds \ DOMAIN transactions, queue \in Queues, worker \in Workers,
            now \in Clocks, lease_ms \in LeaseDurations, limit \in ClaimLimits :
            ClaimJobs(t, queue, worker, now, lease_ms, limit)

Next == Enqueue \/ Ack \/ Fail \/ Cancel \/ Resolve \/ ExtendLease \/ Claim

Spec == Init /\ [][Next]_storeVars
=============================================================================

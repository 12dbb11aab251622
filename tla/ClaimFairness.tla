--------------------------- MODULE ClaimFairness ----------------------------
(***************************************************************************)
(* Fairness of the round-robin over partitions in claim_jobs               *)
(* (src/store/jobs.rs, plan_leases and the queue cursor).  The job store   *)
(* runs unchanged; a history variable counts, for each pair of partitions  *)
(* of a queue, how often one was leased from while the other was kept      *)
(* waiting with a ready head.                                              *)
(***************************************************************************)
EXTENDS JobStore

VARIABLE overtaken  \* [queue, waiting partition, served partition] -> count

Pairs == Queues \X Partitions \X Partitions

PartitionsOf(ids) == {jobs[id].spec.partition_key : id \in ids}

\* The counts after a claim that finds `ready` heads and leases `grants`: a
\* partition that is served, or has no ready head, is no longer waiting.
Counted(queue, ready, grants) ==
    [w \in Pairs |->
        IF w[1] # queue THEN overtaken[w]
        ELSE IF w[2] \notin PartitionsOf(ready) \/ w[2] \in PartitionsOf(grants) THEN 0
        ELSE IF w[3] \in PartitionsOf(grants) THEN overtaken[w] + 1
        ELSE overtaken[w]]

FairInit == Init /\ overtaken = [w \in Pairs |-> 0]

CountedClaim ==
    \E t \in TxIds \ DOMAIN transactions, queue \in Queues, worker \in Workers,
       now \in Clocks, lease_ms \in LeaseDurations, limit \in ClaimLimits :
        /\ ClaimJobs(t, queue, worker, now, lease_ms, limit)
        /\ overtaken' = Counted(queue, ReadyHeads(queue, now), LeasePlan(queue, now, limit))

FairNext ==
    \/ CountedClaim
    \/ Enqueue /\ UNCHANGED overtaken
    \/ Ack /\ UNCHANGED overtaken
    \/ Fail /\ UNCHANGED overtaken
    \/ Cancel /\ UNCHANGED overtaken
    \/ Resolve /\ UNCHANGED overtaken
    \/ ExtendLease /\ UNCHANGED overtaken

FairSpec == FairInit /\ [][FairNext]_<<storeVars, overtaken>>

-----------------------------------------------------------------------------
\* No partition is leased from twice while another one of the queue waits with
\* a ready head: the cursor is never set back and never skips a partition,
\* although partitions come and go between claims.
NoDoubleOvertaking == \A w \in Pairs : overtaken[w] <= 1

\* One claim leases at most one job of a partition and at most `limit` jobs,
\* and it leaves a ready head behind only when the limit was used up.
ClaimIsBoundedAndBusy ==
    \A queue \in Queues, now \in Clocks, limit \in ClaimLimits :
        LET ready  == ReadyHeads(queue, now)
            grants == LeasePlan(queue, now, limit)
        IN  /\ Cardinality(grants) <= limit
            /\ Cardinality(PartitionsOf(grants)) = Cardinality(grants)
            /\ grants # ready => Cardinality(grants) = limit
=============================================================================

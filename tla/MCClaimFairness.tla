-------------------------- MODULE MCClaimFairness ---------------------------
(***************************************************************************)
(* Three partitions of one queue and claims for one or two jobs.  The jobs *)
(* of two partitions can be leased twice; two of the jobs are not ready at *)
(* clock 0, so a partition is ready in one claim and not in the next.      *)
(***************************************************************************)
EXTENDS ClaimFairness, TLC

CONSTANTS j1, j2, j3, q1

MCJobSpec(id, partition, not_before, max) ==
    [job_id |-> id, queue |-> q1, partition_key |-> partition,
     not_before_ms |-> not_before, max_attempts |-> max,
     effect_mode |-> "ExplicitlyIdempotent"]

MCJobSpecs == {MCJobSpec(j1, 1, 0, 2), MCJobSpec(j2, 2, 1, 2), MCJobSpec(j3, 3, 1, 1)}

MCSymmetry == Permutations(TxIds)
=============================================================================

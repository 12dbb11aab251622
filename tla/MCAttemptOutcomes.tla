------------------------- MODULE MCAttemptOutcomes --------------------------
(***************************************************************************)
(* A job that requires reconciliation and may be tried three times, and an *)
(* idempotent one in another partition whose lease expires beside it.      *)
(***************************************************************************)
EXTENDS AttemptOutcomes, TLC

CONSTANTS j1, j2, q1

MCJobSpec(id, partition, max, mode) ==
    [job_id |-> id, queue |-> q1, partition_key |-> partition, not_before_ms |-> 0,
     max_attempts |-> max, effect_mode |-> mode]

MCJobSpecs == {MCJobSpec(j1, 1, 3, "RequiresReconciliation"),
               MCJobSpec(j2, 2, 1, "ExplicitlyIdempotent")}

MCSymmetry == Permutations(TxIds)
=============================================================================

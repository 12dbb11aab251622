----------------------------- MODULE MCJobStore -----------------------------
(***************************************************************************)
(* A small instance of the job store: two jobs share a partition, so one   *)
(* waits behind the other, and a third has a partition to itself; both     *)
(* effect modes and jobs with one and with two attempts occur.  Callers'   *)
(* clocks read 0 or 2 and leases last one tick, so a lease granted at 0    *)
(* has expired at 2 unless it was extended (to 2, its exact end, or to 3); *)
(* a default retry delay of 2 overflows at clock 2; MAINTENANCE_LIMIT 1    *)
(* leaves one of two expired leases behind.                                *)
(***************************************************************************)
EXTENDS JobStoreInvariants, TLC

CONSTANTS j1, j2, j3, q1

MCJobSpec(id, partition, not_before, max, mode) ==
    [job_id |-> id, queue |-> q1, partition_key |-> partition,
     not_before_ms |-> not_before, max_attempts |-> max, effect_mode |-> mode]

MCJobSpecs == {MCJobSpec(j1, 1, 0, 2, "RequiresReconciliation"),
               MCJobSpec(j2, 1, 0, 1, "ExplicitlyIdempotent"),
               MCJobSpec(j3, 2, 1, 2, "ExplicitlyIdempotent")}

MCSymmetry == Permutations(TxIds) \cup Permutations(Workers)
=============================================================================

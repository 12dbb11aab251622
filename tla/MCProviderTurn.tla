--------------------------- MODULE MCProviderTurn ---------------------------
(***************************************************************************)
(* A turn with two attempts, and two workers that compete for it and write *)
(* the same projection.  A heartbeat outlives the lease it extends, as     *)
(* 60 s outlive 30 s.                                                      *)
(***************************************************************************)
EXTENDS ProviderTurnProperties

CONSTANTS j1, q1

MCTurns ==
    {[job_id |-> j1, queue |-> q1, partition_key |-> 1, not_before_ms |-> 0,
      max_attempts |-> 2, effect_mode |-> "RequiresReconciliation"]}
=============================================================================

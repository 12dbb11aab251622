------------------------- MODULE MCDiagnosticExport -------------------------
(***************************************************************************)
(* Four batches over two streams and three keys, one job that is claimed,  *)
(* and pages of one row: every row is a page boundary.                     *)
(***************************************************************************)
EXTENDS DiagnosticExport

CONSTANTS j1, q1, x1, x2, x3, x4, e1, e2, e3, e4, k1, k2, k3

MCJob == [job_id |-> j1, queue |-> q1, partition_key |-> 1, not_before_ms |-> 0,
          max_attempts |-> 1, effect_mode |-> "ExplicitlyIdempotent"]

MCJobSpecs == {MCJob}

MCCommit(t, event, stream, mutation, job) ==
    [transaction_id |-> t, event_id |-> event, stream_id |-> stream,
     entries |-> mutation, job |-> job]

MCCommits ==
    {MCCommit(x1, e1, 1, [kind |-> "Put", key |-> k1, value |-> 1], MCJob),
     MCCommit(x2, e2, 2, [kind |-> "Put", key |-> k2, value |-> 1], None),
     MCCommit(x3, e3, 1, [kind |-> "Delete", key |-> k1], None),
     MCCommit(x4, e4, 1, [kind |-> "Replace", key |-> k3, value |-> 1], None)}
=============================================================================

--------------------------- MODULE MCControlPlane ---------------------------
(***************************************************************************)
(* One job, one stream, one projection and the batches that can get in     *)
(* each other's way.                                                       *)
(***************************************************************************)
EXTENDS ControlPlaneRefinement, TLC

CONSTANTS j1, q1, w1, c1, x1, x2, x3, x4, x5, x6, e1, e2, e3, s1, p1, k1, v1, v2

MCJob == [job_id |-> j1, queue |-> q1, partition_key |-> 1, not_before_ms |-> 0,
          max_attempts |-> 2, effect_mode |-> "RequiresReconciliation"]
MCJobSpecs == {MCJob}

Event(e) == [op |-> "AppendEvent", event_id |-> e, stream_id |-> s1]
Put(v) == [kind |-> "Put", key |-> k1, value |-> v]
Patch(version, mutations) ==
    [op |-> "ProjectionPatch",
     patch |-> [projection |-> p1, expected_version |-> version,
                new_version |-> version + 1, mutations |-> mutations]]
Expect(version) == <<[stream_id |-> s1, version |-> version]>>
Batch(id, expected, operations) ==
    [transaction_id |-> id, committed_at_ms |-> 0,
     expected_stream_versions |-> expected, operations |-> operations]

JobOp(kind) == [op |-> kind, job_id |-> j1]
Holding(kind) == JobOp(kind) @@ [lease_token |-> <<c1, j1>>]

\* x1 and x2 race for version 0 of the stream and of the projection; x2 is also
\* submitted with other content, which races for the stream alone; x3 finishes the job that claim c1 leases
\* and appends twice; x4 is invalid as it stands; x5 extends that lease and
\* gives the job back; x6 is an operator resolving and cancelling the job.
MCBatches ==
    {Batch(x1, Expect(0), <<Event(e1), Patch(0, <<Put(v1)>>),
                            [op |-> "EnqueueJob", spec |-> MCJob]>>),
     Batch(x2, Expect(0), <<Patch(0, <<Put(v2)>>), Event(e2)>>),
     Batch(x2, Expect(0), <<Event(e3)>>),
     Batch(x3, <<>>, <<Event(e2), Event(e3), Holding("AckJob")>>),
     Batch(x4, <<>>, <<Patch(1, <<Put(v1), Put(v2)>>)>>),
     Batch(x5, <<>>, <<Holding("ExtendLease") @@ [new_expiry_ms |-> 2],
                       Holding("FailJob") @@ [retry_after_ms |-> None]>>),
     Batch(x6, <<>>, <<JobOp("ResolveJob") @@ [resolution |-> "Retry"],
                       JobOp("CancelJob") @@ [lease_token |-> None],
                       Patch(1, <<[kind |-> "Clear"], Put(v2)>>)>>)}
=============================================================================

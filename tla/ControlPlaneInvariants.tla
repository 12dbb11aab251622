----------------------- MODULE ControlPlaneInvariants -----------------------
(***************************************************************************)
(* What the store promises across failed, unknown, repeated and crashed    *)
(* transactions, besides implementing AtomicStore (ControlPlaneRefinement),*)
(* which is where the order of the log, the density of its versions and    *)
(* the expected versions are promised.                                     *)
(***************************************************************************)
EXTENDS ControlPlane

CommittedBatches == DOMAIN durable.transactions \cap BatchIds

\* What a committed batch asked for: the digest it is stored with is its content.
ExpectationsOf(t) == durable.transactions[t].request_digest[2]
OperationsOf(t) == durable.transactions[t].request_digest[3]

\* The (batch, index) pairs of the committed operations of a kind.
CommittedOps(kind) ==
    {o \in UNION {{t} \X DOMAIN OperationsOf(t) : t \in CommittedBatches} :
        OperationsOf(o[1])[o[2]].op = kind}

\* The events among the first n operations, in their order, for each n.
AppendsUpTo(operations) ==
    LET upTo[n \in 0 .. Len(operations)] ==
            IF n = 0 THEN <<>>
            ELSE IF operations[n].op = "AppendEvent" THEN Append(upTo[n - 1], operations[n])
            ELSE upTo[n - 1]
    IN  upTo

Appends(operations) == AppendsUpTo(operations)[Len(operations)]

\* A commit batch is all or nothing: its events are in the log exactly when the
\* batch is committed, as one run and in the order of its operations; the jobs
\* that exist are those committed batches enqueued; a projection's version
\* counts the committed patches (the single transaction of commit::commit).
BatchesAtomic ==
    /\ \A t \in CommittedBatches :
          LET asked == Appends(OperationsOf(t)) IN
          \E before \in 0 .. Len(durable.events) - Len(asked) :
              /\ \A i \in DOMAIN durable.events :
                    durable.events[i].transaction_id = t
                        <=> i \in before + 1 .. before + Len(asked)
              /\ \A k \in DOMAIN asked :
                    /\ durable.events[before + k].event_id = asked[k].event_id
                    /\ durable.events[before + k].stream_id = asked[k].stream_id
    /\ \A i \in DOMAIN durable.events : durable.events[i].transaction_id \in CommittedBatches
    /\ DOMAIN durable.jobs = {OperationsOf(o[1])[o[2]].spec.job_id : o \in CommittedOps("EnqueueJob")}
    /\ \A p \in DOMAIN durable.projection_meta :
          durable.projection_meta[p] = Cardinality({o \in CommittedOps("ProjectionPatch") :
                                           OperationsOf(o[1])[o[2]].patch.projection = p})

\* Every receipt ever returned, by a commit, a resubmission or a recovery, names
\* a transaction that is committed now, under the sequence it has.
ReceiptsDurable ==
    \A r \in receipts :
        /\ r[1] \in DOMAIN durable.transactions
        /\ durable.transactions[r[1]].transaction_sequence = r[2]

\* A caller told that its transaction is not committed (a validation, conflict
\* or operation error, or Absent from recover_transaction) was told the truth,
\* unless somebody submits it again or was submitting it at that moment.
RefusalsAreFinal == refused \cap DOMAIN durable.transactions = {}

\* verify (src/store/ops.rs, semantic_checks) never reports a finding about
\* committed rows.
VerifyClean == SemanticFindings(durable) = {}
=============================================================================

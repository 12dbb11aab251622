----------------------- MODULE ControlPlaneRefinement -----------------------
(***************************************************************************)
(* ControlPlane implements AtomicStore: seen through its committed image,  *)
(* with the transactions in the order of transaction_sequence, the store   *)
(* is a list of requests that take effect one at a time.  The steps of a   *)
(* transaction before its COMMIT are invisible, a COMMIT that persists is  *)
(* the one visible step, and a crash is visible only if it comes after it. *)
(***************************************************************************)
EXTENDS ControlPlaneInvariants

Request(id, expects, operations) ==
    [id |-> id, expects |-> expects, appends |-> Appends(operations)]

BatchRequest(b) == Request(b.transaction_id, b.expected_stream_versions, b.operations)

\* A claim expects nothing of a stream and appends nothing.
ClaimRequest(t) == Request(t, <<>>, <<>>)

\* The committed transaction t as a request: the stored digest is its content.
CommittedRequest(t) ==
    IF durable.transactions[t].request_digest = ClaimDigest THEN ClaimRequest(t)
    ELSE Request(t, ExpectationsOf(t), OperationsOf(t))

CommittedLog ==
    [i \in 1 .. Cardinality(DOMAIN durable.transactions) |->
        CommittedRequest(CHOOSE t \in DOMAIN durable.transactions :
                            durable.transactions[t].transaction_sequence = i)]

Abstract == INSTANCE AtomicStore WITH
    Requests <- {BatchRequest(b) : b \in Batches} \cup {ClaimRequest(t) : t \in ClaimIds},
    log <- CommittedLog,
    feed <- durable.events,
    told <- receipts,
    denied <- refused,
    delivered <- consumed

\* Every step of the store, the failing, unknown and crashing ones included, is
\* a step of the abstract store or none at all: a batch takes effect once and
\* whole, at its COMMIT; no receipt is returned for anything else; a batch whose
\* caller was told "not committed" stays that way until it is handed in again;
\* and events_after hands out the log of the transactions
\* (commit::commit, recover_transaction, events_after).
ImplementsAtomicStore == Abstract!AbstractSpec
=============================================================================

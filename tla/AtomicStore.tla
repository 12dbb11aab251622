---------------------------- MODULE AtomicStore -----------------------------
(***************************************************************************)
(* What the store promises its callers, whatever happens below: one list   *)
(* of transactions, each of which takes effect at once or not at all.      *)
(*                                                                         *)
(* There is no transaction under way here, no connection and no crash.  A  *)
(* request becomes committed in one step that also publishes its events;   *)
(* answers may be lost, repeated or late, but none is ever wrong; events   *)
(* are handed out in the order of the list.  Module ControlPlaneRefinement *)
(* shows that ControlPlane implements this specification.                  *)
(***************************************************************************)
EXTENDS Naturals, Sequences, FiniteSets

CONSTANT
    Requests   \* [id, expects, appends]: what callers may ask to have committed

ASSUME RequestAssumption ==
    \A r \in Requests : r.appends \in Seq({r.appends[i] : i \in DOMAIN r.appends})

VARIABLES
    log,       \* the committed requests, oldest first
    feed,      \* their events, in the order of the log
    told,      \* the (id, position in the log) pairs of the receipts returned
    denied,    \* ids whose caller was last told "not committed"
    delivered  \* the events a consumer has been given

abstractVars == <<log, feed, told, denied, delivered>>

RequestIds == {r.id : r \in Requests}

CommittedIds == {log[i].id : i \in DOMAIN log}

\* A stream's version is the number of its events.
Version(stream) == Cardinality({i \in DOMAIN feed : feed[i].stream_id = stream})

\* The k-th of a request's events among those of its own stream.
Rank(r, k) == Cardinality({i \in 1 .. k : r.appends[i].stream_id = r.appends[k].stream_id})

Published(r) ==
    [k \in DOMAIN r.appends |->
        [event_id |-> r.appends[k].event_id, transaction_id |-> r.id,
         stream_id |-> r.appends[k].stream_id,
         stream_version |-> Version(r.appends[k].stream_id) + Rank(r, k)]]

\* Every stream is where the caller expects it, and no event exists already.
Admissible(r) ==
    /\ \A k \in DOMAIN r.expects : Version(r.expects[k].stream_id) = r.expects[k].version
    /\ \A k \in DOMAIN r.appends :
          /\ \A i \in DOMAIN feed : feed[i].event_id # r.appends[k].event_id
          /\ \A i \in 1 .. (k - 1) : r.appends[i].event_id # r.appends[k].event_id

AbstractInit ==
    log = <<>> /\ feed = <<>> /\ told = {} /\ denied = {} /\ delivered = <<>>

\* A caller hands in a request, perhaps again: it no longer counts as denied.
Submit(r) ==
    /\ denied' = denied \ {r.id}
    /\ UNCHANGED <<log, feed, told, delivered>>

\* The request takes effect, whole; its caller may or may not hear of it.
Commit(r) ==
    /\ r.id \notin CommittedIds \cup denied
    /\ Admissible(r)
    /\ log' = Append(log, r)
    /\ feed' = feed \o Published(r)
    /\ told' \in {told, told \cup {<<r.id, Len(log) + 1>>}}
    /\ UNCHANGED <<denied, delivered>>

\* A receipt, again or at last: to a resubmission or to recover_transaction.
Acknowledge ==
    /\ \E i \in DOMAIN log : told' = told \cup {<<log[i].id, i>>}
    /\ UNCHANGED <<log, feed, denied, delivered>>

\* Validation and conflict errors, and Absent from recover_transaction.
Deny(id) ==
    /\ id \notin CommittedIds
    /\ denied' = denied \cup {id}
    /\ UNCHANGED <<log, feed, told, delivered>>

Deliver ==
    /\ \E n \in Len(delivered) .. Len(feed) :
          delivered' = delivered \o SubSeq(feed, Len(delivered) + 1, n)
    /\ UNCHANGED <<log, feed, told, denied>>

AbstractNext ==
    \/ \E r \in Requests : Submit(r) \/ Commit(r)
    \/ Acknowledge
    \/ \E id \in RequestIds : Deny(id)
    \/ Deliver

AbstractSpec == AbstractInit /\ [][AbstractNext]_abstractVars
=============================================================================

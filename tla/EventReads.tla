----------------------------- MODULE EventReads -----------------------------
(***************************************************************************)
(* The reads of the event log (src/store/events.rs) while batches commit:  *)
(* all events after a global sequence, one stream page by page, and the    *)
(* tail.  A caller's numbers are u64 and usize; SQLite's are i64, and the  *)
(* casts between them wrap, for the limit and for the cursor.              *)
(***************************************************************************)
EXTENDS AtomicStore, OrderedRows, SequencesExt

CONSTANTS
    SIGN_BIT,    \* the first integer that is not an i64, 2^63 in the code
    PageLimits,  \* the limits a paging caller passes
    Streams

ASSUME WordAssumption == SIGN_BIT \in Nat \ {0, 1} /\ PageLimits \subseteq 1 .. SIGN_BIT - 1

VARIABLES
    from,  \* stream -> the from_version of its reader's next page
    seen   \* stream -> the events its reader has been given

readVars == <<from, seen>>

\* u64 and usize.
Words == 0 .. 2 * SIGN_BIT - 1

\* `as i64`: two's complement.
AsI64(u) == IF u < SIGN_BIT THEN u ELSE u - 2 * SIGN_BIT

\* Mutant: a limit that wraps is an empty page.
Limited_Clamped(rows, limit) == FirstRows(rows, IF limit < 0 THEN 0 ELSE limit)

\* LIMIT in SQLite: a negative one is no limit.
Limited(rows, limit) == IF limit < 0 THEN rows ELSE FirstRows(rows, limit)

\* The table events by global_sequence, which is the position in the feed.
Rows == [i \in DOMAIN feed |-> [at |-> i, row |-> feed[i]]]

\* The events of one stream by stream_version.
StreamRows(stream) ==
    {[at |-> feed[i].stream_version, row |-> feed[i]] :
        i \in {k \in DOMAIN feed : feed[k].stream_id = stream}}

EventsAfter(after, limit) ==
    Limited(InOrder({r \in Range(Rows) : r.at > AsI64(after)}), AsI64(limit))

\* Mutant: from_version is taken for a cursor, as in events_after.
StreamEvents_Exclusive(stream, version, limit) ==
    Limited(InOrder({r \in StreamRows(stream) : r.at > AsI64(version)}), AsI64(limit))

StreamEvents(stream, version, limit) ==
    Limited(InOrder({r \in StreamRows(stream) : r.at >= AsI64(version)}), AsI64(limit))

\* The newest first, then turned around.
LastEvents(limit) == Reverse(Limited(Reverse(InOrder(Range(Rows))), AsI64(limit)))

-----------------------------------------------------------------------------
ReadersInit ==
    /\ from = [s \in Streams |-> 1]
    /\ seen = [s \in Streams |-> <<>>]

\* The next page of a stream starts one after the last version of this one.
ReadStream(stream, limit) ==
    LET page == StreamEvents(stream, from[stream], limit) IN
    /\ page # <<>>
    /\ seen' = [seen EXCEPT ![stream] = @ \o page]
    /\ from' = [from EXCEPT ![stream] = page[Len(page)].at + 1]
    /\ UNCHANGED abstractVars

ReadersNext == \E stream \in Streams, limit \in PageLimits : ReadStream(stream, limit)

-----------------------------------------------------------------------------
\* The number of the event at i among the events of its stream.
PlaceInStream(i) == Cardinality({j \in 1 .. i : feed[j].stream_id = feed[i].stream_id})

\* Paging through one stream while batches append to it and to others gives
\* every event once, in the order of the log: the k-th event given is the k-th
\* of the stream (stream_events; events_after has the same promise as Deliver of
\* module AtomicStore).
StreamReadExact ==
    \A s \in Streams : \A k \in DOMAIN seen[s] :
        \E i \in DOMAIN feed :
            seen[s][k].row = feed[i] /\ feed[i].stream_id = s /\ PlaceInStream(i) = k

\* Every usize is a limit, up to usize::MAX as the tests use it: a read returns
\* as many of its events as there are and the limit allows, from the right end,
\* although the limit wraps into a negative number.
LimitsAreExact ==
    \A limit \in Words :
        LET n == IF limit < Len(feed) THEN limit ELSE Len(feed) IN
        /\ EventsAfter(0, limit) = SubSeq(Rows, 1, n)
        /\ LastEvents(limit) = SubSeq(Rows, Len(feed) - n + 1, Len(feed))
=============================================================================

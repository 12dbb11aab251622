------------------------------ MODULE EventLog ------------------------------
(***************************************************************************)
(* The event log and its streams, as a commit batch sees them              *)
(* (src/store/commit.rs, src/store/events.rs).  An event is appended at    *)
(* the next version of its stream; the versions a batch has reached live   *)
(* in a map that is written back to the streams table once, at the end.    *)
(***************************************************************************)
EXTENDS Naturals, Sequences

VARIABLES
    events,         \* the rows in global_sequence order; the index is the sequence
    streams,        \* stream_id -> current_version, for the streams with a row
    stream_versions \* the map of the running commit: stream_id -> version

logVars == <<events, streams, stream_versions>>

NoStreams == [s \in {} |-> 0]

InitLog == events = <<>> /\ streams = NoStreams /\ stream_versions = NoStreams

\* The streams row, 0 without one.
CurrentStreamVersion(stream) == IF stream \in DOMAIN streams THEN streams[stream] ELSE 0

\* What the commit knows: its map first, the table otherwise.
KnownVersion(stream) ==
    IF stream \in DOMAIN stream_versions THEN stream_versions[stream]
    ELSE CurrentStreamVersion(stream)

\* Every (stream, version) the batch expects is the durable version.
ExpectedVersionsHold(expected) ==
    \A i \in DOMAIN expected : CurrentStreamVersion(expected[i].stream_id) = expected[i].version

\* The map starts with the versions just validated.
LoadExpected(expected) ==
    stream_versions' = [s \in {expected[i].stream_id : i \in DOMAIN expected} |->
                           CurrentStreamVersion(s)]

\* UNIQUE(event_id): a second insert of an event fails the batch.
CanAppendEvent(event_id) == \A i \in DOMAIN events : events[i].event_id # event_id

AppendEvent(t, event_id, stream) ==
    LET next == KnownVersion(stream) + 1 IN
    /\ CanAppendEvent(event_id)
    /\ events' = Append(events, [event_id |-> event_id, transaction_id |-> t,
                                 stream_id |-> stream, stream_version |-> next])
    /\ stream_versions' = [s \in DOMAIN stream_versions \cup {stream} |->
                              IF s = stream THEN next ELSE stream_versions[s]]
    /\ UNCHANGED streams

\* Mutant: the map is dropped without being written back.
FlushedStreams_Skipped == streams

\* The upserts after the last operation.
FlushedStreams ==
    [s \in DOMAIN streams \cup DOMAIN stream_versions |-> KnownVersion(s)]

\* The events a reader is given: global_sequence > after, in order, at most limit.
EventsAfter(log, after, limit) ==
    SubSeq(log, after + 1, IF Len(log) < after + limit THEN Len(log) ELSE after + limit)
=============================================================================

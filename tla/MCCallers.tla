----------------------------- MODULE MCCallers ------------------------------
(***************************************************************************)
(* Program a names its transaction and its event, b neither, c the event   *)
(* of a, d its transaction only, as the example program does, and the      *)
(* object of f is rejected.  b's events go to two streams.  There are at   *)
(* most four events; integers have four bits, so that every sequence fits  *)
(* and half of the limits wrap.                                            *)
(***************************************************************************)
EXTENDS Callers

CONSTANTS a, b, c, d, f, t1, t2, e1, s1, s2

MCEvent(event, stream) == [event_id |-> event, stream_id |-> stream]

MCInput(id, events, malformed) ==
    [transaction_id |-> id, expects |-> <<>>, events |-> events, malformed |-> malformed]

MCInputs ==
    [p \in Programs |->
        CASE p = a -> MCInput(t1, <<MCEvent(e1, s1)>>, FALSE)
          [] p = b -> MCInput(None, <<MCEvent(None, s1), MCEvent(None, s2)>>, FALSE)
          [] p = c -> MCInput(None, <<MCEvent(e1, s1)>>, FALSE)
          [] p = d -> MCInput(t2, <<MCEvent(None, s2)>>, FALSE)
          [] p = f -> MCInput(None, <<MCEvent(None, s1)>>, TRUE)]

\* The requests are those the programs' objects are turned into.
MCNoRequests == {}
=============================================================================

------------------------------ MODULE Callers -------------------------------
(***************************************************************************)
(* The callers of one store side by side: JavaScript programs commit       *)
(* through the Node.js binding, while readers page through the streams.    *)
(***************************************************************************)
EXTENDS NodeBinding, EventReads

callersVars == <<nodeVars, readVars>>

\* Bound: the log never holds as many events as an i64 can number
\* (global_sequence is an AUTOINCREMENT key; 2^63 - 1 rows are out of reach).
EventsNumbered == Len(feed) < SIGN_BIT - 1

CallersInit == NodeInit /\ ReadersInit

CallersNext ==
    \/ NodeNext /\ EventsNumbered' /\ UNCHANGED readVars
    \/ ReadersNext /\ UNCHANGED programVars

CallersSpec == CallersInit /\ [][CallersNext]_callersVars
=============================================================================

---------------------------- MODULE OrderedRows -----------------------------
(***************************************************************************)
(* The result of a query: a row is [at, row], `at` its value of the column *)
(* the query is ordered by, which a key of the table keeps unique.         *)
(***************************************************************************)
EXTENDS Integers, Sequences, FiniteSets

Before(rows, at) == {q \in rows : q.at < at}

\* ORDER BY at: the k-th row is the one with k - 1 rows before it.
InOrder(rows) ==
    [k \in 1 .. Cardinality(rows) |->
        CHOOSE r \in rows : Cardinality(Before(rows, r.at)) = k - 1]

\* The first n rows, or all if there are fewer.
FirstRows(rows, n) == SubSeq(rows, 1, IF Len(rows) < n THEN Len(rows) ELSE n)
=============================================================================

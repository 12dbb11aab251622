---------------------------- MODULE MCMigrations ----------------------------
(***************************************************************************)
(* Three openers of a new file, a file of an older build, one that is       *)
(* current, one of a newer build, one with another history and one whose    *)
(* jobs cannot be copied.                                                   *)
(***************************************************************************)
EXTENDS Migrations

CONSTANTS r1, r2, bad

File(checksums, layout, jobs) ==
    [schema_migrations |-> [v \in 1 .. layout |-> checksums[v]], layout |-> layout, jobs |-> jobs]

MCFiles ==
    {File(<<>>, 0, {}), File(<<1>>, 1, {}), File(<<1>>, 1, {r1}), File(<<1, 2>>, 2, {r1}),
     File(<<1, 2, 3>>, 3, {r1}), File(<<9>>, 1, {r1}), File(<<1, 9>>, 2, {r1}),
     File(<<1>>, 1, {r1, bad})}
=============================================================================

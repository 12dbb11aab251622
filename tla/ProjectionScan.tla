--------------------------- MODULE ProjectionScan ---------------------------
(***************************************************************************)
(* Reading a projection while it changes: keys are byte strings, a prefix   *)
(* scan is compiled to a key range, and a reader pages through it with the  *)
(* last key of each page while patches keep committing between its pages    *)
(* (src/store/projections.rs; the reader is the loop of                     *)
(* tests/projections_read.rs).  Every page is one SELECT, hence one         *)
(* snapshot of the table.                                                   *)
(***************************************************************************)
EXTENDS ProjectionTable, FiniteSets, FiniteSetsExt, SequencesExt

CONSTANTS
    MaxByte,      \* the largest byte, 0xFF in the code
    ScanPrefixes, \* the prefixes readers ask for
    Limits,       \* the page sizes readers ask for
    Patches,      \* the mutation lists writers submit
    MaxVersion    \* bound: the number of patches per projection

Keys == Seq(0 .. MaxByte)

\* Keys are byte strings, and a patch names some of them.
IsMutation(m) ==
    /\ m.kind \in {"Put", "Delete", "Clear", "Replace"}
    /\ m.kind \in {"Put", "Delete"} => m.key \in Keys
    /\ m.kind = "Replace" => /\ m.entries \in Seq({m.entries[i] : i \in DOMAIN m.entries})
                             /\ \A i \in DOMAIN m.entries : m.entries[i].key \in Keys

\* Limits are those below 2^63, which LIMIT takes for what they are.
ASSUME ScanAssumption ==
    /\ MaxByte \in Nat
    /\ ScanPrefixes \subseteq Keys
    /\ Limits \subseteq Nat
    /\ \A mutations \in Patches :
          /\ mutations \in Seq({mutations[i] : i \in DOMAIN mutations})
          /\ \A i \in DOMAIN mutations : IsMutation(mutations[i])

VARIABLE reader
    \* projection, prefix and limit of the scan; after: the cursor, a set of at
    \* most one key; seen: the keys returned so far; stable: the keys with the
    \* prefix that have been in the table ever since the scan began

scanVars == <<projectionVars, reader>>

-----------------------------------------------------------------------------
(* Keys compare bytewise, a proper prefix being smaller. *)

KeyLess(a, b) ==
    \/ IsStrictPrefix(a, b)
    \/ \E i \in DOMAIN a \cap DOMAIN b :
          a[i] < b[i] /\ SubSeq(a, 1, i - 1) = SubSeq(b, 1, i - 1)

\* Mutant: a prefix that ends in the largest byte is left without a bound.
PrefixUpperBound_NoCarry(prefix) ==
    IF prefix = <<>> \/ Last(prefix) = MaxByte THEN {}
    ELSE {[prefix EXCEPT ![Len(prefix)] = @ + 1]}

\* Options are sets of at most one element.  Trailing 0xFF bytes are dropped
\* and the byte before them is incremented; there may be none.
PrefixUpperBound(prefix) ==
    LET below == {i \in DOMAIN prefix : prefix[i] # MaxByte}
    IN {[SubSeq(prefix, 1, i) EXCEPT ![i] = @ + 1] :
           i \in {i \in below : \A j \in below : j <= i}}

\* ORDER BY key: the i-th key is the one with i - 1 keys before it.
KeysBefore(keys, k) == {j \in keys : KeyLess(j, k)}

InKeyOrder(keys) ==
    [i \in 1 .. Cardinality(keys) |->
        CHOOSE k \in keys : Cardinality(KeysBefore(keys, k)) = i - 1]

\* Mutant: the cursor's own key is returned again.
Scan_CursorInclusive(projection, start, end, after, limit) ==
    LET entries == projection_entries[projection]
        rows == {k \in DOMAIN entries : /\ \A s \in start : ~KeyLess(k, s)
                                        /\ \A e \in end : KeyLess(k, e)
                                        /\ \A a \in after : ~KeyLess(k, a)}
        ordered == InKeyOrder(rows)
    IN [i \in 1 .. IF limit < Len(ordered) THEN limit ELSE Len(ordered) |->
           [key |-> ordered[i], value |-> entries[ordered[i]]]]

Scan(projection, start, end, after, limit) ==
    LET entries == projection_entries[projection]
        rows == {k \in DOMAIN entries : /\ \A s \in start : ~KeyLess(k, s)
                                        /\ \A e \in end : KeyLess(k, e)
                                        /\ \A a \in after : KeyLess(a, k)}
        ordered == InKeyOrder(rows)
    IN [i \in 1 .. IF limit < Len(ordered) THEN limit ELSE Len(ordered) |->
           [key |-> ordered[i], value |-> entries[ordered[i]]]]

ScanPrefixPage(projection, prefix, after, limit) ==
    Scan(projection, {prefix}, PrefixUpperBound(prefix), after, limit)

-----------------------------------------------------------------------------
(* One writer, one paging reader. *)

KeysWithPrefix(projection, prefix) ==
    {k \in DOMAIN projection_entries[projection] : IsPrefix(prefix, k)}

NoReader == [active |-> FALSE]

InitScan == InitProjections /\ reader = NoReader

\* A commit whose only operation is this patch.  A stale or invalid one is
\* refused and changes nothing.
CommitPatch(projection, version, mutations) ==
    /\ version < MaxVersion
    /\ ApplyProjectionPatch([projection |-> projection, expected_version |-> version,
                             new_version |-> version + 1, mutations |-> mutations])
    /\ reader' = IF reader.active /\ reader.projection = projection
                 THEN [reader EXCEPT !.stable = @ \cap DOMAIN projection_entries'[projection]]
                 ELSE reader

StartScan(projection, prefix, limit) ==
    /\ ~reader.active
    /\ reader' = [active |-> TRUE, projection |-> projection, prefix |-> prefix,
                  limit |-> limit, after |-> {}, seen |-> <<>>,
                  stable |-> KeysWithPrefix(projection, prefix), done |-> FALSE]
    /\ UNCHANGED projectionVars

\* A short page is the last one.
NextPage ==
    /\ reader.active /\ ~reader.done
    /\ LET page == ScanPrefixPage(reader.projection, reader.prefix, reader.after, reader.limit)
           keys == [i \in DOMAIN page |-> page[i].key]
       IN reader' = [reader EXCEPT !.seen = @ \o keys,
                                   !.after = IF page = <<>> THEN @ ELSE {Last(keys)},
                                   !.done = Len(page) < reader.limit]
    /\ UNCHANGED projectionVars

EndScan ==
    /\ reader.active /\ reader.done
    /\ reader' = NoReader
    /\ UNCHANGED projectionVars

NextScan ==
    \/ \E p \in Projections, v \in 0 .. MaxVersion, mutations \in Patches :
          CommitPatch(p, v, mutations)
    \/ \E p \in Projections, prefix \in ScanPrefixes, limit \in Limits :
          StartScan(p, prefix, limit)
    \/ NextPage
    \/ EndScan

ScanSpec == InitScan /\ [][NextScan]_scanVars

-----------------------------------------------------------------------------
(* Properties *)

\* What a mutation says of the table.
Holds(m, table) ==
    /\ m.kind = "Put" => m.key \in DOMAIN table /\ table[m.key] = m.value
    /\ m.kind = "Delete" => m.key \notin DOMAIN table
    /\ m.kind = "Replace" =>
          \A i \in DOMAIN m.entries : /\ m.entries[i].key \in DOMAIN table
                                     /\ table[m.entries[i].key] = m.entries[i].value

\* What an accepted patch promises of the table it leaves (validate rejects
\* "contradictory duplicate keys"): every Put, Delete and Replace after the last
\* Clear or Replace, that one included, is still true of the table when the
\* whole patch has been applied, so no mutation is silently overridden by
\* another of its own patch; and every other key keeps its old entry, or is gone
\* if the patch has a boundary.
PatchMeaning ==
    \A p \in Projections, mutations \in Patches :
        LET before == projection_entries[p]
            after == Patched(before, mutations)
            boundaries == {i \in DOMAIN mutations : IsBoundary(mutations[i])}
            first == IF boundaries = {} THEN 1 ELSE Max(boundaries)
            named == UNION {KeysOf(mutations[i]) : i \in first .. Len(mutations)}
        IN ~Contradictory(mutations) =>
              /\ \A i \in first .. Len(mutations) : Holds(mutations[i], after)
              /\ DOMAIN after \ named = IF boundaries = {} THEN DOMAIN before \ named ELSE {}
              /\ \A k \in DOMAIN after \ named : after[k] = before[k]

\* A prefix scan compiled to a range returns exactly the keys that start with
\* the prefix, whatever the table holds: also for the empty prefix, for one that
\* ends in the largest byte, and for one made of it, which has no upper bound.
PrefixScanExact ==
    \A p \in Projections, prefix \in ScanPrefixes :
        LET all == ScanPrefixPage(p, prefix, {}, Cardinality(DOMAIN projection_entries[p]))
        IN {all[i].key : i \in DOMAIN all} = KeysWithPrefix(p, prefix)

\* However patches fall between its pages, a reader never sees a key twice or
\* out of order, and once it has its last page it has seen every key that was
\* there from its first page on.
PagedScanComplete ==
    reader.active =>
        /\ \A i, j \in DOMAIN reader.seen : i < j => KeyLess(reader.seen[i], reader.seen[j])
        /\ reader.done => reader.stable \subseteq ToSet(reader.seen)
=============================================================================

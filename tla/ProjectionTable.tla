-------------------------- MODULE ProjectionTable ---------------------------
(***************************************************************************)
(* Projections: versioned key-value tables changed by patches              *)
(* (src/projection.rs, src/store/projections.rs).                          *)
(***************************************************************************)
EXTENDS Naturals, Sequences

CONSTANT Projections  \* projection names

VARIABLES
    projection_meta,    \* projection -> version, for the projections with a row
    projection_entries  \* projection -> its entries, a function from keys to values

projectionVars == <<projection_meta, projection_entries>>

NoEntries == [k \in {} |-> 0]

InitProjections ==
    /\ projection_meta = [p \in {} |-> 0]
    /\ projection_entries = [p \in Projections |-> NoEntries]

ProjectionVersion(projection) ==
    IF projection \in DOMAIN projection_meta THEN projection_meta[projection] ELSE 0

-----------------------------------------------------------------------------
(* ProjectionPatch::validate *)

IsBoundary(m) == m.kind \in {"Clear", "Replace"}

\* The keys a mutation names.
KeysOf(m) ==
    CASE m.kind \in {"Put", "Delete"} -> {m.key}
      [] m.kind = "Replace" -> {m.entries[i].key : i \in DOMAIN m.entries}
      [] m.kind = "Clear" -> {}

\* Mutant: a Replace clears the tracked keys and does not track its own.
Contradictory_ReplaceUntracked(mutations) ==
    \E i, j \in DOMAIN mutations :
        /\ i < j
        /\ KeysOf(mutations[i]) \cap KeysOf(mutations[j]) # {}
        /\ \A b \in i .. j : ~IsBoundary(mutations[b])

\* A key is named twice with no Clear or Replace in between, or twice by one
\* Replace.
Contradictory(mutations) ==
    \/ \E i, j \in DOMAIN mutations :
          /\ i < j
          /\ ~IsBoundary(mutations[j])
          /\ KeysOf(mutations[i]) \cap KeysOf(mutations[j]) # {}
          /\ \A b \in i + 1 .. j - 1 : ~IsBoundary(mutations[b])
    \/ \E i \in DOMAIN mutations :
          /\ mutations[i].kind = "Replace"
          /\ \E a, b \in DOMAIN mutations[i].entries :
                a < b /\ mutations[i].entries[a].key = mutations[i].entries[b].key

PatchValid(patch) ==
    /\ patch.new_version = patch.expected_version + 1
    /\ ~Contradictory(patch.mutations)

-----------------------------------------------------------------------------
(* apply_projection_patch *)

PutEntry(entries, key, value) ==
    [k \in DOMAIN entries \cup {key} |-> IF k = key THEN value ELSE entries[k]]

\* The entries of a Replace; validate has seen to it that their keys differ.
TableOf(entries) ==
    [k \in {entries[i].key : i \in DOMAIN entries} |->
        entries[CHOOSE i \in DOMAIN entries : entries[i].key = k].value]

ApplyMutation(entries, m) ==
    CASE m.kind = "Put" -> PutEntry(entries, m.key, m.value)
      [] m.kind = "Delete" -> [k \in DOMAIN entries \ {m.key} |-> entries[k]]
      [] m.kind = "Clear" -> NoEntries
      [] m.kind = "Replace" -> TableOf(m.entries)

\* The loop over the mutations: the entries after the first n of them, for each n.
TablesOf(entries, mutations) ==
    LET table[n \in 0 .. Len(mutations)] ==
            IF n = 0 THEN entries ELSE ApplyMutation(table[n - 1], mutations[n])
    IN  table

Patched(entries, mutations) == TablesOf(entries, mutations)[Len(mutations)]

CanApplyPatch(patch) ==
    PatchValid(patch) /\ ProjectionVersion(patch.projection) = patch.expected_version

ApplyProjectionPatch(patch) ==
    /\ CanApplyPatch(patch)
    /\ projection_meta' = [p \in DOMAIN projection_meta \cup {patch.projection} |->
                              IF p = patch.projection THEN patch.new_version
                              ELSE projection_meta[p]]
    /\ projection_entries' = [projection_entries EXCEPT ![patch.projection] =
                                 Patched(@, patch.mutations)]
=============================================================================

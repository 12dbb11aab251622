-------------------------- MODULE DiagnosticExport --------------------------
(***************************************************************************)
(* diagnostic_export (src/store/ops.rs): the statistics first, count after *)
(* count, then every table, page after page.  Each is a query of its own   *)
(* and sees the rows committed by then; batches and claims commit between  *)
(* any two.                                                                *)
(* The export is read by somebody who looks for the cause of a fault, so   *)
(* what matters is which of its rows may be taken to belong together.      *)
(***************************************************************************)
EXTENDS JobStore, EventLog, OrderedRows, SequencesExt

CONSTANTS
    Commits,          \* batches: [transaction_id, event_id, stream_id, entries, job]
    EXPORT_PAGE_SIZE  \* rows fetched per page

ASSUME ExportAssumption == EXPORT_PAGE_SIZE \in Nat \ {0}

\* Stream ids are not empty (validate_batch); of the strings they are in the code
\* only the order matters.
ASSUME CommitAssumption ==
    \A b \in Commits :
        /\ b.transaction_id \in TxIds
        /\ b.stream_id \in Nat \ {0}
        /\ b.job = None \/ b.job \in JobSpecs

VARIABLES
    projection_meta,     \* the projection's version
    projection_entries,  \* rowid -> [key, value]
    header,              \* the statistics of the running export
    out,                 \* table -> the rows written so far
    stage,               \* the table being read, as an index of ExportTables; 0 for the statistics
    last,                \* the cursor of its next page, or how many tables are counted
    steady               \* history: entry rows there since their table's export began

tableVars == <<projection_meta, projection_entries>>
exportVars == <<header, out, stage, last>>
diagnosticVars == <<storeVars, logVars, tableVars, exportVars, steady>>

-----------------------------------------------------------------------------
(* The committed transactions *)

NextRowid == NextSequence(DOMAIN projection_entries)

\* An upsert keeps the row; a new key gets the rowid after the largest one.
Upserted(key, value) ==
    LET rows == {i \in DOMAIN projection_entries : projection_entries[i].key = key}
        rowid == IF rows = {} THEN NextRowid ELSE CHOOSE i \in rows : TRUE
    IN  [i \in DOMAIN projection_entries \cup {rowid} |->
            IF i = rowid THEN [key |-> key, value |-> value] ELSE projection_entries[i]]

Deleted(key) ==
    [i \in {i \in DOMAIN projection_entries : projection_entries[i].key # key} |->
        projection_entries[i]]

\* Replace: the table is cleared, so the rowids start over.
Replaced(entry) == [i \in {1} |-> entry]

MutateEntries(mutation) ==
    \/ /\ mutation.kind = "Put"
       /\ projection_entries' = Upserted(mutation.key, mutation.value)
    \/ /\ mutation.kind = "Delete"
       /\ projection_entries' = Deleted(mutation.key)
    \/ /\ mutation.kind = "Replace"
       /\ projection_entries' = Replaced([key |-> mutation.key, value |-> mutation.value])

\* An entry row is steady while its rowid holds its key.
KeepSteady ==
    steady' = {i \in steady : /\ i \in DOMAIN projection_entries'
                              /\ projection_entries'[i].key = projection_entries[i].key}

\* A batch: an event, a mutation of the projection and at most one new job.
CommitBatch(b) ==
    /\ b.transaction_id \notin DOMAIN transactions
    /\ CanAppendEvent(b.event_id)
    /\ InsertTransaction(b.transaction_id, b)
    /\ events' = Append(events, [event_id |-> b.event_id, transaction_id |-> b.transaction_id,
                                 stream_id |-> b.stream_id,
                                 stream_version |-> CurrentStreamVersion(b.stream_id) + 1])
    /\ streams' = [s \in DOMAIN streams \cup {b.stream_id} |->
                      IF s = b.stream_id THEN CurrentStreamVersion(s) + 1 ELSE streams[s]]
    /\ projection_meta' = projection_meta + 1
    /\ MutateEntries(b.entries)
    /\ KeepSteady
    /\ IF b.job = None THEN UNCHANGED jobVars ELSE ApplyEnqueue(b.job)
    /\ UNCHANGED <<stream_versions, exportVars>>

CommitClaim ==
    /\ \E t \in TxIds \ {b.transaction_id : b \in Commits}, queue \in Queues, worker \in Workers,
          now \in Clocks, lease_ms \in LeaseDurations, limit \in ClaimLimits :
          t \notin DOMAIN transactions /\ ClaimJobs(t, queue, worker, now, lease_ms, limit)
    /\ UNCHANGED <<logVars, tableVars, exportVars, steady>>

-----------------------------------------------------------------------------
(* The export *)

\* Mutant: events are written before the transactions they belong to.
ExportTables_EventsFirst ==
    <<"events", "transactions", "streams", "projection_meta", "projection_entries",
      "jobs", "active_partitions", "claim_receipts">>

\* The order of the export_* calls.
ExportTables ==
    <<"transactions", "events", "streams", "projection_meta", "projection_entries",
      "jobs", "active_partitions", "claim_receipts">>

\* These are read with one query.
Unpaged == {"projection_meta", "active_partitions", "claim_receipts"}

Exporting == stage \in DOMAIN ExportTables
Table == ExportTables[stage]

\* The rows of the tables, each with the value of its cursor column; without
\* paging there is none.  Lease tokens are not selected.
TransactionRows ==
    {[at |-> transactions[t].transaction_sequence, row |-> t] : t \in DOMAIN transactions}

EventRows == {[at |-> i, row |-> events[i]] : i \in DOMAIN events}

StreamRows ==
    {[at |-> s, row |-> [stream_id |-> s, current_version |-> streams[s]]] : s \in DOMAIN streams}

MetaRows == {[at |-> 1, row |-> projection_meta]}

EntryRows == {[at |-> i, row |-> projection_entries[i]] : i \in DOMAIN projection_entries}

JobRows ==
    {[at |-> jobs[id].enqueue_sequence,
      row |-> [job_id |-> id, state |-> jobs[id].state, attempt |-> jobs[id].attempt]] :
        id \in DOMAIN jobs}

PartitionRows == {[at |-> 1, row |-> p] : p \in active_partitions}

ReceiptRows ==
    {[at |-> 1, row |-> [transaction_id |-> r.transaction_id, job_id |-> r.job_id,
                         attempt |-> r.attempt]] : r \in claim_receipts}

RowsOf(table) ==
    [transactions |-> TransactionRows, events |-> EventRows, streams |-> StreamRows,
     projection_meta |-> MetaRows, projection_entries |-> EntryRows, jobs |-> JobRows,
     active_partitions |-> PartitionRows, claim_receipts |-> ReceiptRows][table]

\* Mutant: LIMIT and OFFSET, counting the rows written so far.
PageOf_Offset(table, after) ==
    LET rows == IF table \in Unpaged THEN SetToSeq(RowsOf(table)) ELSE InOrder(RowsOf(table)) IN
    FirstRows(SubSeq(rows, Len(out[table]) + 1, Len(rows)), EXPORT_PAGE_SIZE)

\* WHERE cursor > last ORDER BY cursor LIMIT page size; the order of the tables
\* read with one query is left open.
PageOf(table, after) ==
    IF table \in Unpaged THEN SetToSeq(RowsOf(table))
    ELSE FirstRows(InOrder({r \in RowsOf(table) : r.at > after}), EXPORT_PAGE_SIZE)

\* Mutant: a full page is taken for the last one.
LastPage_Full(table, page) == TRUE

\* A page that is not full ends the table.
LastPage(table, page) == table \in Unpaged \/ Len(page) < EXPORT_PAGE_SIZE

\* The tables of the statistics that a reader can compare with the rows, in the
\* order they are counted.
StatTables == <<"jobs", "transactions", "events", "streams">>

CountOf(table) ==
    [jobs |-> Cardinality(DOMAIN jobs), transactions |-> Cardinality(DOMAIN transactions),
     events |-> Len(events), streams |-> Cardinality(DOMAIN streams)][table]

\* One query of stats; the header is written after the last.
Stats ==
    /\ stage = 0
    /\ header' = [header EXCEPT ![StatTables[last + 1]] = CountOf(StatTables[last + 1])]
    /\ IF last + 1 = Len(StatTables) THEN stage' = 1 /\ last' = 0
       ELSE stage' = 0 /\ last' = last + 1
    /\ UNCHANGED <<storeVars, logVars, tableVars, out, steady>>

ExportPage ==
    LET page == PageOf(Table, last)
        ended == LastPage(Table, page)
    IN
    /\ Exporting
    /\ out' = [out EXCEPT ![Table] = @ \o [i \in DOMAIN page |-> page[i].row]]
    /\ stage' = IF ended THEN stage + 1 ELSE stage
    /\ last' = IF ended THEN 0 ELSE page[Len(page)].at
    /\ steady' = IF Table = "projection_entries" /\ last = 0 THEN DOMAIN projection_entries
                 ELSE steady
    /\ UNCHANGED <<storeVars, logVars, tableVars, header>>

Exported == stage > Len(ExportTables)

DiagnosticInit ==
    /\ Init /\ InitLog
    /\ projection_meta = 0 /\ projection_entries = [i \in {} |-> None]
    /\ header = [transactions |-> 0, events |-> 0, streams |-> 0, jobs |-> 0]
    /\ out = [i \in Range(ExportTables) |-> <<>>]
    /\ stage = 0 /\ last = 0 /\ steady = {}

DiagnosticNext ==
    \/ \E b \in Commits : CommitBatch(b)
    \/ CommitClaim
    \/ Stats \/ ExportPage

DiagnosticSpec == DiagnosticInit /\ [][DiagnosticNext]_diagnosticVars

-----------------------------------------------------------------------------
(* What the reader of an export may rely on *)

Written(table) == Range(out[table])

\* The append-only tables are exported without a gap or a repetition, and with
\* no fewer rows than the statistics at the top say (the paging loops).
ExportGapFree ==
    Exported =>
        /\ \A i \in DOMAIN out["transactions"] :
              transactions[out["transactions"][i]].transaction_sequence = i
        /\ out["events"] = SubSeq(events, 1, Len(out["events"]))
        /\ Len(out["transactions"]) >= header.transactions
        /\ Len(out["events"]) >= header.events
        /\ Len(out["streams"]) >= header.streams
        /\ Len(out["jobs"]) >= header.jobs

\* What an exported row needs is exported too, although the tables are read at
\* different moments: the events of a transaction, the stream of an event at its
\* version or a later one, and the claim receipt of every attempt of a job (the
\* order in which diagnostic_export reads its tables).
ExportClosed ==
    Exported =>
        /\ \A i \in DOMAIN events : events[i].transaction_id \in Written("transactions") =>
              events[i] \in Written("events")
        /\ \A e \in Written("events") : \E s \in Written("streams") :
              s.stream_id = e.stream_id /\ s.current_version >= e.stream_version
        /\ \A j \in Written("jobs") : \A n \in 1 .. j.attempt :
              \E r \in Written("claim_receipts") : r.job_id = j.job_id /\ r.attempt = n

\* A projection entry whose row is there throughout is exported once, whatever
\* is put, deleted or replaced around it (export_projections pages by rowid).
SteadyEntriesOnce ==
    (Exporting /\ Table = "jobs") =>
        \A i \in steady :
            Cardinality({k \in DOMAIN out["projection_entries"] :
                            out["projection_entries"][k].key = projection_entries[i].key}) = 1
=============================================================================

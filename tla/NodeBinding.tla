---------------------------- MODULE NodeBinding -----------------------------
(***************************************************************************)
(* commit and recoverTransaction of the Node.js binding                    *)
(* (minisqlite-node/src/lib.rs), called by JavaScript programs over one    *)
(* store, which is the abstract one.  A call hands in a plain object; the  *)
(* binding builds the batch from it anew at every call and draws the ids   *)
(* the object leaves out, so the object and the batch are not the same     *)
(* thing when a program hands in its object again.                         *)
(***************************************************************************)
EXTENDS AtomicStore

CONSTANTS
    Programs,   \* JavaScript programs, each with its own Store object
    Inputs,     \* program -> the CommitBatchInput it hands in
    MaxDrawn,   \* bound: ids drawn by Id::new()
    MaxFaults,  \* bound: unknown outcomes and crashes
    None

\* No two programs choose the same transaction id, and none chooses one that
\* Id::new() will draw: ids are 128 random bits.
ASSUME InputAssumption ==
    /\ MaxDrawn \in Nat
    /\ \A p \in Programs :
          /\ Inputs[p].events \in Seq({Inputs[p].events[k] : k \in DOMAIN Inputs[p].events})
          /\ \A n \in 1 .. MaxDrawn : Inputs[p].transaction_id # <<"drawn", n>>
    /\ \A p, q \in Programs :
          Inputs[p].transaction_id = Inputs[q].transaction_id =>
              p = q \/ Inputs[p].transaction_id = None

VARIABLES
    program,  \* program -> [pc, tx]: where it is, and the id of its last batch
    drawn,    \* how many ids have been drawn
    origin,   \* history: transaction id -> the program whose object it was built from
    faults

programVars == <<program, drawn, origin, faults>>
nodeVars == <<abstractVars, programVars>>

NodeInit ==
    /\ AbstractInit
    /\ program = [p \in Programs |-> [pc |-> "ready", tx |-> None]]
    /\ drawn = 0
    /\ origin = [t \in {} |-> None]
    /\ faults = 0

-----------------------------------------------------------------------------
(* build_batch *)

GivenOrDrawn(given, n) == IF given = None THEN <<"drawn", n>> ELSE given

\* Mutant: the event ids of the object are overlooked.
BuildBatch_FreshEvents(input) ==
    [id |-> GivenOrDrawn(input.transaction_id, drawn + 1),
     expects |-> input.expects,
     appends |-> [k \in DOMAIN input.events |->
                    [event_id |-> GivenOrDrawn(None, drawn + 1 + k),
                     stream_id |-> input.events[k].stream_id]]]

\* Every id left out is drawn: the transaction's first, then those of the events.
BuildBatch(input) ==
    [id |-> GivenOrDrawn(input.transaction_id, drawn + 1),
     expects |-> input.expects,
     appends |-> [k \in DOMAIN input.events |->
                    [event_id |-> GivenOrDrawn(input.events[k].event_id, drawn + 1 + k),
                     stream_id |-> input.events[k].stream_id]]]

\* The object is rejected: an id is not hex, or an effect mode is unknown.
Malformed(input) == input.malformed

\* As many ids as a call may draw.
IdsPerCall(input) == 1 + Len(input.events)

-----------------------------------------------------------------------------
(* commit, as the program sees it: a receipt or a thrown Error *)

Step(p, pc, tx) == program' = [program EXCEPT ![p] = [pc |-> pc, tx |-> tx]]

Fault == faults < MaxFaults /\ faults' = faults + 1
NoFault == UNCHANGED faults

Throw(p, pc) ==
    /\ Step(p, pc, program[p].tx)
    /\ NoFault
    /\ UNCHANGED <<abstractVars, origin>>

\* Mutant: the error names the object's transactionId, drawn or not.
IndeterminateId_Input(input, batch) == input.transaction_id

\* transactionId=<hex> in the message of CommitIndeterminate.
IndeterminateId(input, batch) == batch.id

CommitCall(p) ==
    LET input == Inputs[p]
        batch == BuildBatch(input)
        Same(i) == log[i].id = batch.id
    IN
    /\ program[p].pc \in {"ready", "again"}
    /\ drawn + IdsPerCall(input) <= MaxDrawn
    /\ drawn' = drawn + IdsPerCall(input)
    /\ \/ Malformed(input) /\ Throw(p, "Validation")
       \/ /\ ~Malformed(input)
          /\ \E i \in DOMAIN log : Same(i) /\ log[i] # batch
          /\ Throw(p, "DuplicateIdWithDifferentContent")
       \/ /\ ~Malformed(input)
          /\ \E i \in DOMAIN log : /\ Same(i) /\ log[i] = batch
                                   /\ told' = told \cup {<<batch.id, i>>}
          /\ Step(p, "done", batch.id)
          /\ NoFault
          /\ UNCHANGED <<log, feed, denied, delivered, origin>>
       \/ /\ ~Malformed(input) /\ batch.id \notin CommittedIds /\ ~Admissible(batch)
          /\ Throw(p, "Conflict")
       \/ /\ ~Malformed(input)
          /\ Commit(batch)
          /\ origin' = [t \in DOMAIN origin \cup {batch.id} |-> IF t = batch.id THEN p ELSE origin[t]]
          /\ \/ NoFault /\ told' # told /\ Step(p, "done", batch.id)
             \/ Fault /\ told' = told /\ Step(p, "unknown", IndeterminateId(input, batch))
       \/ /\ ~Malformed(input) /\ batch.id \notin CommittedIds /\ Admissible(batch)
          /\ Fault
          /\ Step(p, "unknown", IndeterminateId(input, batch))
          /\ UNCHANGED <<abstractVars, origin>>

\* "committed" ends the matter; on "absent" the same object is handed in again.
RecoverCall(p) ==
    /\ program[p].pc = "unknown"
    /\ \/ /\ \E i \in DOMAIN log : /\ log[i].id = program[p].tx
                                   /\ told' = told \cup {<<log[i].id, i>>}
          /\ Step(p, "done", program[p].tx)
       \/ /\ program[p].tx \notin CommittedIds
          /\ Step(p, "again", program[p].tx)
          /\ UNCHANGED told
    /\ UNCHANGED <<log, feed, denied, delivered, drawn, origin, faults>>

\* The program is killed before it has seen the answer, and run again.  It knows
\* the transaction's id only if it chose it itself.
KillProgram(p) ==
    /\ program[p].pc \in {"unknown", "again"}
    /\ Inputs[p].transaction_id # None
    /\ Fault
    /\ Step(p, "ready", None)
    /\ UNCHANGED <<abstractVars, drawn, origin>>

NodeNext == \E p \in Programs : CommitCall(p) \/ RecoverCall(p) \/ KillProgram(p)

NodeSpec == NodeInit /\ [][NodeNext]_nodeVars

-----------------------------------------------------------------------------
\* An object is applied at most once, whether or not it names its transaction,
\* and a program that is told "done" has had it applied: the id in the error
\* message is the one to recover with ("Indeterminate outcomes embed
\* transactionId=<hex> in the message so callers can recover").
AppliedOnce ==
    \A p \in Programs :
        LET applied == {t \in DOMAIN origin : origin[t] = p} IN
        /\ Cardinality(applied) <= 1
        /\ program[p].pc = "done" => applied = {program[p].tx} /\ program[p].tx \in CommittedIds

\* "Transaction IDs and idempotent resubmission": an object that names its
\* transaction and its events can be handed in again after a lost answer; the
\* program is never told that it is another one.  (One that leaves out an event's
\* id may well be told so: the binding draws another id for the same event.)
ResubmissionIdempotent ==
    \A p \in Programs :
        (\A k \in DOMAIN Inputs[p].events : Inputs[p].events[k].event_id # None)
            => program[p].pc # "DuplicateIdWithDifferentContent"
=============================================================================

--------------------------- MODULE CallersProofs ----------------------------
(***************************************************************************)
(* Proofs about the programs that commit through the Node.js binding, with *)
(* readers beside them: an object is applied at most once, and one that    *)
(* names its ids may be handed in again; a reader is given each event of   *)
(* its stream once and in order, and every limit means what it says.       *)
(***************************************************************************)
EXTENDS Callers, FiniteSetTheorems, SequenceTheorems, TLAPS

Named(p) == Inputs[p].transaction_id # None

EventsNamed(p) == \A k \in DOMAIN Inputs[p].events : Inputs[p].events[k].event_id # None

\* The batch an object with all its ids is turned into, at every call.
FixedBatch(p) ==
    [id |-> Inputs[p].transaction_id,
     expects |-> Inputs[p].expects,
     appends |-> [k \in DOMAIN Inputs[p].events |->
                    [event_id |-> Inputs[p].events[k].event_id,
                     stream_id |-> Inputs[p].events[k].stream_id]]]

DrawnIds == {<<"drawn", n>> : n \in 1 .. drawn}

\* The tables: the transactions in the log are those with an origin.
TablesOK ==
    /\ drawn \in 0 .. MaxDrawn
    /\ log \in Seq({log[i] : i \in DOMAIN log})
    /\ program = [p \in Programs |-> program[p]]
    /\ CommittedIds = DOMAIN origin

\* A transaction has the id its program chose, or one drawn for it; in that case
\* the program still knows it by that id.
OriginOK ==
    \A t \in DOMAIN origin :
        /\ origin[t] \in Programs
        /\ IF Named(origin[t]) THEN t = Inputs[origin[t]].transaction_id
           ELSE /\ t \in DrawnIds
                /\ program[origin[t]].pc \in {"done", "unknown"}
                /\ program[origin[t]].tx = t

\* What a program holds as the id of its transaction is that.
ProgramOK ==
    \A p \in Programs :
        /\ program[p].pc = "done" =>
              program[p].tx \in DOMAIN origin /\ origin[program[p].tx] = p
        /\ program[p].pc = "unknown" =>
              IF Named(p) THEN program[p].tx = Inputs[p].transaction_id
              ELSE /\ program[p].tx \in DrawnIds
                   /\ program[p].tx \in DOMAIN origin => origin[program[p].tx] = p

\* The transaction of an object with all its ids is in the log as it was built.
ContentOK ==
    \A p \in Programs : Named(p) /\ EventsNamed(p) =>
        \A i \in DOMAIN log : log[i].id = Inputs[p].transaction_id => log[i] = FixedBatch(p)

\* The inductive invariant of the programs.
CallersInv == TablesOK /\ OriginOK /\ ProgramOK /\ ContentOK /\ ResubmissionIdempotent

-----------------------------------------------------------------------------
\* build_batch: a named id is kept; a drawn one is a new one.
LEMMA BuiltBatch ==
    ASSUME TablesOK, NEW p \in Programs, drawn + IdsPerCall(Inputs[p]) <= MaxDrawn
    PROVE  /\ drawn + IdsPerCall(Inputs[p]) \in drawn + 1 .. MaxDrawn
           /\ BuildBatch(Inputs[p]).id =
                 IF Named(p) THEN Inputs[p].transaction_id ELSE <<"drawn", drawn + 1>>
           /\ Named(p) /\ EventsNamed(p) => BuildBatch(Inputs[p]) = FixedBatch(p)
<1>1. Len(Inputs[p].events) \in Nat
  BY InputAssumption
<1>2. drawn \in Nat /\ MaxDrawn \in Nat
  BY InputAssumption DEF TablesOK
<1>3. drawn + IdsPerCall(Inputs[p]) \in drawn + 1 .. MaxDrawn
  BY <1>1, <1>2 DEF IdsPerCall
<1>4. BuildBatch(Inputs[p]).id =
          IF Named(p) THEN Inputs[p].transaction_id ELSE <<"drawn", drawn + 1>>
  BY DEF BuildBatch, GivenOrDrawn, Named
<1>5. ASSUME Named(p), EventsNamed(p) PROVE BuildBatch(Inputs[p]) = FixedBatch(p)
  BY <1>5 DEF BuildBatch, FixedBatch, GivenOrDrawn, Named, EventsNamed
<1> QED
  BY <1>3, <1>4, <1>5

\* A batch whose id is in the log was built from an object of the same program
\* that names its id.
LEMMA KnownBatchIsNamed ==
    ASSUME CallersInv, NEW p \in Programs, drawn + IdsPerCall(Inputs[p]) <= MaxDrawn,
           BuildBatch(Inputs[p]).id \in CommittedIds
    PROVE  /\ Named(p) /\ BuildBatch(Inputs[p]).id = Inputs[p].transaction_id
           /\ origin[BuildBatch(Inputs[p]).id] = p
<1> DEFINE t == BuildBatch(Inputs[p]).id
<1>1. t \in DOMAIN origin /\ origin[t] \in Programs
  BY DEF CallersInv, TablesOK, OriginOK
<1>2. t = IF Named(p) THEN Inputs[p].transaction_id ELSE <<"drawn", drawn + 1>>
  BY BuiltBatch DEF CallersInv
<1>3. drawn \in Nat /\ drawn + 1 <= MaxDrawn /\ MaxDrawn \in Nat
  BY BuiltBatch, InputAssumption DEF CallersInv, TablesOK
<1> HIDE DEF t
<1>4. <<"drawn", drawn + 1>> \notin DrawnIds
  BY <1>3 DEF DrawnIds
<1>5. \A q \in Programs : Inputs[q].transaction_id \notin DrawnIds \cup {<<"drawn", drawn + 1>>}
  <2>1. \A n \in 1 .. drawn : n \in 1 .. MaxDrawn
    BY <1>3
  <2>2. drawn + 1 \in 1 .. MaxDrawn
    BY <1>3
  <2> QED
    BY <2>1, <2>2, InputAssumption DEF DrawnIds
<1>6. CASE Named(origin[t])
  <2>1. t = Inputs[origin[t]].transaction_id
    BY <1>1, <1>6 DEF CallersInv, OriginOK
  <2>2. Named(p)
    BY <1>1, <1>2, <1>5, <2>1
  <2> QED
    BY <1>1, <1>2, <1>6, <2>1, <2>2, InputAssumption DEF t, Named
<1>7. CASE ~Named(origin[t])
  BY <1>1, <1>2, <1>4, <1>5, <1>7 DEF CallersInv, OriginOK
<1> QED
  BY <1>6, <1>7

-----------------------------------------------------------------------------
\* A program moves on while the log stays as it is, holding the right id and
\* forgetting none that was drawn for it.
Moves(p, pc, tx) ==
    /\ program' = [program EXCEPT ![p] = [pc |-> pc, tx |-> tx]]
    /\ UNCHANGED <<log, origin>>
    /\ drawn' \in drawn .. MaxDrawn
    /\ \A t \in DOMAIN origin : origin[t] = p /\ ~Named(p) =>
          pc \in {"done", "unknown"} /\ tx = t
    /\ pc = "done" => tx \in DOMAIN origin /\ origin[tx] = p
    /\ pc = "unknown" => IF Named(p) THEN tx = Inputs[p].transaction_id
                         ELSE tx \in DrawnIds' /\ (tx \in DOMAIN origin => origin[tx] = p)
    /\ EventsNamed(p) => pc # "DuplicateIdWithDifferentContent"

\* Such a move keeps the invariant.
LEMMA MoveKeepsInv ==
    ASSUME CallersInv, NEW p \in Programs, NEW pc, NEW tx, Moves(p, pc, tx)
    PROVE  CallersInv'
<1> USE DEF Moves
<1>1. drawn \in 0 .. MaxDrawn /\ MaxDrawn \in Nat
  BY InputAssumption DEF CallersInv, TablesOK
<1>2. drawn' \in 0 .. MaxDrawn /\ DrawnIds \subseteq DrawnIds'
  BY <1>1 DEF DrawnIds
<1>3. program' = [q \in Programs |-> program'[q]]
  BY DEF CallersInv, TablesOK
<1>4. TablesOK'
  BY <1>2, <1>3 DEF CallersInv, TablesOK, CommittedIds
<1>5. /\ \A q \in Programs \ {p} : program'[q] = program[q]
      /\ program'[p].pc = pc /\ program'[p].tx = tx
  BY DEF CallersInv, TablesOK
<1>6. OriginOK'
  <2> SUFFICES ASSUME NEW t \in DOMAIN origin
               PROVE  /\ origin[t] \in Programs
                      /\ IF Named(origin[t]) THEN t = Inputs[origin[t]].transaction_id
                         ELSE /\ t \in DrawnIds'
                              /\ program'[origin[t]].pc \in {"done", "unknown"}
                              /\ program'[origin[t]].tx = t
    BY DEF OriginOK, Named
  <2> QED
    BY <1>2, <1>5 DEF CallersInv, OriginOK
<1>7. ProgramOK'
  BY <1>2, <1>5 DEF CallersInv, ProgramOK, Named
<1>8. ContentOK' /\ ResubmissionIdempotent'
  BY <1>5 DEF CallersInv, ContentOK, ResubmissionIdempotent, Named, EventsNamed, FixedBatch
<1> QED
  BY <1>4, <1>6, <1>7, <1>8 DEF CallersInv

\* A batch with a new id is committed, and its program told so or not.
LEMMA CommitKeepsInv ==
    ASSUME CallersInv, NEW p \in Programs, program[p].pc \in {"ready", "again"},
           drawn + IdsPerCall(Inputs[p]) <= MaxDrawn, drawn' = drawn + IdsPerCall(Inputs[p]),
           NEW batch, batch = BuildBatch(Inputs[p]), Commit(batch),
           origin' = [t \in DOMAIN origin \cup {batch.id} |->
                         IF t = batch.id THEN p ELSE origin[t]],
           NEW pc \in {"done", "unknown"}, Step(p, pc, batch.id)
    PROVE  CallersInv'
<1>1. /\ batch.id \notin CommittedIds /\ log' = Append(log, batch)
      /\ program' = [program EXCEPT ![p] = [pc |-> pc, tx |-> batch.id]]
  BY DEF Commit, Step
<1>2. /\ drawn' \in drawn + 1 .. MaxDrawn
      /\ batch.id = IF Named(p) THEN Inputs[p].transaction_id ELSE <<"drawn", drawn + 1>>
      /\ Named(p) /\ EventsNamed(p) => batch = FixedBatch(p)
  BY BuiltBatch DEF CallersInv
<1>3. drawn \in 0 .. MaxDrawn /\ MaxDrawn \in Nat
  BY InputAssumption DEF CallersInv, TablesOK
<1>4. drawn' \in 0 .. MaxDrawn /\ DrawnIds \subseteq DrawnIds' /\ <<"drawn", drawn + 1>> \in DrawnIds'
  BY <1>2, <1>3 DEF DrawnIds
<1>5. /\ \A q \in Programs \ {p} : program'[q] = program[q]
      /\ program'[p].pc = pc /\ program'[p].tx = batch.id
      /\ program' = [q \in Programs |-> program'[q]]
  BY <1>1 DEF CallersInv, TablesOK
<1>6. /\ log \in Seq({log[i] : i \in DOMAIN log}) /\ DOMAIN log = 1 .. Len(log) /\ Len(log) \in Nat
      /\ DOMAIN log' = 1 .. Len(log) + 1 /\ log'[Len(log) + 1] = batch
      /\ \A i \in DOMAIN log : log'[i] = log[i]
  BY <1>1 DEF CallersInv, TablesOK
<1>7. TablesOK'
  <2>1. log' \in Seq({log'[i] : i \in DOMAIN log'})
    <3>1. log \in Seq({log'[i] : i \in DOMAIN log'}) /\ batch \in {log'[i] : i \in DOMAIN log'}
      BY <1>6
    <3> QED
      BY <1>1, <3>1
  <2>2. CommittedIds' = CommittedIds \cup {batch.id}
    BY <1>6 DEF CommittedIds
  <2>3. DOMAIN origin' = DOMAIN origin \cup {batch.id}
    OBVIOUS
  <2> QED
    BY <1>4, <1>5, <2>1, <2>2, <2>3 DEF CallersInv, TablesOK
<1>8. batch.id \notin DOMAIN origin /\ origin'[batch.id] = p
      /\ \A t \in DOMAIN origin : origin'[t] = origin[t]
  BY <1>1 DEF CallersInv, TablesOK
<1>9. \A t \in DOMAIN origin : origin[t] = p => Named(p)
  BY DEF CallersInv, OriginOK
<1>10. OriginOK'
  <2> SUFFICES ASSUME NEW t \in DOMAIN origin \cup {batch.id}
               PROVE  /\ origin'[t] \in Programs
                      /\ IF Named(origin'[t]) THEN t = Inputs[origin'[t]].transaction_id
                         ELSE /\ t \in DrawnIds'
                              /\ program'[origin'[t]].pc \in {"done", "unknown"}
                              /\ program'[origin'[t]].tx = t
    BY DEF OriginOK, Named
  <2>1. CASE t = batch.id
    BY <1>2, <1>4, <1>5, <1>8, <2>1
  <2>2. CASE t \in DOMAIN origin
    BY <1>4, <1>5, <1>8, <1>9, <2>2 DEF CallersInv, OriginOK
  <2> QED
    BY <2>1, <2>2
<1>11. ProgramOK'
  <2> SUFFICES ASSUME NEW q \in Programs
               PROVE  /\ program'[q].pc = "done" =>
                            program'[q].tx \in DOMAIN origin' /\ origin'[program'[q].tx] = q
                      /\ program'[q].pc = "unknown" =>
                            IF Named(q) THEN program'[q].tx = Inputs[q].transaction_id
                            ELSE /\ program'[q].tx \in DrawnIds'
                                 /\ program'[q].tx \in DOMAIN origin' => origin'[program'[q].tx] = q
    BY DEF ProgramOK, Named
  <2>1. CASE q = p
    BY <1>2, <1>4, <1>5, <1>8, <2>1
  <2>2. CASE q # p
    <3>1. program'[q] = program[q]
      BY <1>5, <2>2
    <3>2. batch.id \notin DrawnIds
      <4>1. \A n \in 1 .. drawn : n \in 1 .. MaxDrawn /\ n # drawn + 1
        BY <1>3
      <4>2. Inputs[p].transaction_id \notin DrawnIds
        BY <4>1, InputAssumption DEF DrawnIds
      <4>3. <<"drawn", drawn + 1>> \notin DrawnIds
        BY <4>1 DEF DrawnIds
      <4> QED
        BY <1>2, <4>2, <4>3
    <3> QED
      BY <1>4, <1>8, <3>1, <3>2 DEF CallersInv, ProgramOK
  <2> QED
    BY <2>1, <2>2
<1>12. ContentOK'
  <2> SUFFICES ASSUME NEW q \in Programs, Named(q), EventsNamed(q), NEW i \in DOMAIN log',
                      log'[i].id = Inputs[q].transaction_id
               PROVE  log'[i] = FixedBatch(q)
    BY DEF ContentOK, Named, EventsNamed, FixedBatch
  <2>1. CASE i \in DOMAIN log
    BY <1>6, <2>1 DEF CallersInv, ContentOK
  <2>2. CASE i = Len(log) + 1
    <3>1. batch.id = Inputs[q].transaction_id
      BY <1>6, <2>2
    <3>2. Named(p)
      <4>1. drawn + 1 \in 1 .. MaxDrawn
        BY <1>2, <1>3
      <4> QED
        BY <1>2, <3>1, <4>1, InputAssumption
    <3>3. p = q
      BY <1>2, <3>1, <3>2, InputAssumption DEF Named
    <3> QED
      BY <1>2, <1>6, <2>2, <3>2, <3>3
  <2> QED
    BY <1>6, <2>1, <2>2
<1>13. ResubmissionIdempotent'
  BY <1>5 DEF CallersInv, ResubmissionIdempotent
<1> QED
  BY <1>7, <1>10, <1>11, <1>12, <1>13 DEF CallersInv

\* commit, with each of its outcomes, keeps the invariant.
LEMMA CommitCallKeepsInv ==
    ASSUME CallersInv, NEW p \in Programs, CommitCall(p)
    PROVE  CallersInv'
<1> DEFINE input == Inputs[p]
           batch == BuildBatch(input)
<1>1. /\ program[p].pc \in {"ready", "again"}
      /\ drawn + IdsPerCall(input) <= MaxDrawn /\ drawn' = drawn + IdsPerCall(input)
  BY DEF CommitCall
<1>2. drawn \in Nat /\ MaxDrawn \in Nat /\ drawn' \in drawn + 1 .. MaxDrawn
  BY <1>1, BuiltBatch, InputAssumption DEF CallersInv, TablesOK
<1>3. drawn' \in drawn .. MaxDrawn /\ <<"drawn", drawn + 1>> \in DrawnIds'
  BY <1>2 DEF DrawnIds
<1>4. batch.id = IF Named(p) THEN input.transaction_id ELSE <<"drawn", drawn + 1>>
  BY <1>1, BuiltBatch DEF CallersInv
<1>5. \A t \in DOMAIN origin : origin[t] = p => Named(p)
  BY <1>1 DEF CallersInv, OriginOK
<1>6. ASSUME NEW pc, Throw(p, pc)
      PROVE  /\ program' = [program EXCEPT ![p] = [pc |-> pc, tx |-> program[p].tx]]
             /\ UNCHANGED <<log, origin>>
  BY <1>6 DEF Throw, Step, abstractVars
<1> HIDE DEF input, batch
<1>7. CASE Throw(p, "Validation")
  <2>1. Moves(p, "Validation", program[p].tx)
    BY <1>3, <1>5, <1>6, <1>7 DEF Moves
  <2> QED
    BY <2>1, MoveKeepsInv
<1>8. CASE Throw(p, "Conflict")
  <2>1. Moves(p, "Conflict", program[p].tx)
    BY <1>3, <1>5, <1>6, <1>8 DEF Moves
  <2> QED
    BY <2>1, MoveKeepsInv
<1>9. CASE /\ \E i \in DOMAIN log : log[i].id = batch.id /\ log[i] # batch
           /\ Throw(p, "DuplicateIdWithDifferentContent")
  <2>1. PICK i \in DOMAIN log : log[i].id = batch.id /\ log[i] # batch
    BY <1>9
  <2>2. batch.id \in CommittedIds
    BY <2>1 DEF CommittedIds
  <2>3. Named(p) /\ batch.id = input.transaction_id
    BY <1>1, <2>2, KnownBatchIsNamed DEF batch, input
  <2>4. ~EventsNamed(p)
    <3>1. SUFFICES ASSUME EventsNamed(p) PROVE FALSE
      OBVIOUS
    <3>2. batch = FixedBatch(p)
      BY <1>1, <2>3, <3>1, BuiltBatch DEF CallersInv, batch, input
    <3>3. log[i] = FixedBatch(p)
      BY <2>1, <2>3, <3>1 DEF CallersInv, ContentOK, input
    <3> QED
      BY <2>1, <3>2, <3>3
  <2>5. Moves(p, "DuplicateIdWithDifferentContent", program[p].tx)
    BY <1>3, <1>5, <1>6, <1>9, <2>4 DEF Moves
  <2> QED
    BY <2>5, MoveKeepsInv
<1>10. CASE /\ \E i \in DOMAIN log : log[i].id = batch.id
            /\ Step(p, "done", batch.id) /\ UNCHANGED <<log, origin>>
  <2>1. batch.id \in CommittedIds
    BY <1>10 DEF CommittedIds
  <2>2. Named(p) /\ origin[batch.id] = p
    BY <1>1, <2>1, KnownBatchIsNamed DEF batch, input
  <2>3. batch.id \in DOMAIN origin
    BY <2>1 DEF CallersInv, TablesOK
  <2>4. Moves(p, "done", batch.id)
    BY <1>3, <1>10, <2>2, <2>3 DEF Moves, Step
  <2> QED
    BY <2>4, MoveKeepsInv
<1>11. CASE /\ Commit(batch)
            /\ origin' = [t \in DOMAIN origin \cup {batch.id} |->
                             IF t = batch.id THEN p ELSE origin[t]]
            /\ Step(p, "done", batch.id) \/ Step(p, "unknown", batch.id)
  BY <1>1, <1>11, CommitKeepsInv DEF batch, input
<1>12. CASE /\ batch.id \notin CommittedIds
            /\ Step(p, "unknown", batch.id) /\ UNCHANGED <<log, origin>>
  <2>1. batch.id \notin DOMAIN origin
    BY <1>12 DEF CallersInv, TablesOK
  <2>2. Moves(p, "unknown", batch.id)
    BY <1>3, <1>4, <1>5, <1>12, <2>1 DEF Moves, Step, input
  <2> QED
    BY <2>2, MoveKeepsInv
<1> QED
  <2>1. \/ Throw(p, "Validation") \/ Throw(p, "Conflict")
        \/ /\ \E i \in DOMAIN log : log[i].id = batch.id /\ log[i] # batch
           /\ Throw(p, "DuplicateIdWithDifferentContent")
        \/ /\ \E i \in DOMAIN log : log[i].id = batch.id
           /\ Step(p, "done", batch.id) /\ UNCHANGED <<log, origin>>
        \/ /\ Commit(batch)
           /\ origin' = [t \in DOMAIN origin \cup {batch.id} |->
                            IF t = batch.id THEN p ELSE origin[t]]
           /\ Step(p, "done", batch.id) \/ Step(p, "unknown", batch.id)
        \/ /\ batch.id \notin CommittedIds
           /\ Step(p, "unknown", batch.id) /\ UNCHANGED <<log, origin>>
    BY DEF CommitCall, IndeterminateId, abstractVars, batch, input
  <2> QED
    BY <1>7, <1>8, <1>9, <1>10, <1>11, <1>12, <2>1

\* recoverTransaction keeps the invariant: what it says is about the program's
\* own transaction.
LEMMA RecoverCallKeepsInv ==
    ASSUME CallersInv, NEW p \in Programs, RecoverCall(p)
    PROVE  CallersInv'
<1> DEFINE tx == program[p].tx
<1>1. program[p].pc = "unknown" /\ UNCHANGED <<log, origin, drawn>>
  BY DEF RecoverCall
<1>2. drawn' \in drawn .. MaxDrawn
  BY <1>1, InputAssumption DEF CallersInv, TablesOK
<1>3. IF Named(p) THEN tx = Inputs[p].transaction_id
      ELSE tx \in DrawnIds /\ (tx \in DOMAIN origin => origin[tx] = p)
  BY <1>1 DEF CallersInv, ProgramOK
<1>4. \A t \in DOMAIN origin : origin[t] = p /\ ~Named(p) => tx = t
  BY DEF CallersInv, OriginOK
<1>5. tx \in DOMAIN origin => origin[tx] = p
  <2>1. SUFFICES ASSUME tx \in DOMAIN origin, Named(p) PROVE origin[tx] = p
    BY <1>3
  <2>2. origin[tx] \in Programs /\ tx = Inputs[p].transaction_id
    BY <1>3, <2>1 DEF CallersInv, OriginOK
  <2>3. Named(origin[tx])
    <3>1. SUFFICES ASSUME ~Named(origin[tx]) PROVE FALSE
      OBVIOUS
    <3>2. tx \in DrawnIds
      BY <2>1, <3>1 DEF CallersInv, OriginOK
    <3>3. \A n \in 1 .. drawn : n \in 1 .. MaxDrawn
      BY InputAssumption DEF CallersInv, TablesOK
    <3> QED
      BY <2>2, <3>2, <3>3, InputAssumption DEF DrawnIds
  <2> QED
    BY <2>1, <2>2, <2>3, InputAssumption DEF CallersInv, OriginOK, Named
<1>6. CASE tx \in CommittedIds /\ Step(p, "done", tx)
  <2>1. tx \in DOMAIN origin
    BY <1>6 DEF CallersInv, TablesOK
  <2>2. Moves(p, "done", tx)
    BY <1>1, <1>2, <1>4, <1>5, <1>6, <2>1 DEF Moves, Step
  <2> QED
    BY <2>2, MoveKeepsInv
<1>7. CASE tx \notin CommittedIds /\ Step(p, "again", tx)
  <2>1. tx \notin DOMAIN origin
    BY <1>7 DEF CallersInv, TablesOK
  <2>2. Moves(p, "again", tx)
    BY <1>1, <1>2, <1>4, <1>7, <2>1 DEF Moves, Step
  <2> QED
    BY <2>2, MoveKeepsInv
<1> QED
  <2>1. \/ tx \in CommittedIds /\ Step(p, "done", tx)
        \/ tx \notin CommittedIds /\ Step(p, "again", tx)
    BY DEF RecoverCall, CommittedIds
  <2> QED
    BY <1>6, <1>7, <2>1

\* A program that is killed and run again has chosen its id itself.
LEMMA KillKeepsInv ==
    ASSUME CallersInv, NEW p \in Programs, KillProgram(p)
    PROVE  CallersInv'
<1>1. /\ Named(p) /\ program' = [program EXCEPT ![p] = [pc |-> "ready", tx |-> None]]
      /\ UNCHANGED <<log, origin, drawn>>
  BY DEF KillProgram, Named, Step, abstractVars
<1>2. drawn' \in drawn .. MaxDrawn
  BY <1>1, InputAssumption DEF CallersInv, TablesOK
<1>3. Moves(p, "ready", None)
  BY <1>1, <1>2 DEF Moves
<1> QED
  BY <1>3, MoveKeepsInv

\* The programs start out with an empty log.
LEMMA InitCallers == CallersInit => CallersInv
<1> SUFFICES ASSUME CallersInit PROVE CallersInv
  OBVIOUS
<1>1. /\ log = <<>> /\ program = [p \in Programs |-> [pc |-> "ready", tx |-> None]]
      /\ drawn = 0 /\ origin = [t \in {} |-> None]
  BY DEF CallersInit, NodeInit, AbstractInit
<1>2. TablesOK
  BY <1>1, InputAssumption DEF TablesOK, CommittedIds
<1>3. OriginOK /\ ProgramOK /\ ContentOK /\ ResubmissionIdempotent
  BY <1>1 DEF OriginOK, ProgramOK, ContentOK, ResubmissionIdempotent
<1> QED
  BY <1>2, <1>3 DEF CallersInv

\* Every step of the programs and of the readers keeps the invariant.
LEMMA NextCallers == CallersInv /\ [CallersNext]_callersVars => CallersInv'
<1> SUFFICES ASSUME CallersInv, [CallersNext]_callersVars PROVE CallersInv'
  OBVIOUS
<1>1. CASE NodeNext
  BY <1>1, CommitCallKeepsInv, RecoverCallKeepsInv, KillKeepsInv DEF NodeNext
<1>2. CASE UNCHANGED <<log, program, drawn, origin>>
  <2>1. TablesOK' /\ DrawnIds' = DrawnIds
    BY <1>2 DEF CallersInv, TablesOK, CommittedIds, DrawnIds
  <2>2. OriginOK' /\ ProgramOK'
    BY <1>2, <2>1 DEF CallersInv, OriginOK, ProgramOK, Named
  <2>3. ContentOK' /\ ResubmissionIdempotent'
    BY <1>2 DEF CallersInv, ContentOK, ResubmissionIdempotent, Named, EventsNamed, FixedBatch
  <2> QED
    BY <2>1, <2>2, <2>3 DEF CallersInv
<1>3. ReadersNext /\ UNCHANGED programVars => UNCHANGED <<log, program, drawn, origin>>
  BY DEF ReadersNext, ReadStream, abstractVars, programVars
<1>4. UNCHANGED callersVars => UNCHANGED <<log, program, drawn, origin>>
  BY DEF callersVars, nodeVars, abstractVars, programVars
<1> QED
  BY <1>1, <1>2, <1>3, <1>4 DEF CallersNext

\* The invariant holds in every reachable state.
THEOREM CallersInvariant == CallersSpec => []CallersInv
BY InitCallers, NextCallers, PTL DEF CallersSpec

\* A program has at most one transaction, the one it is told of.
LEMMA OnlyOneApplied == CallersInv => AppliedOnce
<1> SUFFICES ASSUME CallersInv, NEW p \in Programs
             PROVE  LET applied == {t \in DOMAIN origin : origin[t] = p} IN
                    /\ Cardinality(applied) <= 1
                    /\ program[p].pc = "done" =>
                          applied = {program[p].tx} /\ program[p].tx \in CommittedIds
  BY DEF AppliedOnce
<1> DEFINE applied == {t \in DOMAIN origin : origin[t] = p}
<1>1. \A t, u \in applied : t = u
  BY DEF CallersInv, OriginOK
<1>2. Cardinality(applied) <= 1
  <2>1. CASE applied = {}
    BY <2>1, FS_EmptySet
  <2>2. CASE applied # {}
    <3>1. PICK t : applied = {t}
      BY <1>1, <2>2
    <3> QED
      BY <3>1, FS_Singleton
  <2> QED
    BY <2>1, <2>2
<1>3. ASSUME program[p].pc = "done"
      PROVE  applied = {program[p].tx} /\ program[p].tx \in CommittedIds
  <2>1. program[p].tx \in applied /\ program[p].tx \in CommittedIds
    BY <1>3 DEF CallersInv, ProgramOK, TablesOK
  <2> QED
    BY <1>1, <2>1
<1> QED
  BY <1>2, <1>3

\* An object is applied at most once, and a program that is told "done" has had
\* it applied.
THEOREM ObjectsApplyOnce == CallersSpec => []AppliedOnce
BY CallersInvariant, OnlyOneApplied, PTL

\* An object that names its transaction and its events can be handed in again.
THEOREM ResubmissionIsIdempotent == CallersSpec => []ResubmissionIdempotent
<1>1. CallersInv => ResubmissionIdempotent
  BY DEF CallersInv
<1> QED
  BY <1>1, CallersInvariant, PTL

-----------------------------------------------------------------------------
(* Rows in order *)

\* There is one row for every value from low to high.
Dense(rows, low, high) ==
    /\ \A r \in rows : r.at \in low .. high
    /\ \A v \in low .. high : \E r \in rows : r.at = v
    /\ \A q, r \in rows : q.at = r.at => q = r

\* As many rows as there are values between the first and the last.
LEMMA DenseCount ==
    ASSUME NEW rows, NEW low \in Int, NEW high \in Int,
           Dense(rows, low, high)
    PROVE  /\ IsFiniteSet(rows)
           /\ Cardinality(rows) = IF low > high THEN 0 ELSE high - low + 1
<1> DEFINE f == [v \in low .. high |-> CHOOSE r \in rows : r.at = v]
<1>1. \A v \in low .. high : f[v] \in rows /\ f[v].at = v
  BY DEF Dense
<1>2. f \in [low .. high -> rows]
  BY <1>1
<1>3. \A r \in rows : r.at \in low .. high /\ f[r.at] = r
  BY <1>1 DEF Dense
<1> HIDE DEF f
<1>4. \A v, w \in low .. high : f[v] = f[w] => v = w
  BY <1>1
<1>5. f \in Bijection(low .. high, rows)
  <2>1. f \in Injection(low .. high, rows)
    BY <1>2, <1>4 DEF Injection, IsInjective
  <2>2. \A r \in rows : \E v \in low .. high : f[v] = r
    BY <1>3
  <2> QED
    BY <1>2, <2>1, <2>2 DEF Bijection, Surjection
<1>6. ExistsBijection(low .. high, rows)
  BY <1>5 DEF ExistsBijection
<1> QED
  BY <1>6, FS_Interval, FS_Bijection

\* The k-th of them has the k-th value.
LEMMA DenseOrder ==
    ASSUME NEW rows, NEW low \in Int, NEW high \in Int,
           Dense(rows, low, high)
    PROVE  /\ InOrder(rows) \in Seq(rows)
           /\ Len(InOrder(rows)) = IF low > high THEN 0 ELSE high - low + 1
           /\ \A k \in 1 .. Len(InOrder(rows)) :
                 InOrder(rows)[k] \in rows /\ InOrder(rows)[k].at = low + k - 1
<1> DEFINE n == IF low > high THEN 0 ELSE high - low + 1
<1>1. n \in Nat /\ Cardinality(rows) = n
  <2>1. Cardinality(rows) = n
    BY DenseCount
  <2> QED
    BY <2>1
<1>2. ASSUME NEW r \in rows PROVE Cardinality(Before(rows, r.at)) = r.at - low
  <2>1. r.at \in low .. high
    BY DEF Dense
  <2>2. PICK earlier, top : earlier = Before(rows, r.at) /\ top = r.at - 1
    OBVIOUS
  <2>3. top \in Int /\ Dense(earlier, low, top)
    BY <2>1, <2>2 DEF Before, Dense
  <2>4. Cardinality(earlier) = IF low > top THEN 0 ELSE top - low + 1
    BY <2>3, DenseCount
  <2> QED
    BY <2>1, <2>2, <2>4
<1>3. InOrder(rows) = [k \in 1 .. n |-> CHOOSE r \in rows : Cardinality(Before(rows, r.at)) = k - 1]
  BY <1>1 DEF InOrder
<1>4. \A k \in 1 .. n : InOrder(rows)[k] \in rows /\ InOrder(rows)[k].at = low + k - 1
  <2> TAKE k \in 1 .. n
  <2>1. low + k - 1 \in low .. high /\ k \in Int
    OBVIOUS
  <2>2. PICK r \in rows : r.at = low + k - 1
    BY <2>1 DEF Dense
  <2>3. Cardinality(Before(rows, r.at)) = k - 1
    BY <1>2, <2>1, <2>2
  <2>4. /\ InOrder(rows)[k] \in rows
        /\ Cardinality(Before(rows, InOrder(rows)[k].at)) = k - 1
    BY <1>3, <2>3
  <2>5. InOrder(rows)[k].at - low = k - 1 /\ InOrder(rows)[k].at \in Int
    BY <1>2, <2>4 DEF Dense
  <2> QED
    BY <2>1, <2>4, <2>5
<1> HIDE DEF n
<1>5. InOrder(rows) \in Seq(rows) /\ Len(InOrder(rows)) = n
  <2>1. InOrder(rows) \in [1 .. n -> rows]
    BY <1>3, <1>4
  <2> QED
    BY <1>1, <2>1
<1> QED
  BY <1>4, <1>5 DEF n

\* The k-th of a finite set of numbers, for every k.
LEMMA KthOf ==
    ASSUME NEW S \in SUBSET Int, IsFiniteSet(S), NEW k \in 1 .. Cardinality(S)
    PROVE  \E x \in S : Cardinality({y \in S : y <= x}) = k
<1> DEFINE upTo(x) == {y \in S : y <= x}
           f == [x \in S |-> Cardinality(upTo(x))]
           n == Cardinality(S)
<1>1. n \in Nat
  BY FS_CardinalityType
<1>2. \A x \in S : /\ IsFiniteSet(upTo(x)) /\ Cardinality(upTo(x)) \in Nat
                   /\ Cardinality(upTo(x)) <= n
  <2> TAKE x \in S
  <2>1. upTo(x) \in SUBSET S
    OBVIOUS
  <2> QED
    BY <2>1, FS_Subset, FS_CardinalityType
<1>3. \A x \in S : Cardinality(upTo(x)) # 0
  <2>1. \A x \in S : x \in upTo(x)
    OBVIOUS
  <2> HIDE DEF upTo
  <2> QED
    BY <1>2, <2>1, FS_EmptySet
<1>4. \A x, y \in S : x < y => Cardinality(upTo(x)) # Cardinality(upTo(y))
  <2> TAKE x, y \in S
  <2> HAVE x < y
  <2>1. x \in Int /\ y \in Int
    OBVIOUS
  <2>2. \A z \in S : z \in Int /\ (z <= x => z <= y)
    BY <2>1
  <2>3. upTo(x) \in SUBSET upTo(y) /\ y \in upTo(y) /\ y \notin upTo(x)
    <3>1. \A z \in upTo(x) : z \in upTo(y)
      BY <2>2
    <3>2. y \in upTo(y) /\ y \notin upTo(x)
      BY <2>1
    <3> HIDE DEF upTo
    <3> QED
      BY <3>1, <3>2
  <2> HIDE DEF upTo
  <2> QED
    BY <1>2, <2>3, FS_Subset
<1> HIDE DEF upTo
<1>5. f \in [S -> 1 .. n]
  BY <1>1, <1>2, <1>3
<1>6. \A x, y \in S : f[x] = f[y] => x = y
  BY <1>4
<1>7. f \in Injection(S, 1 .. n)
  BY <1>5, <1>6 DEF Injection, IsInjective
<1>8. IsFiniteSet(1 .. n) /\ Cardinality(1 .. n) = n
  BY <1>1, FS_Interval
<1>9. f \in Surjection(S, 1 .. n)
  BY <1>7, <1>8, FS_Injection
<1>10. \E x \in S : f[x] = k
  BY <1>9 DEF Surjection
<1> QED
  BY <1>10 DEF upTo

-----------------------------------------------------------------------------
(* The streams of the feed *)

OfStream(rows, stream) == {i \in DOMAIN rows : rows[i].stream_id = stream}

\* PlaceInStream of any sequence of events.
PlaceIn(rows, i) == Cardinality({j \in 1 .. i : rows[j].stream_id = rows[i].stream_id})

\* The version of an event is its place in its stream.
VersionsArePlaces(rows) ==
    /\ rows \in Seq({rows[i] : i \in DOMAIN rows})
    /\ \A i \in DOMAIN rows : rows[i].stream_version = PlaceIn(rows, i)

\* Then the versions of a stream run from 1 to the number of its events.
LEMMA VersionsAreDense ==
    ASSUME NEW rows, VersionsArePlaces(rows), NEW stream
    PROVE  /\ IsFiniteSet(OfStream(rows, stream))
           /\ Cardinality(OfStream(rows, stream)) \in 0 .. Len(rows)
           /\ \A i \in OfStream(rows, stream) :
                 rows[i].stream_version \in 1 .. Cardinality(OfStream(rows, stream))
           /\ \A v \in 1 .. Cardinality(OfStream(rows, stream)) :
                 \E i \in OfStream(rows, stream) : rows[i].stream_version = v
           /\ \A i, j \in OfStream(rows, stream) :
                 rows[i].stream_version = rows[j].stream_version => i = j
<1> DEFINE S == OfStream(rows, stream)
           upTo(i) == {j \in S : j <= i}
<1>1. Len(rows) \in Nat /\ DOMAIN rows = 1 .. Len(rows)
  BY DEF VersionsArePlaces
<1>2. S \in SUBSET (1 .. Len(rows)) /\ S \in SUBSET Int
  BY <1>1 DEF OfStream
<1>3. IsFiniteSet(S) /\ Cardinality(S) \in 0 .. Len(rows)
  <2>1. PICK n \in Nat : n = Len(rows)
    BY <1>1
  <2>2. IsFiniteSet(1 .. n) /\ Cardinality(1 .. n) = n
    BY FS_Interval
  <2> HIDE DEF S
  <2>3. IsFiniteSet(S) /\ Cardinality(S) <= Cardinality(1 .. n)
    BY <1>2, <2>1, <2>2, FS_Subset
  <2>4. Cardinality(S) \in Nat
    BY <2>3, FS_CardinalityType
  <2> QED
    BY <2>1, <2>2, <2>3, <2>4
<1>4. IsFiniteSet(S) /\ Cardinality(S) \in Nat
  BY <1>1, <1>3
<1>5. \A i \in S : rows[i].stream_version = Cardinality(upTo(i))
  <2> TAKE i \in S
  <2>1. i \in 1 .. Len(rows) /\ rows[i].stream_id = stream
    BY <1>1 DEF OfStream
  <2>2. {j \in 1 .. i : rows[j].stream_id = rows[i].stream_id} = upTo(i)
    BY <1>1, <2>1 DEF OfStream
  <2>3. rows[i].stream_version = PlaceIn(rows, i)
    BY <1>1, <2>1 DEF VersionsArePlaces
  <2> HIDE DEF upTo
  <2> QED
    BY <2>2, <2>3 DEF PlaceIn
<1> HIDE DEF S
<1>6. \A i \in S : /\ IsFiniteSet(upTo(i)) /\ Cardinality(upTo(i)) \in Nat
                   /\ Cardinality(upTo(i)) <= Cardinality(S)
  <2> TAKE i \in S
  <2>1. upTo(i) \in SUBSET S
    OBVIOUS
  <2> QED
    BY <1>4, <2>1, FS_Subset, FS_CardinalityType
<1>7. \A i \in S : Cardinality(upTo(i)) # 0
  <2>1. \A i \in S : i \in upTo(i)
    BY <1>2
  <2> HIDE DEF upTo
  <2> QED
    BY <1>6, <2>1, FS_EmptySet
<1>8. \A i, j \in S : i < j => Cardinality(upTo(i)) # Cardinality(upTo(j))
  <2> TAKE i, j \in S
  <2> HAVE i < j
  <2>1. i \in Int /\ j \in Int
    BY <1>2
  <2>2. \A k \in S : k \in Int /\ (k <= i => k <= j)
    BY <1>2, <2>1
  <2>3. \A k \in upTo(i) : k \in upTo(j)
    BY <2>2
  <2>4. j \in upTo(j) /\ j \notin upTo(i)
    BY <2>1
  <2> HIDE DEF upTo
  <2>5. upTo(i) \in SUBSET upTo(j)
    BY <2>3
  <2> QED
    BY <1>6, <2>4, <2>5, FS_Subset
<1>9. \A k \in 1 .. Cardinality(S) : \E i \in S : Cardinality(upTo(i)) = k
  BY <1>2, <1>4, KthOf
<1> HIDE DEF upTo
<1>10. \A i \in S : Cardinality(upTo(i)) \in 1 .. Cardinality(S)
  BY <1>4, <1>6, <1>7
<1>11. \A i, j \in S : Cardinality(upTo(i)) = Cardinality(upTo(j)) => i = j
  BY <1>2, <1>8
<1> QED
  BY <1>3, <1>5, <1>9, <1>10, <1>11 DEF S

\* A function on 1 .. n is a sequence of length n.
LEMMA FunctionIsSequence ==
    ASSUME NEW S, NEW n \in Nat, NEW f \in [1 .. n -> S]
    PROVE  f \in Seq(S) /\ Len(f) = n
OBVIOUS

\* And the other way round.
LEMMA SequenceIsFunction ==
    ASSUME NEW S, NEW s \in Seq(S), NEW n, n = Len(s)
    PROVE  s = [i \in 1 .. n |-> s[i]]
OBVIOUS

\* The events of a batch get the next places in their streams.
LEMMA PublishedPlaces ==
    ASSUME VersionsArePlaces(feed), NEW r, r.appends \in Seq({r.appends[k] : k \in DOMAIN r.appends}),
           NEW rows, rows = feed \o Published(r)
    PROVE  /\ VersionsArePlaces(rows)
           /\ Len(feed) <= Len(rows) /\ Len(rows) \in Nat
           /\ \A i \in DOMAIN feed :
                 i \in DOMAIN rows /\ rows[i] = feed[i] /\ PlaceIn(rows, i) = PlaceIn(feed, i)
<1> DEFINE old == Len(feed)
           new == Len(r.appends)
<1>1. /\ old \in Nat /\ DOMAIN feed = 1 .. old /\ feed \in Seq({feed[i] : i \in DOMAIN feed})
      /\ new \in Nat /\ DOMAIN r.appends = 1 .. new
  BY DEF VersionsArePlaces
<1>2. /\ DOMAIN Published(r) = 1 .. new
      /\ \A k \in 1 .. new :
            /\ Published(r)[k].stream_id = r.appends[k].stream_id
            /\ Published(r)[k].stream_version = Version(r.appends[k].stream_id) + Rank(r, k)
  BY <1>1 DEF Published
<1>3. Published(r) \in Seq({Published(r)[k] : k \in 1 .. new}) /\ Len(Published(r)) = new
  <2>1. Published(r) = [k \in 1 .. new |-> Published(r)[k]]
    BY <1>1 DEF Published
  <2>2. Published(r) \in [1 .. new -> {Published(r)[k] : k \in 1 .. new}]
    BY <2>1
  <2> HIDE DEF new
  <2> QED
    BY <1>1, <2>2, FunctionIsSequence
<1>4. /\ Len(rows) = old + new /\ DOMAIN rows = 1 .. old + new
      /\ \A i \in 1 .. old : rows[i] = feed[i]
      /\ \A k \in 1 .. new : rows[old + k] = Published(r)[k]
      /\ rows = [i \in 1 .. old + new |-> rows[i]]
  <2> DEFINE A == {feed[i] : i \in DOMAIN feed}
             B == {Published(r)[k] : k \in 1 .. new}
  <2> PICK P : P = Published(r)
    OBVIOUS
  <2>1. A \subseteq A \cup B /\ B \subseteq A \cup B
    OBVIOUS
  <2>2. feed \in Seq(A) /\ P \in Seq(B) /\ Len(P) = new
    BY <1>1, <1>3
  <2> HIDE DEF A, B
  <2>3. feed \in Seq(A \cup B) /\ P \in Seq(A \cup B)
    BY <2>1, <2>2, SeqMonotonic
  <2>4. rows = feed \o P
    OBVIOUS
  <2>5. /\ rows \in Seq(A \cup B)
        /\ Len(rows) = Len(feed) + Len(P)
        /\ \A i \in 1 .. Len(feed) + Len(P) :
              rows[i] = IF i <= Len(feed) THEN feed[i] ELSE P[i - Len(feed)]
    BY <2>3, <2>4, ConcatProperties
  <2> HIDE DEF new
  <2>6. Len(rows) = old + new /\ DOMAIN rows = 1 .. old + new
    BY <2>2, <2>5
  <2>7. \A i \in 1 .. old : i \in 1 .. old + new /\ i <= old
    BY <1>1
  <2>8. \A k \in 1 .. new : /\ old + k \in 1 .. old + new /\ ~(old + k <= old)
                             /\ old + k - old = k
    BY <1>1
  <2>9. \A i \in 1 .. old : rows[i] = feed[i]
    BY <2>2, <2>5, <2>7
  <2>10. \A k \in 1 .. new : rows[old + k] = P[k]
    BY <2>2, <2>5, <2>8
  <2>11. rows = [i \in 1 .. old + new |-> rows[i]]
    BY <2>5, <2>6, SequenceIsFunction
  <2> HIDE DEF old
  <2>12. \A k \in 1 .. new : rows[old + k] = Published(r)[k]
    BY <2>10
  <2> QED
    BY <2>6, <2>9, <2>11, <2>12
<1> HIDE DEF old, new
<1>5. rows \in Seq({rows[i] : i \in DOMAIN rows})
  <2> DEFINE T == {rows[i] : i \in DOMAIN rows}
  <2>1. PICK n : n = old + new
    OBVIOUS
  <2>2. n \in Nat
    BY <1>1, <2>1
  <2>3. rows = [i \in 1 .. n |-> rows[i]] /\ DOMAIN rows = 1 .. n
    BY <1>4, <2>1
  <2>4. rows \in [1 .. n -> T]
    BY <2>3
  <2> HIDE DEF T
  <2>5. rows \in Seq(T)
    BY <2>2, <2>4, FunctionIsSequence
  <2> QED
    BY <2>5 DEF T
<1>6. \A i \in 1 .. old : PlaceIn(rows, i) = PlaceIn(feed, i)
  <2> TAKE i \in 1 .. old
  <2>1. \A j \in 1 .. i : j \in 1 .. old
    BY <1>1
  <2>2. {j \in 1 .. i : rows[j].stream_id = rows[i].stream_id}
          = {j \in 1 .. i : feed[j].stream_id = feed[i].stream_id}
    BY <1>4, <2>1
  <2> QED
    BY <2>2 DEF PlaceIn
<1>7. \A k \in 1 .. new :
         PlaceIn(rows, old + k) = Version(r.appends[k].stream_id) + Rank(r, k)
  <2> TAKE k \in 1 .. new
  <2> DEFINE stream == r.appends[k].stream_id
             before == {i \in DOMAIN feed : feed[i].stream_id = stream}
             mine == {i \in 1 .. k : r.appends[i].stream_id = stream}
             shift == [i \in mine |-> old + i]
             shifted == {j \in old + 1 .. old + k : rows[j].stream_id = stream}
  <2>1. rows[old + k].stream_id = stream /\ k \in Nat
    <3>1. rows[old + k] = Published(r)[k]
      BY <1>4
    <3> QED
      BY <1>2, <3>1
  <2>2. {j \in 1 .. old + k : rows[j].stream_id = rows[old + k].stream_id} = before \cup shifted
    <3>1. before = {i \in 1 .. old : rows[i].stream_id = stream}
      BY <1>1, <1>4
    <3>2. \A j \in 1 .. old + k : j \in 1 .. old \/ j \in old + 1 .. old + k
      BY <1>1, <2>1
    <3>3. \A j \in 1 .. old : j \in 1 .. old + k
      BY <1>1, <2>1
    <3>4. \A j \in old + 1 .. old + k : j \in 1 .. old + k
      BY <1>1, <2>1
    <3> QED
      BY <2>1, <3>1, <3>2, <3>3, <3>4
  <2>3. before \cap shifted = {}
    <3>1. \A j \in old + 1 .. old + k : j \notin 1 .. old
      BY <1>1
    <3> QED
      BY <1>1, <3>1
  <2>4. IsFiniteSet(before) /\ Cardinality(before) \in Nat /\ Cardinality(before) = Version(stream)
    <3>1. before \in SUBSET (1 .. old) /\ IsFiniteSet(1 .. old)
      BY <1>1, FS_Interval
    <3>2. IsFiniteSet(before)
      BY <3>1, FS_Subset
    <3> QED
      BY <3>2, FS_CardinalityType DEF Version
  <2>5. IsFiniteSet(mine) /\ Cardinality(mine) \in Nat /\ Cardinality(mine) = Rank(r, k)
    <3>1. mine \in SUBSET (1 .. k) /\ IsFiniteSet(1 .. k)
      BY <2>1, FS_Interval
    <3>2. IsFiniteSet(mine)
      BY <3>1, FS_Subset
    <3> QED
      BY <3>2, FS_CardinalityType DEF Rank
  <2>6. \A i \in 1 .. k : i \in 1 .. new /\ rows[old + i].stream_id = r.appends[i].stream_id
    BY <1>1, <1>2, <1>4
  <2>7. \A i \in mine : i \in Int /\ old + i \in shifted
    <3> TAKE i \in mine
    <3>1. i \in 1 .. k /\ r.appends[i].stream_id = stream
      OBVIOUS
    <3>2. old + i \in old + 1 .. old + k
      BY <1>1, <2>1, <3>1
    <3>3. rows[old + i].stream_id = stream
      BY <2>6, <3>1
    <3>4. old + i \in shifted
      BY <3>2, <3>3
    <3> HIDE DEF shifted
    <3> QED
      BY <2>1, <3>1, <3>4
  <2>8. \A j \in shifted : j - old \in mine /\ old + (j - old) = j
    <3> TAKE j \in shifted
    <3>1. j \in old + 1 .. old + k /\ rows[j].stream_id = stream
      OBVIOUS
    <3>2. j - old \in 1 .. k /\ old + (j - old) = j
      BY <1>1, <2>1, <3>1
    <3> QED
      BY <2>6, <3>1, <3>2
  <2> HIDE DEF mine, shifted
  <2>9. ExistsBijection(mine, shifted)
    <3>1. shift \in [mine -> shifted]
      BY <2>7
    <3>2. \A i, j \in mine : shift[i] = shift[j] => i = j
      BY <1>1, <2>7
    <3>3. \A j \in shifted : \E i \in mine : shift[i] = j
      BY <2>8
    <3> HIDE DEF shift
    <3> QED
      BY <3>1, <3>2, <3>3 DEF ExistsBijection, Bijection, Injection, Surjection, IsInjective
  <2>10. IsFiniteSet(shifted) /\ Cardinality(shifted) = Cardinality(mine)
    BY <2>5, <2>9, FS_Bijection
  <2> HIDE DEF before
  <2>11. Cardinality(before \cup shifted) = Cardinality(before) + Cardinality(shifted)
    <3>1. Cardinality(before \cap shifted) = 0
      BY <2>3, FS_EmptySet
    <3>2. Cardinality(before \cup shifted)
            = Cardinality(before) + Cardinality(shifted) - Cardinality(before \cap shifted)
      BY <2>4, <2>10, FS_Union
    <3> QED
      BY <2>4, <2>5, <2>10, <3>1, <3>2
  <2> QED
    BY <2>2, <2>4, <2>5, <2>10, <2>11 DEF PlaceIn
<1>8. \A i \in DOMAIN rows : rows[i].stream_version = PlaceIn(rows, i)
  <2> TAKE i \in DOMAIN rows
  <2>1. CASE i \in 1 .. old
    BY <1>1, <1>4, <1>6, <2>1 DEF VersionsArePlaces
  <2>2. CASE i \notin 1 .. old
    <3>1. i - old \in 1 .. new /\ i = old + (i - old)
      BY <1>1, <1>4, <2>2
    <3> QED
      BY <1>2, <1>4, <1>7, <3>1
  <2> QED
    BY <2>1, <2>2
<1>9. Len(feed) <= Len(rows) /\ Len(rows) \in Nat
  BY <1>1, <1>4 DEF old
<1>10. \A i \in DOMAIN feed :
          i \in DOMAIN rows /\ rows[i] = feed[i] /\ PlaceIn(rows, i) = PlaceIn(feed, i)
  <2> TAKE i \in DOMAIN feed
  <2>1. i \in 1 .. old /\ i \in 1 .. old + new
    BY <1>1 DEF old
  <2> QED
    BY <1>4, <1>6, <2>1
<1> QED
  BY <1>5, <1>8, <1>9, <1>10 DEF VersionsArePlaces

-----------------------------------------------------------------------------
(* The limits *)

\* A limit, wrapped or not, returns as many of the first rows as it says.
LEMMA LimitedPrefix ==
    ASSUME NEW S, NEW rows \in Seq(S), Len(rows) < SIGN_BIT, NEW limit \in Words
    PROVE  /\ Limited(rows, AsI64(limit)) \in Seq(S)
           /\ Len(Limited(rows, AsI64(limit))) = IF limit < Len(rows) THEN limit ELSE Len(rows)
           /\ \A k \in 1 .. Len(Limited(rows, AsI64(limit))) :
                 Limited(rows, AsI64(limit))[k] = rows[k]
<1>1. limit \in Nat /\ SIGN_BIT \in Nat /\ limit < 2 * SIGN_BIT /\ Len(rows) \in Nat
  BY WordAssumption DEF Words
<1>2. CASE limit < SIGN_BIT
  <2> DEFINE n == IF Len(rows) < limit THEN Len(rows) ELSE limit
             first == SubSeq(rows, 1, n)
  <2>1. AsI64(limit) = limit /\ ~(limit < 0)
    BY <1>1, <1>2 DEF AsI64
  <2>2. Limited(rows, AsI64(limit)) = first
    BY <2>1 DEF Limited, FirstRows
  <2>3. n \in Nat /\ n <= Len(rows) /\ n = IF limit < Len(rows) THEN limit ELSE Len(rows)
    BY <1>1
  <2> HIDE DEF n
  <2>4. \A i \in 1 .. n : rows[i] \in S
    BY <1>1, <2>3, ElementOfSeq
  <2>5. /\ first \in Seq(S)
        /\ Len(first) = IF 1 <= n THEN n - 1 + 1 ELSE 0
        /\ \A k \in 1 .. n - 1 + 1 : first[k] = rows[1 + k - 1]
    BY <2>3, <2>4, SubSeqProperties
  <2> HIDE DEF first
  <2>6. Len(first) = n
    BY <2>3, <2>5
  <2>7. \A k \in 1 .. n : k \in 1 .. n - 1 + 1 /\ 1 + k - 1 = k
    BY <2>3
  <2>8. \A k \in 1 .. n : first[k] = rows[k]
    BY <2>5, <2>7
  <2> QED
    BY <2>2, <2>3, <2>5, <2>6, <2>8
<1>3. CASE ~(limit < SIGN_BIT)
  <2>1. AsI64(limit) < 0
    BY <1>1, <1>3 DEF AsI64
  <2>2. Limited(rows, AsI64(limit)) = rows
    BY <2>1 DEF Limited
  <2>3. ~(limit < Len(rows))
    BY <1>1, <1>3
  <2> QED
    BY <2>2, <2>3
<1> QED
  BY <1>2, <1>3

\* Reverse of module SequencesExt.
LEMMA ReverseProperties ==
    ASSUME NEW S, NEW s \in Seq(S)
    PROVE  /\ Reverse(s) \in Seq(S) /\ Len(Reverse(s)) = Len(s)
           /\ \A k \in 1 .. Len(s) : Reverse(s)[k] = s[Len(s) - k + 1]
<1>1. PICK n : n = Len(s)
  OBVIOUS
<1>2. n \in Nat
  BY <1>1
<1>3. Reverse(s) = [k \in 1 .. n |-> s[n - k + 1]]
  BY <1>1 DEF Reverse
<1>4. \A k \in 1 .. n : n - k + 1 \in 1 .. Len(s)
  BY <1>1, <1>2
<1>5. \A k \in 1 .. n : s[n - k + 1] \in S
  BY <1>4, ElementOfSeq
<1>6. Reverse(s) \in [1 .. n -> S]
  BY <1>3, <1>5
<1>7. Reverse(s) \in Seq(S) /\ Len(Reverse(s)) = n
  BY <1>2, <1>6, FunctionIsSequence
<1> QED
  BY <1>1, <1>3, <1>7

\* The table of the events in the order of global_sequence is the feed.
LEMMA RowsInOrder ==
    ASSUME VersionsArePlaces(feed)
    PROVE  /\ Rows \in Seq(Range(Rows)) /\ Len(Rows) = Len(feed) /\ Len(feed) \in Nat
           /\ \A r \in Range(Rows) : r.at \in 1 .. Len(feed)
           /\ InOrder(Range(Rows)) = Rows
<1> DEFINE table == Range(Rows)
<1>1. PICK n : n = Len(feed)
  OBVIOUS
<1>2. n \in Nat /\ DOMAIN feed = 1 .. n
  BY <1>1 DEF VersionsArePlaces
<1>3. Rows = [i \in 1 .. n |-> [at |-> i, row |-> feed[i]]]
  BY <1>2 DEF Rows
<1>4. table = {Rows[i] : i \in 1 .. n}
  BY <1>3 DEF Range
<1>5. \A i \in 1 .. n : Rows[i] \in table /\ Rows[i].at = i
  BY <1>3, <1>4
<1>6. \A r \in table : r.at \in 1 .. n /\ r = Rows[r.at]
  BY <1>3, <1>4
<1> HIDE DEF table
<1>7. Rows \in Seq(table) /\ Len(Rows) = n
  <2>1. Rows \in [1 .. n -> table]
    BY <1>3, <1>5
  <2> QED
    BY <1>2, <2>1, FunctionIsSequence
<1>8. Dense(table, 1, n)
  BY <1>5, <1>6 DEF Dense
<1>9. /\ InOrder(table) \in Seq(table)
      /\ Len(InOrder(table)) = IF 1 > n THEN 0 ELSE n - 1 + 1
      /\ \A k \in 1 .. Len(InOrder(table)) :
            InOrder(table)[k] \in table /\ InOrder(table)[k].at = 1 + k - 1
  BY <1>2, <1>8, DenseOrder
<1>10. Len(InOrder(table)) = n
  BY <1>2, <1>9
<1>11. \A k \in 1 .. n : 1 + k - 1 = k
  BY <1>2
<1>12. \A k \in 1 .. n : InOrder(table)[k] = Rows[k]
  BY <1>6, <1>9, <1>10, <1>11
<1>13. InOrder(table) = Rows
  BY <1>7, <1>9, <1>10, <1>12, SeqEqual
<1> QED
  BY <1>1, <1>2, <1>6, <1>7, <1>13 DEF table

\* While the log is no longer than an i64 can count, every limit is exact.
LEMMA LimitsOfNumberedLog ==
    ASSUME VersionsArePlaces(feed), Len(feed) < SIGN_BIT
    PROVE  LimitsAreExact
<1> SUFFICES ASSUME NEW limit \in Words
             PROVE  LET n == IF limit < Len(feed) THEN limit ELSE Len(feed) IN
                    /\ EventsAfter(0, limit) = SubSeq(Rows, 1, n)
                    /\ LastEvents(limit) = SubSeq(Rows, Len(feed) - n + 1, Len(feed))
  BY DEF LimitsAreExact
<1> DEFINE n == IF limit < Len(feed) THEN limit ELSE Len(feed)
           l == Len(feed)
           table == Range(Rows)
<1>1. limit \in Nat /\ n \in Nat /\ n <= l /\ l \in Nat
  BY RowsInOrder, WordAssumption DEF Words
<1>2. /\ Rows \in Seq(table) /\ Len(Rows) = l
      /\ \A r \in table : r.at \in 1 .. l
      /\ InOrder(table) = Rows
  BY RowsInOrder
<1>3. l < SIGN_BIT
  OBVIOUS
<1> HIDE DEF table
<1>4. {r \in table : r.at > AsI64(0)} = table
  <2>1. AsI64(0) = 0
    BY WordAssumption DEF AsI64
  <2> QED
    BY <1>1, <1>2, <2>1
<1>5. EventsAfter(0, limit) = SubSeq(Rows, 1, n)
  <2> DEFINE answer == Limited(Rows, AsI64(limit))
             part == SubSeq(Rows, 1, n)
  <2>1. EventsAfter(0, limit) = answer
    BY <1>2, <1>4 DEF EventsAfter, table
  <2>2. /\ answer \in Seq(table) /\ Len(answer) = n
        /\ \A k \in 1 .. Len(answer) : answer[k] = Rows[k]
    BY <1>2, <1>3, LimitedPrefix
  <2> HIDE DEF n, answer
  <2>3. \A i \in 1 .. n : Rows[i] \in table
    BY <1>1, <1>2, ElementOfSeq
  <2>4. /\ part \in Seq(table)
        /\ Len(part) = IF 1 <= n THEN n - 1 + 1 ELSE 0
        /\ \A k \in 1 .. n - 1 + 1 : part[k] = Rows[1 + k - 1]
    BY <1>1, <2>3, SubSeqProperties
  <2> HIDE DEF part
  <2>5. Len(part) = n
    BY <1>1, <2>4
  <2>6. \A k \in 1 .. n : k \in 1 .. n - 1 + 1 /\ 1 + k - 1 = k
    BY <1>1
  <2>7. \A k \in 1 .. Len(answer) : answer[k] = part[k]
    BY <2>2, <2>4, <2>6
  <2>8. answer = part
    BY <2>2, <2>4, <2>5, <2>7, SeqEqual
  <2> QED
    BY <2>1, <2>8 DEF part
<1>6. LastEvents(limit) = SubSeq(Rows, l - n + 1, l)
  <2> DEFINE back == Reverse(Rows)
             newest == Limited(back, AsI64(limit))
             answer == Reverse(newest)
             part == SubSeq(Rows, l - n + 1, l)
  <2>1. LastEvents(limit) = answer
    BY <1>2 DEF LastEvents, table
  <2>2. /\ back \in Seq(table) /\ Len(back) = l
        /\ \A k \in 1 .. l : back[k] = Rows[l - k + 1]
    BY <1>2, ReverseProperties
  <2> HIDE DEF back
  <2>3. /\ newest \in Seq(table) /\ Len(newest) = n
        /\ \A k \in 1 .. Len(newest) : newest[k] = back[k]
    BY <1>3, <2>2, LimitedPrefix
  <2> HIDE DEF newest
  <2>4. /\ answer \in Seq(table) /\ Len(answer) = n
        /\ \A k \in 1 .. n : answer[k] = newest[n - k + 1]
    BY <2>3, ReverseProperties
  <2> HIDE DEF answer, n
  <2>5. \A i \in l - n + 1 .. l : i \in 1 .. l
    BY <1>1
  <2>6. \A i \in l - n + 1 .. l : Rows[i] \in table
    BY <1>2, <2>5, ElementOfSeq
  <2>7. /\ part \in Seq(table)
        /\ Len(part) = IF l - n + 1 <= l THEN l - (l - n + 1) + 1 ELSE 0
        /\ \A k \in 1 .. l - (l - n + 1) + 1 : part[k] = Rows[l - n + 1 + k - 1]
    <3>1. PICK low : low = l - n + 1
      OBVIOUS
    <3>2. low \in Int
      BY <1>1, <3>1
    <3> QED
      BY <1>1, <2>6, <3>1, <3>2, SubSeqProperties
  <2> HIDE DEF part
  <2>8. Len(part) = n
    BY <1>1, <2>7
  <2>9. \A k \in 1 .. n : answer[k] = part[k]
    <3> TAKE k \in 1 .. n
    <3>1. n - k + 1 \in 1 .. n /\ n - k + 1 \in 1 .. l /\ k \in 1 .. l - (l - n + 1) + 1
      BY <1>1
    <3>2. l - (n - k + 1) + 1 = l - n + 1 + k - 1
      BY <1>1
    <3>3. answer[k] = Rows[l - (n - k + 1) + 1]
      BY <2>2, <2>3, <2>4, <3>1
    <3> QED
      BY <2>7, <3>1, <3>2, <3>3
  <2>10. answer = part
    BY <2>4, <2>7, <2>8, <2>9, SeqEqual
  <2> QED
    BY <2>1, <2>10 DEF part
<1> QED
  BY <1>5, <1>6

-----------------------------------------------------------------------------
(* The readers *)

\* The log can be numbered, and its versions are places.
FeedOK == VersionsArePlaces(feed) /\ EventsNumbered

\* A reader's next page starts behind what it has been given, which is no more
\* than the stream holds.
HasRead(given, next, total) ==
    /\ given \in Seq({given[k] : k \in DOMAIN given})
    /\ next = Len(given) + 1
    /\ Len(given) <= total

ReadersOK ==
    /\ from = [s \in Streams |-> from[s]]
    /\ seen = [s \in Streams |-> seen[s]]
    /\ \A s \in Streams : HasRead(seen[s], from[s], Cardinality(OfStream(feed, s)))

\* StreamReadExact of one reader.
GivenInOrder(given, rows, s) ==
    \A k \in DOMAIN given :
        \E i \in DOMAIN rows :
            given[k].row = rows[i] /\ rows[i].stream_id = s /\ PlaceIn(rows, i) = k

\* The inductive invariant of the readers.
ReadInv == FeedOK /\ ReadersOK /\ \A s \in Streams : GivenInOrder(seen[s], feed, s)

\* The rows a reader asks for are those it has not been given, one for every
\* version from the one it names.
LEMMA RestIsDense ==
    ASSUME VersionsArePlaces(feed), NEW s, NEW v \in Nat \ {0}
    PROVE  Dense({r \in StreamRows(s) : r.at >= v}, v, Cardinality(OfStream(feed, s)))
<1> DEFINE n == Cardinality(OfStream(feed, s))
           rest == {r \in StreamRows(s) : r.at >= v}
<1>1. /\ n \in Nat
      /\ \A i \in OfStream(feed, s) : feed[i].stream_version \in 1 .. n
      /\ \A w \in 1 .. n : \E i \in OfStream(feed, s) : feed[i].stream_version = w
      /\ \A i, j \in OfStream(feed, s) : feed[i].stream_version = feed[j].stream_version => i = j
  BY VersionsAreDense DEF VersionsArePlaces
<1>2. StreamRows(s) = {[at |-> feed[i].stream_version, row |-> feed[i]] : i \in OfStream(feed, s)}
  BY DEF StreamRows, OfStream
<1> HIDE DEF n
<1>3. \A r \in rest : r.at \in v .. n
  BY <1>1, <1>2
<1>4. \A w \in v .. n : \E r \in rest : r.at = w
  <2> TAKE w \in v .. n
  <2>1. w \in 1 .. n /\ w >= v
    BY <1>1
  <2>2. PICK i \in OfStream(feed, s) : feed[i].stream_version = w
    BY <1>1, <2>1
  <2>3. [at |-> feed[i].stream_version, row |-> feed[i]] \in rest
    BY <1>2, <2>1, <2>2
  <2> QED
    BY <2>2, <2>3
<1>5. \A q, r \in rest : q.at = r.at => q = r
  BY <1>1, <1>2
<1> QED
  BY <1>3, <1>4, <1>5 DEF Dense, n

\* A page holds the next events of the stream, and no more than there are.
LEMMA PageOfStream ==
    ASSUME ReadInv, NEW s \in Streams, NEW limit \in PageLimits
    PROVE  LET page == StreamEvents(s, from[s], limit) IN
           /\ page \in Seq(StreamRows(s))
           /\ Len(seen[s]) + Len(page) <= Cardinality(OfStream(feed, s))
           /\ \A k \in 1 .. Len(page) : page[k].at = Len(seen[s]) + k
<1> DEFINE v == from[s]
           n == Cardinality(OfStream(feed, s))
           rest == {r \in StreamRows(s) : r.at >= v}
           l == Len(feed)
           m == Len(seen[s])
<1>1. VersionsArePlaces(feed) /\ l \in Nat /\ l < SIGN_BIT - 1 /\ SIGN_BIT \in Nat
  BY WordAssumption DEF ReadInv, FeedOK, EventsNumbered, VersionsArePlaces
<1>2. n \in Nat /\ n <= l
  BY <1>1, VersionsAreDense
<1>3. m \in Nat /\ v = m + 1 /\ m <= n
  <2>1. HasRead(seen[s], v, n)
    BY DEF ReadInv, ReadersOK
  <2> HIDE DEF v, n
  <2>2. v = Len(seen[s]) + 1 /\ Len(seen[s]) <= n /\ seen[s] \in Seq({seen[s][k] : k \in DOMAIN seen[s]})
    BY <2>1 DEF HasRead
  <2> QED
    BY <2>2
<1>4. v \in Nat \ {0} /\ v <= n + 1
  BY <1>2, <1>3
<1>5. Dense(rest, v, n)
  BY <1>1, <1>4, RestIsDense
<1> HIDE DEF v, n, rest, l, m
<1>6. /\ InOrder(rest) \in Seq(rest)
      /\ Len(InOrder(rest)) = IF v > n THEN 0 ELSE n - v + 1
      /\ \A k \in 1 .. Len(InOrder(rest)) :
            InOrder(rest)[k] \in rest /\ InOrder(rest)[k].at = v + k - 1
  BY <1>2, <1>4, <1>5, DenseOrder
<1>7. Len(InOrder(rest)) = n - m /\ n - m < SIGN_BIT
  BY <1>1, <1>2, <1>3, <1>6
<1>8. limit \in Words
  BY WordAssumption DEF Words
<1> DEFINE page == Limited(InOrder(rest), AsI64(limit))
<1>9. /\ page \in Seq(rest)
      /\ Len(page) = IF limit < n - m THEN limit ELSE n - m
      /\ \A k \in 1 .. Len(page) : page[k] = InOrder(rest)[k]
  BY <1>6, <1>7, <1>8, LimitedPrefix
<1>10. StreamEvents(s, from[s], limit) = page
  <2>1. AsI64(v) = v
    BY <1>1, <1>2, <1>4 DEF AsI64
  <2> QED
    BY <2>1 DEF StreamEvents, rest, v
<1> HIDE DEF page
<1>11. Len(page) \in Nat /\ Len(page) <= n - m
  BY <1>2, <1>3, <1>8, <1>9 DEF Words
<1>12. page \in Seq(StreamRows(s))
  <2>1. rest \subseteq StreamRows(s)
    BY DEF rest
  <2> QED
    BY <1>9, <2>1, SeqMonotonic
<1>13. m + Len(page) <= n
  BY <1>2, <1>3, <1>11
<1>14. \A k \in 1 .. Len(page) : page[k].at = m + k
  <2> TAKE k \in 1 .. Len(page)
  <2>1. k \in 1 .. Len(InOrder(rest)) /\ v + k - 1 = m + k
    BY <1>2, <1>3, <1>7, <1>11
  <2> QED
    BY <1>6, <1>9, <2>1
<1> QED
  BY <1>10, <1>12, <1>13, <1>14 DEF m, n

\* So a page continues what its reader has been given.
LEMMA ReadKeepsInv ==
    ASSUME ReadInv, NEW s \in Streams, NEW limit \in PageLimits, ReadStream(s, limit)
    PROVE  ReadInv'
<1> DEFINE old == seen[s]
           new == seen'[s]
<1> PICK page, m, l : /\ page = StreamEvents(s, from[s], limit)
                      /\ m = Len(old) /\ l = Len(page)
  OBVIOUS
<1>1. /\ page \in Seq(StreamRows(s))
      /\ m + l <= Cardinality(OfStream(feed, s))
      /\ \A k \in 1 .. l : page[k].at = m + k
  BY PageOfStream
<1>2. /\ page # <<>>
      /\ seen' = [seen EXCEPT ![s] = @ \o page]
      /\ from' = [from EXCEPT ![s] = page[Len(page)].at + 1]
      /\ feed' = feed
  BY DEF ReadStream, abstractVars
<1>3. l \in Nat \ {0} /\ m \in Nat /\ old \in Seq({old[k] : k \in DOMAIN old})
  <2>1. HasRead(old, from[s], Cardinality(OfStream(feed, s)))
    BY DEF ReadInv, ReadersOK
  <2> HIDE DEF old
  <2>2. old \in Seq({old[k] : k \in DOMAIN old})
    BY <2>1 DEF HasRead
  <2>3. l \in Nat \ {0}
    BY <1>1, <1>2, EmptySeq
  <2> QED
    BY <2>2, <2>3
<1>4. /\ DOMAIN from = Streams /\ DOMAIN seen = Streams
      /\ from = [t \in Streams |-> from[t]] /\ seen = [t \in Streams |-> seen[t]]
  BY DEF ReadInv, ReadersOK
<1>5. /\ new = old \o page /\ from'[s] = m + l + 1
      /\ from' = [t \in Streams |-> from'[t]] /\ seen' = [t \in Streams |-> seen'[t]]
      /\ \A t \in Streams : t # s => from'[t] = from[t] /\ seen'[t] = seen[t]
  <2>1. l \in 1 .. l
    BY <1>3
  <2>2. page[Len(page)].at = m + l
    BY <1>1, <2>1
  <2> QED
    BY <1>2, <1>4, <2>2
<1>6. /\ Len(new) = m + l /\ new \in Seq({new[k] : k \in DOMAIN new})
      /\ \A k \in 1 .. m : new[k] = old[k]
      /\ \A k \in 1 .. l : new[m + k] = page[k]
  <2> DEFINE A == {old[k] : k \in DOMAIN old}
             B == StreamRows(s)
             T == {new[k] : k \in DOMAIN new}
  <2>1. A \subseteq A \cup B /\ B \subseteq A \cup B
    OBVIOUS
  <2>2. old \in Seq(A) /\ page \in Seq(B)
    BY <1>1, <1>3
  <2> HIDE DEF A, B
  <2>3. old \in Seq(A \cup B) /\ page \in Seq(A \cup B)
    BY <2>1, <2>2, SeqMonotonic
  <2>4. /\ old \o page \in Seq(A \cup B)
        /\ Len(old \o page) = Len(old) + Len(page)
        /\ \A i \in 1 .. Len(old) + Len(page) :
              (old \o page)[i] = IF i <= Len(old) THEN old[i] ELSE page[i - Len(old)]
    BY <2>3, ConcatProperties
  <2> HIDE DEF old, new
  <2>5. /\ new \in Seq(A \cup B) /\ Len(new) = m + l
        /\ \A i \in 1 .. m + l : new[i] = IF i <= m THEN old[i] ELSE page[i - m]
    BY <1>5, <2>4
  <2>6. \A i \in 1 .. m : i \in 1 .. m + l /\ i <= m
    BY <1>3
  <2>7. \A k \in 1 .. l : m + k \in 1 .. m + l /\ ~(m + k <= m) /\ m + k - m = k
    BY <1>3
  <2>8. new = [i \in 1 .. m + l |-> new[i]]
    BY <2>5, SequenceIsFunction
  <2>9. m + l \in Nat /\ new \in [1 .. m + l -> T]
    BY <1>3, <2>8
  <2> HIDE DEF T
  <2>10. new \in Seq(T)
    <3>1. PICK n : n = m + l
      OBVIOUS
    <3> QED
      BY <2>9, <3>1, FunctionIsSequence
  <2>11. \A k \in 1 .. m : new[k] = old[k]
    BY <2>5, <2>6
  <2>12. \A k \in 1 .. l : new[m + k] = page[k]
    BY <2>5, <2>7
  <2> QED
    BY <2>5, <2>10, <2>11, <2>12 DEF T
<1>7. FeedOK'
  BY <1>2 DEF ReadInv, FeedOK, EventsNumbered, VersionsArePlaces, PlaceIn
<1>8. ReadersOK'
  <2>1. HasRead(new, m + l + 1, Cardinality(OfStream(feed, s)))
    <3> HIDE DEF new
    <3> QED
      BY <1>1, <1>6 DEF HasRead
  <2>2. ASSUME NEW t \in Streams
        PROVE  HasRead(seen'[t], from'[t], Cardinality(OfStream(feed, t)))
    <3>1. CASE t = s
      BY <1>5, <2>1, <3>1
    <3>2. CASE t # s
      BY <1>5, <3>2 DEF ReadInv, ReadersOK
    <3> QED
      BY <3>1, <3>2
  <2>3. \A t \in Streams : OfStream(feed, t)' = OfStream(feed, t)
    BY <1>2 DEF OfStream
  <2> QED
    BY <1>2, <1>5, <2>2, <2>3 DEF ReadersOK
<1>9. \A t \in Streams : GivenInOrder(seen'[t], feed, t)
  <2>1. GivenInOrder(old, feed, s)
    BY DEF ReadInv
  <2>2. GivenInOrder(new, feed, s)
    <3> HIDE DEF old, new
    <3> SUFFICES ASSUME NEW k \in 1 .. m + l
                 PROVE  \E i \in DOMAIN feed : /\ new[k].row = feed[i] /\ feed[i].stream_id = s
                                               /\ PlaceIn(feed, i) = k
      BY <1>6 DEF GivenInOrder
    <3>1. CASE k \in 1 .. m
      <4>1. new[k] = old[k] /\ k \in DOMAIN old
        BY <1>3, <1>6, <3>1
      <4> QED
        BY <2>1, <4>1 DEF GivenInOrder
    <3>2. CASE k \notin 1 .. m
      <4>1. k - m \in 1 .. l /\ m + (k - m) = k
        BY <1>3, <3>2
      <4>2. new[k] = page[k - m] /\ page[k - m].at = k
        BY <1>1, <1>6, <4>1
      <4>3. page[k - m] \in StreamRows(s)
        BY <1>1, <4>1, ElementOfSeq
      <4>4. PICK i \in OfStream(feed, s) :
               page[k - m] = [at |-> feed[i].stream_version, row |-> feed[i]]
        BY <4>3 DEF StreamRows, OfStream
      <4>5. PlaceIn(feed, i) = feed[i].stream_version
        BY DEF ReadInv, FeedOK, VersionsArePlaces, OfStream
      <4> QED
        BY <4>2, <4>4, <4>5 DEF OfStream
    <3> QED
      BY <3>1, <3>2
  <2> TAKE t \in Streams
  <2>3. CASE t = s
    BY <2>2, <2>3
  <2>4. CASE t # s
    BY <1>5, <2>4 DEF ReadInv
  <2> QED
    BY <2>3, <2>4
<1>10. \A t \in Streams : GivenInOrder(seen[t], feed, t)'
  BY <1>2, <1>9
<1> QED
  BY <1>7, <1>8, <1>10 DEF ReadInv

\* Commits only add to the log, at its end.
LEMMA PublishKeepsReaders ==
    ASSUME ReadInv, UNCHANGED readVars, EventsNumbered',
           NEW r, r.appends \in Seq({r.appends[k] : k \in DOMAIN r.appends}),
           feed' = feed \o Published(r)
    PROVE  ReadInv'
<1> PICK rows : rows = feed'
  OBVIOUS
<1>1. VersionsArePlaces(feed)
  BY DEF ReadInv, FeedOK
<1>2. /\ VersionsArePlaces(rows)
      /\ \A i \in DOMAIN feed :
            i \in DOMAIN rows /\ rows[i] = feed[i] /\ PlaceIn(rows, i) = PlaceIn(feed, i)
  BY <1>1, PublishedPlaces
<1>3. FeedOK'
  BY <1>2 DEF FeedOK
<1>4. ReadersOK'
  <2>1. \A s \in Streams : Cardinality(OfStream(feed, s)) <= Cardinality(OfStream(rows, s))
    <3> TAKE s \in Streams
    <3>1. OfStream(feed, s) \subseteq OfStream(rows, s)
      BY <1>2 DEF OfStream
    <3>2. IsFiniteSet(OfStream(rows, s))
      BY <1>2, VersionsAreDense
    <3> QED
      BY <3>1, <3>2, FS_Subset
  <2>2. \A s \in Streams : /\ Cardinality(OfStream(feed, s)) \in 0 .. Len(feed)
                           /\ Cardinality(OfStream(rows, s)) \in 0 .. Len(rows)
    BY <1>1, <1>2, VersionsAreDense
  <2>3. from' = from /\ seen' = seen
    BY DEF readVars
  <2>4. \A s \in Streams : HasRead(seen[s], from[s], Cardinality(OfStream(rows, s)))
    <3> TAKE s \in Streams
    <3>1. PICK n, m : n = Cardinality(OfStream(feed, s)) /\ m = Cardinality(OfStream(rows, s))
      OBVIOUS
    <3>2. HasRead(seen[s], from[s], n)
      BY <3>1 DEF ReadInv, ReadersOK
    <3>3. n \in Nat /\ m \in Nat /\ n <= m
      BY <2>1, <2>2, <3>1
    <3>4. HasRead(seen[s], from[s], m)
      BY <3>2, <3>3 DEF HasRead
    <3> QED
      BY <3>1, <3>4
  <2>5. \A s \in Streams : OfStream(feed, s)' = OfStream(rows, s)
    BY DEF OfStream
  <2>6. from' = [s \in Streams |-> from'[s]] /\ seen' = [s \in Streams |-> seen'[s]]
    BY <2>3 DEF ReadInv, ReadersOK
  <2> QED
    BY <2>3, <2>4, <2>5, <2>6 DEF ReadersOK
<1>5. \A s \in Streams : GivenInOrder(seen[s], feed, s)'
  <2>1. \A s \in Streams : GivenInOrder(seen[s], rows, s)
    <3> SUFFICES ASSUME NEW s \in Streams, NEW k \in DOMAIN seen[s]
                 PROVE  \E i \in DOMAIN rows :
                           /\ seen[s][k].row = rows[i] /\ rows[i].stream_id = s
                           /\ PlaceIn(rows, i) = k
      BY DEF GivenInOrder
    <3>1. PICK i \in DOMAIN feed :
             seen[s][k].row = feed[i] /\ feed[i].stream_id = s /\ PlaceIn(feed, i) = k
      BY DEF ReadInv, GivenInOrder
    <3> QED
      BY <1>2, <3>1
  <2> QED
    BY <2>1 DEF readVars
<1> QED
  BY <1>3, <1>4, <1>5 DEF ReadInv

\* In the beginning there is nothing to read.
LEMMA InitReaders == CallersInit => ReadInv
<1> SUFFICES ASSUME CallersInit PROVE ReadInv
  OBVIOUS
<1>1. feed = <<>> /\ from = [s \in Streams |-> 1] /\ seen = [s \in Streams |-> <<>>]
  BY DEF CallersInit, NodeInit, AbstractInit, ReadersInit
<1>2. FeedOK
  BY <1>1, WordAssumption DEF FeedOK, EventsNumbered, VersionsArePlaces
<1>3. ReadersOK
  <2>1. \A s \in Streams : Cardinality(OfStream(feed, s)) = 0
    BY <1>1, FS_EmptySet DEF OfStream
  <2> QED
    BY <1>1, <2>1 DEF ReadersOK, HasRead
<1>4. \A s \in Streams : GivenInOrder(seen[s], feed, s)
  BY <1>1 DEF GivenInOrder
<1> QED
  BY <1>2, <1>3, <1>4 DEF ReadInv

\* Every step keeps the readers' invariant: commits, pages and everything else.
LEMMA NextReaders == ReadInv /\ [CallersNext]_callersVars => ReadInv'
<1> SUFFICES ASSUME ReadInv, [CallersNext]_callersVars PROVE ReadInv'
  OBVIOUS
<1>1. ASSUME feed' = feed, UNCHANGED readVars PROVE ReadInv'
  <2>1. FeedOK' = FeedOK
    BY <1>1 DEF FeedOK, EventsNumbered, VersionsArePlaces, PlaceIn
  <2>2. ReadersOK' = ReadersOK
    BY <1>1 DEF ReadersOK, HasRead, OfStream, readVars
  <2>3. ASSUME NEW s PROVE GivenInOrder(seen[s], feed, s)' = GivenInOrder(seen[s], feed, s)
    BY <1>1 DEF GivenInOrder, PlaceIn, readVars
  <2> QED
    BY <2>1, <2>2, <2>3 DEF ReadInv
<1>2. CASE NodeNext /\ EventsNumbered' /\ UNCHANGED readVars
  <2>1. PICK p \in Programs : CommitCall(p) \/ RecoverCall(p) \/ KillProgram(p)
    BY <1>2 DEF NodeNext
  <2>2. feed' = feed \/ feed' = feed \o Published(BuildBatch(Inputs[p]))
    BY <2>1 DEF CommitCall, RecoverCall, KillProgram, Throw, Commit, abstractVars
  <2>3. PICK r : r = BuildBatch(Inputs[p])
    OBVIOUS
  <2>4. r.appends \in Seq({r.appends[k] : k \in DOMAIN r.appends})
    <3> DEFINE T == {r.appends[k] : k \in DOMAIN r.appends}
    <3>1. PICK n : n = Len(Inputs[p].events)
      OBVIOUS
    <3>2. n \in Nat /\ DOMAIN Inputs[p].events = 1 .. n
      BY <3>1, InputAssumption
    <3>3. r.appends = [k \in 1 .. n |-> r.appends[k]]
      BY <2>3, <3>2 DEF BuildBatch
    <3>4. r.appends \in [1 .. n -> T]
      BY <3>3
    <3> HIDE DEF T
    <3>5. r.appends \in Seq(T)
      BY <3>2, <3>4, FunctionIsSequence
    <3> QED
      BY <3>5 DEF T
  <2> QED
    BY <1>1, <1>2, <2>2, <2>3, <2>4, PublishKeepsReaders
<1>3. CASE ReadersNext
  BY <1>3, ReadKeepsInv DEF ReadersNext
<1>4. CASE UNCHANGED callersVars
  BY <1>1, <1>4 DEF callersVars, nodeVars, abstractVars, readVars
<1> QED
  BY <1>2, <1>3, <1>4 DEF CallersNext

\* The readers' invariant holds in every reachable state.
THEOREM ReadersInvariant == CallersSpec => []ReadInv
BY InitReaders, NextReaders, PTL DEF CallersSpec

\* A reader that pages through a stream is given every event of it once, in the
\* order of the log, whatever is committed in between and whatever its limits.
THEOREM StreamReadsAreExact == CallersSpec => []StreamReadExact
<1>1. ReadInv => StreamReadExact
  BY DEF ReadInv, GivenInOrder, StreamReadExact, PlaceIn, PlaceInStream
<1> QED
  BY <1>1, ReadersInvariant, PTL

\* Every usize is a limit that means what it says, the wrapped ones too.
THEOREM LimitsMeanWhatTheySay == CallersSpec => []LimitsAreExact
<1>1. ReadInv => LimitsAreExact
  <2> SUFFICES ASSUME ReadInv PROVE LimitsAreExact
    OBVIOUS
  <2>1. VersionsArePlaces(feed) /\ Len(feed) < SIGN_BIT
    BY WordAssumption DEF ReadInv, FeedOK, EventsNumbered, VersionsArePlaces
  <2> QED
    BY <2>1, LimitsOfNumberedLog
<1> QED
  BY <1>1, ReadersInvariant, PTL
=============================================================================

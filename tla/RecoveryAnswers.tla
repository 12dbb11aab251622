--------------------------- MODULE RecoveryAnswers --------------------------
(***************************************************************************)
(* What the answer Absent of recover_transaction is worth.  The store asks *)
(* on its own writer, so none of its own commits is under way; a commit of *)
(* another process may be.  `told_absent` remembers every such answer, the *)
(* ones given about a commit in flight included, until the transaction is  *)
(* handed in again.                                                        *)
(***************************************************************************)
EXTENDS ControlPlane

VARIABLE told_absent

answerVars == <<controlVars, told_absent>>

AnswersInit == ControlInit /\ told_absent = {}

Recover(s, t) ==
    /\ RecoverTransaction(s, t)
    /\ told_absent' = told_absent \cup ({t} \ DOMAIN durable.transactions)

HandIn(s, b) ==
    /\ BeginBatch(s, b)
    /\ told_absent' = told_absent \ {b.transaction_id}

AnswersNext ==
    \/ \E s \in Stores, t \in BatchIds : Recover(s, t)
    \/ \E s \in Stores, b \in Batches : HandIn(s, b)
    \/ /\ \/ \E s \in Stores, b \in Batches : RefuseBatch(s, b) \/ ResubmitBatch(s, b)
          \/ ExecOperation \/ RejectOperation
          \/ \E s \in Stores : BeginClaim(s) \/ BeginExtend(s)
          \/ CommitSucceeds \/ CommitIndeterminate \/ Crash
          \/ PollEvents
       /\ UNCHANGED told_absent

AnswersSpec == AnswersInit /\ [][AnswersNext]_answerVars

\* "A missing row after a successful read means the transaction rolled back;
\* SQLite commits are atomic, so there is no lingering indeterminate state"
\* (commit::recover_transaction): a transaction that was called Absent is not
\* found committed later, unless it is handed in once more.
AbsentIsFinal == told_absent \cap DOMAIN durable.transactions = {}
=============================================================================

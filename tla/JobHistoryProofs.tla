-------------------------- MODULE JobHistoryProofs --------------------------
(***************************************************************************)
(* Proofs about the two histories kept beside the job store.               *)
(*                                                                         *)
(* Attempts: every attempt of a job that requires reconciliation is        *)
(* settled by its worker or an operator, and no report is taken for        *)
(* another attempt than its own.                                           *)
(*                                                                         *)
(* Rounds: the round-robin over partitions is fair and a claim uses its    *)
(* limit, for any number of queues, partitions and jobs.                   *)
(***************************************************************************)
EXTENDS AttemptOutcomes, ClaimFairness, JobStoreProofs, FiniteSetTheorems, WellFoundedInduction

-----------------------------------------------------------------------------
(* Attempts and who settled them *)

\* An attempt that nobody has decided about yet.
IsOpen(row) == row.state \in {"Leased", "Uncertain"}

\* The records are about attempts that began.
SettledType ==
    \A s \in settled : /\ s.job_id \in DOMAIN jobs
                       /\ s.attempt \in 1 .. jobs[s.job_id].attempt

\* The inductive invariant of the history.
OutcomeInv ==
    JobInv /\ ReceiptInv /\ SettledType /\ NoAttemptIsGuessed /\ ReportsMeetTheirAttempt

\* A step that settles the last attempt of job `id`.
SettlingStep(id, by) ==
    /\ id \in DOMAIN jobs /\ IsOpen(jobs[id])
    /\ DOMAIN jobs' = DOMAIN jobs
    /\ \A x \in DOMAIN jobs \ {id} : jobs'[x] = jobs[x]
    /\ jobs'[id].spec = jobs[id].spec /\ jobs'[id].attempt = jobs[id].attempt
    /\ ~IsOpen(jobs'[id])
    /\ by = "ack" => jobs'[id].state = "Succeeded"
    /\ by = "cancel" => jobs'[id].state = "Cancelled"
    /\ settled' = settled \cup {[job_id |-> id, attempt |-> jobs[id].attempt, by |-> by]}

\* A step that settles nothing: an attempt of a job that requires
\* reconciliation stays open, and an attempt begins only when none is open.
UnsettledStep ==
    /\ settled' = settled
    /\ FinishedKept
    /\ DOMAIN jobs \subseteq DOMAIN jobs'
    /\ \A id \in DOMAIN jobs' \ DOMAIN jobs : jobs'[id].attempt = 0
    /\ \A id \in DOMAIN jobs :
          /\ jobs'[id].spec = jobs[id].spec
          /\ \/ /\ jobs'[id].attempt = jobs[id].attempt
                /\ IsOpen(jobs'[id]) => IsOpen(jobs[id])
                /\ IsOpen(jobs[id]) /\ ~IsOpen(jobs'[id]) =>
                       jobs[id].spec.effect_mode # "RequiresReconciliation"
             \/ /\ ~IsOpen(jobs[id]) /\ IsOpen(jobs'[id])
                /\ jobs'[id].attempt = jobs[id].attempt + 1

-----------------------------------------------------------------------------
\* The attempt numbers are naturals, and a job with an open attempt has begun one.
LEMMA OpenAttempts ==
    ASSUME JobInv, NEW id \in DOMAIN jobs
    PROVE  /\ jobs[id].attempt \in Nat
           /\ IsOpen(jobs[id]) => jobs[id].attempt > 0
<1>1. jobs[id].attempt \in Nat /\ AttemptsOK(jobs[id])
  BY DEF JobInv, TypeOK, JobRow, AttemptsBounded
<1> QED
  BY <1>1 DEF AttemptsOK, IsOpen

\* Settling the open attempt of a job keeps the history right.
LEMMA SettlingKeepsHistory ==
    ASSUME JobInv, SettledType, NoAttemptIsGuessed, ReportsMeetTheirAttempt,
           NEW id, NEW by, SettlingStep(id, by)
    PROVE  SettledType' /\ NoAttemptIsGuessed' /\ ReportsMeetTheirAttempt'
<1> DEFINE new == [job_id |-> id, attempt |-> jobs[id].attempt, by |-> by]
<1>1. new.job_id = id /\ new.attempt = jobs[id].attempt /\ new.by = by
  OBVIOUS
<1>2. /\ id \in DOMAIN jobs /\ DOMAIN jobs' = DOMAIN jobs /\ IsOpen(jobs[id])
      /\ ~IsOpen(jobs'[id]) /\ jobs'[id].attempt = jobs[id].attempt
      /\ jobs'[id].spec = jobs[id].spec
      /\ by = "ack" => jobs'[id].state = "Succeeded"
      /\ by = "cancel" => jobs'[id].state = "Cancelled"
      /\ settled' = settled \cup {new}
      /\ \A x \in DOMAIN jobs \ {id} : jobs'[x] = jobs[x]
  BY DEF SettlingStep
<1> HIDE DEF new
<1>3. jobs[id].attempt \in Nat /\ jobs[id].attempt > 0
  BY <1>2, OpenAttempts
<1>4. \A x \in DOMAIN jobs : jobs'[x].attempt = jobs[x].attempt /\ jobs'[x].spec = jobs[x].spec
  BY <1>2
<1>5. \A x \in DOMAIN jobs : \A k : IsOver(x, k)' <=> IsOver(x, k) \/ x = id
  BY <1>2, <1>4 DEF IsOver, IsOpen
<1>6. SettledType'
  <2>1. new.attempt \in 1 .. jobs[id].attempt
    BY <1>1, <1>3
  <2> QED
    BY <1>1, <1>2, <1>4, <2>1 DEF SettledType
<1>7. NoAttemptIsGuessed'
  <2>1. SUFFICES ASSUME NEW x \in DOMAIN jobs,
                        jobs[x].spec.effect_mode = "RequiresReconciliation",
                        NEW k \in 1 .. jobs[x].attempt, IsOver(x, k)'
                 PROVE  \E s \in settled' : s.job_id = x /\ s.attempt = k
    BY <1>2, <1>4 DEF NoAttemptIsGuessed
  <2>2. CASE IsOver(x, k)
    BY <1>2, <2>1, <2>2 DEF NoAttemptIsGuessed
  <2>3. CASE ~IsOver(x, k)
    <3>1. x = id /\ ~(k < jobs[id].attempt)
      BY <1>5, <2>1, <2>3 DEF IsOver
    <3>2. k = jobs[id].attempt
      BY <1>3, <2>1, <3>1
    <3> QED
      BY <1>1, <1>2, <3>1, <3>2
  <2> QED
    BY <2>2, <2>3
<1>8. ReportsMeetTheirAttempt'
  <2>1. \A s \in settled : ~(s.job_id = id /\ s.attempt = jobs[id].attempt)
    BY <1>2, <1>3 DEF ReportsMeetTheirAttempt, IsOver, IsOpen
  <2>2. SUFFICES ASSUME NEW s \in settled \cup {new}
                 PROVE  /\ IsOver(s.job_id, s.attempt)'
                        /\ \A other \in settled \cup {new} :
                              other.job_id = s.job_id /\ other.attempt = s.attempt => other = s
                        /\ s.by = "ack" => /\ jobs'[s.job_id].state = "Succeeded"
                                           /\ jobs'[s.job_id].attempt = s.attempt
                        /\ s.by = "cancel" => /\ jobs'[s.job_id].state = "Cancelled"
                                              /\ jobs'[s.job_id].attempt = s.attempt
    BY <1>2 DEF ReportsMeetTheirAttempt
  <2>3. CASE s = new
    BY <1>1, <1>2, <1>5, <2>1, <2>3
  <2>4. CASE s \in settled
    <3>1. s.job_id \in DOMAIN jobs /\ IsOver(s.job_id, s.attempt)
      BY <2>4 DEF SettledType, ReportsMeetTheirAttempt
    <3>2. \A other \in settled \cup {new} :
             other.job_id = s.job_id /\ other.attempt = s.attempt => other = s
      BY <1>1, <2>1, <2>4 DEF ReportsMeetTheirAttempt
    <3>3. s.by \in {"ack", "cancel"} => s.job_id # id
      BY <1>2, <2>4 DEF ReportsMeetTheirAttempt, IsOpen
    <3> QED
      BY <1>2, <1>5, <2>4, <3>1, <3>2, <3>3 DEF ReportsMeetTheirAttempt
  <2> QED
    BY <2>2, <2>3, <2>4
<1> QED
  BY <1>6, <1>7, <1>8

\* A step that settles nothing keeps the history right.
LEMMA UnsettledKeepsHistory ==
    ASSUME JobInv, SettledType, NoAttemptIsGuessed, ReportsMeetTheirAttempt, UnsettledStep
    PROVE  SettledType' /\ NoAttemptIsGuessed' /\ ReportsMeetTheirAttempt'
<1>1. \A id \in DOMAIN jobs : /\ id \in DOMAIN jobs' /\ jobs[id].attempt \in Nat
                              /\ jobs'[id].attempt \in {jobs[id].attempt, jobs[id].attempt + 1}
                              /\ jobs'[id].spec = jobs[id].spec
  BY OpenAttempts DEF UnsettledStep
<1>2. SettledType'
  BY <1>1 DEF SettledType, UnsettledStep
<1>3. NoAttemptIsGuessed'
  <2>1. SUFFICES ASSUME NEW x \in DOMAIN jobs',
                        jobs'[x].spec.effect_mode = "RequiresReconciliation",
                        NEW k \in 1 .. jobs'[x].attempt, IsOver(x, k)'
                 PROVE  \E s \in settled : s.job_id = x /\ s.attempt = k
    BY DEF NoAttemptIsGuessed, UnsettledStep
  <2>2. x \in DOMAIN jobs
    BY <2>1 DEF UnsettledStep
  <2>3. k \in 1 .. jobs[x].attempt /\ IsOver(x, k)
    BY <1>1, <2>1, <2>2 DEF UnsettledStep, IsOver, IsOpen
  <2> QED
    BY <1>1, <2>1, <2>2, <2>3 DEF NoAttemptIsGuessed
<1>4. ReportsMeetTheirAttempt'
  <2>1. SUFFICES ASSUME NEW s \in settled
                 PROVE  /\ IsOver(s.job_id, s.attempt)'
                        /\ \A other \in settled :
                              other.job_id = s.job_id /\ other.attempt = s.attempt => other = s
                        /\ s.by = "ack" => /\ jobs'[s.job_id].state = "Succeeded"
                                           /\ jobs'[s.job_id].attempt = s.attempt
                        /\ s.by = "cancel" => /\ jobs'[s.job_id].state = "Cancelled"
                                              /\ jobs'[s.job_id].attempt = s.attempt
    BY DEF ReportsMeetTheirAttempt, UnsettledStep
  <2>2. /\ s.job_id \in DOMAIN jobs /\ s.attempt \in 1 .. jobs[s.job_id].attempt
        /\ IsOver(s.job_id, s.attempt)
    BY DEF SettledType, ReportsMeetTheirAttempt
  <2>3. IsOver(s.job_id, s.attempt)'
    BY <1>1, <2>2 DEF UnsettledStep, IsOver, IsOpen
  <2>4. s.by \in {"ack", "cancel"} => jobs'[s.job_id] = jobs[s.job_id]
    BY <2>2 DEF ReportsMeetTheirAttempt, UnsettledStep, FinishedKept, TerminalStates
  <2> QED
    BY <2>3, <2>4 DEF ReportsMeetTheirAttempt
<1> QED
  BY <1>2, <1>3, <1>4

-----------------------------------------------------------------------------
(* Which operations settle an attempt *)

\* A report that carries a job's current token is about its last attempt.
LEMMA TokenMeansAttempt ==
    ASSUME JobInv, ReceiptInv, NEW id \in DOMAIN jobs, NEW token \in IssuedTokens,
           HoldsToken(jobs[id], token)
    PROVE  jobs[id].state = "Leased" /\ AttemptOf(token) = jobs[id].attempt
<1>1. token # None
  BY NoneAssumption DEF IssuedTokens, JobInv, TypeOK, ReceiptRow
<1>2. jobs[id].state = "Leased" /\ jobs[id].lease_token = token
  BY <1>1 DEF HoldsToken, JobInv, SchemaChecks, RowChecks
<1>3. PICK r \in claim_receipts : r.lease_token = token /\ r.attempt = jobs[id].attempt
  BY <1>2 DEF ReceiptInv, LeaseMatchesReceipt
<1> DEFINE chosen == CHOOSE s \in claim_receipts : s.lease_token = token
<1>4. chosen \in claim_receipts /\ chosen.lease_token = token
  BY <1>3
<1> HIDE DEF chosen
<1>5. chosen = r
  BY <1>3, <1>4 DEF ReceiptInv, TokensUnique
<1> QED
  BY <1>2, <1>3, <1>5 DEF AttemptOf, chosen

\* Writing a released row for a job with an open attempt settles the attempt.
LEMMA ReleaseSettles ==
    ASSUME JobInv, NEW id \in DOMAIN jobs, IsOpen(jobs[id]), NEW state \in JobStates,
           state \notin {"Leased", "Uncertain"}, NEW retry \in Time \cup {None},
           jobs' = [jobs EXCEPT ![id] = Released(@, state, retry)],
           NEW by, by = "ack" => state = "Succeeded", by = "cancel" => state = "Cancelled",
           Settle(id, jobs[id].attempt, by)
    PROVE  SettlingStep(id, by)
<1> DEFINE row == Released(jobs[id], state, retry)
<1>1. jobs[id] \in JobRow
  BY DEF JobInv, TypeOK
<1>2. row.spec = jobs[id].spec /\ row.attempt = jobs[id].attempt /\ row.state = state
  BY <1>1, ReleasedType
<1>3. jobs' = [jobs EXCEPT ![id] = row]
  OBVIOUS
<1> HIDE DEF row
<1>4. /\ DOMAIN jobs' = DOMAIN jobs /\ jobs'[id] = row
      /\ \A x \in DOMAIN jobs \ {id} : jobs'[x] = jobs[x]
  BY <1>3 DEF JobInv, TypeOK
<1>5. ~IsOpen(jobs'[id])
  BY <1>2, <1>4 DEF IsOpen
<1> QED
  BY <1>2, <1>4, <1>5 DEF SettlingStep, Settle

\* apply_ack settles an attempt.
LEMMA AckSettles ==
    ASSUME JobInv, ReceiptInv, AckAttempt
    PROVE  \E id : SettlingStep(id, "ack")
<1>1. PICK id \in JobIds, token \in IssuedTokens :
          ApplyAck(id, token) /\ Settle(id, AttemptOf(token), "ack")
  BY DEF AckAttempt
<1>2. id \in DOMAIN jobs /\ HoldsToken(jobs[id], token)
  BY <1>1 DEF ApplyAck, CanReport
<1>3. jobs[id].state = "Leased" /\ AttemptOf(token) = jobs[id].attempt
  BY <1>2, TokenMeansAttempt
<1>4. jobs' = [jobs EXCEPT ![id] = Released(@, "Succeeded", None)]
  BY <1>1 DEF ApplyAck, SetTerminal
<1>5. IsOpen(jobs[id]) /\ "Succeeded" \in JobStates
  BY <1>3 DEF IsOpen, JobStates, TerminalStates
<1> QED
  BY <1>1, <1>2, <1>3, <1>4, <1>5, ReleaseSettles

\* apply_cancel with a token settles an attempt.
LEMMA CancelSettles ==
    ASSUME JobInv, ReceiptInv, CancelAttempt
    PROVE  \E id : SettlingStep(id, "cancel")
<1>1. PICK id \in JobIds, token \in IssuedTokens :
          ApplyCancel(id, token) /\ Settle(id, AttemptOf(token), "cancel")
  BY DEF CancelAttempt
<1>2. token # None
  BY NoneAssumption DEF IssuedTokens, JobInv, TypeOK, ReceiptRow
<1>3. id \in DOMAIN jobs /\ HoldsToken(jobs[id], token)
  BY <1>1, <1>2 DEF ApplyCancel, CanCancel
<1>4. jobs[id].state = "Leased" /\ AttemptOf(token) = jobs[id].attempt
  BY <1>3, TokenMeansAttempt
<1>5. jobs' = [jobs EXCEPT ![id] = Released(@, "Cancelled", None)]
  BY <1>1 DEF ApplyCancel, SetTerminal
<1>6. IsOpen(jobs[id]) /\ "Cancelled" \in JobStates
  BY <1>4 DEF IsOpen, JobStates, TerminalStates
<1> QED
  BY <1>1, <1>3, <1>4, <1>5, <1>6, ReleaseSettles

\* apply_fail settles an attempt, whether the job is retried or dead.
LEMMA FailSettles ==
    ASSUME JobInv, ReceiptInv, FailAttempt
    PROVE  \E id : SettlingStep(id, "fail")
<1>1. PICK id \in JobIds, token \in IssuedTokens, retry_after \in Clocks \cup {None},
           now \in Clocks :
          ApplyFail(id, token, retry_after, now) /\ Settle(id, AttemptOf(token), "fail")
  BY DEF FailAttempt
<1>2. id \in DOMAIN jobs /\ HoldsToken(jobs[id], token)
  BY <1>1 DEF ApplyFail, CanFail, CanReport
<1>3. jobs[id].state = "Leased" /\ AttemptOf(token) = jobs[id].attempt
  BY <1>2, TokenMeansAttempt
<1>4. IsOpen(jobs[id]) /\ "Dead" \in JobStates /\ "RetryWait" \in JobStates
  BY <1>3 DEF IsOpen, JobStates, TerminalStates, ActiveStates
<1>5. CASE Exhausted(jobs[id])
  <2>1. jobs' = [jobs EXCEPT ![id] = Released(@, "Dead", None)]
    BY <1>1, <1>5 DEF ApplyFail, SetTerminal
  <2> QED
    BY <1>1, <1>2, <1>3, <1>4, <2>1, ReleaseSettles
<1>6. CASE ~Exhausted(jobs[id])
  <2>1. PICK t \in RetryTimes(retry_after, now) : SetNonterminal(id, "RetryWait", t)
    BY <1>1, <1>6 DEF ApplyFail
  <2>2. t \in Time
    BY <2>1, SpecAssumption DEF RetryTimes
  <2>3. jobs' = [jobs EXCEPT ![id] = Released(@, "RetryWait", t)]
    BY <2>1 DEF SetNonterminal
  <2> QED
    BY <1>1, <1>2, <1>3, <1>4, <2>2, <2>3, ReleaseSettles
<1> QED
  BY <1>5, <1>6

\* apply_resolve settles an attempt: the table lets it act on leased and
\* uncertain jobs only.
LEMMA ResolveSettles ==
    ASSUME JobInv, ReceiptInv, ResolveAttempt
    PROVE  \E id : SettlingStep(id, "resolve")
<1>1. PICK id \in JobIds, resolution \in Resolutions :
          ApplyResolve(id, resolution) /\ Settle(id, jobs[id].attempt, "resolve")
  BY DEF ResolveAttempt
<1> DEFINE to == ResolvedState(jobs[id], resolution)
<1>2. id \in DOMAIN jobs /\ CanTransitionTo(jobs[id].state, to)
  BY <1>1 DEF ApplyResolve, CanResolve
<1>3. to \in {"Succeeded", "Dead", "Pending"}
  BY DEF ResolvedState, Resolutions
<1>4. jobs' = [jobs EXCEPT ![id] = Released(@, to, None)]
  BY <1>1 DEF ApplyResolve, SetTerminal, SetNonterminal
<1> HIDE DEF to
<1>5. IsOpen(jobs[id]) /\ to \in JobStates /\ to \notin {"Leased", "Uncertain"}
  BY <1>2, <1>3 DEF IsOpen, CanTransitionTo, JobStates, ActiveStates, TerminalStates
<1> QED
  BY <1>1, <1>2, <1>4, <1>5, ReleaseSettles

-----------------------------------------------------------------------------
(* Which operations settle nothing *)

\* Cancelling a job nobody holds, enqueueing, extending and claiming.
LEMMA OthersSettleNothing ==
    ASSUME JobInv, UNCHANGED settled, CancelPending \/ Enqueue \/ ExtendLease \/ Claim
    PROVE  UnsettledStep
<1>1. FinishedKept
  <2>1. CancelPending => Cancel
    BY DEF CancelPending, Cancel
  <2>2. [FinishedKept]_storeVars
    BY <2>1, StepKeepsFinished DEF Next
  <2> QED
    BY <2>2 DEF storeVars, FinishedKept
<1>2. CASE CancelPending
  <2>1. PICK id \in JobIds : ApplyCancel(id, None)
    BY <1>2 DEF CancelPending
  <2>2. id \in DOMAIN jobs /\ jobs[id].state = "Pending" /\ jobs[id] \in JobRow
    BY <2>1 DEF ApplyCancel, CanCancel, JobInv, TypeOK
  <2>3. jobs' = [jobs EXCEPT ![id] = Released(@, "Cancelled", None)]
    BY <2>1 DEF ApplyCancel, SetTerminal
  <2>4. LET row == Released(jobs[id], "Cancelled", None) IN
        row.spec = jobs[id].spec /\ row.attempt = jobs[id].attempt /\ row.state = "Cancelled"
    BY <2>2, ReleasedType DEF JobStates, TerminalStates
  <2>5. /\ DOMAIN jobs' = DOMAIN jobs /\ jobs'[id].spec = jobs[id].spec
        /\ jobs'[id].attempt = jobs[id].attempt /\ jobs'[id].state = "Cancelled"
        /\ \A x \in DOMAIN jobs \ {id} : jobs'[x] = jobs[x]
    BY <2>2, <2>3, <2>4
  <2> QED
    BY <1>1, <2>2, <2>5 DEF UnsettledStep, IsOpen
<1>3. CASE Enqueue
  <2>1. PICK spec \in JobSpecs : ApplyEnqueue(spec)
    BY <1>3 DEF Enqueue
  <2>2. NewRow(spec).attempt = 0
    BY DEF NewRow
  <2> QED
    BY <1>1, <2>1, <2>2 DEF ApplyEnqueue, CanEnqueue, UnsettledStep
<1>4. CASE ExtendLease
  <2>1. PICK id \in JobIds, token \in IssuedTokens, new_expiry \in Time, now \in Clocks :
             ApplyExtendLease(id, token, new_expiry, now)
    BY <1>4 DEF ExtendLease
  <2>2. id \in DOMAIN jobs /\ jobs[id] \in JobRow
    BY <2>1 DEF ApplyExtendLease, CanExtend, JobInv, TypeOK
  <2>3. /\ DOMAIN jobs' = DOMAIN jobs
        /\ \A x \in DOMAIN jobs : x # id => jobs'[x] = jobs[x]
        /\ jobs'[id] = [jobs[id] EXCEPT !.lease_expires_at_ms = new_expiry]
    BY <2>1, <2>2 DEF ApplyExtendLease
  <2>4. /\ jobs'[id].spec = jobs[id].spec /\ jobs'[id].attempt = jobs[id].attempt
        /\ jobs'[id].state = jobs[id].state
    BY <2>2, <2>3 DEF JobRow
  <2> QED
    BY <1>1, <2>3, <2>4 DEF UnsettledStep, IsOpen
<1>5. CASE Claim
  <2>1. PICK t \in TxIds, worker \in Workers, grants \in SUBSET DOMAIN jobs,
             repairs \in SUBSET DOMAIN jobs, expiry \in Time :
             Claimed(t, worker, expiry, grants, repairs)
    BY <1>5, ClaimEffect, SpecAssumption DEF Claim
  <2>2. \A id \in repairs : /\ IsOpen(jobs[id])
                            /\ IsOpen(jobs'[id]) \/
                               jobs[id].spec.effect_mode # "RequiresReconciliation"
    BY <2>1 DEF Claimed, MaintenanceState, IsOpen
  <2>3. \A id \in grants : ~IsOpen(jobs[id]) /\ IsOpen(jobs'[id])
    BY <2>1 DEF Claimed, IsOpen
  <2> QED
    BY <1>1, <2>1, <2>2, <2>3 DEF Claimed, UnsettledStep
<1> QED
  BY <1>2, <1>3, <1>4, <1>5

\* Every step keeps the inductive invariant.
LEMMA OutcomeStep == OutcomeInv /\ [OutcomeNext]_<<storeVars, settled>> => OutcomeInv'
<1> SUFFICES ASSUME OutcomeInv, [OutcomeNext]_<<storeVars, settled>> PROVE OutcomeInv'
  OBVIOUS
<1>1. [Next]_storeVars
  BY DEF OutcomeNext, AckAttempt, FailAttempt, CancelAttempt, ResolveAttempt, CancelPending,
         Settle, Next, Ack, Fail, Cancel, Resolve
<1>2. JobInv' /\ ReceiptInv'
  BY <1>1, NextInv, NextReceipts DEF OutcomeInv
<1>3. CASE \E id, by : SettlingStep(id, by)
  BY <1>2, <1>3, SettlingKeepsHistory DEF OutcomeInv
<1>4. CASE UnsettledStep
  BY <1>2, <1>4, UnsettledKeepsHistory DEF OutcomeInv
<1>5. CASE AckAttempt \/ FailAttempt \/ CancelAttempt \/ ResolveAttempt
  BY <1>3, <1>5, AckSettles, FailSettles, CancelSettles, ResolveSettles DEF OutcomeInv
<1>6. CASE (CancelPending \/ Enqueue \/ ExtendLease \/ Claim) /\ UNCHANGED settled
  BY <1>4, <1>6, OthersSettleNothing DEF OutcomeInv
<1>7. CASE UNCHANGED <<storeVars, settled>>
  BY <1>4, <1>7 DEF storeVars, UnsettledStep, FinishedKept
<1> QED
  BY <1>5, <1>6, <1>7 DEF OutcomeNext, CancelPending

\* The history is right in every reachable state.
THEOREM OutcomeInvariant == OutcomeSpec => []OutcomeInv
<1>1. OutcomeInit => OutcomeInv
  <2>1. OutcomeInit => SettledType /\ NoAttemptIsGuessed /\ ReportsMeetTheirAttempt
    BY DEF OutcomeInit, Init, SettledType, NoAttemptIsGuessed, ReportsMeetTheirAttempt
  <2> QED
    BY <2>1, InitInv, InitReceipts DEF OutcomeInit, OutcomeInv
<1> QED
  BY <1>1, OutcomeStep, PTL DEF OutcomeSpec

\* No attempt of a job that requires reconciliation ends without its worker's
\* report or an operator's decision.
THEOREM AttemptsAreNotGuessed == OutcomeSpec => []NoAttemptIsGuessed
<1>1. OutcomeInv => NoAttemptIsGuessed
  BY DEF OutcomeInv
<1> QED
  BY <1>1, OutcomeInvariant, PTL

\* Each attempt is settled at most once, by a report meant for it.
THEOREM ReportsAreMetOnce == OutcomeSpec => []ReportsMeetTheirAttempt
<1>1. OutcomeInv => ReportsMeetTheirAttempt
  BY DEF OutcomeInv
<1> QED
  BY <1>1, OutcomeInvariant, PTL

-----------------------------------------------------------------------------
(* The rounds of claims *)

\* The round that starts after the cursor is a strict total order.
LEMMA RoundIsOrder ==
    ASSUME NEW p \in Nat, NEW q \in Nat, NEW r \in Nat, NEW cursor \in Nat \cup {None}
    PROVE  /\ ~VisitedBefore(p, p, cursor)
           /\ p # q => VisitedBefore(p, q, cursor) \/ VisitedBefore(q, p, cursor)
           /\ VisitedBefore(p, q, cursor) /\ VisitedBefore(q, r, cursor)
                  => VisitedBefore(p, r, cursor)
<1>1. CASE cursor = None
  BY <1>1 DEF VisitedBefore
<1>2. CASE cursor # None
  BY <1>2 DEF VisitedBefore
<1> QED
  BY <1>1, <1>2

\* Moving the cursor to a partition visited before p leaves p ahead of those
\* that it was ahead of, and puts it ahead of the ones visited up to there.
LEMMA CursorMovesOn ==
    ASSUME NEW p \in Nat, NEW r \in Nat, NEW last \in Nat, NEW cursor \in Nat \cup {None},
           VisitedBefore(last, p, cursor)
    PROVE  /\ VisitedBefore(p, r, cursor) => VisitedBefore(p, r, last)
           /\ r = last \/ VisitedBefore(r, last, cursor) => VisitedBefore(p, r, last)
<1>0. last # None
  BY NoneAssumption
<1>1. CASE cursor = None
  BY <1>0, <1>1 DEF VisitedBefore
<1>2. CASE cursor # None
  BY <1>0, <1>2 DEF VisitedBefore
<1> QED
  BY <1>1, <1>2

-----------------------------------------------------------------------------
\* The ready heads that a claim meets before the head id.
Before(queue, now, id) ==
    {other \in ReadyHeads(queue, now) : VisitedBefore(jobs[other].spec.partition_key,
                                                      jobs[id].spec.partition_key,
                                                      queue_cursors[queue])}

\* The tables hold finitely many jobs.
FiniteJobs == IsFiniteSet(DOMAIN jobs)

\* plan_leases in terms of Before.
LEMMA PlanByRank ==
    ASSUME NEW queue, NEW now, NEW limit
    PROVE  LeasePlan(queue, now, limit) =
               {id \in ReadyHeads(queue, now) : Cardinality(Before(queue, now, id)) < limit}
BY DEF LeasePlan, Before

\* The partition keys of jobs and the cursors are comparable.
LEMMA KeysComparable ==
    ASSUME TypeOK
    PROVE  /\ \A id \in DOMAIN jobs : jobs[id].spec.partition_key \in Nat
           /\ \A queue \in Queues : queue_cursors[queue] \in Nat \cup {None}
           /\ \A id \in DOMAIN jobs : jobs[id].spec.partition_key \in Partitions
BY SpecAssumption DEF TypeOK, JobRow, JobSpecType

\* A partition has one head.
LEMMA HeadsApart ==
    ASSUME JobInv, NEW queue, NEW now, NEW a \in ReadyHeads(queue, now),
           NEW b \in ReadyHeads(queue, now),
           jobs[a].spec.partition_key = jobs[b].spec.partition_key
    PROVE  a = b
<1>1. /\ a \in DOMAIN jobs /\ b \in DOMAIN jobs
      /\ PartitionOf(jobs[a]) = PartitionOf(jobs[b])
      /\ IsHead(jobs, a) /\ IsHead(jobs, b)
  BY DEF ReadyHeads, PartitionOf
<1>2. jobs[a] \in JobRow /\ jobs[b] \in JobRow
  BY <1>1 DEF JobInv, TypeOK
<1>3. jobs[a].enqueue_sequence = jobs[b].enqueue_sequence
  BY <1>1, <1>2 DEF IsHead, JobRow
<1> QED
  BY <1>1, <1>3 DEF JobInv, SchemaChecks

\* A head met earlier has fewer heads before it.
LEMMA RankGrows ==
    ASSUME JobInv, FiniteJobs, NEW queue \in Queues, NEW now,
           NEW a \in ReadyHeads(queue, now), NEW b \in ReadyHeads(queue, now)
    PROVE  /\ IsFiniteSet(Before(queue, now, a))
           /\ Cardinality(Before(queue, now, a)) \in Nat
           /\ a \in Before(queue, now, b) =>
                 Cardinality(Before(queue, now, a)) < Cardinality(Before(queue, now, b))
           /\ a = b \/ a \in Before(queue, now, b) \/ b \in Before(queue, now, a)
<1> DEFINE key(id) == jobs[id].spec.partition_key
<1>1. ReadyHeads(queue, now) \subseteq DOMAIN jobs
  BY DEF ReadyHeads
<1>2. TypeOK
  BY DEF JobInv
<1>3. \A id \in ReadyHeads(queue, now) : IsFiniteSet(Before(queue, now, id))
  <2> TAKE id \in ReadyHeads(queue, now)
  <2>1. Before(queue, now, id) \in SUBSET DOMAIN jobs
    BY <1>1 DEF Before
  <2> QED
    BY <2>1, FS_Subset DEF FiniteJobs
<1>4. Cardinality(Before(queue, now, a)) \in Nat /\ Cardinality(Before(queue, now, b)) \in Nat
  BY <1>3, FS_CardinalityType
<1>5. a = b \/ a \in Before(queue, now, b) \/ b \in Before(queue, now, a)
  <2>1. SUFFICES ASSUME key(a) # key(b)
                 PROVE  a \in Before(queue, now, b) \/ b \in Before(queue, now, a)
    BY HeadsApart
  <2>2. key(a) \in Nat /\ key(b) \in Nat /\ queue_cursors[queue] \in Nat \cup {None}
    BY <1>1, <1>2, KeysComparable
  <2>3. VisitedBefore(key(a), key(b), queue_cursors[queue])
        \/ VisitedBefore(key(b), key(a), queue_cursors[queue])
    BY <2>1, <2>2, RoundIsOrder
  <2> QED
    BY <2>3 DEF Before
<1>6. ASSUME a \in Before(queue, now, b)
      PROVE  Cardinality(Before(queue, now, a)) < Cardinality(Before(queue, now, b))
  <2>1. \A id \in ReadyHeads(queue, now) : key(id) \in Nat
    BY <1>1, <1>2, KeysComparable
  <2>2. queue_cursors[queue] \in Nat \cup {None}
    BY <1>2, KeysComparable
  <2>3. VisitedBefore(key(a), key(b), queue_cursors[queue])
    BY <1>6 DEF Before
  <2>4. ASSUME NEW c \in ReadyHeads(queue, now),
               VisitedBefore(key(c), key(a), queue_cursors[queue])
        PROVE  VisitedBefore(key(c), key(b), queue_cursors[queue])
    <3>1. key(a) \in Nat /\ key(b) \in Nat /\ key(c) \in Nat
      BY <2>1
    <3> HIDE DEF key
    <3> QED
      BY <3>1, <2>2, <2>3, <2>4, RoundIsOrder
  <2>5. a \notin Before(queue, now, a)
    <3>1. key(a) \in Nat
      BY <2>1
    <3> QED
      BY <3>1, <2>2, RoundIsOrder DEF Before
  <2>6. Before(queue, now, a) \in SUBSET Before(queue, now, b)
    BY <2>4 DEF Before
  <2>7. /\ Cardinality(Before(queue, now, a)) <= Cardinality(Before(queue, now, b))
        /\ Cardinality(Before(queue, now, b)) = Cardinality(Before(queue, now, a))
               => Before(queue, now, b) = Before(queue, now, a)
    BY <1>3, <2>6, FS_Subset
  <2> QED
    BY <1>4, <1>6, <2>5, <2>7
<1> QED
  BY <1>3, <1>4, <1>5, <1>6

\* A claim leases from the partitions it meets first.
LEMMA LeasedFirst ==
    ASSUME JobInv, FiniteJobs, NEW queue \in Queues, NEW now, NEW limit \in Nat,
           NEW g \in LeasePlan(queue, now, limit),
           NEW o \in ReadyHeads(queue, now), o \notin LeasePlan(queue, now, limit)
    PROVE  g \in Before(queue, now, o)
<1>1. g \in ReadyHeads(queue, now) /\ Cardinality(Before(queue, now, g)) < limit
  BY PlanByRank
<1>2. ~(Cardinality(Before(queue, now, o)) < limit)
  BY PlanByRank
<1>3. /\ Cardinality(Before(queue, now, g)) \in Nat
      /\ Cardinality(Before(queue, now, o)) \in Nat
  BY <1>1, RankGrows
<1>4. o \in Before(queue, now, g) =>
          Cardinality(Before(queue, now, o)) < Cardinality(Before(queue, now, g))
  BY <1>1, RankGrows
<1>5. g = o \/ g \in Before(queue, now, o) \/ o \in Before(queue, now, g)
  BY <1>1, RankGrows
<1> QED
  BY <1>1, <1>2, <1>3, <1>4, <1>5

-----------------------------------------------------------------------------
\* A partition has been overtaken by another one at most once, and then it is
\* ahead of it in the round that comes next.
RoundOK ==
    /\ overtaken \in [Pairs -> {0, 1}]
    /\ \A q \in Queues, p \in Partitions, r \in Partitions :
          overtaken[<<q, p, r>>] = 1 => VisitedBefore(p, r, queue_cursors[q])

FairInv == JobInv /\ FiniteJobs /\ RoundOK

\* What a claim does to the cursor of its queue.
LEMMA CursorStep ==
    ASSUME JobInv, NEW queue \in Queues, NEW worker, NEW now, NEW lease_ms, NEW limit, NEW t,
           ClaimJobs(t, queue, worker, now, lease_ms, limit)
    PROVE  /\ \A q \in Queues \ {queue} : queue_cursors'[q] = queue_cursors[q]
           /\ LeasePlan(queue, now, limit) = {} => queue_cursors'[queue] = queue_cursors[queue]
           /\ LeasePlan(queue, now, limit) # {} =>
                 LastLeased(LeasePlan(queue, now, limit), queue_cursors'[queue],
                            queue_cursors[queue])
<1>1. queue_cursors \in [Queues -> Partitions \cup {None}]
  BY DEF JobInv, TypeOK
<1>2. CASE LeasePlan(queue, now, limit) = {}
  BY <1>2 DEF ClaimJobs
<1>3. CASE LeasePlan(queue, now, limit) # {}
  <2>1. PICK p \in Partitions :
           /\ LastLeased(LeasePlan(queue, now, limit), p, queue_cursors[queue])
           /\ queue_cursors' = [queue_cursors EXCEPT ![queue] = p]
    BY <1>3 DEF ClaimJobs
  <2>2. queue_cursors'[queue] = p
    BY <1>1, <2>1
  <2> QED
    BY <1>1, <1>3, <2>1, <2>2
<1> QED
  BY <1>2, <1>3

\* A partition left waiting by a claim has been met after the last one leased
\* from.
LEMMA WaitingIsLater ==
    ASSUME JobInv, FiniteJobs, NEW queue \in Queues, NEW now, NEW limit \in Nat,
           NEW p \in PartitionsOf(ReadyHeads(queue, now)),
           p \notin PartitionsOf(LeasePlan(queue, now, limit)),
           NEW g \in PartitionsOf(LeasePlan(queue, now, limit))
    PROVE  p \in Nat /\ g \in Nat /\ VisitedBefore(g, p, queue_cursors[queue])
<1>1. PICK o \in ReadyHeads(queue, now) : p = jobs[o].spec.partition_key
  BY DEF PartitionsOf
<1>2. PICK h \in LeasePlan(queue, now, limit) : g = jobs[h].spec.partition_key
  BY DEF PartitionsOf
<1>3. o \notin LeasePlan(queue, now, limit)
  BY <1>1 DEF PartitionsOf
<1>4. h \in Before(queue, now, o)
  BY <1>3, LeasedFirst
<1>5. o \in DOMAIN jobs /\ h \in DOMAIN jobs
  BY <1>4 DEF ReadyHeads, Before
<1>6. VisitedBefore(g, p, queue_cursors[queue])
  BY <1>1, <1>2, <1>4 DEF Before
<1> QED
  BY <1>1, <1>2, <1>5, <1>6, KeysComparable DEF JobInv

\* A claim keeps the round.
LEMMA ClaimKeepsRound ==
    ASSUME FairInv, NEW queue \in Queues, NEW worker, NEW now, NEW lease_ms,
           NEW limit \in Nat, NEW t,
           ClaimJobs(t, queue, worker, now, lease_ms, limit),
           overtaken' = Counted(queue, ReadyHeads(queue, now), LeasePlan(queue, now, limit))
    PROVE  RoundOK'
<1> DEFINE ready == PartitionsOf(ReadyHeads(queue, now))
           served == PartitionsOf(LeasePlan(queue, now, limit))
           cursor == queue_cursors[queue]
<1>1. /\ JobInv /\ FiniteJobs /\ TypeOK
      /\ overtaken \in [Pairs -> {0, 1}]
      /\ \A q \in Queues, p \in Partitions, r \in Partitions :
            overtaken[<<q, p, r>>] = 1 => VisitedBefore(p, r, queue_cursors[q])
  BY DEF FairInv, RoundOK, JobInv
<1>2. cursor \in Nat \cup {None}
  BY <1>1, KeysComparable
<1>3. Partitions \subseteq Nat
  BY SpecAssumption
<1>4. \A w \in Pairs : overtaken'[w] =
         IF w[1] # queue THEN overtaken[w]
         ELSE IF w[2] \notin ready \/ w[2] \in served THEN 0
         ELSE IF w[3] \in served THEN overtaken[w] + 1
         ELSE overtaken[w]
  BY DEF Counted
<1>5. overtaken' = [w \in Pairs |-> overtaken'[w]]
  BY DEF Counted
<1> HIDE DEF ready, served, cursor
<1>6. ASSUME NEW q \in Queues, NEW p \in Partitions, NEW r \in Partitions
      PROVE  /\ overtaken'[<<q, p, r>>] \in {0, 1}
             /\ overtaken'[<<q, p, r>>] = 1 => VisitedBefore(p, r, queue_cursors'[q])
  <2> DEFINE w == <<q, p, r>>
  <2>1. w \in Pairs /\ w[1] = q /\ w[2] = p /\ w[3] = r
    BY DEF Pairs
  <2>2. overtaken[w] \in {0, 1} /\ (overtaken[w] = 1 => VisitedBefore(p, r, queue_cursors[q]))
    BY <1>1, <2>1
  <2>3. overtaken'[w] =
         IF q # queue THEN overtaken[w]
         ELSE IF p \notin ready \/ p \in served THEN 0
         ELSE IF r \in served THEN overtaken[w] + 1
         ELSE overtaken[w]
    BY <1>4, <2>1
  <2> HIDE DEF w
  <2>4. CASE q # queue
    BY <1>1, <2>2, <2>3, <2>4, CursorStep DEF w
  <2>5. CASE q = queue /\ (p \notin ready \/ p \in served)
    BY <2>3, <2>5 DEF w
  <2>6. ASSUME q = queue, p \in ready, p \notin served, served # {}
        PROVE  /\ queue_cursors'[queue] \in Nat
               /\ VisitedBefore(queue_cursors'[queue], p, cursor)
               /\ r \in served => r = queue_cursors'[queue]
                                  \/ VisitedBefore(r, queue_cursors'[queue], cursor)
    <3>1. LeasePlan(queue, now, limit) # {}
      BY <2>6 DEF served, PartitionsOf
    <3>2. LastLeased(LeasePlan(queue, now, limit), queue_cursors'[queue], cursor)
      BY <1>1, <3>1, CursorStep DEF cursor
    <3>3. queue_cursors'[queue] \in served
      BY <3>2 DEF LastLeased, served, PartitionsOf
    <3>4. r \in served => r = queue_cursors'[queue]
                          \/ VisitedBefore(r, queue_cursors'[queue], cursor)
      BY <3>2 DEF LastLeased, served, PartitionsOf
    <3> QED
      BY <1>1, <2>6, <3>3, <3>4, WaitingIsLater DEF ready, served, cursor
  <2>7. CASE q = queue /\ p \in ready /\ p \notin served /\ r \in served
    <3>1. served # {}
      BY <2>7
    <3>2. VisitedBefore(r, p, cursor)
      BY <1>1, <2>7, WaitingIsLater DEF ready, served, cursor
    <3>3. ~VisitedBefore(p, r, cursor)
      BY <1>2, <1>3, <3>2, RoundIsOrder
    <3>4. overtaken[w] = 0
      BY <2>2, <2>7, <3>3 DEF cursor
    <3>5. VisitedBefore(p, r, queue_cursors'[queue])
      BY <1>2, <1>3, <2>6, <2>7, <3>1, CursorMovesOn
    <3> QED
      BY <2>3, <2>7, <3>4, <3>5 DEF w
  <2>8. CASE q = queue /\ p \in ready /\ p \notin served /\ r \notin served
    <3>1. overtaken'[w] = overtaken[w]
      BY <2>3, <2>8
    <3>2. CASE served = {}
      <4>1. LeasePlan(queue, now, limit) = {}
        BY <3>2 DEF served, PartitionsOf
      <4>2. queue_cursors'[queue] = queue_cursors[queue]
        BY <1>1, <4>1, CursorStep
      <4> QED
        BY <2>2, <2>8, <3>1, <4>2 DEF w
    <3>3. CASE served # {}
      <4>1. VisitedBefore(p, r, cursor) => VisitedBefore(p, r, queue_cursors'[queue])
        BY <1>2, <1>3, <2>6, <2>8, <3>3, CursorMovesOn
      <4> QED
        BY <2>2, <2>8, <3>1, <4>1 DEF w, cursor
    <3> QED
      BY <3>2, <3>3
  <2> QED
    BY <2>4, <2>5, <2>7, <2>8
<1>7. \A w \in Pairs : overtaken'[w] \in {0, 1}
  <2> TAKE w \in Pairs
  <2>1. PICK q \in Queues, p \in Partitions, r \in Partitions : w = <<q, p, r>>
    BY DEF Pairs
  <2> QED
    BY <1>6, <2>1
<1>8. overtaken' \in [Pairs -> {0, 1}]
  BY <1>5, <1>7
<1> QED
  BY <1>6, <1>8 DEF RoundOK

\* Only enqueue adds a row, and it adds one.
LEMMA JobsStayFinite ==
    ASSUME FiniteJobs, [Next]_storeVars
    PROVE  FiniteJobs'
<1>1. CASE Enqueue
  <2>1. PICK spec \in JobSpecs : ApplyEnqueue(spec)
    BY <1>1 DEF Enqueue
  <2>2. DOMAIN jobs' = DOMAIN jobs \cup {spec.job_id}
    BY <2>1 DEF ApplyEnqueue
  <2> QED
    BY <2>2, FS_AddElement DEF FiniteJobs
<1>2. CASE Ack \/ Fail \/ Cancel \/ Resolve
  <2>1. DOMAIN jobs' = DOMAIN jobs
    BY <1>2 DEF Ack, Fail, Cancel, Resolve, ApplyAck, ApplyFail, ApplyCancel, ApplyResolve,
                SetTerminal, SetNonterminal
  <2> QED
    BY <2>1 DEF FiniteJobs
<1>3. CASE ExtendLease
  <2>1. DOMAIN jobs' = DOMAIN jobs
    BY <1>3 DEF ExtendLease, ApplyExtendLease
  <2> QED
    BY <2>1 DEF FiniteJobs
<1>4. CASE Claim
  <2>1. DOMAIN jobs' = DOMAIN jobs
    BY <1>4 DEF Claim, ClaimJobs
  <2> QED
    BY <2>1 DEF FiniteJobs
<1>5. CASE UNCHANGED storeVars
  BY <1>5 DEF FiniteJobs, storeVars
<1> QED
  BY <1>1, <1>2, <1>3, <1>4, <1>5 DEF Next

\* The fairness invariant holds at the start, with empty tables.
LEMMA InitFair == FairInit => FairInv
<1> SUFFICES ASSUME FairInit PROVE FairInv
  OBVIOUS
<1>1. JobInv
  BY InitInv DEF FairInit
<1>2. FiniteJobs
  BY FS_EmptySet DEF FairInit, Init, FiniteJobs
<1>3. RoundOK
  BY DEF FairInit, RoundOK, Pairs
<1> QED
  BY <1>1, <1>2, <1>3 DEF FairInv

\* Every operation keeps the fairness invariant; only a claim moves a cursor.
LEMMA FairStep == FairInv /\ [FairNext]_<<storeVars, overtaken>> => FairInv'
<1> SUFFICES ASSUME FairInv, [FairNext]_<<storeVars, overtaken>> PROVE FairInv'
  OBVIOUS
<1>1. [Next]_storeVars
  BY DEF FairNext, CountedClaim, Claim, Next
<1>2. JobInv' /\ FiniteJobs'
  BY <1>1, NextInv, JobsStayFinite DEF FairInv
<1>3. RoundOK'
  <2>1. CASE CountedClaim
    <3>1. PICK t \in TxIds \ DOMAIN transactions, queue \in Queues, worker \in Workers,
               now \in Clocks, lease_ms \in LeaseDurations, limit \in ClaimLimits :
             /\ ClaimJobs(t, queue, worker, now, lease_ms, limit)
             /\ overtaken' = Counted(queue, ReadyHeads(queue, now),
                                     LeasePlan(queue, now, limit))
      BY <2>1 DEF CountedClaim
    <3>2. limit \in Nat
      BY SpecAssumption
    <3> QED
      BY <3>1, <3>2, ClaimKeepsRound
  <2>2. CASE UNCHANGED <<queue_cursors, overtaken>>
    BY <2>2 DEF FairInv, RoundOK
  <2>3. Enqueue \/ Ack \/ Fail \/ Cancel \/ Resolve \/ ExtendLease => UNCHANGED queue_cursors
    BY DEF Enqueue, Ack, Fail, Cancel, Resolve, ExtendLease, ApplyEnqueue, ApplyAck,
           ApplyFail, ApplyCancel, ApplyResolve, ApplyExtendLease, SetTerminal,
           SetNonterminal
  <2> QED
    BY <2>1, <2>2, <2>3 DEF FairNext, storeVars
<1> QED
  BY <1>2, <1>3 DEF FairInv

\* The fairness invariant holds in every reachable state.
THEOREM FairInvariant == FairSpec => []FairInv
BY InitFair, FairStep, PTL DEF FairSpec

\* No partition is leased from twice while another one of its queue waits with
\* a ready head, however partitions come and go between the claims.
THEOREM NobodyIsOvertakenTwice == FairSpec => []NoDoubleOvertaking
<1>1. FairInv => NoDoubleOvertaking
  BY DEF FairInv, RoundOK, NoDoubleOvertaking
<1> QED
  BY <1>1, FairInvariant, PTL

-----------------------------------------------------------------------------
\* A nonempty set of naturals has a least element.
LEMMA LeastNumber ==
    ASSUME NEW S \in SUBSET Nat, S # {}
    PROVE  \E m \in S : \A n \in S : m <= n
<1>1. PICK m \in S : \A n \in S : <<n, m>> \notin OpToRel(<, Nat)
  BY WFMin, NatLessThanWellFounded
<1>2. \A n \in S : ~(n < m)
  BY <1>1 DEF OpToRel
<1> QED
  BY <1>2

\* A plan has at most as many leases as were asked for: no two of them have
\* the same number of ready heads before them.
LEMMA PlanWithinLimit ==
    ASSUME JobInv, FiniteJobs, NEW queue \in Queues, NEW now, NEW limit \in Nat
    PROVE  /\ IsFiniteSet(LeasePlan(queue, now, limit))
           /\ Cardinality(LeasePlan(queue, now, limit)) <= limit
<1> DEFINE plan == LeasePlan(queue, now, limit)
           rank == [id \in plan |-> Cardinality(Before(queue, now, id))]
           T == 0 .. limit - 1
<1>1. plan \subseteq ReadyHeads(queue, now)
  BY PlanByRank
<1>2. \A id \in plan : rank[id] \in T
  BY <1>1, PlanByRank, RankGrows
<1>3. ASSUME NEW a \in plan, NEW b \in plan, rank[a] = rank[b]
      PROVE  a = b
  <2>1. /\ Cardinality(Before(queue, now, a)) \in Nat
        /\ a \in Before(queue, now, b) =>
              Cardinality(Before(queue, now, a)) < Cardinality(Before(queue, now, b))
        /\ a = b \/ a \in Before(queue, now, b) \/ b \in Before(queue, now, a)
    BY <1>1, RankGrows
  <2>2. b \in Before(queue, now, a) =>
              Cardinality(Before(queue, now, b)) < Cardinality(Before(queue, now, a))
    BY <1>1, RankGrows
  <2> QED
    BY <1>3, <2>1, <2>2
<1>4. rank \in Injection(plan, T)
  BY <1>2, <1>3 DEF Injection, IsInjective
<1>5. IsFiniteSet(T) /\ Cardinality(T) = limit
  BY FS_Interval
<1> HIDE DEF plan, rank, T
<1>6. IsFiniteSet(plan) /\ Cardinality(plan) <= Cardinality(T)
  BY <1>4, <1>5, FS_Injection
<1> QED
  BY <1>5, <1>6 DEF plan

\* A plan leases one job of a partition.
LEMMA OneLeasePerPartition ==
    ASSUME JobInv, FiniteJobs, NEW queue \in Queues, NEW now, NEW limit \in Nat
    PROVE  Cardinality(PartitionsOf(LeasePlan(queue, now, limit)))
               = Cardinality(LeasePlan(queue, now, limit))
<1> DEFINE plan == LeasePlan(queue, now, limit)
           key == [id \in plan |-> jobs[id].spec.partition_key]
<1>1. plan \subseteq ReadyHeads(queue, now)
  BY PlanByRank
<1>2. \A a, b \in plan : key[a] = key[b] => a = b
  BY <1>1, HeadsApart
<1>3. key \in Bijection(plan, PartitionsOf(plan))
  BY <1>2 DEF Bijection, Injection, IsInjective, Surjection, PartitionsOf
<1>4. ExistsBijection(plan, PartitionsOf(plan))
  BY <1>3 DEF ExistsBijection
<1>5. IsFiniteSet(plan)
  BY PlanWithinLimit
<1> QED
  BY <1>4, <1>5, FS_Bijection

\* A ready head left out means that the limit is used up: the heads before the
\* first one left out are all leased, and there are at least `limit` of them.
LEMMA PlanUsesLimit ==
    ASSUME JobInv, FiniteJobs, NEW queue \in Queues, NEW now, NEW limit \in Nat,
           LeasePlan(queue, now, limit) # ReadyHeads(queue, now)
    PROVE  Cardinality(LeasePlan(queue, now, limit)) = limit
<1> DEFINE plan == LeasePlan(queue, now, limit)
           ready == ReadyHeads(queue, now)
           left == ready \ plan
           ranks == {Cardinality(Before(queue, now, id)) : id \in left}
<1>1. plan \subseteq ready /\ left # {}
  BY PlanByRank
<1>2. ranks \in SUBSET Nat /\ ranks # {}
  BY <1>1, RankGrows
<1>3. PICK least \in ranks : \A n \in ranks : least <= n
  <2> HIDE DEF ranks
  <2> QED
    BY <1>2, LeastNumber
<1>4. PICK first \in left : least = Cardinality(Before(queue, now, first))
  OBVIOUS
<1>5. Before(queue, now, first) \subseteq plan
  <2> SUFFICES ASSUME NEW id \in Before(queue, now, first), id \notin plan PROVE FALSE
    OBVIOUS
  <2>1. id \in ready
    BY DEF Before
  <2>2. Cardinality(Before(queue, now, id)) \in Nat
        /\ Cardinality(Before(queue, now, id)) < Cardinality(Before(queue, now, first))
    BY <2>1, RankGrows
  <2>3. least <= Cardinality(Before(queue, now, id))
    BY <1>3, <2>1
  <2> QED
    BY <1>2, <1>4, <2>2, <2>3
<1>6. Cardinality(Before(queue, now, first)) \in Nat
      /\ ~(Cardinality(Before(queue, now, first)) < limit)
  BY <1>2, <1>4, PlanByRank
<1>7. /\ IsFiniteSet(plan) /\ Cardinality(plan) <= limit
      /\ Cardinality(plan) \in Nat
  BY PlanWithinLimit, FS_CardinalityType
<1>8. Cardinality(Before(queue, now, first)) <= Cardinality(plan)
  BY <1>5, <1>7, FS_Subset
<1> HIDE DEF plan
<1> QED
  BY <1>6, <1>7, <1>8 DEF plan

\* A claim leases at most one job of a partition and at most `limit` jobs, and
\* leaves a ready head behind only when the limit was used up.
THEOREM ClaimsAreBoundedAndBusy == FairSpec => []ClaimIsBoundedAndBusy
<1>1. FairInv => ClaimIsBoundedAndBusy
  <2> SUFFICES ASSUME FairInv, NEW queue \in Queues, NEW now \in Clocks,
                      NEW limit \in ClaimLimits
               PROVE  LET ready  == ReadyHeads(queue, now)
                          grants == LeasePlan(queue, now, limit)
                      IN  /\ Cardinality(grants) <= limit
                          /\ Cardinality(PartitionsOf(grants)) = Cardinality(grants)
                          /\ grants # ready => Cardinality(grants) = limit
    BY DEF ClaimIsBoundedAndBusy
  <2>1. limit \in Nat /\ JobInv /\ FiniteJobs
    BY SpecAssumption DEF FairInv
  <2> QED
    BY <2>1, PlanWithinLimit, OneLeasePerPartition, PlanUsesLimit
<1> QED
  BY <1>1, FairInvariant, PTL
=============================================================================

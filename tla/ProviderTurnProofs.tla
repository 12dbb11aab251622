------------------------- MODULE ProviderTurnProofs -------------------------
(***************************************************************************)
(* Proofs that the provider-turn workflow is safe for any number of        *)
(* threads, workers, attempts, crashes, unknown outcomes and stalls: a     *)
(* turn completes once, "idle" means completed, provider calls come from   *)
(* committed claims only, a call is repeated under its lease only after    *)
(* its process has ended, and under another lease only after an operator's *)
(* retry.                                                                  *)
(***************************************************************************)
EXTENDS ProviderTurnProperties, JobStoreProofs

Events == {"thread.created", "thread.turn-requested", "thread.turn-started",
           "thread.turn-completed"}

Statuses == {"absent", "idle", "queued", "running"}

\* What a worker remembers at each point of its protocol.
WorkerStates ==
    [pc : {"idle"}]
        \cup [pc : {"unknown"}, tx : TxIds]
        \cup [pc : {"claimed", "extended", "started", "called"}, tx : TxIds, job : JobIds]
        \cup [pc : {"starting", "completing", "ack_unknown", "resubmitting"},
              tx : TxIds, job : JobIds, version : Nat]

Calls == [token : Tokens, leased : BOOLEAN]

TurnTypes ==
    /\ now \in Time
    /\ stream \in [Threads -> Seq(Events)]
    /\ threads \in [version : Nat, status : [Threads -> Statuses]]
    /\ worker \in [Workers -> WorkerStates]
    /\ effects \in Seq(Calls)

\* A worker that has work holds a token a committed claim gave out, and no two
\* workers are busy with the same claim.
WorkersApart ==
    /\ \A w \in Workers : worker[w].pc \notin {"idle", "unknown"} => Token(w) \in IssuedTokens
    /\ \A v, w \in Workers :
          v # w /\ worker[v].pc # "idle" /\ worker[w].pc # "idle" => worker[v].tx # worker[w].tx

\* Where a worker has a claim and has not called the provider.
BeforeCall == {"unknown", "claimed", "extended", "starting", "started"}

\* The calls made from a claim so far are those of processes that have ended.
AllAbandoned(tx, calls, ended) ==
    \A i \in DOMAIN calls : calls[i].token[1] = tx => i \in ended

\* No call has been made yet from the claim of a worker that is about to, but by
\* a process before it.
CallsAreAhead ==
    \A w \in Workers : worker[w].pc \in BeforeCall =>
        AllAbandoned(worker[w].tx, effects, abandoned)

\* The lease of a leased call is the job's last: it is still held, or it ended
\* without the job becoming claimable again, unless an operator asked for that.
NoneAfter(row, token) ==
    \/ row.state = "Leased" /\ row.lease_token = token
    \/ row.state \in {"Uncertain"} \cup TerminalStates

LeasedCallsAreLast ==
    \A i \in DOMAIN effects : effects[i].leased /\ i \notin resent =>
        /\ effects[i].token[2] \in DOMAIN jobs
        /\ NoneAfter(jobs[effects[i].token[2]], effects[i].token)

\* The turn of a thread whose stream has the completion event is acknowledged,
\* and only threads that were created have turns.
StreamsMatchJobs ==
    /\ \A id \in DOMAIN jobs : stream[ThreadOf(id)] # <<>>
    /\ \A thread \in Threads : \A i \in DOMAIN stream[thread] :
          stream[thread][i] = "thread.turn-completed" =>
              /\ TurnOf(thread).job_id \in DOMAIN jobs
              /\ jobs[TurnOf(thread).job_id].state = "Succeeded"

\* The parts of the inductive invariant, by what a step may disturb.
StoreInv == JobInv /\ ReceiptInv
WorkInv == TurnTypes /\ WorkersApart /\ CallsAreAhead /\ EffectsFromCommittedClaims
CallInv == LeasedCallsAreLast /\ SecondLeaseOnlyByRetry
ThreadInv == StreamsMatchJobs /\ TurnCompletesOnce /\ IdleMeansCompleted

TurnInv == StoreInv /\ WorkInv /\ CallInv /\ ThreadInv

-----------------------------------------------------------------------------
(* Threads, sequences and rows *)

\* A thread and its one turn name each other.
LEMMA ThreadsAndTurns ==
    /\ \A thread \in Threads : /\ TurnOf(thread) \in JobSpecs
                               /\ TurnOf(thread).job_id \in JobIds
                               /\ ThreadOf(TurnOf(thread).job_id) = thread
    /\ \A id \in JobIds : /\ ThreadOf(id) \in Threads
                          /\ TurnOf(ThreadOf(id)).job_id = id
<1>1. ASSUME NEW thread \in Threads
      PROVE  /\ TurnOf(thread) \in JobSpecs /\ TurnOf(thread).partition_key = thread
             /\ TurnOf(thread).job_id \in JobIds
  BY DEF Threads, TurnOf, JobIds
<1>2. ASSUME NEW id \in JobIds
      PROVE  \E spec \in JobSpecs : spec.job_id = id /\ ThreadOf(id) = spec.partition_key
  <2>1. PICK spec \in JobSpecs : spec.job_id = id
    BY DEF JobIds
  <2> DEFINE chosen == CHOOSE u \in JobSpecs : u.job_id = id
  <2>2. chosen \in JobSpecs /\ chosen.job_id = id
    BY <2>1
  <2>3. ThreadOf(id) = chosen.partition_key
    BY DEF ThreadOf
  <2> HIDE DEF chosen
  <2> QED
    BY <2>2, <2>3
<1>3. ASSUME NEW thread \in Threads
      PROVE  ThreadOf(TurnOf(thread).job_id) = thread
  BY <1>1, <1>2, SpecsOfTurns
<1>4. ASSUME NEW id \in JobIds
      PROVE  ThreadOf(id) \in Threads /\ TurnOf(ThreadOf(id)).job_id = id
  <2>1. PICK spec \in JobSpecs : spec.job_id = id /\ ThreadOf(id) = spec.partition_key
    BY <1>2
  <2>2. ThreadOf(id) \in Threads
    BY <2>1 DEF Threads
  <2>3. TurnOf(ThreadOf(id)) \in JobSpecs /\ TurnOf(ThreadOf(id)).partition_key = ThreadOf(id)
    BY <1>1, <2>2
  <2> QED
    BY <2>1, <2>2, <2>3, SpecsOfTurns
<1> QED
  BY <1>1, <1>3, <1>4

\* What Append does to the elements of a sequence.
LEMMA Appended ==
    ASSUME NEW T, NEW s \in Seq(T), NEW e \in T
    PROVE  /\ Append(s, e) \in Seq(T)
           /\ Len(Append(s, e)) = Len(s) + 1
           /\ DOMAIN s = 1 .. Len(s) /\ DOMAIN Append(s, e) = 1 .. Len(s) + 1
           /\ Len(s) \in Nat
           /\ \A i \in DOMAIN s : Append(s, e)[i] = s[i]
           /\ Append(s, e)[Len(s) + 1] = e
OBVIOUS

\* The tokens of receipts name the claim and the job.
LEMMA IssuedToken ==
    ASSUME StoreInv, NEW token \in IssuedTokens
    PROVE  /\ token \in Tokens /\ token = <<token[1], token[2]>>
           /\ token[1] \in DOMAIN transactions /\ token[1] \in TxIds
           /\ token[2] \in DOMAIN jobs /\ token[2] \in JobIds
<1>1. PICK r \in claim_receipts : r.lease_token = token
  BY DEF IssuedTokens
<1>2. /\ r \in ReceiptRow /\ token = <<r.transaction_id, r.job_id>>
      /\ r.transaction_id \in DOMAIN transactions /\ r.job_id \in DOMAIN jobs
  BY <1>1 DEF StoreInv, JobInv, TypeOK, ReceiptInv, ReceiptOrigin
<1> QED
  BY <1>2 DEF ReceiptRow, Tokens

\* A row of the job table, and what a report on it tells.
LEMMA ReportedRow ==
    ASSUME JobInv, NEW id, NEW token \in Tokens, CanReport(id, "Succeeded", token)
    PROVE  /\ id \in DOMAIN jobs /\ jobs[id].state = "Leased"
           /\ jobs[id].lease_token = token
<1>1. id \in DOMAIN jobs /\ jobs[id].lease_token = token /\ RowChecks(jobs[id])
  BY DEF CanReport, HoldsToken, JobInv, SchemaChecks
<1>2. token # None
  BY NoneAssumption
<1> QED
  BY <1>1, <1>2 DEF RowChecks

-----------------------------------------------------------------------------
(* What the store may do to the rows the workflow is about *)

\* A job keeps its state when it is finished.  It ends a lease only as Uncertain
\* or finished, and leaves Uncertain only when it is finished, unless its calls
\* so far are marked as resent.
JobsMoveOn ==
    /\ DOMAIN jobs \subseteq DOMAIN jobs'
    /\ IssuedTokens \subseteq IssuedTokens'
    /\ \A id \in DOMAIN jobs :
          /\ jobs[id].state \in TerminalStates => jobs'[id].state = jobs[id].state
          /\ \/ EffectsOf(id) \subseteq resent'
             \/ /\ jobs[id].state = "Leased" => NoneAfter(jobs'[id], jobs[id].lease_token)
                /\ jobs[id].state = "Uncertain" =>
                      jobs'[id].state \in {"Uncertain"} \cup TerminalStates

\* A step that leaves the store alone.
LEMMA IdleStoreMovesOn ==
    ASSUME StoreInv, UNCHANGED storeVars
    PROVE  StoreInv' /\ JobsMoveOn /\ DOMAIN jobs' = DOMAIN jobs
<1>1. JobInv'
  BY NextInv DEF StoreInv
<1>2. ReceiptInv'
  BY NextReceipts DEF StoreInv
<1>3. JobsMoveOn
  BY DEF storeVars, JobsMoveOn, IssuedTokens, NoneAfter
<1> QED
  BY <1>1, <1>2, <1>3 DEF StoreInv, storeVars

\* An enqueue adds a job and touches no other.
LEMMA EnqueueMovesOn ==
    ASSUME StoreInv, NEW spec \in JobSpecs, ApplyEnqueue(spec), UNCHANGED transactions
    PROVE  /\ StoreInv' /\ JobsMoveOn
           /\ spec.job_id \notin DOMAIN jobs
           /\ DOMAIN jobs' = DOMAIN jobs \cup {spec.job_id}
<1>1. JobInv'
  BY EnqueueKeepsInv DEF StoreInv
<1>2. ReceiptInv'
  BY EnqueueIsQuiet, QuietKeepsReceipts DEF StoreInv
<1>3. /\ spec.job_id \notin DOMAIN jobs
      /\ DOMAIN jobs' = DOMAIN jobs \cup {spec.job_id}
      /\ \A id \in DOMAIN jobs : jobs'[id] = jobs[id]
      /\ claim_receipts' = claim_receipts
  BY DEF ApplyEnqueue, CanEnqueue
<1>4. JobsMoveOn
  BY <1>3 DEF JobsMoveOn, IssuedTokens, NoneAfter
<1> QED
  BY <1>1, <1>2, <1>3, <1>4 DEF StoreInv

\* A claim repairs leases to Uncertain, as the jobs of turns require, and grants
\* only jobs that are pending or wait for a retry.
LEMMA ClaimMovesOn ==
    ASSUME StoreInv, NEW t \in TxIds, t \notin DOMAIN transactions,
           NEW queue \in Queues, NEW w \in Workers, NEW clock \in Time, NEW lease_ms, NEW limit,
           ClaimJobs(t, queue, w, clock, lease_ms, limit)
    PROVE  StoreInv' /\ JobsMoveOn /\ DOMAIN jobs' = DOMAIN jobs
<1>1. JobInv'
  BY ClaimKeepsInv DEF StoreInv
<1>2. ReceiptInv'
  BY ClaimKeepsReceipts DEF StoreInv
<1>3. PICK grants \in SUBSET DOMAIN jobs, repairs \in SUBSET DOMAIN jobs, expiry \in Time :
          Claimed(t, w, expiry, grants, repairs)
  BY ClaimEffect DEF StoreInv
<1>4. DOMAIN jobs' = DOMAIN jobs /\ IssuedTokens \subseteq IssuedTokens'
  BY <1>3 DEF Claimed, IssuedTokens
<1>5. ASSUME NEW id \in DOMAIN jobs
      PROVE  /\ jobs[id].state \in TerminalStates => jobs'[id].state = jobs[id].state
             /\ jobs[id].state = "Leased" => NoneAfter(jobs'[id], jobs[id].lease_token)
             /\ jobs[id].state = "Uncertain" =>
                   jobs'[id].state \in {"Uncertain"} \cup TerminalStates
  <2>1. CASE id \in grants
    BY <1>3, <2>1 DEF Claimed, TerminalStates
  <2>2. CASE id \in repairs
    <3>1. jobs[id].state = "Leased" /\ jobs'[id].state = MaintenanceState(jobs[id])
      BY <1>3, <2>2 DEF Claimed
    <3>2. jobs[id].spec.effect_mode = "RequiresReconciliation"
      BY SpecsOfTurns DEF StoreInv, JobInv, TypeOK, JobRow
    <3> QED
      BY <3>1, <3>2 DEF MaintenanceState, NoneAfter, TerminalStates
  <2>3. CASE id \notin grants \cup repairs
    BY <1>3, <2>3 DEF Claimed, NoneAfter
  <2> QED
    BY <2>1, <2>2, <2>3
<1> QED
  BY <1>1, <1>2, <1>4, <1>5 DEF StoreInv, JobsMoveOn

\* An acknowledgement ends the lease it is given for.
LEMMA AckMovesOn ==
    ASSUME StoreInv, NEW id, NEW token \in Tokens, ApplyAck(id, token), UNCHANGED transactions
    PROVE  /\ StoreInv' /\ JobsMoveOn /\ DOMAIN jobs' = DOMAIN jobs
           /\ id \in DOMAIN jobs /\ jobs[id].state = "Leased" /\ jobs'[id].state = "Succeeded"
<1>1. JobInv'
  BY AckKeepsInv DEF StoreInv
<1>2. ReceiptInv'
  BY AckIsQuiet, QuietKeepsReceipts DEF StoreInv
<1>3. id \in DOMAIN jobs /\ jobs[id].state = "Leased" /\ jobs[id] \in JobRow
  BY ReportedRow DEF ApplyAck, StoreInv, JobInv, TypeOK
<1>4. /\ jobs' = [jobs EXCEPT ![id] = Released(jobs[id], "Succeeded", None)]
      /\ claim_receipts' = claim_receipts
  BY DEF ApplyAck, SetTerminal
<1>5. Released(jobs[id], "Succeeded", None).state = "Succeeded"
  BY <1>3, ReleasedType DEF JobStates, TerminalStates
<1>6. DOMAIN jobs' = DOMAIN jobs /\ jobs'[id].state = "Succeeded"
  BY <1>3, <1>4, <1>5
<1>7. JobsMoveOn
  BY <1>3, <1>4, <1>6 DEF JobsMoveOn, IssuedTokens, NoneAfter, TerminalStates
<1> QED
  BY <1>1, <1>2, <1>3, <1>6, <1>7 DEF StoreInv

\* A heartbeat changes no lease but its expiry.
LEMMA ExtendMovesOn ==
    ASSUME StoreInv, NEW id, NEW token \in Tokens, NEW new_expiry \in Time, NEW clock,
           ApplyExtendLease(id, token, new_expiry, clock), UNCHANGED transactions
    PROVE  StoreInv' /\ JobsMoveOn /\ DOMAIN jobs' = DOMAIN jobs
<1>1. JobInv'
  BY ExtendKeepsInv DEF StoreInv
<1>2. ReceiptInv'
  BY ExtendKeepsReceipts DEF StoreInv
<1>3. /\ id \in DOMAIN jobs /\ jobs[id] \in JobRow
      /\ jobs' = [jobs EXCEPT ![id].lease_expires_at_ms = new_expiry]
      /\ claim_receipts' = ExtendedReceipts(id, token, new_expiry)
  BY DEF ApplyExtendLease, CanExtend, StoreInv, JobInv, TypeOK
<1>4. /\ DOMAIN jobs' = DOMAIN jobs
      /\ \A other \in DOMAIN jobs : /\ jobs'[other].state = jobs[other].state
                                    /\ jobs'[other].lease_token = jobs[other].lease_token
  BY <1>3 DEF JobRow
<1>5. IssuedTokens \subseteq IssuedTokens'
  <2>1. ASSUME NEW r \in claim_receipts
        PROVE  \E s \in claim_receipts' : s.lease_token = r.lease_token
    <3>1. r \in ReceiptRow
      BY DEF StoreInv, JobInv, TypeOK
    <3>2. (IF r.job_id = id /\ r.lease_token = token
           THEN [r EXCEPT !.lease_expires_at_ms = new_expiry]
           ELSE r) \in claim_receipts'
      BY <1>3 DEF ExtendedReceipts
    <3> QED
      BY <3>1, <3>2 DEF ReceiptRow
  <2> QED
    BY <2>1 DEF IssuedTokens
<1>6. JobsMoveOn
  BY <1>4, <1>5 DEF JobsMoveOn, NoneAfter
<1> QED
  BY <1>1, <1>2, <1>4, <1>6 DEF StoreInv

\* A resolution finishes the job, or sends it back and marks its calls.
LEMMA ResolveMovesOn ==
    ASSUME StoreInv, NEW id, OperatorResolves(id)
    PROVE  StoreInv' /\ JobsMoveOn /\ DOMAIN jobs' = DOMAIN jobs
<1>1. PICK resolution \in Resolutions :
          /\ ApplyResolve(id, resolution)
          /\ resent' = IF resolution = "Retry" THEN resent \cup EffectsOf(id) ELSE resent
  BY DEF OperatorResolves
<1>2. /\ id \in DOMAIN jobs /\ jobs[id] \in JobRow /\ UNCHANGED transactions
      /\ CanTransitionTo(jobs[id].state, ResolvedState(jobs[id], resolution))
  BY <1>1 DEF OperatorResolves, ApplyResolve, CanResolve, StoreInv, JobInv, TypeOK
<1>3. JobInv'
  BY <1>1, <1>2, ResolveKeepsInv DEF StoreInv
<1>4. ReceiptInv'
  BY <1>1, <1>2, ResolveIsQuiet, QuietKeepsReceipts DEF StoreInv
<1> DEFINE to == ResolvedState(jobs[id], resolution)
<1>5. to \in TerminalStates \/ (to = "Pending" /\ EffectsOf(id) \subseteq resent')
  BY <1>1 DEF ResolvedState, Resolutions, TerminalStates
<1>6. to \in TerminalStates => SetTerminal(id, to)
  BY <1>1 DEF ApplyResolve
<1>7. to \notin TerminalStates => SetNonterminal(id, to, None)
  BY <1>1 DEF ApplyResolve
<1>8. jobs[id].state \notin TerminalStates
  BY <1>2 DEF CanTransitionTo, TerminalStates
<1> HIDE DEF to
<1>9. to \in JobStates
  BY <1>5 DEF JobStates, ActiveStates
<1>10. /\ DOMAIN jobs' = DOMAIN jobs /\ claim_receipts' = claim_receipts
       /\ \A other \in DOMAIN jobs : other # id => jobs'[other] = jobs[other]
       /\ jobs'[id].state = to
  BY <1>2, <1>6, <1>7, <1>9, ReleasedType DEF SetTerminal, SetNonterminal
<1>11. JobsMoveOn
  <2>1. ASSUME NEW other \in DOMAIN jobs
        PROVE  /\ jobs[other].state \in TerminalStates => jobs'[other].state = jobs[other].state
               /\ \/ EffectsOf(other) \subseteq resent'
                  \/ /\ jobs[other].state = "Leased" =>
                           NoneAfter(jobs'[other], jobs[other].lease_token)
                     /\ jobs[other].state = "Uncertain" =>
                           jobs'[other].state \in {"Uncertain"} \cup TerminalStates
    BY <1>5, <1>8, <1>10 DEF NoneAfter
  <2> QED
    BY <1>10, <2>1 DEF JobsMoveOn, IssuedTokens
<1> QED
  BY <1>3, <1>4, <1>10, <1>11 DEF StoreInv

-----------------------------------------------------------------------------
(* The parts of the invariant that a step which does not disturb them keeps *)

\* With no new provider call, the leased calls stay the last of their jobs.
LEMMA CallsStayLast ==
    ASSUME StoreInv, WorkInv, CallInv, JobsMoveOn, UNCHANGED effects, resent \subseteq resent'
    PROVE  CallInv'
<1>1. ASSUME NEW i \in DOMAIN effects, effects[i].leased, i \notin resent'
      PROVE  /\ effects[i].token[2] \in DOMAIN jobs'
             /\ NoneAfter(jobs'[effects[i].token[2]], effects[i].token)
  <2>1. PICK id : id = effects[i].token[2]
    OBVIOUS
  <2>2. id \in DOMAIN jobs /\ NoneAfter(jobs[id], effects[i].token)
    BY <1>1, <2>1 DEF CallInv, LeasedCallsAreLast
  <2>3. ~(EffectsOf(id) \subseteq resent')
    BY <1>1, <2>1 DEF EffectsOf
  <2>4. NoneAfter(jobs'[id], effects[i].token)
    BY <2>2, <2>3 DEF JobsMoveOn, NoneAfter, TerminalStates
  <2> QED
    BY <2>1, <2>2, <2>4 DEF JobsMoveOn
<1> QED
  BY <1>1 DEF CallInv, LeasedCallsAreLast, SecondLeaseOnlyByRetry

\* With no new event and no new job, the streams stay in step with the jobs.
LEMMA ThreadsStayInStep ==
    ASSUME StoreInv, ThreadInv, JobsMoveOn, DOMAIN jobs' = DOMAIN jobs,
           UNCHANGED <<stream, threads>>
    PROVE  ThreadInv'
<1>1. StreamsMatchJobs'
  BY DEF ThreadInv, StreamsMatchJobs, JobsMoveOn, TerminalStates
<1>2. TurnCompletesOnce'
  BY DEF ThreadInv, TurnCompletesOnce
<1>3. IdleMeansCompleted'
  BY DEF ThreadInv, IdleMeansCompleted, JobsMoveOn, TerminalStates
<1> QED
  BY <1>1, <1>2, <1>3 DEF ThreadInv

\* What Publish does to the stream and the status of its thread.
LEMMA Published ==
    ASSUME TurnTypes, NEW thread \in Threads, NEW event \in Events, NEW status \in Statuses,
           Publish(thread, event, status)
    PROVE  /\ stream' \in [Threads -> Seq(Events)]
           /\ threads' \in [version : Nat, status : [Threads -> Statuses]]
           /\ \A other \in Threads : other # thread =>
                 /\ stream'[other] = stream[other]
                 /\ threads'.status[other] = threads.status[other]
           /\ stream'[thread] = Append(stream[thread], event)
           /\ threads'.status[thread] = status
<1>1. stream[thread] \in Seq(Events) /\ Append(stream[thread], event) \in Seq(Events)
  BY Appended DEF TurnTypes
<1>2. /\ threads.version \in Nat /\ threads.status \in [Threads -> Statuses]
      /\ threads.version + 1 \in Nat
  BY DEF TurnTypes
<1>3. stream' = [stream EXCEPT ![thread] = Append(stream[thread], event)]
  BY DEF Publish
<1>4. threads' = [version |-> threads.version + 1,
                  status |-> [threads.status EXCEPT ![thread] = status]]
  BY DEF Publish
<1> QED
  BY <1>1, <1>2, <1>3, <1>4 DEF TurnTypes

\* A batch of the workflow keeps the streams in step: it records a completion
\* only with the acknowledgement, and says "idle" of a thread that has a turn
\* only then.
LEMMA PublishKeepsThreads ==
    ASSUME StoreInv, StoreInv', TurnTypes, ThreadInv, JobsMoveOn,
           NEW thread \in Threads, NEW event \in Events, NEW status \in Statuses,
           Publish(thread, event, status),
           DOMAIN jobs' \subseteq DOMAIN jobs \cup {TurnOf(thread).job_id},
           event = "thread.turn-completed" =>
               /\ TurnOf(thread).job_id \in DOMAIN jobs
               /\ jobs[TurnOf(thread).job_id].state # "Succeeded"
               /\ jobs'[TurnOf(thread).job_id].state = "Succeeded",
           status = "idle" =>
               event = "thread.turn-completed" \/ TurnOf(thread).job_id \notin DOMAIN jobs'
    PROVE  ThreadInv'
<1>1. PICK id : id = TurnOf(thread).job_id
  OBVIOUS
<1>2. /\ id \in JobIds /\ ThreadOf(id) = thread
      /\ \A other \in JobIds : /\ ThreadOf(other) \in Threads
                               /\ ThreadOf(other) = thread => other = id
      /\ \A other \in Threads : TurnOf(other).job_id \in JobIds
  BY <1>1, ThreadsAndTurns
<1>3. DOMAIN jobs \subseteq JobIds /\ DOMAIN jobs' \subseteq JobIds
  BY DEF StoreInv, JobInv, TypeOK
<1>4. /\ \A other \in Threads : other # thread =>
            /\ stream'[other] = stream[other]
            /\ threads'.status[other] = threads.status[other]
      /\ stream'[thread] = Append(stream[thread], event)
      /\ threads'.status[thread] = status
  BY Published
<1>5. PICK n : n = Len(stream[thread])
  OBVIOUS
<1>6. /\ n \in Nat /\ DOMAIN stream[thread] = 1 .. n /\ DOMAIN stream'[thread] = 1 .. n + 1
      /\ \A i \in 1 .. n : stream'[thread][i] = stream[thread][i]
      /\ stream'[thread][n + 1] = event
  BY <1>4, <1>5, Appended DEF TurnTypes
<1>7. ASSUME NEW i \in DOMAIN stream'[thread], stream'[thread][i] = "thread.turn-completed"
      PROVE  \/ /\ i \in DOMAIN stream[thread]
                /\ stream[thread][i] = "thread.turn-completed"
                /\ id \in DOMAIN jobs /\ jobs[id].state = "Succeeded"
             \/ i = n + 1 /\ event = "thread.turn-completed"
  BY <1>1, <1>6, <1>7 DEF ThreadInv, StreamsMatchJobs
<1>8. StreamsMatchJobs'
  <2>1. ASSUME NEW other \in DOMAIN jobs'
        PROVE  stream'[ThreadOf(other)] # <<>>
    <3>1. CASE ThreadOf(other) = thread
      <4>1. 1 \in DOMAIN stream'[thread]
        BY <1>6
      <4> QED
        BY <3>1, <4>1
    <3>2. CASE ThreadOf(other) # thread
      <4>1. other \in DOMAIN jobs /\ ThreadOf(other) \in Threads
        BY <1>1, <1>2, <1>3, <3>2
      <4> QED
        BY <1>4, <3>2, <4>1 DEF ThreadInv, StreamsMatchJobs
    <3> QED
      BY <3>1, <3>2
  <2>2. ASSUME NEW other \in Threads, NEW i \in DOMAIN stream'[other],
               stream'[other][i] = "thread.turn-completed"
        PROVE  TurnOf(other).job_id \in DOMAIN jobs' /\ jobs'[TurnOf(other).job_id].state = "Succeeded"
    <3>1. CASE other = thread
      <4>1. CASE id \in DOMAIN jobs /\ jobs[id].state = "Succeeded"
        BY <1>1, <3>1, <4>1 DEF JobsMoveOn, TerminalStates
      <4>2. CASE event = "thread.turn-completed"
        BY <1>1, <3>1, <4>2 DEF JobsMoveOn
      <4> QED
        BY <1>7, <2>2, <3>1, <4>1, <4>2
    <3>2. CASE other # thread
      BY <1>4, <2>2, <3>2 DEF ThreadInv, StreamsMatchJobs, JobsMoveOn, TerminalStates
    <3> QED
      BY <3>1, <3>2
  <2> QED
    BY <2>1, <2>2 DEF StreamsMatchJobs
<1>9. TurnCompletesOnce'
  <2>1. ASSUME NEW other \in Threads,
               NEW i \in DOMAIN stream'[other], NEW k \in DOMAIN stream'[other],
               stream'[other][i] = "thread.turn-completed",
               stream'[other][k] = "thread.turn-completed"
        PROVE  i = k
    <3>1. CASE other = thread
      <4>1. CASE event = "thread.turn-completed"
        BY <1>1, <1>7, <2>1, <3>1, <4>1
      <4>2. CASE event # "thread.turn-completed"
        BY <1>7, <2>1, <3>1, <4>2 DEF ThreadInv, TurnCompletesOnce
      <4> QED
        BY <4>1, <4>2
    <3>2. CASE other # thread
      BY <1>4, <2>1, <3>2 DEF ThreadInv, TurnCompletesOnce
    <3> QED
      BY <3>1, <3>2
  <2> QED
    BY <2>1 DEF TurnCompletesOnce
<1>10. IdleMeansCompleted'
  <2>1. ASSUME NEW other \in DOMAIN jobs', threads'.status[ThreadOf(other)] = "idle"
        PROVE  /\ jobs'[other].state = "Succeeded"
               /\ \E i \in DOMAIN stream'[ThreadOf(other)] :
                     stream'[ThreadOf(other)][i] = "thread.turn-completed"
    <3>1. CASE ThreadOf(other) = thread
      <4>1. other = id
        BY <1>2, <1>3, <3>1
      <4>2. status = "idle" /\ event = "thread.turn-completed"
        BY <1>1, <1>4, <2>1, <3>1, <4>1
      <4>3. n + 1 \in DOMAIN stream'[thread] /\ stream'[thread][n + 1] = "thread.turn-completed"
        BY <1>6, <4>2
      <4> QED
        BY <1>1, <3>1, <4>1, <4>2, <4>3
    <3>2. CASE ThreadOf(other) # thread
      <4>1. other \in DOMAIN jobs /\ ThreadOf(other) \in Threads
        BY <1>1, <1>2, <1>3, <3>2
      <4> QED
        BY <1>4, <2>1, <3>2, <4>1 DEF ThreadInv, IdleMeansCompleted, JobsMoveOn, TerminalStates
    <3> QED
      BY <3>1, <3>2
  <2> QED
    BY <2>1 DEF IdleMeansCompleted
<1> QED
  BY <1>8, <1>9, <1>10 DEF ThreadInv

\* A worker's step keeps workers and calls apart when the claim it goes on with
\* is no other worker's, has a token if there is work, and has not been used for
\* a call that is still ahead.
LEMMA GotoKeepsWork ==
    ASSUME StoreInv, WorkInv, IssuedTokens \subseteq IssuedTokens', UNCHANGED effects,
           now' \in Time, stream' \in [Threads -> Seq(Events)],
           threads' \in [version : Nat, status : [Threads -> Statuses]],
           NEW w \in Workers, NEW state \in WorkerStates, Goto(w, state),
           state.pc # "idle" =>
               \A v \in Workers : v # w /\ worker[v].pc # "idle" => worker[v].tx # state.tx,
           state.pc \notin {"idle", "unknown"} => <<state.tx, state.job>> \in IssuedTokens',
           abandoned \subseteq abandoned',
           state.pc \in BeforeCall => AllAbandoned(state.tx, effects, abandoned')
    PROVE  WorkInv'
<1>1. /\ worker \in [Workers -> WorkerStates] /\ effects \in Seq(Calls)
      /\ worker'[w] = state
      /\ \A v \in Workers : v # w => worker'[v] = worker[v]
      /\ worker' \in [Workers -> WorkerStates]
  BY DEF WorkInv, TurnTypes, Goto
<1>2. TurnTypes'
  BY <1>1 DEF TurnTypes
<1>3. ASSUME NEW v \in Workers, worker'[v].pc \notin {"idle", "unknown"}
      PROVE  <<worker'[v].tx, worker'[v].job>> \in IssuedTokens'
  <2>1. CASE v = w
    BY <1>1, <1>3, <2>1
  <2>2. CASE v # w
    BY <1>1, <1>3, <2>2 DEF WorkInv, WorkersApart, Token
  <2> QED
    BY <2>1, <2>2
<1>4. ASSUME NEW u \in Workers, NEW v \in Workers, u # v,
             worker'[u].pc # "idle", worker'[v].pc # "idle"
      PROVE  worker'[u].tx # worker'[v].tx
  BY <1>1, <1>4 DEF WorkInv, WorkersApart
<1>5. WorkersApart'
  BY <1>3, <1>4 DEF WorkersApart, Token
<1>6. CallsAreAhead'
  <2>1. ASSUME NEW v \in Workers, worker'[v].pc \in BeforeCall
        PROVE  AllAbandoned(worker'[v].tx, effects, abandoned')
    <3>1. CASE v = w
      BY <1>1, <2>1, <3>1
    <3>2. CASE v # w
      BY <1>1, <2>1, <3>2 DEF WorkInv, CallsAreAhead, AllAbandoned
    <3> QED
      BY <3>1, <3>2
  <2> QED
    BY <2>1 DEF CallsAreAhead
<1>7. EffectsFromCommittedClaims'
  BY DEF WorkInv, EffectsFromCommittedClaims
<1> QED
  BY <1>2, <1>5, <1>6, <1>7 DEF WorkInv

\* A worker that goes on with the claim it has, or gives it up.
LEMMA HoldingKeepsWork ==
    ASSUME StoreInv, WorkInv, IssuedTokens \subseteq IssuedTokens', UNCHANGED effects,
           now' \in Time, stream' \in [Threads -> Seq(Events)],
           threads' \in [version : Nat, status : [Threads -> Statuses]],
           NEW w \in Workers, NEW state \in WorkerStates, Goto(w, state),
           state.pc # "idle" => worker[w].pc # "idle" /\ state.tx = worker[w].tx,
           state.pc \notin {"idle", "unknown"} =>
               worker[w].pc \notin {"idle", "unknown"} /\ state.job = worker[w].job,
           abandoned \subseteq abandoned',
           state.pc \in BeforeCall => worker[w].pc \in BeforeCall
    PROVE  WorkInv'
<1>1. state.pc # "idle" =>
          \A v \in Workers : v # w /\ worker[v].pc # "idle" => worker[v].tx # state.tx
  BY DEF WorkInv, WorkersApart
<1>2. state.pc \notin {"idle", "unknown"} => <<state.tx, state.job>> \in IssuedTokens'
  BY DEF WorkInv, WorkersApart, Token
<1>3. state.pc \in BeforeCall => AllAbandoned(state.tx, effects, abandoned')
  BY DEF WorkInv, CallsAreAhead, BeforeCall, AllAbandoned
<1> QED
  BY <1>1, <1>2, <1>3, GotoKeepsWork

\* A process that ends leaves no call behind that is not marked as abandoned.
LEMMA RestartKeepsWork ==
    ASSUME StoreInv, WorkInv, IssuedTokens \subseteq IssuedTokens', UNCHANGED effects,
           now' \in Time, stream' \in [Threads -> Seq(Events)],
           threads' \in [version : Nat, status : [Threads -> Statuses]],
           NEW w \in Workers, worker[w].pc # "idle", Restart(w)
    PROVE  WorkInv'
<1>1. /\ abandoned \subseteq abandoned' /\ AllAbandoned(worker[w].tx, effects, abandoned')
      /\ Goto(w, AtRest) \/ Goto(w, [pc |-> "unknown", tx |-> worker[w].tx])
  BY DEF Restart, AllAbandoned
<1>2. worker[w].tx \in TxIds
  BY DEF WorkInv, TurnTypes, WorkerStates
<1>3. AtRest \in WorkerStates /\ AtRest.pc = "idle"
  BY DEF AtRest, WorkerStates
<1>4. CASE Goto(w, AtRest)
  BY <1>1, <1>3, <1>4, GotoKeepsWork DEF BeforeCall
<1>5. CASE Goto(w, [pc |-> "unknown", tx |-> worker[w].tx])
  <2>1. PICK state : state = [pc |-> "unknown", tx |-> worker[w].tx]
    OBVIOUS
  <2>2. state \in WorkerStates /\ state.pc = "unknown" /\ state.tx = worker[w].tx
    BY <1>2, <2>1 DEF WorkerStates
  <2>3. \A v \in Workers : v # w /\ worker[v].pc # "idle" => worker[v].tx # worker[w].tx
    BY DEF WorkInv, WorkersApart
  <2> QED
    BY <1>1, <1>5, <2>1, <2>2, <2>3, GotoKeepsWork
<1> QED
  BY <1>1, <1>4, <1>5

\* A step of nobody's process.
LEMMA OthersKeepWork ==
    ASSUME StoreInv, WorkInv, IssuedTokens \subseteq IssuedTokens',
           UNCHANGED <<effects, abandoned, worker>>, now' \in Time, stream' \in [Threads -> Seq(Events)],
           threads' \in [version : Nat, status : [Threads -> Statuses]]
    PROVE  WorkInv'
BY DEF WorkInv, TurnTypes, WorkersApart, CallsAreAhead, AllAbandoned,
       EffectsFromCommittedClaims, Token

-----------------------------------------------------------------------------
(* The actions *)

\* A worker that has work has a claim, a job with a thread, and a valid state.
LEMMA WorkerWithClaim ==
    ASSUME TurnInv, NEW w \in Workers, worker[w].pc \notin {"idle", "unknown"}
    PROVE  /\ worker[w].tx \in TxIds /\ worker[w].job \in JobIds /\ worker[w].job \in DOMAIN jobs
           /\ Token(w) \in IssuedTokens /\ Token(w) \in Tokens
           /\ Token(w)[1] = worker[w].tx /\ Token(w)[2] = worker[w].job
           /\ ThreadOf(worker[w].job) \in Threads
           /\ TurnOf(ThreadOf(worker[w].job)).job_id = worker[w].job
<1>1. worker[w] \in WorkerStates /\ Token(w) \in IssuedTokens
  BY DEF TurnInv, WorkInv, TurnTypes, WorkersApart
<1>2. worker[w].tx \in TxIds /\ worker[w].job \in JobIds
  BY <1>1 DEF WorkerStates
<1>3. Token(w)[1] = worker[w].tx /\ Token(w)[2] = worker[w].job
  BY DEF Token
<1>4. Token(w) \in Tokens /\ worker[w].job \in DOMAIN jobs
  BY <1>1, <1>3, IssuedToken DEF TurnInv
<1> QED
  BY <1>1, <1>2, <1>3, <1>4, ThreadsAndTurns

\* The states workers go to are states of workers.
LEMMA StatesOfWorkers ==
    ASSUME TurnInv, NEW w \in Workers
    PROVE  /\ AtRest \in WorkerStates /\ AtRest.pc = "idle"
           /\ \A t \in TxIds : [pc |-> "unknown", tx |-> t] \in WorkerStates
           /\ \A t \in TxIds, id \in JobIds :
                 [pc |-> "claimed", tx |-> t, job |-> id] \in WorkerStates
           /\ worker[w].pc \notin {"idle", "unknown"} =>
                 \A pc \in {"claimed", "extended", "started", "called"} :
                     /\ Holding(w, pc) \in WorkerStates /\ Holding(w, pc).pc = pc
                     /\ Holding(w, pc).tx = worker[w].tx /\ Holding(w, pc).job = worker[w].job
           /\ worker[w].pc \in {"completing", "ack_unknown"} =>
                 \A pc \in {"ack_unknown", "resubmitting"} :
                     LET state == [worker[w] EXCEPT !.pc = pc] IN
                     /\ state \in WorkerStates /\ state.pc = pc
                     /\ state.tx = worker[w].tx /\ state.job = worker[w].job
<1>1. worker[w] \in WorkerStates
  BY DEF TurnInv, WorkInv, TurnTypes
<1>2. AtRest \in WorkerStates /\ AtRest.pc = "idle"
  BY DEF AtRest, WorkerStates
<1>3. /\ \A t \in TxIds : [pc |-> "unknown", tx |-> t] \in WorkerStates
      /\ \A t \in TxIds, id \in JobIds :
            [pc |-> "claimed", tx |-> t, job |-> id] \in WorkerStates
  BY DEF WorkerStates
<1>4. ASSUME worker[w].pc \notin {"idle", "unknown"},
             NEW pc \in {"claimed", "extended", "started", "called"}
      PROVE  /\ Holding(w, pc) \in WorkerStates /\ Holding(w, pc).pc = pc
             /\ Holding(w, pc).tx = worker[w].tx /\ Holding(w, pc).job = worker[w].job
  <2>1. worker[w].tx \in TxIds /\ worker[w].job \in JobIds
    BY <1>4, WorkerWithClaim
  <2> QED
    BY <1>4, <2>1 DEF Holding, WorkerStates
<1>5. ASSUME worker[w].pc \in {"completing", "ack_unknown"},
             NEW pc \in {"ack_unknown", "resubmitting"}
      PROVE  LET state == [worker[w] EXCEPT !.pc = pc] IN
             /\ state \in WorkerStates /\ state.pc = pc
             /\ state.tx = worker[w].tx /\ state.job = worker[w].job
  BY <1>1, <1>5 DEF WorkerStates
<1> QED
  BY <1>2, <1>3, <1>4, <1>5

\* Steps that change neither the store nor the threads nor the calls, but at
\* most the callers of request_turn, the clock and one worker.
LEMMA QuietTurnStep ==
    ASSUME TurnInv, UNCHANGED <<storeVars, stream, threads, effects, resent>>,
           now' \in Time, WorkInv'
    PROVE  TurnInv'
<1>1. StoreInv' /\ JobsMoveOn /\ DOMAIN jobs' = DOMAIN jobs
  BY IdleStoreMovesOn DEF TurnInv
<1>2. CallInv'
  BY <1>1, CallsStayLast DEF TurnInv
<1>3. ThreadInv'
  BY <1>1, ThreadsStayInStep DEF TurnInv
<1> QED
  BY <1>1, <1>2, <1>3 DEF TurnInv

\* The types of what a step leaves alone.
LEMMA TurnTypesKept ==
    ASSUME TurnInv
    PROVE  /\ now \in Time /\ stream \in [Threads -> Seq(Events)]
           /\ threads \in [version : Nat, status : [Threads -> Statuses]]
BY DEF TurnInv, WorkInv, TurnTypes

\* request_turn, up to a batch in hand.
LEMMA PrepareKeepsInv ==
    ASSUME TurnInv, NEW thread \in Threads, PrepareRequest(thread)
    PROVE  TurnInv'
<1>1. UNCHANGED <<storeVars, stream, threads, worker, effects, abandoned, resent, now>>
  BY DEF PrepareRequest, callVars
<1>2. IssuedTokens \subseteq IssuedTokens'
  BY <1>1 DEF storeVars, IssuedTokens
<1>3. WorkInv'
  BY <1>1, <1>2, TurnTypesKept, OthersKeepWork DEF TurnInv
<1> QED
  BY <1>1, <1>3, TurnTypesKept, QuietTurnStep

\* A thread is created before it has a turn, so "idle" promises nothing yet.
LEMMA CreateKeepsInv ==
    ASSUME TurnInv, NEW thread \in Threads, CreateThread(thread)
    PROVE  TurnInv'
<1>1. UNCHANGED <<storeVars, worker, effects, abandoned, resent, now>>
  BY DEF CreateThread, callVars
<1>2. StoreInv' /\ JobsMoveOn /\ DOMAIN jobs' = DOMAIN jobs
  BY <1>1, IdleStoreMovesOn DEF TurnInv
<1>3. CASE UNCHANGED <<stream, threads>>
  <2>1. WorkInv'
    BY <1>1, <1>2, <1>3, TurnTypesKept, OthersKeepWork DEF TurnInv, JobsMoveOn
  <2> QED
    BY <1>1, <1>3, <2>1, TurnTypesKept, QuietTurnStep
<1>4. CASE stream[thread] = <<>> /\ Publish(thread, "thread.created", "idle")
  <2>1. "thread.created" \in Events /\ "idle" \in Statuses
    BY DEF Events, Statuses
  <2>2. TurnTypes
    BY DEF TurnInv, WorkInv
  <2>3. /\ stream' \in [Threads -> Seq(Events)]
        /\ threads' \in [version : Nat, status : [Threads -> Statuses]]
    BY <1>4, <2>1, <2>2, Published
  <2>4. TurnOf(thread).job_id \notin DOMAIN jobs'
    BY <1>2, <1>4, ThreadsAndTurns DEF TurnInv, ThreadInv, StreamsMatchJobs
  <2>5. ThreadInv'
    BY <1>2, <1>4, <2>1, <2>2, <2>4, PublishKeepsThreads DEF TurnInv
  <2>6. WorkInv'
    BY <1>1, <1>2, <2>3, TurnTypesKept, OthersKeepWork DEF TurnInv, JobsMoveOn
  <2>7. CallInv'
    BY <1>1, <1>2, CallsStayLast DEF TurnInv
  <2> QED
    BY <1>2, <2>5, <2>6, <2>7 DEF TurnInv
<1> QED
  BY <1>3, <1>4 DEF CreateThread

\* The turn and its job appear together.
LEMMA RequestKeepsInv ==
    ASSUME TurnInv, NEW thread \in Threads, RequestTurn(thread)
    PROVE  TurnInv'
<1>1. UNCHANGED <<transactions, worker, effects, abandoned, resent, now>>
  BY DEF RequestTurn, callVars
<1>2. CASE UNCHANGED <<jobVars, stream, threads>>
  <2>1. UNCHANGED storeVars
    BY <1>1, <1>2 DEF jobVars, storeVars
  <2>2. WorkInv'
    BY <1>1, <1>2, <2>1, TurnTypesKept, IdleStoreMovesOn, OthersKeepWork DEF TurnInv, JobsMoveOn
  <2> QED
    BY <1>1, <1>2, <2>1, <2>2, TurnTypesKept, QuietTurnStep
<1>3. CASE /\ Publish(thread, "thread.turn-requested", "queued")
           /\ ApplyEnqueue(TurnOf(thread))
  <2>1. "thread.turn-requested" \in Events /\ "queued" \in Statuses
    BY DEF Events, Statuses
  <2>2. TurnTypes /\ TurnOf(thread) \in JobSpecs
    BY ThreadsAndTurns DEF TurnInv, WorkInv
  <2>3. /\ stream' \in [Threads -> Seq(Events)]
        /\ threads' \in [version : Nat, status : [Threads -> Statuses]]
    BY <1>3, <2>1, <2>2, Published
  <2>4. /\ StoreInv' /\ JobsMoveOn
        /\ DOMAIN jobs' = DOMAIN jobs \cup {TurnOf(thread).job_id}
    BY <1>1, <1>3, <2>2, EnqueueMovesOn DEF TurnInv
  <2>5. ThreadInv'
    BY <1>3, <2>1, <2>2, <2>4, PublishKeepsThreads DEF TurnInv
  <2>6. WorkInv'
    BY <1>1, <2>3, <2>4, TurnTypesKept, OthersKeepWork DEF TurnInv, JobsMoveOn
  <2>7. CallInv'
    BY <1>1, <2>4, CallsStayLast DEF TurnInv
  <2> QED
    BY <2>4, <2>5, <2>6, <2>7 DEF TurnInv
<1> QED
  BY <1>2, <1>3 DEF RequestTurn

\* A fresh claim is nobody else's, and no call was made from it.
LEMMA FreshClaim ==
    ASSUME TurnInv, FreshTxs # {}
    PROVE  /\ FreshTx \in TxIds /\ FreshTx \notin DOMAIN transactions
           /\ \A v \in Workers : worker[v].pc # "idle" => worker[v].tx # FreshTx
           /\ \A i \in DOMAIN effects : effects[i].token[1] # FreshTx
<1>1. FreshTx \in FreshTxs
  BY DEF FreshTx
<1>2. ASSUME NEW i \in DOMAIN effects
      PROVE  effects[i].token[1] \in DOMAIN transactions
  BY IssuedToken DEF TurnInv, WorkInv, EffectsFromCommittedClaims
<1> QED
  BY <1>1, <1>2 DEF FreshTxs

\* A worker that sets out with a fresh claim.
LEMMA FreshClaimKeepsWork ==
    ASSUME TurnInv, FreshTxs # {}, IssuedTokens \subseteq IssuedTokens',
           UNCHANGED <<stream, threads, effects, abandoned, now>>,
           NEW w \in Workers, NEW state \in WorkerStates, Goto(w, state), state.tx = FreshTx,
           state.pc \notin {"idle", "unknown"} => <<FreshTx, state.job>> \in IssuedTokens'
    PROVE  WorkInv'
<1>1. state.pc # "idle" =>
          \A v \in Workers : v # w /\ worker[v].pc # "idle" => worker[v].tx # state.tx
  BY FreshClaim
<1>2. AllAbandoned(state.tx, effects, abandoned')
  BY FreshClaim DEF AllAbandoned
<1> QED
  BY <1>1, <1>2, TurnTypesKept, GotoKeepsWork DEF TurnInv

\* A worker that gives up.
LEMMA RestKeepsWork ==
    ASSUME TurnInv, IssuedTokens \subseteq IssuedTokens', UNCHANGED <<effects, abandoned>>,
           now' \in Time, stream' \in [Threads -> Seq(Events)],
           threads' \in [version : Nat, status : [Threads -> Statuses]],
           NEW w \in Workers, Goto(w, AtRest)
    PROVE  WorkInv'
<1>1. AtRest \in WorkerStates /\ AtRest.pc = "idle"
  BY StatesOfWorkers
<1> QED
  BY <1>1, HoldingKeepsWork DEF TurnInv, BeforeCall

\* claim_one.
LEMMA ClaimOneKeepsInv ==
    ASSUME TurnInv, NEW w \in Workers, ClaimOne(w)
    PROVE  TurnInv'
<1>1. /\ FreshTxs # {} /\ UNCHANGED <<stream, threads, effects, abandoned, resent, now>>
      /\ ClaimJobs(FreshTx, QUEUE, w, now, LEASE_MS, 1)
  BY DEF ClaimOne, callVars
<1>2. FreshTx \in TxIds /\ FreshTx \notin DOMAIN transactions
  BY <1>1, FreshClaim
<1>3. StoreInv' /\ JobsMoveOn /\ DOMAIN jobs' = DOMAIN jobs
  BY <1>1, <1>2, TurnTypesKept, TurnAssumption, ClaimMovesOn DEF TurnInv
<1>4. IssuedTokens \subseteq IssuedTokens'
  BY <1>3 DEF JobsMoveOn
<1>5. ASSUME Goto(w, AtRest) PROVE WorkInv'
  BY <1>1, <1>4, <1>5, TurnTypesKept, RestKeepsWork
<1>6. ASSUME Goto(w, [pc |-> "unknown", tx |-> FreshTx]) PROVE WorkInv'
  <2>1. [pc |-> "unknown", tx |-> FreshTx] \in WorkerStates
    BY <1>2, StatesOfWorkers
  <2> QED
    BY <1>1, <1>4, <1>6, <2>1, FreshClaimKeepsWork
<1>7. ASSUME \E r \in claim_receipts' :
                 /\ r.transaction_id = FreshTx
                 /\ Goto(w, [pc |-> "claimed", tx |-> FreshTx, job |-> r.job_id])
      PROVE  WorkInv'
  <2>1. PICK r \in claim_receipts' :
            /\ r.transaction_id = FreshTx
            /\ Goto(w, [pc |-> "claimed", tx |-> FreshTx, job |-> r.job_id])
    BY <1>7
  <2>2. r \in ReceiptRow /\ r.lease_token = <<r.transaction_id, r.job_id>>
    BY <1>3 DEF StoreInv, JobInv, TypeOK, ReceiptInv, ReceiptOrigin
  <2>3. <<FreshTx, r.job_id>> \in IssuedTokens' /\ r.job_id \in JobIds
    BY <2>1, <2>2 DEF IssuedTokens, ReceiptRow
  <2>4. [pc |-> "claimed", tx |-> FreshTx, job |-> r.job_id] \in WorkerStates
    BY <1>2, <2>3, StatesOfWorkers
  <2> QED
    BY <1>1, <1>4, <2>1, <2>3, <2>4, FreshClaimKeepsWork
<1>8. WorkInv'
  BY <1>5, <1>6, <1>7 DEF ClaimOne
<1>9. CallInv'
  BY <1>1, <1>3, <1>8, CallsStayLast DEF TurnInv
<1>10. ThreadInv'
  BY <1>1, <1>3, ThreadsStayInStep DEF TurnInv
<1> QED
  BY <1>3, <1>8, <1>9, <1>10 DEF TurnInv

\* A claim whose COMMIT fails.
LEMMA ClaimLostKeepsInv ==
    ASSUME TurnInv, NEW w \in Workers, ClaimLost(w)
    PROVE  TurnInv'
<1>1. /\ FreshTxs # {} /\ UNCHANGED <<storeVars, stream, threads, effects, abandoned, resent, now>>
      /\ Goto(w, [pc |-> "unknown", tx |-> FreshTx])
  BY DEF ClaimLost, callVars
<1>2. [pc |-> "unknown", tx |-> FreshTx] \in WorkerStates
  BY <1>1, FreshClaim, StatesOfWorkers
<1>3. IssuedTokens \subseteq IssuedTokens'
  BY <1>1 DEF storeVars, IssuedTokens
<1>4. WorkInv'
  BY <1>1, <1>2, <1>3, FreshClaimKeepsWork
<1> QED
  BY <1>1, <1>4, TurnTypesKept, QuietTurnStep

\* Steps of one worker that only change what it is doing.
LEMMA WorkerStepKeepsInv ==
    ASSUME TurnInv, UNCHANGED <<storeVars, stream, threads, effects, abandoned, resent, now>>,
           NEW w \in Workers, NEW state \in WorkerStates, Goto(w, state),
           state.pc # "idle" => worker[w].pc # "idle" /\ state.tx = worker[w].tx,
           state.pc \notin {"idle", "unknown"} =>
               worker[w].pc \notin {"idle", "unknown"} /\ state.job = worker[w].job,
           state.pc \in BeforeCall => worker[w].pc \in BeforeCall
    PROVE  TurnInv'
<1>1. IssuedTokens \subseteq IssuedTokens'
  BY DEF storeVars, IssuedTokens
<1>2. WorkInv'
  BY <1>1, TurnTypesKept, HoldingKeepsWork DEF TurnInv
<1> QED
  BY <1>2, TurnTypesKept, QuietTurnStep

\* A worker that starts from scratch.
LEMMA RestKeepsInv ==
    ASSUME TurnInv, UNCHANGED <<storeVars, stream, threads, effects, abandoned, resent, now>>,
           NEW w \in Workers, Goto(w, AtRest)
    PROVE  TurnInv'
<1>1. AtRest \in WorkerStates /\ AtRest.pc = "idle"
  BY StatesOfWorkers
<1> QED
  BY <1>1, WorkerStepKeepsInv DEF BeforeCall

\* A process that ends, by itself.
LEMMA RestartKeepsInv ==
    ASSUME TurnInv, UNCHANGED <<storeVars, stream, threads, effects, resent, now>>,
           NEW w \in Workers, worker[w].pc # "idle", Restart(w)
    PROVE  TurnInv'
<1>1. IssuedTokens \subseteq IssuedTokens'
  BY DEF storeVars, IssuedTokens
<1>2. WorkInv'
  BY <1>1, TurnTypesKept, RestartKeepsWork DEF TurnInv
<1> QED
  BY <1>2, TurnTypesKept, QuietTurnStep

\* Recovery hands out the jobs of the claim's own receipts.
LEMMA RecoverWorkKeepsInv ==
    ASSUME TurnInv, NEW w \in Workers, RecoverWork(w)
    PROVE  TurnInv'
<1>1. /\ worker[w].pc = "unknown" /\ UNCHANGED <<storeVars, stream, threads, effects, abandoned, resent, now>>
      /\ \/ Goto(w, AtRest)
         \/ \E id \in ExecutableJobs(worker[w].tx) :
               Goto(w, [pc |-> "claimed", tx |-> worker[w].tx, job |-> id])
  BY DEF RecoverWork, callVars
<1>2. CASE Goto(w, AtRest)
  BY <1>1, <1>2, RestKeepsInv
<1>3. CASE \E id \in ExecutableJobs(worker[w].tx) :
              Goto(w, [pc |-> "claimed", tx |-> worker[w].tx, job |-> id])
  <2>1. PICK id \in ExecutableJobs(worker[w].tx) :
            Goto(w, [pc |-> "claimed", tx |-> worker[w].tx, job |-> id])
    BY <1>3
  <2>2. PICK r \in claim_receipts : r.transaction_id = worker[w].tx /\ r.job_id = id
    BY DEF ExecutableJobs, RecoverClaim
  <2>3. r \in ReceiptRow /\ r.lease_token = <<r.transaction_id, r.job_id>>
    BY DEF TurnInv, StoreInv, JobInv, TypeOK, ReceiptInv, ReceiptOrigin
  <2>4. /\ <<worker[w].tx, id>> \in IssuedTokens
        /\ worker[w].tx \in TxIds /\ id \in JobIds
    BY <2>2, <2>3 DEF IssuedTokens, ReceiptRow
  <2>5. [pc |-> "claimed", tx |-> worker[w].tx, job |-> id] \in WorkerStates
    BY <2>4, StatesOfWorkers
  <2>6. IssuedTokens' = IssuedTokens
    BY <1>1 DEF storeVars, IssuedTokens
  <2>7. \A v \in Workers : v # w /\ worker[v].pc # "idle" => worker[v].tx # worker[w].tx
    BY <1>1 DEF TurnInv, WorkInv, WorkersApart
  <2>8. AllAbandoned(worker[w].tx, effects, abandoned')
    BY <1>1 DEF TurnInv, WorkInv, CallsAreAhead, BeforeCall
  <2>9. WorkInv'
    BY <1>1, <2>1, <2>4, <2>5, <2>6, <2>7, <2>8, TurnTypesKept, GotoKeepsWork DEF TurnInv
  <2> QED
    BY <1>1, <2>9, TurnTypesKept, QuietTurnStep
<1> QED
  BY <1>1, <1>2, <1>3

\* A heartbeat leaves the lease with its holder.
LEMMA HeartbeatKeepsInv ==
    ASSUME TurnInv, NEW w \in Workers, Heartbeat(w)
    PROVE  TurnInv'
<1>1. /\ worker[w].pc = "claimed" /\ now + HEARTBEAT_MS \in Time
      /\ UNCHANGED <<transactions, stream, threads, effects, resent, now>>
  BY DEF Heartbeat
<1>2. Token(w) \in Tokens
  BY <1>1, WorkerWithClaim
<1>3. CASE Restart(w) /\ UNCHANGED jobVars
  <2>1. UNCHANGED storeVars
    BY <1>1, <1>3 DEF jobVars, storeVars
  <2> QED
    BY <1>1, <1>3, <2>1, RestartKeepsInv
<1>4. CASE /\ ApplyExtendLease(worker[w].job, Token(w), now + HEARTBEAT_MS, now)
           /\ GoOn(w, Holding(w, "extended")) \/ Restart(w)
  <2>1. StoreInv' /\ JobsMoveOn /\ DOMAIN jobs' = DOMAIN jobs
    BY <1>1, <1>2, <1>4, ExtendMovesOn DEF TurnInv
  <2>2. IssuedTokens \subseteq IssuedTokens'
    BY <2>1 DEF JobsMoveOn
  <2>3. ASSUME GoOn(w, Holding(w, "extended")) PROVE WorkInv'
    <3>1. /\ Holding(w, "extended") \in WorkerStates /\ Holding(w, "extended").pc = "extended"
          /\ Holding(w, "extended").tx = worker[w].tx
          /\ Holding(w, "extended").job = worker[w].job
      BY <1>1, StatesOfWorkers
    <3> QED
      BY <1>1, <2>2, <2>3, <3>1, TurnTypesKept, HoldingKeepsWork
         DEF TurnInv, BeforeCall, GoOn
  <2>4. ASSUME Restart(w) PROVE WorkInv'
    BY <1>1, <2>2, <2>4, TurnTypesKept, RestartKeepsWork DEF TurnInv
  <2>5. WorkInv'
    BY <1>4, <2>3, <2>4
  <2>6. CallInv'
    BY <1>1, <2>1, CallsStayLast DEF TurnInv
  <2>7. ThreadInv'
    BY <1>1, <2>1, ThreadsStayInStep DEF TurnInv
  <2> QED
    BY <2>1, <2>5, <2>6, <2>7 DEF TurnInv
<1> QED
  BY <1>3, <1>4 DEF Heartbeat

\* store.projection_version.
LEMMA ReadVersionKeepsInv ==
    ASSUME TurnInv, NEW w \in Workers, ReadVersion(w)
    PROVE  TurnInv'
<1> DEFINE pc == IF worker[w].pc = "extended" THEN "starting" ELSE "completing"
           state == [pc |-> pc, tx |-> worker[w].tx, job |-> worker[w].job,
                     version |-> threads.version]
<1>1. /\ worker[w].pc \in {"extended", "called"} /\ Goto(w, state)
      /\ UNCHANGED <<storeVars, stream, threads, effects, abandoned, resent, now>>
  BY DEF ReadVersion, callVars
<1>2. worker[w].tx \in TxIds /\ worker[w].job \in JobIds
  BY <1>1, WorkerWithClaim
<1>3. threads.version \in Nat
  BY TurnTypesKept
<1>4. pc \in {"starting", "completing"} /\ (pc = "starting" <=> worker[w].pc = "extended")
  OBVIOUS
<1>5. /\ state \in WorkerStates /\ state.pc = pc
      /\ state.tx = worker[w].tx /\ state.job = worker[w].job
  BY <1>2, <1>3, <1>4 DEF WorkerStates
<1> HIDE DEF pc, state
<1> QED
  BY <1>1, <1>4, <1>5, WorkerStepKeepsInv DEF BeforeCall

\* The turn-started batch.
LEMMA StartTurnKeepsInv ==
    ASSUME TurnInv, NEW w \in Workers, StartTurn(w)
    PROVE  TurnInv'
<1>1. worker[w].pc = "starting" /\ UNCHANGED <<storeVars, effects, resent, now>>
  BY DEF StartTurn
<1>2. CASE Restart(w) /\ UNCHANGED <<stream, threads>>
  BY <1>1, <1>2, RestartKeepsInv
<1>3. CASE /\ Publish(ThreadOf(worker[w].job), "thread.turn-started", "running")
           /\ GoOn(w, Holding(w, "started")) \/ Restart(w)
  <2>1. StoreInv' /\ JobsMoveOn /\ DOMAIN jobs' = DOMAIN jobs
    BY <1>1, IdleStoreMovesOn DEF TurnInv
  <2>2. IssuedTokens \subseteq IssuedTokens'
    BY <2>1 DEF JobsMoveOn
  <2>3. "thread.turn-started" \in Events /\ "running" \in Statuses
    BY DEF Events, Statuses
  <2>4. TurnTypes /\ ThreadOf(worker[w].job) \in Threads
    BY <1>1, WorkerWithClaim DEF TurnInv, WorkInv
  <2>5. /\ stream' \in [Threads -> Seq(Events)]
        /\ threads' \in [version : Nat, status : [Threads -> Statuses]]
    BY <1>3, <2>3, <2>4, Published
  <2>6. ThreadInv'
    BY <1>3, <2>1, <2>3, <2>4, PublishKeepsThreads DEF TurnInv
  <2>7. ASSUME GoOn(w, Holding(w, "started")) PROVE WorkInv'
    <3>1. /\ Holding(w, "started") \in WorkerStates /\ Holding(w, "started").pc = "started"
          /\ Holding(w, "started").tx = worker[w].tx
          /\ Holding(w, "started").job = worker[w].job
      BY <1>1, StatesOfWorkers
    <3> QED
      BY <1>1, <2>2, <2>5, <2>7, <3>1, TurnTypesKept, HoldingKeepsWork
         DEF TurnInv, BeforeCall, GoOn
  <2>8. ASSUME Restart(w) PROVE WorkInv'
    BY <1>1, <2>2, <2>5, <2>8, TurnTypesKept, RestartKeepsWork DEF TurnInv
  <2>9. WorkInv'
    BY <1>3, <2>7, <2>8
  <2>10. CallInv'
    BY <1>1, <2>1, CallsStayLast DEF TurnInv
  <2> QED
    BY <2>1, <2>6, <2>9, <2>10 DEF TurnInv
<1> QED
  BY <1>2, <1>3 DEF StartTurn

\* The provider call: only processes that have ended called it from this claim,
\* and if the lease is still held nobody has called it under another lease of the
\* turn but before a retry.
LEMMA CallProviderKeepsInv ==
    ASSUME TurnInv, NEW w \in Workers, CallProvider(w)
    PROVE  TurnInv'
<1>1. /\ worker[w].pc = "started" /\ UNCHANGED <<storeVars, stream, threads, abandoned, resent, now>>
      /\ Goto(w, Holding(w, "called"))
  BY DEF CallProvider
<1>2. StoreInv' /\ JobsMoveOn /\ DOMAIN jobs' = DOMAIN jobs
  BY <1>1, IdleStoreMovesOn DEF TurnInv
<1>3. ThreadInv'
  BY <1>1, <1>2, ThreadsStayInStep DEF TurnInv
<1>4. PICK token, tx, id : token = Token(w) /\ tx = worker[w].tx /\ id = worker[w].job
  OBVIOUS
<1>5. /\ token \in IssuedTokens /\ token \in Tokens /\ token[1] = tx /\ token[2] = id
      /\ id \in DOMAIN jobs
  BY <1>1, <1>4, WorkerWithClaim
<1>6. PICK call : call = [token |-> token, leased |-> CanReport(id, "Succeeded", token)]
  OBVIOUS
<1>7. /\ call.token = token /\ call \in Calls
      /\ call.leased => CanReport(id, "Succeeded", token)
  <2>1. CanReport(id, "Succeeded", token) \in BOOLEAN
    BY DEF CanReport
  <2> QED
    BY <1>5, <1>6, <2>1 DEF Calls
<1>8. effects' = Append(effects, call)
  BY <1>4, <1>6 DEF CallProvider
<1>9. PICK n : n = Len(effects)
  OBVIOUS
<1>10. effects \in Seq(Calls)
  BY DEF TurnInv, WorkInv, TurnTypes
<1>11. /\ effects' \in Seq(Calls) /\ n \in Nat /\ DOMAIN effects = 1 .. n
       /\ DOMAIN effects' = 1 .. n + 1 /\ \A i \in 1 .. n : effects'[i] = effects[i]
       /\ effects'[n + 1] = call
  BY <1>7, <1>8, <1>9, <1>10, Appended
<1>12. \A i \in DOMAIN effects : effects[i].token[1] = tx => i \in abandoned
  BY <1>1, <1>4 DEF TurnInv, WorkInv, CallsAreAhead, BeforeCall, AllAbandoned
<1>13. \A i \in DOMAIN effects' : \/ i \in DOMAIN effects /\ effects'[i] = effects[i]
                                  \/ i = n + 1 /\ effects'[i] = call
  BY <1>11
<1>14. IssuedTokens' = IssuedTokens
  BY <1>1 DEF storeVars, IssuedTokens
<1>15. EffectsFromCommittedClaims'
  <2>1. ASSUME NEW i \in DOMAIN effects'
        PROVE  effects'[i].token \in IssuedTokens'
    BY <1>5, <1>7, <1>13, <1>14 DEF TurnInv, WorkInv, EffectsFromCommittedClaims
  <2>2. ASSUME NEW i \in DOMAIN effects', NEW k \in DOMAIN effects', i < k,
               effects'[i].token = effects'[k].token
        PROVE  i \in abandoned'
    <3>1. i \in DOMAIN effects /\ effects'[i] = effects[i]
      BY <1>11, <2>2
    <3>2. CASE k \in DOMAIN effects /\ effects'[k] = effects[k]
      BY <1>1, <2>2, <3>1, <3>2 DEF TurnInv, WorkInv, EffectsFromCommittedClaims
    <3>3. CASE effects'[k] = call
      BY <1>1, <1>5, <1>7, <1>12, <2>2, <3>1, <3>3
    <3> QED
      BY <1>13, <3>2, <3>3
  <2> QED
    BY <2>1, <2>2 DEF EffectsFromCommittedClaims
<1>16. /\ Holding(w, "called") \in WorkerStates /\ Holding(w, "called").pc = "called"
       /\ Holding(w, "called").tx = tx /\ Holding(w, "called").job = id
  BY <1>1, <1>4, StatesOfWorkers
<1>17. /\ worker'[w] = Holding(w, "called") /\ worker' \in [Workers -> WorkerStates]
       /\ \A v \in Workers : v # w => worker'[v] = worker[v]
  BY <1>1, <1>16 DEF Goto, TurnInv, WorkInv, TurnTypes
<1>18. TurnTypes'
  BY <1>1, <1>11, <1>17, TurnTypesKept DEF TurnTypes
<1>19. WorkersApart'
  <2>1. \A v \in Workers : /\ worker'[v].pc # "idle" => /\ worker[v].pc # "idle"
                                                        /\ worker'[v].tx = worker[v].tx
                           /\ worker'[v].pc \notin {"idle", "unknown"} =>
                                 /\ worker[v].pc \notin {"idle", "unknown"}
                                 /\ worker'[v].job = worker[v].job
    BY <1>1, <1>4, <1>16, <1>17
  <2> QED
    BY <1>14, <2>1 DEF TurnInv, WorkInv, WorkersApart, Token
<1>20. CallsAreAhead'
  <2>1. ASSUME NEW v \in Workers, worker'[v].pc \in BeforeCall, NEW i \in DOMAIN effects'
        PROVE  effects'[i].token[1] = worker'[v].tx => i \in abandoned'
    <3>1. v # w /\ worker'[v] = worker[v] /\ worker[v].pc # "idle"
      BY <1>16, <1>17, <2>1 DEF BeforeCall
    <3>2. worker[v].tx # tx
      BY <1>1, <1>4, <3>1 DEF TurnInv, WorkInv, WorkersApart
    <3>3. \A k \in DOMAIN effects : effects[k].token[1] = worker[v].tx => k \in abandoned
      BY <2>1, <3>1 DEF TurnInv, WorkInv, CallsAreAhead, AllAbandoned
    <3> QED
      BY <1>1, <1>5, <1>7, <1>13, <3>1, <3>2, <3>3
  <2> QED
    BY <2>1 DEF CallsAreAhead, AllAbandoned
<1>21. call.leased => jobs[id].state = "Leased" /\ jobs[id].lease_token = token
  BY <1>5, <1>7, ReportedRow DEF TurnInv, StoreInv
<1>22. jobs' = jobs
  BY <1>1 DEF storeVars
<1>23. LeasedCallsAreLast'
  <2>1. ASSUME NEW i \in DOMAIN effects', effects'[i].leased, i \notin resent'
        PROVE  /\ effects'[i].token[2] \in DOMAIN jobs'
               /\ NoneAfter(jobs'[effects'[i].token[2]], effects'[i].token)
    <3>1. CASE i \in DOMAIN effects /\ effects'[i] = effects[i]
      BY <1>1, <1>22, <2>1, <3>1 DEF TurnInv, CallInv, LeasedCallsAreLast
    <3>2. CASE effects'[i] = call
      BY <1>5, <1>7, <1>21, <1>22, <2>1, <3>2 DEF NoneAfter
    <3> QED
      BY <1>13, <3>1, <3>2
  <2> QED
    BY <2>1 DEF LeasedCallsAreLast
<1>24. ASSUME call.leased, NEW i \in DOMAIN effects, effects[i].leased,
              effects[i].token[2] = id, effects[i].token # token
       PROVE  i \in resent
  <2> SUFFICES ASSUME i \notin resent PROVE FALSE
    OBVIOUS
  <2>1. NoneAfter(jobs[id], effects[i].token)
    BY <1>24 DEF TurnInv, CallInv, LeasedCallsAreLast
  <2>2. jobs[id].state = "Leased" /\ jobs[id].lease_token = token
    BY <1>21, <1>24
  <2> QED
    BY <1>24, <2>1, <2>2 DEF NoneAfter, TerminalStates
<1>25. SecondLeaseOnlyByRetry'
  <2>1. ASSUME NEW i \in DOMAIN effects', NEW k \in DOMAIN effects',
               i < k, effects'[i].leased, effects'[k].leased,
               effects'[i].token[2] = effects'[k].token[2],
               effects'[i].token # effects'[k].token
        PROVE  i \in resent'
    <3>1. i \in DOMAIN effects /\ effects'[i] = effects[i]
      BY <1>11, <2>1
    <3>2. CASE k \in DOMAIN effects /\ effects'[k] = effects[k]
      BY <1>1, <2>1, <3>1, <3>2 DEF TurnInv, CallInv, SecondLeaseOnlyByRetry
    <3>3. CASE effects'[k] = call
      BY <1>1, <1>5, <1>7, <1>24, <2>1, <3>1, <3>3
    <3> QED
      BY <1>13, <3>2, <3>3
  <2> QED
    BY <2>1 DEF SecondLeaseOnlyByRetry
<1> QED
  BY <1>2, <1>3, <1>15, <1>18, <1>19, <1>20, <1>23, <1>25 DEF TurnInv, WorkInv, CallInv

\* The completion batch records the event and ends the lease together; a second
\* one finds the token used up.
LEMMA CompleteKeepsThreads ==
    ASSUME TurnInv, NEW w \in Workers, worker[w].pc \in {"completing", "resubmitting"},
           CanComplete(w), Complete(w)
    PROVE  /\ StoreInv' /\ JobsMoveOn /\ ThreadInv'
           /\ stream' \in [Threads -> Seq(Events)]
           /\ threads' \in [version : Nat, status : [Threads -> Statuses]]
<1>1. PICK id, token, thread :
          id = worker[w].job /\ token = Token(w) /\ thread = ThreadOf(worker[w].job)
  OBVIOUS
<1>2. token \in Tokens /\ thread \in Threads /\ TurnOf(thread).job_id = id
  BY <1>1, WorkerWithClaim
<1>3. ApplyAck(id, token) /\ UNCHANGED transactions
  BY <1>1 DEF CanComplete, Complete
<1>4. /\ StoreInv' /\ JobsMoveOn /\ DOMAIN jobs' = DOMAIN jobs
      /\ id \in DOMAIN jobs /\ jobs[id].state = "Leased" /\ jobs'[id].state = "Succeeded"
  BY <1>2, <1>3, AckMovesOn DEF TurnInv
<1>5. Publish(thread, "thread.turn-completed", "idle")
  BY <1>1 DEF Complete
<1>6. "thread.turn-completed" \in Events /\ "idle" \in Statuses
  BY DEF Events, Statuses
<1>7. TurnTypes
  BY DEF TurnInv, WorkInv
<1>8. ThreadInv'
  BY <1>2, <1>4, <1>5, <1>6, <1>7, PublishKeepsThreads DEF TurnInv
<1> QED
  BY <1>2, <1>4, <1>5, <1>6, <1>7, <1>8, Published

\* complete_turn.
LEMMA CompleteTurnKeepsInv ==
    ASSUME TurnInv, NEW w \in Workers, CompleteTurn(w)
    PROVE  TurnInv'
<1> DEFINE waiting == [worker[w] EXCEPT !.pc = "ack_unknown"]
<1>1. worker[w].pc \in {"completing", "resubmitting"} /\ UNCHANGED <<effects, resent, now>>
  BY DEF CompleteTurn
<1>2. ASSUME worker[w].pc = "completing"
      PROVE  /\ waiting \in WorkerStates /\ waiting.pc = "ack_unknown"
             /\ waiting.tx = worker[w].tx /\ waiting.job = worker[w].job
  BY <1>2, StatesOfWorkers
<1>3. AckUnknown(w) => Restart(w) \/ (worker[w].pc = "completing" /\ GoOn(w, waiting))
  BY DEF AckUnknown
<1>4. \/ CanComplete(w) /\ Complete(w) /\ (GoOn(w, AtRest) \/ AckUnknown(w))
      \/ AckUnknown(w) /\ UNCHANGED <<storeVars, stream, threads>>
      \/ Restart(w) /\ UNCHANGED <<storeVars, stream, threads>>
  BY DEF CompleteTurn
<1> HIDE DEF waiting
<1>5. CASE Restart(w) /\ UNCHANGED <<storeVars, stream, threads>>
  BY <1>1, <1>5, RestartKeepsInv
<1>6. CASE /\ worker[w].pc = "completing" /\ GoOn(w, waiting)
           /\ UNCHANGED <<storeVars, stream, threads>>
  BY <1>1, <1>2, <1>6, WorkerStepKeepsInv DEF BeforeCall, GoOn
<1>7. CASE CanComplete(w) /\ Complete(w) /\ (GoOn(w, AtRest) \/ AckUnknown(w))
  <2>1. /\ StoreInv' /\ JobsMoveOn /\ ThreadInv'
        /\ stream' \in [Threads -> Seq(Events)]
        /\ threads' \in [version : Nat, status : [Threads -> Statuses]]
    BY <1>1, <1>7, CompleteKeepsThreads
  <2>2. IssuedTokens \subseteq IssuedTokens' /\ now' \in Time
    BY <1>1, <2>1, TurnTypesKept DEF JobsMoveOn
  <2>3. ASSUME GoOn(w, AtRest) PROVE WorkInv'
    BY <1>1, <2>1, <2>2, <2>3, RestKeepsWork DEF GoOn
  <2>4. ASSUME Restart(w) PROVE WorkInv'
    BY <1>1, <2>1, <2>2, <2>4, RestartKeepsWork DEF TurnInv
  <2>5. ASSUME worker[w].pc = "completing", GoOn(w, waiting) PROVE WorkInv'
    BY <1>1, <1>2, <2>1, <2>2, <2>5, HoldingKeepsWork DEF TurnInv, BeforeCall, GoOn
  <2>6. WorkInv'
    BY <1>3, <1>7, <2>3, <2>4, <2>5
  <2>7. CallInv'
    BY <1>1, <2>1, CallsStayLast DEF TurnInv
  <2> QED
    BY <2>1, <2>6, <2>7 DEF TurnInv
<1> QED
  BY <1>3, <1>4, <1>5, <1>6, <1>7

\* recover_transaction.
LEMMA RecoverAckKeepsInv ==
    ASSUME TurnInv, NEW w \in Workers, RecoverAck(w)
    PROVE  TurnInv'
<1> DEFINE again == [worker[w] EXCEPT !.pc = "resubmitting"]
<1>1. /\ worker[w].pc = "ack_unknown" /\ UNCHANGED <<storeVars, stream, threads, effects, abandoned, resent, now>>
      /\ Goto(w, AtRest) \/ Goto(w, again)
  BY DEF RecoverAck, callVars
<1>2. /\ again \in WorkerStates /\ again.pc = "resubmitting"
      /\ again.tx = worker[w].tx /\ again.job = worker[w].job
  BY <1>1, StatesOfWorkers
<1> HIDE DEF again
<1>3. CASE Goto(w, AtRest)
  BY <1>1, <1>3, RestKeepsInv
<1>4. CASE Goto(w, again)
  BY <1>1, <1>2, <1>4, WorkerStepKeepsInv DEF BeforeCall
<1> QED
  BY <1>1, <1>3, <1>4

\* A process that dies forgets its claim, or asks about it.
LEMMA CrashKeepsInv ==
    ASSUME TurnInv, NEW w \in Workers, CrashWorker(w)
    PROVE  TurnInv'
BY RestartKeepsInv DEF CrashWorker

\* The clock.
LEMMA TickKeepsInv == TurnInv /\ Tick => TurnInv'
<1> SUFFICES ASSUME TurnInv, Tick PROVE TurnInv'
  OBVIOUS
<1>1. UNCHANGED <<storeVars, stream, threads, worker, effects, abandoned, resent>>
  BY DEF Tick, callVars
<1>2. now' \in Time
  <2>1. now \in 0 .. MaxTime /\ now < MaxTime /\ now' = now + 1
    BY TurnTypesKept DEF Tick, Time
  <2> QED
    BY <2>1, SpecAssumption DEF Time
<1>3. IssuedTokens \subseteq IssuedTokens'
  BY <1>1 DEF storeVars, IssuedTokens
<1>4. WorkInv'
  BY <1>1, <1>2, <1>3, TurnTypesKept, OthersKeepWork DEF TurnInv
<1> QED
  BY <1>1, <1>2, <1>4, QuietTurnStep

\* The operator.
LEMMA OperatorKeepsInv ==
    ASSUME TurnInv, NEW id, OperatorResolves(id)
    PROVE  TurnInv'
<1>1. UNCHANGED <<stream, threads, worker, effects, abandoned, now>> /\ resent \subseteq resent'
  BY DEF OperatorResolves
<1>2. StoreInv' /\ JobsMoveOn /\ DOMAIN jobs' = DOMAIN jobs
  BY ResolveMovesOn DEF TurnInv
<1>3. WorkInv'
  BY <1>1, <1>2, TurnTypesKept, OthersKeepWork DEF TurnInv, JobsMoveOn
<1>4. CallInv'
  BY <1>1, <1>2, CallsStayLast DEF TurnInv
<1>5. ThreadInv'
  BY <1>1, <1>2, ThreadsStayInStep DEF TurnInv
<1> QED
  BY <1>2, <1>3, <1>4, <1>5 DEF TurnInv

-----------------------------------------------------------------------------
(* The theorems *)

\* The invariant holds of a new store with nobody at work.
LEMMA TurnInitInv == TurnInit => TurnInv
<1> SUFFICES ASSUME TurnInit PROVE TurnInv
  OBVIOUS
<1>1. StoreInv
  BY InitInv, InitReceipts DEF TurnInit, StoreInv
<1>2. AtRest \in WorkerStates /\ AtRest.pc = "idle"
  BY DEF AtRest, WorkerStates
<1>3. /\ worker = [w \in Workers |-> AtRest] /\ effects = <<>> /\ now = 0
      /\ stream = [thread \in Threads |-> <<>>]
      /\ threads = [version |-> 0, status |-> [thread \in Threads |-> "absent"]]
      /\ jobs = [id \in {} |-> None]
  BY DEF TurnInit, Init
<1>4. TurnTypes
  BY <1>2, <1>3, SpecAssumption DEF TurnTypes, Time, Statuses
<1>5. WorkInv
  BY <1>2, <1>3, <1>4 DEF WorkInv, WorkersApart, CallsAreAhead, BeforeCall, AllAbandoned,
                          EffectsFromCommittedClaims
<1>6. CallInv
  BY <1>3 DEF CallInv, LeasedCallsAreLast, SecondLeaseOnlyByRetry
<1>7. ThreadInv
  BY <1>3 DEF ThreadInv, StreamsMatchJobs, TurnCompletesOnce, IdleMeansCompleted
<1> QED
  BY <1>1, <1>5, <1>6, <1>7 DEF TurnInv

\* Every step of the workflow keeps the invariant.
LEMMA TurnNextInv == TurnInv /\ [TurnNext]_allVars => TurnInv'
<1> SUFFICES ASSUME TurnInv, [TurnNext]_allVars PROVE TurnInv'
  OBVIOUS
<1>1. ASSUME NEW thread \in Threads,
             PrepareRequest(thread) \/ CreateThread(thread) \/ RequestTurn(thread)
      PROVE  TurnInv'
  BY <1>1, PrepareKeepsInv, CreateKeepsInv, RequestKeepsInv
<1>2. ASSUME NEW w \in Workers, WorkerStep(w)
      PROVE  TurnInv'
  BY <1>2, ClaimOneKeepsInv, RecoverWorkKeepsInv, HeartbeatKeepsInv, ReadVersionKeepsInv,
     StartTurnKeepsInv, CallProviderKeepsInv, CompleteTurnKeepsInv, RecoverAckKeepsInv
     DEF WorkerStep
<1>3. ASSUME NEW w \in Workers, ClaimLost(w) \/ CrashWorker(w)
      PROVE  TurnInv'
  BY <1>3, ClaimLostKeepsInv, CrashKeepsInv
<1>4. CASE Tick
  BY <1>4, TickKeepsInv
<1>5. ASSUME NEW id \in JobIds, OperatorResolves(id)
      PROVE  TurnInv'
  BY <1>5, OperatorKeepsInv
<1>6. CASE UNCHANGED allVars
  <2>1. UNCHANGED <<storeVars, stream, threads, worker, effects, abandoned, resent, now>>
    BY <1>6 DEF allVars, turnVars, callVars
  <2>2. IssuedTokens \subseteq IssuedTokens'
    BY <2>1 DEF storeVars, IssuedTokens
  <2>3. WorkInv'
    BY <2>1, <2>2, TurnTypesKept, OthersKeepWork DEF TurnInv
  <2> QED
    BY <2>1, <2>3, TurnTypesKept, QuietTurnStep
<1> QED
  BY <1>1, <1>2, <1>3, <1>4, <1>5, <1>6 DEF TurnNext

\* The invariant of the workflow.
THEOREM TurnInvariant == TurnSpec => []TurnInv
BY TurnInitInv, TurnNextInv, PTL DEF TurnSpec

\* A turn's completion is recorded at most once, however often its batch is
\* submitted and by whomever.
THEOREM TurnsCompleteOnce == TurnSpec => []TurnCompletesOnce
<1>1. TurnInv => TurnCompletesOnce
  BY DEF TurnInv, ThreadInv
<1> QED
  BY <1>1, TurnInvariant, PTL

\* A thread whose turn was requested says "idle" only with the completion and
\* the acknowledgement recorded.
THEOREM IdleTurnsAreCompleted == TurnSpec => []IdleMeansCompleted
<1>1. TurnInv => IdleMeansCompleted
  BY DEF TurnInv, ThreadInv
<1> QED
  BY <1>1, TurnInvariant, PTL

\* No provider call is made from an indeterminate claim, nor again from one lease
\* while the process that made it goes on.
THEOREM CallsComeFromCommittedClaims == TurnSpec => []EffectsFromCommittedClaims
<1>1. TurnInv => EffectsFromCommittedClaims
  BY DEF TurnInv, WorkInv
<1> QED
  BY <1>1, TurnInvariant, PTL

\* A call under a lease is followed by one under another lease of the turn only
\* when an operator asked for the retry after it.
THEOREM SecondLeasesComeFromRetries == TurnSpec => []SecondLeaseOnlyByRetry
<1>1. TurnInv => SecondLeaseOnlyByRetry
  BY DEF TurnInv, CallInv
<1> QED
  BY <1>1, TurnInvariant, PTL
=============================================================================

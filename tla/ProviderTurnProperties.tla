----------------------- MODULE ProviderTurnProperties -----------------------
(***************************************************************************)
(* What the provider-turn workflow promises (docs/SYNARA_INTEGRATION.md),  *)
(* as far as the store gives it to its workers.  What it cannot give them: *)
(* a worker that is held up between start_turn and the provider call until *)
(* its lease has gone makes the call all the same; one that recovers the   *)
(* claim of a process that ended after the call makes it again; a retry by *)
(* an operator asks for it again; and a job that an operator resolves to   *)
(* Dead leaves its thread's status at what it was.                         *)
(***************************************************************************)
EXTENDS ProviderTurn

\* A turn's completion is recorded at most once, whoever submits it, however
\* often and after whatever lost answer ("the turn completes exactly once"):
\* the acknowledgement in the same batch uses up the lease token.
TurnCompletesOnce ==
    \A thread \in Threads : \A i, k \in DOMAIN stream[thread] :
        /\ stream[thread][i] = "thread.turn-completed"
        /\ stream[thread][k] = "thread.turn-completed"
        => i = k

\* A thread whose turn was requested says "idle" only when the completion event
\* and the acknowledgement have been recorded together (complete_turn).
IdleMeansCompleted ==
    \A id \in DOMAIN jobs : threads.status[ThreadOf(id)] = "idle" =>
        /\ jobs[id].state = "Succeeded"
        /\ \E i \in DOMAIN stream[ThreadOf(id)] :
              stream[ThreadOf(id)][i] = "thread.turn-completed"

\* No provider call is made from an indeterminate claim: each is made under a
\* lease a committed claim gave out.  It is repeated under the same lease only
\* when the process that made it ended before it had completed the turn, never
\* by a process that goes on (complete_turn's unknown outcomes, claim_one's).
EffectsFromCommittedClaims ==
    /\ \A i \in DOMAIN effects : effects[i].token \in IssuedTokens
    /\ \A i, k \in DOMAIN effects :
          i < k /\ effects[i].token = effects[k].token => i \in abandoned

\* A call made by a worker that holds the job's lease is never followed by one
\* under another lease of the job, unless an operator asked for the retry after
\* it: no expiry, recovery, late report or lost answer gives the turn to a
\* second worker once the provider may have been called.
SecondLeaseOnlyByRetry ==
    \A i, k \in DOMAIN effects :
        /\ i < k /\ effects[i].leased /\ effects[k].leased
        /\ effects[i].token[2] = effects[k].token[2]
        /\ effects[i].token # effects[k].token
        => i \in resent

\* A turn that was requested ends, through crashes, lost answers and conflicts:
\* its job becomes Succeeded or Dead (no lease or uncertain job is forgotten).
TurnsEnd ==
    \A id \in JobIds : (id \in DOMAIN jobs) ~> (id \in DOMAIN jobs /\ ~IsActive(jobs[id]))
=============================================================================

-------------------------- MODULE AttemptOutcomes ---------------------------
(***************************************************************************)
(* Who decided how each attempt of a job ended.  The job store runs        *)
(* unchanged; a history variable records every report and resolution the   *)
(* store accepted, with the attempt it was meant for: a worker means the   *)
(* attempt its token was given out for, an operator the job's current one. *)
(* An expired lease ends an attempt too, but nobody reported on it.        *)
(***************************************************************************)
EXTENDS JobStore

VARIABLE settled  \* the accepted [job_id, attempt, by] records

OutcomeKinds == {"ack", "fail", "cancel", "resolve"}

\* The attempt a token was given out for.
AttemptOf(token) == (CHOOSE r \in claim_receipts : r.lease_token = token).attempt

Settle(id, attempt, by) ==
    /\ settled' = settled \cup {[job_id |-> id, attempt |-> attempt, by |-> by]}
    /\ UNCHANGED transactions

OutcomeInit == Init /\ settled = {}

AckAttempt ==
    \E id \in JobIds, token \in IssuedTokens :
        ApplyAck(id, token) /\ Settle(id, AttemptOf(token), "ack")

FailAttempt ==
    \E id \in JobIds, token \in IssuedTokens, retry_after \in Clocks \cup {None}, now \in Clocks :
        ApplyFail(id, token, retry_after, now) /\ Settle(id, AttemptOf(token), "fail")

CancelAttempt ==
    \E id \in JobIds, token \in IssuedTokens :
        ApplyCancel(id, token) /\ Settle(id, AttemptOf(token), "cancel")

ResolveAttempt ==
    \E id \in JobIds, resolution \in Resolutions :
        ApplyResolve(id, resolution) /\ Settle(id, jobs[id].attempt, "resolve")

\* Cancelling a pending job ends no attempt.
CancelPending ==
    \E id \in JobIds : ApplyCancel(id, None) /\ UNCHANGED <<transactions, settled>>

OutcomeNext ==
    \/ AckAttempt \/ FailAttempt \/ CancelAttempt \/ ResolveAttempt \/ CancelPending
    \/ Enqueue /\ UNCHANGED settled
    \/ ExtendLease /\ UNCHANGED settled
    \/ Claim /\ UNCHANGED settled

OutcomeSpec == OutcomeInit /\ [][OutcomeNext]_<<storeVars, settled>>

-----------------------------------------------------------------------------
\* Whether the attempt is no longer open: it is not the job's last one, or the
\* job is neither leased nor uncertain any more.
IsOver(id, attempt) ==
    \/ attempt < jobs[id].attempt
    \/ jobs[id].state \notin {"Leased", "Uncertain"}

\* The store never guesses what became of an attempt of a job that requires
\* reconciliation: such an attempt is over only when its worker reported on it
\* or an operator resolved it (plan_maintenance makes it Uncertain, plan_leases
\* leaves an uncertain job alone).
NoAttemptIsGuessed ==
    \A id \in DOMAIN jobs : jobs[id].spec.effect_mode = "RequiresReconciliation" =>
        \A k \in 1 .. jobs[id].attempt :
            IsOver(id, k) => \E s \in settled : s.job_id = id /\ s.attempt = k

\* No late report is taken for another attempt: each attempt is settled at most
\* once, one that is settled is over, and a success or cancellation that was
\* accepted is about the attempt the job ended with (ensure_lease_token).
ReportsMeetTheirAttempt ==
    \A s \in settled :
        /\ IsOver(s.job_id, s.attempt)
        /\ \A other \in settled :
              other.job_id = s.job_id /\ other.attempt = s.attempt => other = s
        /\ s.by = "ack" => /\ jobs[s.job_id].state = "Succeeded"
                           /\ jobs[s.job_id].attempt = s.attempt
        /\ s.by = "cancel" => /\ jobs[s.job_id].state = "Cancelled"
                              /\ jobs[s.job_id].attempt = s.attempt
=============================================================================

---------------------------- MODULE JobLifecycle ----------------------------
(***************************************************************************)
(* The durable states of a job and the transition table that guards every  *)
(* state change (src/jobs.rs, JobState), and the two effect modes that     *)
(* decide what an expired lease becomes (src/config.rs, EffectMode).       *)
(***************************************************************************)

TerminalStates == {"Succeeded", "Dead", "Cancelled"}

ActiveStates == {"Pending", "Leased", "RetryWait", "Uncertain"}

JobStates == ActiveStates \cup TerminalStates

EffectModes == {"RequiresReconciliation", "ExplicitlyIdempotent"}

\* A plausible slip in the table: a dead job may be retried by an operator.
CanTransitionTo_ReviveDead(from, to) ==
    \/ from = "Pending"   /\ to \in {"Leased", "Cancelled"}
    \/ from = "RetryWait" /\ to = "Leased"
    \/ from = "Leased"    /\ to \in {"Succeeded", "RetryWait", "Dead", "Cancelled",
                                     "Uncertain", "Pending", "Leased"}
    \/ from \in {"Uncertain", "Dead"} /\ to \in {"Pending", "Succeeded", "Dead"}

\* JobState::can_transition_to, row by row.
CanTransitionTo(from, to) ==
    \/ from = "Pending"   /\ to \in {"Leased", "Cancelled"}
    \/ from = "RetryWait" /\ to = "Leased"
    \/ from = "Leased"    /\ to \in {"Succeeded", "RetryWait", "Dead", "Cancelled",
                                     "Uncertain", "Pending", "Leased"}
    \/ from = "Uncertain" /\ to \in {"Pending", "Succeeded", "Dead"}
=============================================================================

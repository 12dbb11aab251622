---------------------------- MODULE ProviderTurn ----------------------------
(***************************************************************************)
(* The provider-turn workflow of examples/synara_provider_turn.rs, run by  *)
(* several worker processes over one store: a turn is requested together   *)
(* with the job that does it, a worker claims the job, calls the provider  *)
(* and completes the turn together with the acknowledgement.               *)
(*                                                                         *)
(* A call of the store is one step here, which ControlPlaneRefinement      *)
(* justifies; it may succeed, be refused, or end with an outcome the       *)
(* caller does not learn.  What a worker reads with one call and uses in a *)
(* later one is two steps.  A worker may die, or be held up for as long as *)
(* it takes, between any two of them.  An error ends the process too; the  *)
(* one started in its place knows at most the id of the last claim.        *)
(***************************************************************************)
EXTENDS JobStore, Sequences

CONSTANTS
    QUEUE,        \* the provider-command queue
    LEASE_MS,     \* the lease_ms of claim_one
    HEARTBEAT_MS, \* what heartbeat extends a lease to, counted from now
    MaxFaults     \* how many of the faults that variable faults counts may happen

ASSUME TurnAssumption ==
    /\ QUEUE \in Queues
    /\ LEASE_MS \in Nat \ {0} /\ HEARTBEAT_MS \in Nat \ {0} /\ MaxFaults \in Nat

\* The jobs request_turn makes: reconcilable, on the one queue, each with an id
\* of its own; the model has one turn to a thread.
ASSUME SpecsOfTurns ==
    /\ \A spec \in JobSpecs : /\ spec.queue = QUEUE
                               /\ spec.effect_mode = "RequiresReconciliation"
    /\ \A spec, other \in JobSpecs :
          \/ spec.job_id = other.job_id
          \/ spec.partition_key = other.partition_key
          => spec = other

VARIABLES
    stream,      \* thread -> the types of its events
    threads,     \* the threads projection: its version and each thread's status
    completions, \* the tokens whose completion batch has committed
    caller,      \* thread -> how far request_turn is
    worker,      \* worker -> what its process is doing
    effects,     \* the provider calls: [token, leased] in the order made
    abandoned,   \* the calls whose process ended before it knew the turn completed
    resent,      \* the calls an operator's Retry of their job came after
    now,         \* the machine's clock, read by now_ms()
    faults       \* crashes, unknown outcomes and resolutions of jobs not uncertain, so far

\* The provider calls and what became of them; no step of the program reads it.
callVars == <<effects, abandoned, resent>>

turnVars == <<stream, threads, completions, caller, worker, callVars, now, faults>>
allVars == <<storeVars, turnVars>>

\* The stream thread:<id> is the partition key of the thread's job.
Threads == {spec.partition_key : spec \in JobSpecs}
TurnOf(thread) == CHOOSE spec \in JobSpecs : spec.partition_key = thread
ThreadOf(id) == (CHOOSE spec \in JobSpecs : spec.job_id = id).partition_key

AtRest == [pc |-> "idle"]

TurnInit ==
    /\ Init
    /\ stream = [thread \in Threads |-> <<>>]
    /\ threads = [version |-> 0, status |-> [thread \in Threads |-> "absent"]]
    /\ completions = {}
    /\ caller = [thread \in Threads |-> [pc |-> "create"]]
    /\ worker = [w \in Workers |-> AtRest]
    /\ effects = <<>>
    /\ abandoned = {}
    /\ resent = {}
    /\ now = 0
    /\ faults = 0

Fault == faults < MaxFaults /\ faults' = faults + 1
NoFault == UNCHANGED faults

\* One event and one projection patch, as every batch of the workflow has.
Publish(thread, event, status) ==
    /\ stream' = [stream EXCEPT ![thread] = Append(@, event)]
    /\ threads' = [version |-> threads.version + 1,
                   status |-> [threads.status EXCEPT ![thread] = status]]

\* The projection is still at the version that was read.
Unraced(who) == threads.version = who.version

-----------------------------------------------------------------------------
(* request_turn.  A caller may stop anywhere; one that is not told the      *)
(* outcome of a commit stops there, as if it had not gone on.               *)

\* store.projection_version, read while the batch is put together.
PrepareRequest(thread) ==
    /\ caller[thread].pc \in {"create", "request"}
    /\ caller' = [caller EXCEPT ![thread] =
                     [pc |-> IF @.pc = "create" THEN "creating" ELSE "requesting",
                      version |-> threads.version]]
    /\ UNCHANGED <<storeVars, stream, threads, completions, worker, callVars, now, faults>>

CreateThread(thread) ==
    /\ caller[thread].pc = "creating"
    /\ IF Unraced(caller[thread]) /\ stream[thread] = <<>>
       THEN /\ Publish(thread, "thread.created", "idle")
            /\ caller' = [caller EXCEPT ![thread] = [pc |-> "request"]]
       ELSE /\ caller' = [caller EXCEPT ![thread] = [pc |-> "failed"]]
            /\ UNCHANGED <<stream, threads>>
    /\ UNCHANGED <<storeVars, completions, worker, callVars, now, faults>>

RequestTurn(thread) ==
    /\ caller[thread].pc = "requesting"
    /\ IF Unraced(caller[thread]) /\ Len(stream[thread]) = 1
       THEN /\ Publish(thread, "thread.turn-requested", "queued")
            /\ ApplyEnqueue(TurnOf(thread))
            /\ caller' = [caller EXCEPT ![thread] = [pc |-> "requested"]]
       ELSE /\ caller' = [caller EXCEPT ![thread] = [pc |-> "failed"]]
            /\ UNCHANGED <<jobVars, stream, threads>>
    /\ UNCHANGED <<transactions, completions, worker, callVars, now, faults>>

-----------------------------------------------------------------------------
(* claim_one and recover_claim *)

Goto(w, state) == worker' = [worker EXCEPT ![w] = state]

Holding(w, pc) == [pc |-> pc, tx |-> worker[w].tx, job |-> worker[w].job]
Token(w) == <<worker[w].tx, worker[w].job>>

\* Id::new(): not the id of a transaction, and none a worker still asks about.
FreshTxs ==
    {t \in TxIds : /\ t \notin DOMAIN transactions
                   /\ \A w \in Workers : worker[w].pc # "idle" => worker[w].tx # t}

FreshTx == CHOOSE t \in FreshTxs : TRUE

\* The claim commits: a job was leased, or only expired leases were repaired.
ClaimOne(w) ==
    /\ worker[w].pc = "idle" /\ FreshTxs # {}
    /\ ClaimJobs(FreshTx, QUEUE, w, now, LEASE_MS, 1)
    /\ \/ /\ NoFault
          /\ LET granted == {r \in claim_receipts' : r.transaction_id = FreshTx} IN
             IF granted = {} THEN Goto(w, AtRest)
             ELSE \E r \in granted : Goto(w, [pc |-> "claimed", tx |-> FreshTx, job |-> r.job_id])
       \/ Fault /\ Goto(w, [pc |-> "unknown", tx |-> FreshTx])
    /\ UNCHANGED <<stream, threads, completions, caller, callVars, now>>

\* The claim's COMMIT fails, and nothing of it has persisted.
ClaimLost(w) ==
    /\ worker[w].pc = "idle" /\ FreshTxs # {}
    /\ LeasePlan(QUEUE, now, 1) # {} \/ ExpiredLeases(QUEUE, now) # {}
    /\ Fault
    /\ Goto(w, [pc |-> "unknown", tx |-> FreshTx])
    /\ UNCHANGED <<storeVars, stream, threads, completions, caller, callVars, now>>

\* The jobs of a claim that its worker may still execute.
ExecutableJobs(tx) == {r.job_id : r \in RecoverClaim(tx, now).jobs}

\* Only a committed claim whose lease is current yields work; otherwise the
\* worker claims again.
RecoverWork(w) ==
    /\ worker[w].pc = "unknown"
    /\ LET found == ExecutableJobs(worker[w].tx) IN
       IF found = {} THEN Goto(w, AtRest)
       ELSE \E id \in found : Goto(w, [pc |-> "claimed", tx |-> worker[w].tx, job |-> id])
    /\ UNCHANGED <<storeVars, stream, threads, completions, caller, callVars, now, faults>>

-----------------------------------------------------------------------------
(* The turn: heartbeat, start_turn, call_provider, complete_turn *)

\* A process ends before it knows its turn completed.  The one started in its place
\* recovers the claim, whose id was journalled, or begins with a claim of its
\* own; it cannot tell whether the provider was called.
Restart(w) ==
    /\ \/ Goto(w, AtRest)
       \/ Goto(w, [pc |-> "unknown", tx |-> worker[w].tx])
    /\ abandoned' = abandoned \cup {i \in DOMAIN effects : effects[i].token[1] = worker[w].tx}

GoOn(w, state) == Goto(w, state) /\ UNCHANGED abandoned

\* A conflict, or an outcome that is not learned, ends the process, whether or
\* not the extension has persisted.
Heartbeat(w) ==
    /\ worker[w].pc = "claimed" /\ now + HEARTBEAT_MS \in Time
    /\ IF CanExtend(worker[w].job, Token(w), now + HEARTBEAT_MS, now)
       THEN \/ /\ ApplyExtendLease(worker[w].job, Token(w), now + HEARTBEAT_MS, now)
               /\ \/ NoFault /\ GoOn(w, Holding(w, "extended"))
                  \/ Fault /\ Restart(w)
            \/ Fault /\ Restart(w) /\ UNCHANGED jobVars
       ELSE NoFault /\ Restart(w) /\ UNCHANGED jobVars
    /\ UNCHANGED <<transactions, stream, threads, completions, caller, effects, resent, now>>

\* store.projection_version, before either batch of the turn.
ReadVersion(w) ==
    /\ worker[w].pc \in {"extended", "called"}
    /\ Goto(w, [pc |-> IF worker[w].pc = "extended" THEN "starting" ELSE "completing",
                tx |-> worker[w].tx, job |-> worker[w].job, version |-> threads.version])
    /\ UNCHANGED <<storeVars, stream, threads, completions, caller, callVars, now, faults>>

\* Neither the lease nor the stream's version is part of this batch.
StartTurn(w) ==
    /\ worker[w].pc = "starting"
    /\ IF Unraced(worker[w])
       THEN /\ Publish(ThreadOf(worker[w].job), "thread.turn-started", "running")
            /\ \/ NoFault /\ GoOn(w, Holding(w, "started"))
               \/ Fault /\ Restart(w)
       ELSE NoFault /\ Restart(w) /\ UNCHANGED <<stream, threads>>
    /\ UNCHANGED <<storeVars, completions, caller, effects, resent, now>>

CallProvider(w) ==
    /\ worker[w].pc = "started"
    /\ effects' = Append(effects, [token |-> Token(w),
                                   leased |-> CanReport(worker[w].job, "Succeeded", Token(w))])
    /\ Goto(w, Holding(w, "called"))
    /\ UNCHANGED <<storeVars, stream, threads, completions, caller, abandoned, resent, now, faults>>

\* Mutant: the acknowledgement is left to a batch of its own.
CanComplete_NoAck(w) == Unraced(worker[w])

CanComplete(w) == Unraced(worker[w]) /\ CanReport(worker[w].job, "Succeeded", Token(w))

\* The completion event, the projection and the acknowledgement, in one batch,
\* which CanComplete has found valid as a whole.
\* A completion has a transaction id of its own, which its worker asks about
\* later; the token it uses up stands for it.
Complete(w) ==
    /\ Publish(ThreadOf(worker[w].job), "thread.turn-completed", "idle")
    /\ IF CanReport(worker[w].job, "Succeeded", Token(w))
       THEN ApplyAck(worker[w].job, Token(w)) ELSE UNCHANGED jobVars
    /\ completions' = completions \cup {Token(w)}
    /\ UNCHANGED transactions

\* An unknown outcome is looked into once; the second, of the same outage, ends
\* the process.
AckUnknown(w) ==
    IF worker[w].pc = "completing"
    THEN Fault /\ GoOn(w, [worker[w] EXCEPT !.pc = "ack_unknown"])
    ELSE NoFault /\ Restart(w)

\* The batch is in hand; it may have been submitted before and not have landed.
CompleteTurn(w) ==
    /\ worker[w].pc \in {"completing", "resubmitting"}
    /\ \/ /\ CanComplete(w)
          /\ Complete(w)
          /\ NoFault /\ GoOn(w, AtRest)
       \/ /\ CanComplete(w)
          /\ Complete(w)
          /\ AckUnknown(w)
       \/ /\ CanComplete(w)
          /\ AckUnknown(w)
          /\ UNCHANGED <<storeVars, stream, threads, completions>>
       \/ /\ ~CanComplete(w)
          /\ NoFault /\ Restart(w)
          /\ UNCHANGED <<storeVars, stream, threads, completions>>
    /\ UNCHANGED <<caller, effects, resent, now>>

\* Mutant: Absent is answered by running the whole turn again.
RecoverAck_RerunsTurn(w) ==
    /\ worker[w].pc = "ack_unknown"
    /\ Goto(w, IF Token(w) \in completions THEN AtRest ELSE Holding(w, "claimed"))
    /\ UNCHANGED <<storeVars, stream, threads, completions, caller, callVars, now, faults>>

\* recover_transaction: Absent means the same batch is submitted again.
RecoverAck(w) ==
    /\ worker[w].pc = "ack_unknown"
    /\ Goto(w, IF Token(w) \in completions THEN AtRest
               ELSE [worker[w] EXCEPT !.pc = "resubmitting"])
    /\ UNCHANGED <<storeVars, stream, threads, completions, caller, callVars, now, faults>>

-----------------------------------------------------------------------------
(* Processes die; leases run out; an operator reconciles *)

\* A worker may die anywhere (the failure drill: "worker crash after claim,
\* before ack").
CrashWorker(w) ==
    /\ worker[w].pc # "idle"
    /\ Fault
    /\ Restart(w)
    /\ UNCHANGED <<storeVars, stream, threads, completions, caller, effects, resent, now>>

\* The clock matters only while a lease runs: once it has expired, later times
\* are like this one.
Tick ==
    /\ now < MaxTime
    /\ \E id \in DOMAIN jobs : jobs[id].state = "Leased" /\ jobs[id].lease_expires_at_ms >= now
    /\ now' = now + 1
    /\ UNCHANGED <<storeVars, stream, threads, completions, caller, worker, callVars, faults>>

EffectsOf(id) == {i \in DOMAIN effects : effects[i].token[2] = id}

\* jobs resolve: any resolution of any job there is, whatever its state or the
\* provider's, as far as the transition table allows.  The look whether the job
\* exists is not a step of its own: no job is ever deleted.  A command that fails
\* or is not told the outcome changes nothing else, and may be given again.
\* Resolving a job that does not wait for it counts as a fault, to bound how often
\* that happens.
OperatorResolves(id) ==
    /\ \E resolution \in Resolutions :
          /\ ApplyResolve(id, resolution)
          /\ resent' = IF resolution = "Retry" THEN resent \cup EffectsOf(id) ELSE resent
    /\ IF jobs[id].state = "Uncertain" THEN NoFault ELSE Fault
    /\ UNCHANGED <<transactions, stream, threads, completions, caller, worker>>
    /\ UNCHANGED <<effects, abandoned, now>>

\* A job that waits for the operator is resolved.
Reconcile(id) == id \in DOMAIN jobs /\ jobs[id].state = "Uncertain" /\ OperatorResolves(id)

WorkerStep(w) ==
    \/ ClaimOne(w) \/ RecoverWork(w) \/ Heartbeat(w) \/ ReadVersion(w) \/ StartTurn(w)
    \/ CallProvider(w) \/ CompleteTurn(w) \/ RecoverAck(w)

TurnNext ==
    \/ \E thread \in Threads :
          PrepareRequest(thread) \/ CreateThread(thread) \/ RequestTurn(thread)
    \/ \E w \in Workers : WorkerStep(w) \/ ClaimLost(w) \/ CrashWorker(w)
    \/ Tick
    \/ \E id \in JobIds : OperatorResolves(id)

\* Worker processes are scheduled and started again after an error, the clock
\* runs, and the operator gets round to every uncertain job.
TurnFairness ==
    /\ \A w \in Workers : WF_allVars(WorkerStep(w))
    /\ WF_allVars(Tick)
    /\ \A id \in JobIds : WF_allVars(Reconcile(id))

TurnSpec == TurnInit /\ [][TurnNext]_allVars

FairTurnSpec == TurnSpec /\ TurnFairness
=============================================================================

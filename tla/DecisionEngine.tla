--------------------------- MODULE DecisionEngine ---------------------------
(***************************************************************************)
(* The auto-pause of one wallet: the atomics of DecisionEngine             *)
(* (rust-engine/src/decision/mod.rs), the code around evaluate() in the    *)
(* two gates of OrderManager, the pause_wallet tasks the gates spawn, and  *)
(* the operator routes of the API server that write the same rows.         *)
(*                                                                         *)
(* Each load, store, swap and fetch_add on an atomic is a step, and so is  *)
(* each statement sent to the database; the API server's transactions are  *)
(* one step.  Which of the trade rules rejects is left open.               *)
(***************************************************************************)
EXTENDS Integers, FiniteSets

CONSTANTS
    Evals,        \* calls of evaluate(), from either gate
    Threshold,    \* auto_pause_threshold, from system_config
    MaxOps,       \* bound: status changes made by operators
    MaxRestarts   \* bound: restarts of the engine process

ASSUME ConstantsAssumption ==
    /\ IsFiniteSet(Evals)
    /\ Threshold \in Nat
    /\ MaxOps \in Nat
    /\ MaxRestarts \in Nat

VARIABLES
    rejects,        \* consecutive_rejects
    autoPaused,     \* auto_paused, the latch
    needsDbPause,   \* needs_db_pause, the single-fire flag
    demoMode,       \* demo_mode: fixed for a deployment
    pc,             \* [Evals -> EvalPC]: progress of each call
    gate,           \* [Evals -> Gates]: which gate calls
    verdict,        \* [Evals -> Verdicts]: the Decision returned
    pause,          \* [Evals -> PausePC]: the pause_wallet task a call spawned
    rejectCount,    \* [Evals -> Nat]: the reject_count that task was given
    registry,       \* wallet_registry.status
    config,         \* wallet_config.status
    alert,          \* wallet_alerts.count: empty when there is no row
    ops,            \* status changes by operators so far
    restarts,       \* restarts so far
    dropped,        \* history variable: a call was dropped, and none has come to the flag since
    latches,        \* history variable: how often the latch rose
    spawned,        \* history variable: pause_wallet tasks spawned
    healed,         \* history variable: some reset_pause() has begun
    resumed         \* history variable: enabled by an operator since the latch rose

atomics == <<rejects, autoPaused, needsDbPause>>
calls   == <<pc, gate, verdict>>
pauses  == <<pause, rejectCount>>
rows    == <<registry, config, alert>>
bounds  == <<ops, restarts>>
hist    == <<dropped, latches, spawned, healed, resumed>>
vars    == <<atomics, demoMode, calls, pauses, rows, bounds, hist>>

EvalPC   == {"idle", "allow", "reject", "latch", "flag", "heal", "status",
             "reset1", "reset2", "reset3", "take", "spawn", "done", "lost"}
Gates    == {"submit", "execute"}
Verdicts == {"none", "Allow", "Reject", "Halt"}
PausePC  == {"none", "registry", "config", "alert", "done", "lost"}
Statuses == {"enabled", "paused", "halted"}

Init ==
    /\ rejects = 0
    /\ autoPaused = FALSE
    /\ needsDbPause = FALSE
    /\ demoMode \in BOOLEAN
    /\ pc = [e \in Evals |-> "idle"]
    /\ gate \in [Evals -> Gates]
    /\ verdict = [e \in Evals |-> "none"]
    /\ pause = [e \in Evals |-> "none"]
    /\ rejectCount = [e \in Evals |-> 0]
    /\ registry = "enabled"
    /\ config = "enabled"
    /\ alert = {}
    /\ ops = 0
    /\ restarts = 0
    /\ dropped = FALSE
    /\ latches = 0
    /\ spawned = 0
    /\ healed = FALSE
    /\ resumed = FALSE

-----------------------------------------------------------------------------
(* evaluate() *)

Goto(e, label) == pc' = [pc EXCEPT ![e] = label]

\* The decision is made: back to the gate, which first looks whether the latch
\* can be lifted (submit_order) or takes the flag at once (process_order).
Return(e, decision) ==
    /\ verdict' = [verdict EXCEPT ![e] = decision]
    /\ Goto(e, IF gate[e] = "submit" THEN "heal" ELSE "take")
    /\ UNCHANGED gate

\* Rules 0 and 1, and the outcome of the others, which read only the call's own
\* context.
Begin(e) ==
    /\ pc[e] = "idle"
    /\ IF autoPaused \/ demoMode
       THEN Return(e, "Halt")
       ELSE /\ Goto(e, "allow") \/ Goto(e, "reject")
            /\ UNCHANGED <<gate, verdict>>
    /\ UNCHANGED <<atomics, demoMode, pauses, rows, bounds, hist>>

Allow(e) ==
    /\ pc[e] = "allow"
    /\ rejects' = 0
    /\ Return(e, "Allow")
    /\ UNCHANGED <<autoPaused, needsDbPause, demoMode, pauses, rows, bounds, hist>>

\* Mutant: the threshold compared with the count before the increment.
RejectLate(e) ==
    /\ pc[e] = "reject"
    /\ rejects' = rejects + 1
    /\ IF rejects >= Threshold
       THEN Goto(e, "latch") /\ UNCHANGED <<gate, verdict>>
       ELSE Return(e, "Reject")
    /\ UNCHANGED <<autoPaused, needsDbPause, demoMode, pauses, rows, bounds, hist>>

\* on_reject: fetch_add, and the comparison with its result.
Reject(e) ==
    /\ pc[e] = "reject"
    /\ rejects' = rejects + 1
    /\ IF rejects + 1 >= Threshold
       THEN Goto(e, "latch") /\ UNCHANGED <<gate, verdict>>
       ELSE Return(e, "Reject")
    /\ UNCHANGED <<autoPaused, needsDbPause, demoMode, pauses, rows, bounds, hist>>

\* Mutant: a store in the place of the swap, every late rejection raises the flag.
LatchWithoutSwap(e) ==
    /\ pc[e] = "latch"
    /\ autoPaused' = TRUE
    /\ Goto(e, "flag")
    /\ latches' = IF autoPaused THEN latches ELSE latches + 1
    /\ resumed' = IF autoPaused THEN resumed ELSE FALSE
    /\ UNCHANGED <<rejects, needsDbPause, demoMode, gate, verdict, pauses, rows, bounds,
                   dropped, spawned, healed>>

\* The swap: only the call that raises the latch goes on to raise the flag.
Latch(e) ==
    /\ pc[e] = "latch"
    /\ autoPaused' = TRUE
    /\ IF autoPaused
       THEN /\ Return(e, "Reject")
            /\ UNCHANGED <<latches, resumed>>
       ELSE /\ Goto(e, "flag")
            /\ latches' = latches + 1
            /\ resumed' = FALSE
            /\ UNCHANGED <<gate, verdict>>
    /\ UNCHANGED <<rejects, needsDbPause, demoMode, pauses, rows, bounds, dropped, spawned,
                   healed>>

Flag(e) ==
    /\ pc[e] = "flag"
    /\ needsDbPause' = TRUE
    /\ Return(e, "Halt")
    /\ UNCHANGED <<rejects, autoPaused, demoMode, pauses, rows, bounds, hist>>

-----------------------------------------------------------------------------
(* After evaluate(), in submit_order: the self-healing resume *)

GateFrame == UNCHANGED <<demoMode, gate, verdict, rows, bounds, latches, resumed>>

Heal(e) ==
    /\ pc[e] = "heal"
    /\ Goto(e, IF autoPaused THEN "status" ELSE "take")
    /\ GateFrame /\ UNCHANGED <<atomics, pauses, dropped, spawned, healed>>

\* get_wallet_status: nothing when the query fails.
ReadStatus(e) ==
    /\ pc[e] = "status"
    /\ \/ /\ registry = "enabled"
          /\ Goto(e, "reset1")
       \/ Goto(e, "take")
    /\ GateFrame /\ UNCHANGED <<atomics, pauses, dropped, spawned, healed>>

\* The handler of SubmitOrder is dropped at that query, its only await between
\* evaluate() and take_needs_db_pause(): the deadline has passed, or the client has
\* gone.  The flag stays as it is.
Drop(e) ==
    /\ pc[e] = "status"
    /\ Goto(e, "lost")
    /\ dropped' = TRUE
    /\ GateFrame /\ UNCHANGED <<atomics, pauses, spawned, healed>>

\* reset_pause(): three stores.
ResetPause(e) ==
    /\ \/ /\ pc[e] = "reset1"
          /\ rejects' = 0
          /\ Goto(e, "reset2")
          /\ UNCHANGED <<autoPaused, needsDbPause>>
       \/ /\ pc[e] = "reset2"
          /\ autoPaused' = FALSE
          /\ Goto(e, "reset3")
          /\ UNCHANGED <<rejects, needsDbPause>>
       \/ /\ pc[e] = "reset3"
          /\ needsDbPause' = FALSE
          /\ Goto(e, "take")
          /\ UNCHANGED <<rejects, autoPaused>>
    /\ healed' = TRUE
    /\ GateFrame /\ UNCHANGED <<pauses, dropped, spawned>>

-----------------------------------------------------------------------------
(* After evaluate(), at both gates: take_needs_db_pause() and the spawn *)

\* Mutant: only submit_order looks at the flag.
TakeAtSubmitOnly(e) ==
    /\ pc[e] = "take"
    /\ needsDbPause' = (needsDbPause /\ gate[e] = "execute")
    /\ Goto(e, IF needsDbPause /\ gate[e] = "submit" THEN "spawn" ELSE "done")
    /\ dropped' = FALSE
    /\ GateFrame /\ UNCHANGED <<rejects, autoPaused, pauses, spawned, healed>>

Take(e) ==
    /\ pc[e] = "take"
    /\ needsDbPause' = FALSE
    /\ Goto(e, IF needsDbPause THEN "spawn" ELSE "done")
    /\ dropped' = FALSE
    /\ GateFrame /\ UNCHANGED <<rejects, autoPaused, pauses, spawned, healed>>

\* Mutant: the count before the last rejection, whatever happened to it since.
SpawnWithPreviousCount(e) ==
    /\ pc[e] = "spawn"
    /\ Goto(e, "done")
    /\ pause' = [pause EXCEPT ![e] = "registry"]
    /\ rejectCount' = [rejectCount EXCEPT ![e] = rejects - 1]
    /\ spawned' = spawned + 1
    /\ GateFrame /\ UNCHANGED <<atomics, dropped, healed>>

\* The task carries the reject count as it is by now.
Spawn(e) ==
    /\ pc[e] = "spawn"
    /\ Goto(e, "done")
    /\ pause' = [pause EXCEPT ![e] = "registry"]
    /\ rejectCount' = [rejectCount EXCEPT ![e] = rejects]
    /\ spawned' = spawned + 1
    /\ GateFrame /\ UNCHANGED <<atomics, dropped, healed>>

EvalStep(e) ==
    \/ Allow(e) \/ Reject(e) \/ Latch(e) \/ Flag(e)
    \/ Heal(e) \/ ReadStatus(e) \/ ResetPause(e) \/ Take(e) \/ Spawn(e)

-----------------------------------------------------------------------------
(* pause_wallet: three statements, whose errors are logged and passed over *)

PauseFrame == UNCHANGED <<atomics, demoMode, calls, rejectCount, bounds, hist>>

PauseRegistry(e) ==
    /\ pause[e] = "registry"
    /\ registry' \in {registry, "paused"}
    /\ pause' = [pause EXCEPT ![e] = "config"]
    /\ PauseFrame /\ UNCHANGED <<config, alert>>

PauseConfig(e) ==
    /\ pause[e] = "config"
    /\ config' \in {config, "paused"}
    /\ pause' = [pause EXCEPT ![e] = "alert"]
    /\ PauseFrame /\ UNCHANGED <<registry, alert>>

PauseAlert(e) ==
    /\ pause[e] = "alert"
    /\ alert' \in {alert, {rejectCount[e]}}
    /\ pause' = [pause EXCEPT ![e] = "done"]
    /\ PauseFrame /\ UNCHANGED <<registry, config>>

PauseStep(e) == PauseRegistry(e) \/ PauseConfig(e) \/ PauseAlert(e)

-----------------------------------------------------------------------------
\* The pause, resume, halt and config routes: both rows in one transaction,
\* whatever the status was before.
SetStatus(status) ==
    /\ ops < MaxOps
    /\ ops' = ops + 1
    /\ registry' = status
    /\ config' = status
    /\ resumed' = (resumed \/ status = "enabled")
    /\ UNCHANGED <<atomics, demoMode, calls, pauses, alert, restarts, dropped, latches, spawned,
                   healed>>

\* The engine process restarts with a new DecisionEngine: nobody asks what the
\* status rows say.
Restart ==
    /\ restarts < MaxRestarts
    /\ restarts' = restarts + 1
    /\ rejects' = 0
    /\ autoPaused' = FALSE
    /\ needsDbPause' = FALSE
    /\ pc' = [e \in Evals |-> IF pc[e] \in {"idle", "done"} THEN pc[e] ELSE "lost"]
    /\ pause' = [e \in Evals |-> IF pause[e] \in {"none", "done"} THEN pause[e] ELSE "lost"]
    /\ UNCHANGED <<demoMode, gate, verdict, rejectCount, rows, ops, hist>>

Next ==
    \/ \E e \in Evals : Begin(e) \/ EvalStep(e) \/ Drop(e) \/ PauseStep(e)
    \/ \E status \in Statuses : SetStatus(status)
    \/ Restart

Spec == Init /\ [][Next]_vars

\* A call that is not dropped and a spawned task run to their end; no order needs
\* to come, no call to be dropped or spared, and no operator to act.
Fairness == \A e \in Evals : WF_vars(EvalStep(e)) /\ WF_vars(PauseStep(e))

FairSpec == Spec /\ Fairness

-----------------------------------------------------------------------------
(* Properties *)

TypeOK ==
    /\ rejects \in Nat
    /\ autoPaused \in BOOLEAN
    /\ needsDbPause \in BOOLEAN
    /\ demoMode \in BOOLEAN
    /\ pc \in [Evals -> EvalPC]
    /\ gate \in [Evals -> Gates]
    /\ verdict \in [Evals -> Verdicts]
    /\ pause \in [Evals -> PausePC]
    /\ rejectCount \in [Evals -> Nat]
    /\ registry \in Statuses
    /\ config \in Statuses
    /\ alert \in SUBSET Nat
    /\ ops \in 0 .. MaxOps
    /\ restarts \in 0 .. MaxRestarts
    /\ dropped \in BOOLEAN
    /\ latches \in Nat
    /\ spawned \in Nat
    /\ healed \in BOOLEAN
    /\ resumed \in BOOLEAN

\* "Single-fire" (decision/mod.rs): however evaluations, resets and takers
\* interleave, no more pause tasks are spawned than the latch has risen.
SingleFire == spawned <= latches

\* A streak as long as the threshold has latched, or is about to: a rejection
\* that another thread's Allow or rejection overlaps is not lost.  Only
\* reset_pause(), whose three stores another thread can fall between, makes an
\* exception.
StreakLatches ==
    ~ autoPaused /\ rejects > 0 /\ rejects >= Threshold =>
        healed \/ \E e \in Evals : pc[e] = "latch"

\* The caller of a call has gone while it asked for the status, and the flag waits
\* for the next call to come to it.
FlagWaits == needsDbPause /\ dropped

\* As long as nothing resets the engine, an auto-pause gets to the database: some
\* pause task runs to its end, even if the call that raised the latch loses the flag
\* to another one.  When a call is dropped it leaves the flag to the next one that
\* comes to it, at either gate; only if none does, the flag stays up for good.
LatchReachesDb ==
    autoPaused ~> healed \/ restarts > 0 \/ []FlagWaits \/ \E e \in Evals : pause[e] = "done"

-----------------------------------------------------------------------------
(* What comments and runbooks say and the code does not do *)

\* The latch is lifted when an operator has put the wallet back to enabled.
LatchHoldsUntilResume == [][autoPaused /\ ~ autoPaused' => resumed]_vars
=============================================================================

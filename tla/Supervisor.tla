----------------------------- MODULE Supervisor -----------------------------
(***************************************************************************)
(* Who trades: the wallets' rows, which the API's routes (api-server       *)
(* routes/wallets.ts) and the engine write, and the engine's supervisor    *)
(* (rust-engine/src/main.rs), which runs one WalletWorker for each wallet  *)
(* that is enabled.                                                        *)
(*                                                                         *)
(* A worker that ends is started again after a backoff, and given up after *)
(* MaxRestartAttempts ends.  Wallets to start come from two channels: one  *)
(* filled by the watcher every 30 seconds, one by the timers of backoffs.  *)
(* A worker never looks at the status of its wallet again.  The status is  *)
(* in two tables: routes write both in a transaction, the engine one after *)
(* the other.                                                              *)
(***************************************************************************)
EXTENDS Integers, FiniteSets

CONSTANTS
    Wallets,
    MaxRestartAttempts,  \* MAX_RESTART_ATTEMPTS
    MaxOps,              \* bound: calls of the routes
    MaxErrors,           \* bound: statements of the engine that fail
    MaxCrashes           \* bound: restarts of the engine

ASSUME SupervisorAssumption ==
    /\ MaxRestartAttempts \in Nat \ {0}
    /\ MaxOps \in Nat /\ MaxErrors \in Nat /\ MaxCrashes \in Nat

VARIABLES
    registry,     \* [Wallets -> Statuses]: wallet_registry.status, which the supervisor reads
    config,       \* [Wallets -> Statuses]: wallet_config.status, which the dashboard shows first
    half,         \* engine's writes that have reached the registry only
    workers,      \* [Wallets -> Nat]: workers that run
    ended,        \* [Wallets -> Nat]: workers that have returned, not yet joined
    activeIds,    \* active_ids
    inBackoff,    \* in_backoff
    runtimeFails, \* [Wallets -> Nat]
    buildFails,   \* [Wallets -> Nat]
    skipped,      \* permanently_skipped
    spawnCh,      \* wallets in the spawn channel
    restartCh,    \* wallets in the restart channel
    asleep,       \* wallets whose backoff timer runs
    ops, errors, crashes,
    stranded,     \* history variable: wallets whose backoff ended with no entry to restart
    torn          \* history variable: wallets one of whose engine writes failed, or met another write

rows       == <<registry, config, half>>
tasks      == <<workers, ended>>
supervised == <<activeIds, inBackoff, runtimeFails, buildFails, skipped>>
channels   == <<spawnCh, restartCh, asleep>>
bounds     == <<ops, errors, crashes>>
supVars    == <<rows, tasks, supervised, channels, bounds, stranded, torn>>

Statuses == {"enabled", "paused", "halted"}
Writes   == [wallet : Wallets, status : {"paused", "halted"}, by : {"supervisor", "worker"}]
Enabled  == {w \in Wallets : registry[w] = "enabled"}

\* The supervisor handles one message at a time, and waits for halt_wallet.
Idle == \A x \in half : x.by # "supervisor"

SupTypeOK ==
    /\ registry \in [Wallets -> Statuses]
    /\ config \in [Wallets -> Statuses]
    /\ half \subseteq Writes
    /\ workers \in [Wallets -> Nat]
    /\ ended \in [Wallets -> Nat]
    /\ activeIds \subseteq Wallets
    /\ inBackoff \subseteq Wallets
    /\ runtimeFails \in [Wallets -> 0 .. MaxRestartAttempts]
    /\ buildFails \in [Wallets -> 0 .. MaxRestartAttempts]
    /\ skipped \subseteq Wallets
    /\ spawnCh \cup restartCh \cup asleep \cup stranded \cup torn \subseteq Wallets
    /\ ops \in 0 .. MaxOps
    /\ errors \in 0 .. MaxErrors
    /\ crashes \in 0 .. MaxCrashes

------------------------------------------------------------------------------
(* The rows.                                                               *)

\* Mutant: the transaction leaves wallet_config out.
SetStatusInRegistry(w, status) ==
    /\ ops < MaxOps
    /\ ops' = ops + 1
    /\ registry' = [registry EXCEPT ![w] = status]
    /\ torn' = torn \cup {x.wallet : x \in {y \in half : y.wallet = w}}
    /\ UNCHANGED <<config, half, tasks, supervised, channels, errors, crashes, stranded>>

\* pause, resume, halt, and PUT config with a status: one transaction.
SetStatus(w, status) ==
    /\ ops < MaxOps
    /\ ops' = ops + 1
    /\ registry' = [registry EXCEPT ![w] = status]
    /\ config' = [config EXCEPT ![w] = status]
    /\ torn' = torn \cup {x.wallet : x \in {y \in half : y.wallet = w}}
    /\ UNCHANGED <<half, tasks, supervised, channels, errors, crashes, stranded>>

\* A statement of the engine is executed, or fails and is logged.
Statement(table, tableNext, w, status) ==
    \/ tableNext = [table EXCEPT ![w] = status] /\ UNCHANGED errors
    \/ errors < MaxErrors /\ errors' = errors + 1 /\ tableNext = table

\* halt_wallet and pause_wallet: the registry ...
Mark(w, status, by) ==
    /\ Statement(registry, registry', w, status)
    /\ half' = half \cup {[wallet |-> w, status |-> status, by |-> by]}
    /\ torn' = torn \cup {x.wallet : x \in {y \in half : y.wallet = w}}
                    \cup (IF registry'[w] = status THEN {} ELSE {w})
    /\ UNCHANGED config

\* ... and the configuration.
MarkConfig(x) ==
    /\ Statement(config, config', x.wallet, x.status)
    /\ half' = half \ {x}
    /\ torn' = IF config'[x.wallet] = x.status THEN torn ELSE torn \cup {x.wallet}
    /\ UNCHANGED <<registry, tasks, supervised, channels, ops, crashes, stranded>>

\* A worker's decision engine pauses the wallet (module DecisionEngine).
AutoPause(w) ==
    /\ workers[w] > 0
    /\ \A x \in half : x.by = "worker" => x.wallet # w
    /\ ops < MaxOps
    /\ ops' = ops + 1
    /\ Mark(w, "paused", "worker")
    /\ UNCHANGED <<tasks, supervised, channels, crashes, stranded>>

------------------------------------------------------------------------------
(* The workers.                                                            *)

\* run() returns: a child task ended or panicked, or run() itself panicked.
\* Every end costs one of MaxRestartAttempts, so their number is bounded.
WorkerEnds(w) ==
    /\ workers[w] > 0
    /\ workers' = [workers EXCEPT ![w] = @ - 1]
    /\ ended' = [ended EXCEPT ![w] = @ + 1]
    /\ UNCHANGED <<rows, supervised, channels, bounds, stranded, torn>>

\* The execution client cannot be built: run() halts the wallet and returns.
ClientFails(w) ==
    /\ workers[w] > 0
    /\ \A x \in half : x.by = "worker" => x.wallet # w
    /\ Mark(w, "halted", "worker")
    /\ workers' = [workers EXCEPT ![w] = @ - 1]
    /\ ended' = [ended EXCEPT ![w] = @ + 1]
    /\ UNCHANGED <<supervised, channels, ops, crashes, stranded>>

------------------------------------------------------------------------------
(* The supervisor.                                                         *)

\* Give up: the wallet is skipped from now on, and halted.
GiveUp(w) ==
    /\ skipped' = skipped \cup {w}
    /\ Mark(w, "halted", "supervisor")

\* spawn_entry.  A worker that cannot be built is tried again with the next
\* message from the watcher.
SpawnEntry(w) ==
    \/ /\ activeIds' = activeIds \cup {w}
       /\ workers' = [workers EXCEPT ![w] = @ + 1]
       /\ buildFails' = [buildFails EXCEPT ![w] = 0]
       /\ UNCHANGED <<rows, ended, runtimeFails, skipped, errors, torn>>
    \/ /\ buildFails' = [buildFails EXCEPT ![w] = @ + 1]
       /\ IF buildFails'[w] >= MaxRestartAttempts THEN GiveUp(w)
          ELSE UNCHANGED <<rows, skipped, errors, torn>>
       /\ UNCHANGED <<tasks, activeIds, runtimeFails>>

Ignore == UNCHANGED <<rows, tasks, activeIds, runtimeFails, buildFails, skipped, errors, torn>>

\* Mutant: the wallet is left in in_backoff.
RecvRestartInBackoff(w) ==
    /\ Idle /\ w \in restartCh
    /\ restartCh' = restartCh \ {w}
    /\ IF w \in activeIds \cup skipped THEN Ignore ELSE SpawnEntry(w)
    /\ UNCHANGED <<inBackoff, spawnCh, asleep, ops, crashes, stranded>>

\* A message from the backoff timer.
RecvRestart(w) ==
    /\ Idle /\ w \in restartCh
    /\ restartCh' = restartCh \ {w}
    /\ inBackoff' = inBackoff \ {w}
    /\ IF w \in activeIds \cup skipped THEN Ignore ELSE SpawnEntry(w)
    /\ UNCHANGED <<spawnCh, asleep, ops, crashes, stranded>>

\* A message from the watcher or the initial load.
RecvSpawn(w) ==
    /\ Idle /\ w \in spawnCh
    /\ spawnCh' = spawnCh \ {w}
    /\ IF w \in activeIds \cup inBackoff \cup skipped THEN Ignore ELSE SpawnEntry(w)
    /\ UNCHANGED <<inBackoff, restartCh, asleep, ops, crashes, stranded>>

\* Mutant: one restart too many.
JoinOnceMore(w) ==
    /\ Idle /\ ended[w] > 0
    /\ ended' = [ended EXCEPT ![w] = @ - 1]
    /\ activeIds' = activeIds \ {w}
    /\ runtimeFails' = [runtimeFails EXCEPT ![w] = @ + 1]
    /\ IF runtimeFails'[w] > MaxRestartAttempts
         THEN GiveUp(w) /\ UNCHANGED <<inBackoff, asleep>>
         ELSE /\ inBackoff' = inBackoff \cup {w}
              /\ asleep' = asleep \cup {w}
              /\ UNCHANGED <<rows, skipped, errors, torn>>
    /\ UNCHANGED <<workers, buildFails, spawnCh, restartCh, ops, crashes, stranded>>

\* join_next: a worker has ended.
Join(w) ==
    /\ Idle /\ ended[w] > 0
    /\ ended' = [ended EXCEPT ![w] = @ - 1]
    /\ activeIds' = activeIds \ {w}
    /\ runtimeFails' = [runtimeFails EXCEPT ![w] = @ + 1]
    /\ IF runtimeFails'[w] >= MaxRestartAttempts
         THEN GiveUp(w) /\ UNCHANGED <<inBackoff, asleep>>
         ELSE /\ inBackoff' = inBackoff \cup {w}
              /\ asleep' = asleep \cup {w}
              /\ UNCHANGED <<rows, skipped, errors, torn>>
    /\ UNCHANGED <<workers, buildFails, spawnCh, restartCh, ops, crashes, stranded>>

\* The backoff is over: the wallet's entry is loaded again.  If there is none,
\* because the wallet is not enabled or the query failed, nobody takes the
\* wallet out of in_backoff.
BackoffEnds(w) ==
    /\ w \in asleep
    /\ asleep' = asleep \ {w}
    /\ \/ /\ w \in Enabled
          /\ restartCh' = restartCh \cup {w}
          /\ UNCHANGED <<errors, stranded>>
       \/ /\ w \notin Enabled
          /\ stranded' = stranded \cup {w}
          /\ UNCHANGED <<restartCh, errors>>
       \/ /\ errors < MaxErrors
          /\ errors' = errors + 1
          /\ stranded' = stranded \cup {w}
          /\ UNCHANGED restartCh
    /\ UNCHANGED <<rows, tasks, supervised, spawnCh, ops, crashes, torn>>

\* The watcher.
Watch ==
    /\ spawnCh' = spawnCh \cup Enabled
    /\ UNCHANGED <<rows, tasks, supervised, restartCh, asleep, bounds, stranded, torn>>

\* The engine process dies and starts again; what it wrote halfway stays so.
RestartEngine ==
    /\ crashes < MaxCrashes
    /\ crashes' = crashes + 1
    /\ torn' = torn \cup {x.wallet : x \in half}
    /\ half' = {}
    /\ workers' = [w \in Wallets |-> 0] /\ ended' = [w \in Wallets |-> 0]
    /\ runtimeFails' = [w \in Wallets |-> 0] /\ buildFails' = [w \in Wallets |-> 0]
    /\ activeIds' = {} /\ inBackoff' = {} /\ skipped' = {}
    /\ spawnCh' = Enabled /\ restartCh' = {} /\ asleep' = {} /\ stranded' = {}
    /\ UNCHANGED <<registry, config, ops, errors>>

------------------------------------------------------------------------------
SupInit ==
    /\ registry \in [Wallets -> {"enabled", "paused"}]
    /\ config = registry
    /\ half = {}
    /\ workers = [w \in Wallets |-> 0] /\ ended = [w \in Wallets |-> 0]
    /\ runtimeFails = [w \in Wallets |-> 0] /\ buildFails = [w \in Wallets |-> 0]
    /\ activeIds = {} /\ inBackoff = {} /\ skipped = {}
    /\ spawnCh = Enabled /\ restartCh = {} /\ asleep = {}
    /\ ops = 0 /\ errors = 0 /\ crashes = 0
    /\ stranded = {} /\ torn = {}

Supervise(w) == RecvRestart(w) \/ RecvSpawn(w) \/ Join(w) \/ BackoffEnds(w)

SupNext ==
    \/ \E w \in Wallets :
         \/ \E status \in Statuses : SetStatus(w, status)
         \/ AutoPause(w) \/ WorkerEnds(w) \/ ClientFails(w) \/ Supervise(w)
    \/ \E x \in half : MarkConfig(x)
    \/ Watch \/ RestartEngine

SupSpec == SupInit /\ [][SupNext]_supVars

\* Timers fire, statements end and messages are received.
SupFairness ==
    /\ \A w \in Wallets : /\ WF_supVars(RecvSpawn(w)) /\ WF_supVars(RecvRestart(w))
                          /\ WF_supVars(Join(w)) /\ WF_supVars(BackoffEnds(w))
    /\ WF_supVars(\E x \in half : MarkConfig(x))
    /\ WF_supVars(Watch)

------------------------------------------------------------------------------
(* Properties.                                                             *)

\* A wallet has one worker, from the time the supervisor starts it until it joins
\* it, whichever of the two channels brought it.
OneWorker ==
    \A w \in Wallets : workers[w] + ended[w] = IF w \in activeIds THEN 1 ELSE 0

\* No worker is started while its wallet's backoff timer runs: "entries dropped
\* if wallet is in in_backoff".
BackoffHonoured ==
    [][\A w \in Wallets : workers'[w] > workers[w] => w \notin asleep]_supVars

\* A wallet that was given up gets no worker from this process, resumed or not,
\* and was given up only after MaxRestartAttempts ends or builds in a row.
GivenUpForGood ==
    \A w \in Wallets :
        w \in skipped <=> \/ runtimeFails[w] = MaxRestartAttempts
                          \/ buildFails[w] = MaxRestartAttempts

\* A wallet in backoff has a timer or a message that takes it out again, unless
\* its entry was not there when the timer fired.
BackoffEndsUnlessStranded ==
    inBackoff = asleep \cup restartCh \cup stranded

\* The supervisor starts no wallet twice and forgets none whose worker ended: it is
\* in backoff with a way out, stranded, or given up after MaxRestartAttempts.
WalletsAreSupervised == OneWorker /\ GivenUpForGood /\ BackoffEndsUnlessStranded

\* The two tables agree, unless a statement of the engine failed or another write
\* came between its two statements.
TablesAgree ==
    \A w \in Wallets \ torn :
        registry[w] # config[w] => \E x \in half : x.wallet = w /\ x.status = registry[w]

\* A wallet that stays enabled gets its worker, unless the supervisor gave it up
\* or lost it in its backoff.
EnabledIsServed ==
    \A w \in Wallets :
        <>[](registry[w] = "enabled") =>
            []<>(workers[w] > 0 \/ w \in skipped \cup stranded)
==============================================================================

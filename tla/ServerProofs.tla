---------------------------- MODULE ServerProofs ----------------------------
(***************************************************************************)
(* Proofs about the parts of MCServers: Supervisor, Readiness,             *)
(* BondingCurve, PresetControl, BotControl with BotStatus, RpcManager and  *)
(* Backtest, for any wallets, checks, reserves, presets, strategies,       *)
(* requests, endpoints and prices, and every bound.                        *)
(***************************************************************************)
EXTENDS MCServers, FoldLemmas, FiniteSetTheorems, SequenceTheorems, TLAPS

------------------------------------------------------------------------------
(* Readiness.                                                              *)

\* A connection is held exactly while the check's queries run.
ReadyInv ==
    /\ check \in [Checks -> {"new", "connecting", "querying", "ok", "unavailable"}]
    /\ borrowed \in [Checks -> {0, 1}]
    /\ \A c \in Checks : borrowed[c] = 1 <=> check[c] = "querying"

\* Health checks start with no connection borrowed, and each handler keeps
\* "borrowed" and "querying" together.
LEMMA ReadyInvHolds == ReadySpec => []ReadyInv
<1>1. ReadyInit => ReadyInv
  BY DEF ReadyInit, ReadyInv
<1>2. ReadyInv /\ [ReadyNext]_readyVars => ReadyInv'
  <2> SUFFICES ASSUME ReadyInv, [ReadyNext]_readyVars PROVE ReadyInv'
    OBVIOUS
  <2> USE DEF ReadyInv
  <2>1. ASSUME NEW c \in Checks, Ask(c) PROVE ReadyInv'
    BY <2>1 DEF Ask
  <2>2. ASSUME NEW c \in Checks, Connected(c) PROVE ReadyInv'
    BY <2>2 DEF Connected
  <2>3. ASSUME NEW c \in Checks, ConnectFails(c) PROVE ReadyInv'
    BY <2>3 DEF ConnectFails
  <2>4. ASSUME NEW c \in Checks, ConnectTimesOut(c) PROVE ReadyInv'
    BY <2>4 DEF ConnectTimesOut
  <2>5. ASSUME NEW c \in Checks, QueryEnds(c) PROVE ReadyInv'
    BY <2>5 DEF QueryEnds
  <2>6. CASE UNCHANGED readyVars
    BY <2>6 DEF readyVars
  <2> QED BY <2>1, <2>2, <2>3, <2>4, <2>5, <2>6 DEF ReadyNext
<1> QED BY <1>1, <1>2, PTL DEF ReadySpec

\* However connections and timeouts cross, a check of GET /readiness that has been
\* answered holds none of the pool's connections.
THEOREM AnsweredHoldNone == ReadySpec => []AnsweredHoldsNone
<1>1. ReadyInv => AnsweredHoldsNone
  BY DEF ReadyInv, AnsweredHoldsNone
<1> QED BY <1>1, ReadyInvHolds, PTL

\* The connections that are taken are counted, and no more than the pool has.
Taken == {c \in Checks : borrowed[c] > 0}

\* The pool: no more connections are taken than it has.
PoolInv == ReadyInv /\ wanted \subseteq Checks /\ IsFiniteSet(Taken) /\ Cardinality(Taken) <= PoolSize

\* The pool's connections are counted through every step of a check.
LEMMA PoolInvHolds == ReadySpec => []PoolInv
<1>1. ReadyInit => PoolInv
  <2> SUFFICES ASSUME ReadyInit PROVE PoolInv
    OBVIOUS
  <2>1. ReadyInv
    BY DEF ReadyInit, ReadyInv
  <2>2. Taken = {} /\ wanted = {}
    BY DEF ReadyInit, Taken
  <2>3. Cardinality({}) = 0 /\ IsFiniteSet({})
    BY FS_EmptySet
  <2> QED BY <2>1, <2>2, <2>3, PoolAssumption DEF PoolInv
<1>2. PoolInv /\ ReadyInv' /\ [ReadyNext]_readyVars => PoolInv'
  <2> SUFFICES ASSUME PoolInv, ReadyInv', [ReadyNext]_readyVars PROVE PoolInv'
    OBVIOUS
  <2>0. PoolSize \in Nat /\ IsFiniteSet(Taken) /\ Cardinality(Taken) \in Nat /\ Cardinality(Taken) <= PoolSize
    BY PoolAssumption, FS_CardinalityType DEF PoolInv
  <2>1. CASE wanted' \subseteq Checks /\ borrowed' = borrowed
    <3>1. Taken' = Taken
      BY <2>1 DEF Taken
    <3> QED BY <2>0, <2>1, <3>1 DEF PoolInv
  <2>2. ASSUME NEW c \in Checks, Ask(c) \/ ConnectFails(c) \/ ConnectTimesOut(c) PROVE PoolInv'
    BY <2>1, <2>2 DEF Ask, ConnectFails, ConnectTimesOut, PoolInv
  <2>3. ASSUME NEW c \in Checks, Connected(c) PROVE PoolInv'
    <3>1. wanted' \subseteq Checks /\ free > 0
      BY <2>3 DEF Connected, PoolInv
    <3>2. CASE check[c] # "connecting"
      BY <2>1, <2>3, <3>1, <3>2 DEF Connected
    <3>3. CASE check[c] = "connecting"
      <4>1. borrowed' = [borrowed EXCEPT ![c] = @ + 1] /\ borrowed[c] = 0
        BY <2>3, <3>3 DEF Connected, PoolInv, ReadyInv
      <4>2. Taken' = Taken \cup {c} /\ c \notin Taken
        BY <4>1 DEF Taken, PoolInv, ReadyInv
      <4>3. Cardinality(Taken) < PoolSize
        BY <2>0, <3>1 DEF free, Taken
      <4>4. IsFiniteSet(Taken') /\ Cardinality(Taken') = Cardinality(Taken) + 1
        BY <2>0, <4>2, FS_AddElement
      <4> QED BY <2>0, <3>1, <4>3, <4>4 DEF PoolInv
    <3> QED BY <3>2, <3>3
  <2>4. ASSUME NEW c \in Checks, QueryEnds(c) PROVE PoolInv'
    <3>1. borrowed' = [borrowed EXCEPT ![c] = @ - 1] /\ borrowed[c] = 1 /\ wanted' = wanted
      BY <2>4 DEF QueryEnds, PoolInv, ReadyInv
    <3>2. Taken' = Taken \ {c} /\ c \in Taken
      BY <3>1 DEF Taken, PoolInv, ReadyInv
    <3>3. IsFiniteSet(Taken') /\ Cardinality(Taken') = Cardinality(Taken) - 1
      BY <2>0, <3>2, FS_RemoveElement
    <3> QED BY <2>0, <3>1, <3>3 DEF PoolInv
  <2>5. CASE UNCHANGED readyVars
    BY <2>1, <2>5 DEF readyVars, PoolInv
  <2> QED BY <2>2, <2>3, <2>4, <2>5 DEF ReadyNext
<1> QED BY <1>1, <1>2, ReadyInvHolds, PTL DEF ReadySpec

\* Every variable of the check has its type, and the pool never lends more than it has.
LEMMA ReadyTyped == ReadySpec => []ReadyTypeOK
<1>1. PoolInv => ReadyTypeOK
  <2> SUFFICES ASSUME PoolInv PROVE ReadyTypeOK
    OBVIOUS
  <2>1. Cardinality(Taken) \in Nat /\ Cardinality(Taken) <= PoolSize /\ PoolSize \in Nat
    BY PoolAssumption, FS_CardinalityType DEF PoolInv
  <2>2. free \in 0 .. PoolSize
    BY <2>1 DEF free, Taken
  <2>3. borrowed \in [Checks -> 0 .. 1]
    BY DEF PoolInv, ReadyInv
  <2> QED BY <2>2, <2>3 DEF PoolInv, ReadyInv, ReadyTypeOK
<1> QED BY <1>1, PoolInvHolds, PTL

------------------------------------------------------------------------------
(* Supervisor: the workers.                                                *)

\* What the bookkeeping of the supervisor's loop keeps to.
Supervision ==
    /\ workers \in [Wallets -> Nat]
    /\ ended \in [Wallets -> Nat]
    /\ runtimeFails \in [Wallets -> 0 .. MaxRestartAttempts]
    /\ buildFails \in [Wallets -> 0 .. MaxRestartAttempts]
    /\ activeIds \subseteq Wallets
    /\ inBackoff \subseteq Wallets
    /\ skipped \subseteq Wallets
    /\ \A w \in Wallets : workers[w] + ended[w] = IF w \in activeIds THEN 1 ELSE 0
    /\ GivenUpForGood
    /\ activeIds \cap (inBackoff \cup skipped) = {}
    /\ inBackoff = asleep \cup restartCh \cup stranded
    /\ asleep \cap restartCh = {} /\ asleep \cap stranded = {} /\ restartCh \cap stranded = {}

\* The variables Supervision reads, apart from the rows.
supervision == <<workers, ended, runtimeFails, buildFails, activeIds, inBackoff, skipped,
                 asleep, restartCh, stranded>>

\* The part of Supervision that spawn_entry touches.
Spawning(act, wks, bfs, skp) ==
    /\ wks \in [Wallets -> Nat]
    /\ bfs \in [Wallets -> 0 .. MaxRestartAttempts]
    /\ act \subseteq Wallets
    /\ skp \subseteq Wallets
    /\ \A w \in Wallets : wks[w] + ended[w] = IF w \in act THEN 1 ELSE 0
    /\ \A w \in Wallets :
         w \in skp <=> runtimeFails[w] = MaxRestartAttempts \/ bfs[w] = MaxRestartAttempts

\* spawn_entry, for a wallet that neither runs nor was given up, starts at most one
\* worker and gives up exactly after MaxRestartAttempts builds that failed.
LEMMA SpawnEntryKeeps ==
  ASSUME Supervision, NEW w \in Wallets, w \notin activeIds \cup skipped, SpawnEntry(w)
  PROVE  /\ Spawning(activeIds', workers', buildFails', skipped')
         /\ activeIds' \subseteq activeIds \cup {w}
         /\ activeIds' \cap skipped' = {}
         /\ skipped' \subseteq skipped \cup {w}
         /\ UNCHANGED <<ended, runtimeFails>>
<1> USE SupervisorAssumption DEF Supervision, Spawning
<1>1. CASE activeIds' = activeIds \cup {w} /\ workers' = [workers EXCEPT ![w] = @ + 1]
           /\ buildFails' = [buildFails EXCEPT ![w] = 0]
           /\ UNCHANGED <<ended, runtimeFails, skipped>>
  <2>1. \A v \in Wallets : workers'[v] + ended[v] = IF v \in activeIds' THEN 1 ELSE 0
    BY <1>1
  <2>2. \A v \in Wallets : v \in skipped' <=> runtimeFails[v] = MaxRestartAttempts \/ buildFails'[v] = MaxRestartAttempts
    BY <1>1 DEF GivenUpForGood
  <2>3. activeIds' \cap skipped' = {}
    BY <1>1
  <2> QED BY <1>1, <2>1, <2>2, <2>3
<1>2. CASE buildFails' = [buildFails EXCEPT ![w] = @ + 1] /\ UNCHANGED <<workers, ended, activeIds, runtimeFails>>
           /\ skipped' = IF buildFails'[w] >= MaxRestartAttempts THEN skipped \cup {w} ELSE skipped
  <2>1. buildFails[w] < MaxRestartAttempts /\ runtimeFails[w] # MaxRestartAttempts
    <3>1. runtimeFails[w] # MaxRestartAttempts /\ buildFails[w] # MaxRestartAttempts
      BY DEF GivenUpForGood
    <3>2. buildFails[w] \in Nat /\ buildFails[w] <= MaxRestartAttempts /\ MaxRestartAttempts \in Nat
      OBVIOUS
    <3> HIDE DEF Supervision
    <3> QED BY <3>1, <3>2
  <2>2. buildFails' \in [Wallets -> 0 .. MaxRestartAttempts]
    BY <1>2, <2>1
  <2>3. \A v \in Wallets : v \in skipped' <=> runtimeFails[v] = MaxRestartAttempts \/ buildFails'[v] = MaxRestartAttempts
    BY <1>2, <2>1 DEF GivenUpForGood
  <2> QED BY <1>2, <2>2, <2>3
<1> QED BY <1>1, <1>2 DEF SpawnEntry, GiveUp, tasks

\* A message from either channel keeps the bookkeeping.
LEMMA RecvKeeps ==
  ASSUME Supervision, NEW w \in Wallets, RecvRestart(w) \/ RecvSpawn(w)
  PROVE  Supervision'
<1>1. CASE w \in activeIds \cup skipped
  <2>1. Ignore
    BY <1>1 DEF RecvRestart, RecvSpawn
  <2>2. CASE RecvRestart(w)
    BY <1>1, <2>1, <2>2 DEF RecvRestart, Ignore, Supervision, GivenUpForGood, tasks
  <2>3. CASE RecvSpawn(w)
    BY <1>1, <2>1, <2>3 DEF RecvSpawn, Ignore, Supervision, GivenUpForGood, tasks
  <2> QED BY <2>2, <2>3
<1>2. CASE w \notin activeIds \cup skipped
  <2>1. CASE RecvSpawn(w) /\ w \in inBackoff
    BY <2>1 DEF RecvSpawn, Ignore, Supervision, GivenUpForGood, tasks
  <2>2. CASE RecvRestart(w) \/ w \notin inBackoff
    <3>1. SpawnEntry(w)
      BY <1>2, <2>2 DEF RecvRestart, RecvSpawn
    <3>2. /\ Spawning(activeIds', workers', buildFails', skipped')
          /\ activeIds' \subseteq activeIds \cup {w}
          /\ activeIds' \cap skipped' = {}
          /\ UNCHANGED <<ended, runtimeFails>>
      BY <1>2, <3>1, SpawnEntryKeeps
    <3>3. w \notin inBackoff' /\ inBackoff' \subseteq inBackoff
      BY <2>2 DEF RecvRestart, RecvSpawn
    <3>4. /\ inBackoff' = (asleep \cup restartCh \cup stranded)'
          /\ (asleep \cap restartCh = {} /\ asleep \cap stranded = {} /\ restartCh \cap stranded = {})'
      BY <2>2 DEF RecvRestart, RecvSpawn, Supervision
    <3> QED BY <3>2, <3>3, <3>4 DEF Supervision, Spawning, GivenUpForGood
  <2> QED BY <2>1, <2>2
<1> QED BY <1>1, <1>2

\* A wallet whose worker ended goes into its backoff or is given up.
LEMMA JoinKeeps ==
  ASSUME Supervision, NEW w \in Wallets, Join(w)
  PROVE  Supervision'
<1> USE SupervisorAssumption DEF Supervision
<1>1. ended[w] = 1 /\ workers[w] = 0 /\ w \in activeIds
  BY DEF Join
<1>2. w \notin inBackoff \cup skipped /\ w \notin asleep \cup restartCh \cup stranded
  BY <1>1
<1>3. runtimeFails[w] \in 0 .. MaxRestartAttempts - 1 /\ buildFails[w] # MaxRestartAttempts
  <2>1. runtimeFails[w] # MaxRestartAttempts /\ buildFails[w] # MaxRestartAttempts
    BY <1>2 DEF GivenUpForGood
  <2>2. runtimeFails[w] \in 0 .. MaxRestartAttempts
    OBVIOUS
  <2> QED BY <2>1, <2>2
<1>4. /\ ended' = [ended EXCEPT ![w] = @ - 1]
      /\ activeIds' = activeIds \ {w}
      /\ runtimeFails' = [runtimeFails EXCEPT ![w] = @ + 1]
      /\ UNCHANGED <<workers, buildFails, restartCh, stranded>>
  BY DEF Join
<1>5. /\ ended' \in [Wallets -> Nat] /\ workers' \in [Wallets -> Nat]
      /\ runtimeFails' \in [Wallets -> 0 .. MaxRestartAttempts]
      /\ \A v \in Wallets : workers'[v] + ended'[v] = IF v \in activeIds' THEN 1 ELSE 0
  BY <1>1, <1>3, <1>4
<1>6. CASE runtimeFails'[w] >= MaxRestartAttempts
  <2>1. skipped' = skipped \cup {w} /\ UNCHANGED <<inBackoff, asleep>>
    BY <1>6 DEF Join, GiveUp
  <2>2. runtimeFails'[w] = MaxRestartAttempts
    BY <1>3, <1>4, <1>6
  <2>3. \A v \in Wallets : v \in skipped' <=> runtimeFails'[v] = MaxRestartAttempts \/ buildFails'[v] = MaxRestartAttempts
    BY <1>4, <2>1, <2>2 DEF GivenUpForGood
  <2> QED BY <1>2, <1>4, <1>5, <2>1, <2>3 DEF GivenUpForGood
<1>7. CASE ~(runtimeFails'[w] >= MaxRestartAttempts)
  <2>1. inBackoff' = inBackoff \cup {w} /\ asleep' = asleep \cup {w} /\ UNCHANGED skipped
    BY <1>7 DEF Join
  <2>2. runtimeFails'[w] # MaxRestartAttempts
    BY <1>3, <1>5, <1>7
  <2>3. \A v \in Wallets : v \in skipped' <=> runtimeFails'[v] = MaxRestartAttempts \/ buildFails'[v] = MaxRestartAttempts
    BY <1>2, <1>3, <1>4, <2>1, <2>2 DEF GivenUpForGood
  <2> QED BY <1>2, <1>4, <1>5, <2>1, <2>3 DEF GivenUpForGood
<1> QED BY <1>6, <1>7

\* The supervisor's bookkeeping is right in every reachable state.
LEMMA SupervisionHolds == SupSpec => []Supervision
<1>1. SupInit => Supervision
  BY SupervisorAssumption DEF SupInit, Supervision, GivenUpForGood
<1>2. Supervision /\ [SupNext]_supVars => Supervision'
  <2> SUFFICES ASSUME Supervision, [SupNext]_supVars PROVE Supervision'
    OBVIOUS
  <2>1. CASE UNCHANGED supervision
    BY <2>1 DEF supervision, Supervision, GivenUpForGood
  <2>2. ASSUME NEW w \in Wallets, NEW mark \in Statuses, SetStatus(w, mark) PROVE Supervision'
    BY <2>1, <2>2 DEF SetStatus, supervision, tasks, supervised, channels
  <2>3. ASSUME NEW w \in Wallets, AutoPause(w) PROVE Supervision'
    BY <2>1, <2>3 DEF AutoPause, supervision, tasks, supervised, channels
  <2>4. ASSUME NEW w \in Wallets, WorkerEnds(w) \/ ClientFails(w) PROVE Supervision'
    <3>1. /\ workers[w] > 0 /\ workers' = [workers EXCEPT ![w] = @ - 1] /\ ended' = [ended EXCEPT ![w] = @ + 1]
          /\ UNCHANGED <<activeIds, inBackoff, runtimeFails, buildFails, skipped, restartCh, asleep, stranded>>
      BY <2>4 DEF WorkerEnds, ClientFails, supervised, channels
    <3>2. \A v \in Wallets : workers'[v] + ended'[v] = workers[v] + ended[v]
      BY <3>1 DEF Supervision
    <3>3. workers' \in [Wallets -> Nat] /\ ended' \in [Wallets -> Nat]
      BY <3>1 DEF Supervision
    <3> QED BY <3>1, <3>2, <3>3 DEF Supervision, GivenUpForGood
  <2>5. ASSUME NEW w \in Wallets, RecvRestart(w) \/ RecvSpawn(w) PROVE Supervision'
    BY <2>5, RecvKeeps
  <2>6. ASSUME NEW w \in Wallets, Join(w) PROVE Supervision'
    BY <2>6, JoinKeeps
  <2>7. ASSUME NEW w \in Wallets, BackoffEnds(w) PROVE Supervision'
    BY <2>7 DEF BackoffEnds, supervised, tasks, Supervision, GivenUpForGood
  <2>8. ASSUME NEW x \in half, MarkConfig(x) PROVE Supervision'
    BY <2>1, <2>8 DEF MarkConfig, supervision, tasks, supervised, channels
  <2>9. CASE Watch
    BY <2>1, <2>9 DEF Watch, supervision, tasks, supervised
  <2>10. CASE RestartEngine
    BY <2>10, SupervisorAssumption DEF RestartEngine, Supervision, GivenUpForGood
  <2>11. CASE UNCHANGED supVars
    BY <2>1, <2>11 DEF supVars, supervision, tasks, supervised, channels
  <2> QED BY <2>2, <2>3, <2>4, <2>5, <2>6, <2>7, <2>8, <2>9, <2>10, <2>11 DEF SupNext, Supervise
<1> QED BY <1>1, <1>2, PTL DEF SupSpec

\* Whatever workers, routes, timers and restarts of the engine do, the supervisor
\* of main.rs starts no wallet twice, gives one up only after MAX_RESTART_ATTEMPTS,
\* and has a way out of each backoff unless the wallet's entry was not there.
THEOREM Supervised == SupSpec => []WalletsAreSupervised
<1>1. Supervision => WalletsAreSupervised
  BY DEF Supervision, WalletsAreSupervised, OneWorker, BackoffEndsUnlessStranded
<1> QED BY <1>1, SupervisionHolds, PTL

\* No worker is started while its wallet's backoff timer runs.
THEOREM BackoffIsHonoured == SupSpec => BackoffHonoured
<1>1. Supervision /\ [SupNext]_supVars => [\A w \in Wallets : workers'[w] > workers[w] => w \notin asleep]_supVars
  <2> SUFFICES ASSUME Supervision, SupNext, NEW w \in Wallets, workers'[w] > workers[w] PROVE w \notin asleep
    OBVIOUS
  <2> USE DEF Supervision
  <2>1. CASE workers' = workers
    BY <2>1
  <2>2. ASSUME NEW v \in Wallets, workers' = [workers EXCEPT ![v] = @ - 1] PROVE FALSE
    BY <2>2
  <2>3. ASSUME NEW v \in Wallets, RecvRestart(v) \/ RecvSpawn(v) PROVE w \notin asleep
    <3>1. v \notin asleep \/ UNCHANGED workers
      BY <2>3 DEF RecvRestart, RecvSpawn, Ignore, tasks
    <3>2. v = w \/ workers'[w] = workers[w]
      BY <2>3 DEF RecvRestart, RecvSpawn, Ignore, SpawnEntry, GiveUp, tasks
    <3> QED BY <2>1, <3>1, <3>2
  <2>4. ASSUME NEW v \in Wallets, WorkerEnds(v) \/ ClientFails(v) PROVE FALSE
    BY <2>2, <2>4 DEF WorkerEnds, ClientFails
  <2>5. CASE \E v \in Wallets : Join(v) \/ BackoffEnds(v) \/ AutoPause(v) \/ \E mark \in Statuses : SetStatus(v, mark)
    BY <2>1, <2>5 DEF Join, BackoffEnds, AutoPause, SetStatus, tasks
  <2>6. CASE (\E x \in half : MarkConfig(x)) \/ Watch
    BY <2>1, <2>6 DEF MarkConfig, Watch, tasks
  <2>7. CASE RestartEngine
    BY <2>7 DEF RestartEngine
  <2> QED BY <2>3, <2>4, <2>5, <2>6, <2>7 DEF SupNext, Supervise
<1> QED BY <1>1, SupervisionHolds, PTL DEF SupSpec, BackoffHonoured

------------------------------------------------------------------------------
(* Supervisor: the two tables.                                             *)

\* Unless a write of the wallet was torn, the registry has what the unfinished write
\* of the engine says, and differs from the configuration only by such a write.
TablesInv ==
    /\ registry \in [Wallets -> Statuses]
    /\ config \in [Wallets -> Statuses]
    /\ half \subseteq Writes
    /\ \A x \in half : x.wallet \in torn \/ registry[x.wallet] = x.status
    /\ TablesAgree

\* The engine's first statement keeps TablesInv.
LEMMA MarkKeeps ==
  ASSUME TablesInv, NEW w \in Wallets, NEW mark \in {"paused", "halted"},
         NEW by \in {"supervisor", "worker"}, Mark(w, mark, by)
  PROVE  TablesInv'
<1> DEFINE y == [wallet |-> w, status |-> mark, by |-> by]
<1>1. /\ registry' \in [Wallets -> Statuses]
      /\ \A v \in Wallets \ {w} : registry'[v] = registry[v]
      /\ config' = config
      /\ half' = half \cup {y}
      /\ torn \subseteq torn'
      /\ \A x \in half : x.wallet = w => w \in torn'
      /\ w \in torn' \/ registry'[w] = mark
  BY DEF Mark, Statement, TablesInv, Statuses
<1>2. y \in Writes /\ y.wallet = w /\ y.status = mark
  BY DEF Writes
<1> HIDE DEF y
<1>3. half' \subseteq Writes
  BY <1>1, <1>2 DEF TablesInv
<1>4. ASSUME NEW x \in half' PROVE x.wallet \in torn' \/ registry'[x.wallet] = x.status
  <2>1. CASE x = y
    BY <1>1, <1>2, <2>1
  <2>2. CASE x \in half
    BY <1>1, <2>2 DEF TablesInv, Writes
  <2> QED BY <1>1, <2>1, <2>2
<1>5. ASSUME NEW v \in Wallets \ torn', registry'[v] # config'[v]
      PROVE  \E x \in half' : x.wallet = v /\ x.status = registry'[v]
  <2>1. CASE v = w
    BY <1>1, <1>2, <2>1
  <2>2. CASE v # w
    BY <1>1, <1>5, <2>2 DEF TablesInv, TablesAgree
  <2> QED BY <2>1, <2>2
<1> QED BY <1>1, <1>3, <1>4, <1>5 DEF TablesInv, TablesAgree

\* Routes, workers, supervisor and restarts keep the two tables so.
LEMMA TablesInvHolds == SupSpec => []TablesInv
<1>1. SupInit => TablesInv
  BY DEF SupInit, TablesInv, TablesAgree, Statuses
<1>2. TablesInv /\ [SupNext]_supVars => TablesInv'
  <2> SUFFICES ASSUME TablesInv, [SupNext]_supVars PROVE TablesInv'
    OBVIOUS
  <2>1. CASE UNCHANGED <<registry, config, half, torn>>
    BY <2>1 DEF TablesInv, TablesAgree
  <2>2. ASSUME NEW w \in Wallets, NEW mark \in Statuses, SetStatus(w, mark) PROVE TablesInv'
    <3>1. /\ registry' = [registry EXCEPT ![w] = mark] /\ config' = [config EXCEPT ![w] = mark]
          /\ half' = half /\ torn \subseteq torn'
          /\ \A x \in half : x.wallet = w => w \in torn'
      BY <2>2 DEF SetStatus
    <3>2. registry' \in [Wallets -> Statuses] /\ config' \in [Wallets -> Statuses] /\ half' \subseteq Writes
      BY <3>1 DEF TablesInv
    <3>3. ASSUME NEW x \in half PROVE x.wallet \in torn' \/ registry'[x.wallet] = x.status
      BY <3>1 DEF TablesInv, Writes
    <3>4. ASSUME NEW v \in Wallets \ torn', registry'[v] # config'[v]
          PROVE  \E x \in half : x.wallet = v /\ x.status = registry'[v]
      BY <3>1, <3>4 DEF TablesInv, TablesAgree
    <3> QED BY <3>1, <3>2, <3>3, <3>4 DEF TablesInv, TablesAgree
  <2>3. ASSUME NEW w \in Wallets, AutoPause(w) \/ ClientFails(w) PROVE TablesInv'
    <3>1. \E mark \in {"paused", "halted"} : Mark(w, mark, "worker")
      BY <2>3 DEF AutoPause, ClientFails
    <3> QED BY <3>1, MarkKeeps
  <2>4. ASSUME NEW w \in Wallets, Supervise(w) PROVE TablesInv'
    <3>1. UNCHANGED <<registry, config, half, torn>> \/ Mark(w, "halted", "supervisor")
      BY <2>4 DEF Supervise, RecvRestart, RecvSpawn, Join, BackoffEnds, SpawnEntry, GiveUp, Ignore, rows
    <3> QED BY <2>1, <3>1, MarkKeeps
  <2>5. ASSUME NEW x \in half, MarkConfig(x) PROVE TablesInv'
    <3>1. /\ registry' = registry /\ half' = half \ {x} /\ torn \subseteq torn'
          /\ config' \in [Wallets -> Statuses]
          /\ \A v \in Wallets \ {x.wallet} : config'[v] = config[v]
          /\ x.wallet \in torn' \/ config'[x.wallet] = x.status
          /\ x.wallet \in Wallets
      BY <2>5 DEF MarkConfig, Statement, TablesInv, Writes, Statuses
    <3>2. ASSUME NEW v \in Wallets \ torn', registry'[v] # config'[v]
          PROVE  \E y \in half' : y.wallet = v /\ y.status = registry'[v]
      <4>1. v # x.wallet
        BY <3>1, <3>2 DEF TablesInv
      <4> QED BY <3>1, <3>2, <4>1 DEF TablesInv, TablesAgree
    <3> QED BY <3>1, <3>2 DEF TablesInv, TablesAgree
  <2>6. CASE RestartEngine
    <3>1. /\ half' = {} /\ UNCHANGED <<registry, config>> /\ torn \subseteq torn'
          /\ \A x \in half : x.wallet \in torn'
      BY <2>6 DEF RestartEngine
    <3> QED BY <3>1 DEF TablesInv, TablesAgree
  <2>7. CASE (\E w \in Wallets : WorkerEnds(w)) \/ Watch
    BY <2>1, <2>7 DEF WorkerEnds, Watch, rows
  <2>8. CASE UNCHANGED supVars
    BY <2>1, <2>8 DEF supVars, rows
  <2> QED BY <2>2, <2>3, <2>4, <2>5, <2>6, <2>7, <2>8 DEF SupNext
<1> QED BY <1>1, <1>2, PTL DEF SupSpec

\* The engine writes the two status tables one after the other, and the routes may
\* write between its statements: only then, or after a statement that failed, can
\* the tables go on to disagree.
THEOREM TablesAlwaysAgree == SupSpec => []TablesAgree
<1>1. TablesInv => TablesAgree
  BY DEF TablesInv
<1> QED BY <1>1, TablesInvHolds, PTL

\* What is left of the supervisor's types: the spawn channel, the torn wallets and the bounds.
RestTypes ==
    /\ spawnCh \subseteq Wallets /\ torn \subseteq Wallets
    /\ ops \in 0 .. MaxOps /\ errors \in 0 .. MaxErrors /\ crashes \in 0 .. MaxCrashes

\* Every variable of the supervisor and of the wallets' tables has its type.
LEMMA SupTyped == SupSpec => []SupTypeOK
<1>1. SupInit => RestTypes
  <2> SUFFICES ASSUME SupInit PROVE RestTypes
    OBVIOUS
  <2>1. 0 \in 0 .. MaxOps /\ 0 \in 0 .. MaxErrors /\ 0 \in 0 .. MaxCrashes
    BY SupervisorAssumption
  <2> QED BY <2>1 DEF SupInit, RestTypes, Enabled
<1>2. TablesInv /\ RestTypes /\ [SupNext]_supVars => RestTypes'
  <2> SUFFICES ASSUME TablesInv, RestTypes, [SupNext]_supVars PROVE RestTypes'
    OBVIOUS
  <2> DEFINE Ups(n, next, max) == next = n \/ (n < max /\ next = n + 1)
             Sets == spawnCh' \subseteq Wallets /\ torn' \subseteq Wallets
             Moves == /\ Sets /\ Ups(ops, ops', MaxOps) /\ Ups(errors, errors', MaxErrors)
                      /\ Ups(crashes, crashes', MaxCrashes)
  <2>0. Enabled \subseteq Wallets /\ \A x \in half : x.wallet \in Wallets
    BY DEF Enabled, TablesInv, Writes
  <2>1. ASSUME NEW w \in Wallets, NEW mark, NEW by, Mark(w, mark, by)
        PROVE  torn' \subseteq Wallets /\ Ups(errors, errors', MaxErrors)
    <3>1. torn' \subseteq Wallets
      BY <2>0, <2>1 DEF Mark, RestTypes
    <3> QED BY <3>1, <2>1 DEF Mark, Statement
  <2>2. ASSUME NEW w \in Wallets, SpawnEntry(w)
        PROVE  torn' \subseteq Wallets /\ Ups(errors, errors', MaxErrors)
    <3>1. CASE GiveUp(w)
      BY <2>1, <3>1 DEF GiveUp
    <3>2. CASE torn' = torn /\ errors' = errors
      BY <3>2 DEF RestTypes
    <3> QED BY <2>2, <3>1, <3>2 DEF SpawnEntry
  <2>3. ASSUME NEW w \in Wallets, NEW mark \in Statuses, SetStatus(w, mark) PROVE Moves
    <3>1. torn' \subseteq Wallets
      BY <2>0, <2>3 DEF SetStatus, RestTypes
    <3> QED BY <2>3, <3>1 DEF SetStatus, RestTypes, channels
  <2>4. ASSUME NEW w \in Wallets, AutoPause(w) PROVE Moves
    <3>1. torn' \subseteq Wallets /\ Ups(errors, errors', MaxErrors)
      BY <2>1, <2>4 DEF AutoPause
    <3> QED BY <2>4, <3>1 DEF AutoPause, RestTypes, channels
  <2>5. ASSUME NEW w \in Wallets, WorkerEnds(w) PROVE Moves
    BY <2>5 DEF WorkerEnds, RestTypes, channels, bounds
  <2>6. ASSUME NEW w \in Wallets, ClientFails(w) PROVE Moves
    <3>1. torn' \subseteq Wallets /\ Ups(errors, errors', MaxErrors)
      BY <2>1, <2>6 DEF ClientFails
    <3> QED BY <2>6, <3>1 DEF ClientFails, RestTypes, channels
  <2>7. ASSUME NEW w \in Wallets, RecvRestart(w) \/ RecvSpawn(w) PROVE Moves
    <3>1. torn' \subseteq Wallets /\ Ups(errors, errors', MaxErrors)
      <4>1. CASE Ignore
        BY <4>1 DEF Ignore, RestTypes
      <4> QED BY <2>2, <2>7, <4>1 DEF RecvRestart, RecvSpawn
    <3> QED BY <2>7, <3>1 DEF RecvRestart, RecvSpawn, RestTypes
  <2>8. ASSUME NEW w \in Wallets, Join(w) PROVE Moves
    <3>1. torn' \subseteq Wallets /\ Ups(errors, errors', MaxErrors)
      <4>1. CASE GiveUp(w)
        BY <2>1, <4>1 DEF GiveUp
      <4>2. CASE torn' = torn /\ errors' = errors
        BY <4>2 DEF RestTypes
      <4> QED BY <2>8, <4>1, <4>2 DEF Join
    <3> QED BY <2>8, <3>1 DEF Join, RestTypes
  <2>9. ASSUME NEW w \in Wallets, BackoffEnds(w) PROVE Moves
    BY <2>9 DEF BackoffEnds, RestTypes
  <2>10. ASSUME NEW x \in half, MarkConfig(x) PROVE Moves
    <3>1. torn' \subseteq Wallets
      BY <2>0, <2>10 DEF MarkConfig, RestTypes
    <3> QED BY <2>10, <3>1 DEF MarkConfig, Statement, RestTypes, channels
  <2>11. ASSUME Watch PROVE Moves
    BY <2>0, <2>11 DEF Watch, RestTypes, bounds
  <2>12. ASSUME RestartEngine PROVE Moves
    <3>1. torn' \subseteq Wallets /\ spawnCh' \subseteq Wallets
      BY <2>0, <2>12 DEF RestartEngine, RestTypes
    <3>2. ops' = ops /\ errors' = errors /\ crashes < MaxCrashes /\ crashes' = crashes + 1
      BY <2>12 DEF RestartEngine
    <3> QED BY <3>1, <3>2
  <2>13. ASSUME UNCHANGED supVars PROVE Moves
    BY <2>13 DEF supVars, RestTypes, channels, bounds
  <2>14. Moves
    <3> HIDE DEF Moves
    <3>1. CASE SupNext
      BY <2>3, <2>4, <2>5, <2>6, <2>7, <2>8, <2>9, <2>10, <2>11, <2>12, <3>1, Zenon
         DEF SupNext, Supervise
    <3> QED BY <2>13, <3>1
  <2> QED BY <2>14, SupervisorAssumption DEF RestTypes
<1>3. Supervision /\ TablesInv /\ RestTypes => SupTypeOK
  <2> SUFFICES ASSUME Supervision, TablesInv, RestTypes PROVE SupTypeOK
    OBVIOUS
  <2>1. /\ registry \in [Wallets -> Statuses] /\ config \in [Wallets -> Statuses]
        /\ half \subseteq Writes
    BY DEF TablesInv
  <2>2. /\ activeIds \subseteq Wallets /\ inBackoff \subseteq Wallets /\ skipped \subseteq Wallets
        /\ workers \in [Wallets -> Nat] /\ ended \in [Wallets -> Nat]
    BY DEF Supervision
  <2>3. /\ runtimeFails \in [Wallets -> 0 .. MaxRestartAttempts]
        /\ buildFails \in [Wallets -> 0 .. MaxRestartAttempts]
    BY DEF Supervision
  <2>4. spawnCh \cup restartCh \cup asleep \cup stranded \cup torn \subseteq Wallets
    BY <2>2 DEF Supervision, RestTypes, BackoffEndsUnlessStranded
  <2> QED BY <2>1, <2>2, <2>3, <2>4 DEF SupTypeOK, RestTypes
<1> QED BY <1>1, <1>2, <1>3, SupervisionHolds, TablesInvHolds, PTL DEF SupSpec

------------------------------------------------------------------------------
(* BondingCurve.                                                           *)

\* What \div rounds down to.
LEMMA DivDown ==
    ASSUME NEW a \in Nat, NEW n \in Nat, n > 0
    PROVE  /\ a \div n \in Nat
           /\ (a \div n) * n <= a
           /\ a < (a \div n) * n + n
BY SMT

\* The code's "ceiling division" rounds up.
LEMMA DivUp ==
    ASSUME NEW a \in Nat, NEW n \in Nat, n > 0
    PROVE  /\ (a + n - 1) \div n \in Nat
           /\ ((a + n - 1) \div n) * n >= a
           /\ ((a + n - 1) \div n) * n - n < a
<1> DEFINE q == (a + n - 1) \div n
<1>1. a + n - 1 \in Nat
  OBVIOUS
<1>2. q \in Nat /\ q * n <= a + n - 1 /\ a + n - 1 < q * n + n
  BY <1>1, DivDown
<1>3. q * n \in Nat
  BY <1>2
<1> QED BY <1>2, <1>3

\* A product with a natural tells its integer factors apart,
LEMMA MulCancel ==
    ASSUME NEW a \in Int, NEW b \in Int, NEW n \in Nat, a * n < b * n
    PROVE  a < b
BY SMT

\* and keeps their order.
LEMMA MulMono ==
    ASSUME NEW a \in Int, NEW b \in Int, NEW n \in Nat, a <= b
    PROVE  a * n <= b * n
BY SMT

\* What trades keep: real and virtual reserves move together, and the product
\* never falls below that of a new token.
CurveInv ==
    /\ vSol \in Nat /\ vTok \in Nat /\ rSol \in Nat /\ rTok \in 0 .. RTok0
    /\ complete \in BOOLEAN
    /\ vSol = VSol0 + rSol
    /\ vTok = VTok0 - RTok0 + rTok
    /\ VSol0 * VTok0 <= vSol * vTok
    /\ vSol < U64

\* What the program asks for a purchase keeps the product.
LEMMA BoughtKeeps ==
    ASSUME CurveInv, NEW t \in 1 .. RTok0, Bought(t)
    PROVE  CurveInv'
<1>0. VSol0 \in Nat /\ VTok0 \in Nat /\ RTok0 \in Nat /\ RTok0 < VTok0
  BY CurveAssumption
<1> DEFINE n == vTok - t
<1> DEFINE o == Owed(t)
<1>1. t \in Nat /\ t <= rTok /\ vSol \in Nat /\ vTok \in Nat /\ rTok \in Nat
  BY <1>0 DEF Bought, CurveInv
<1>2. n \in Nat /\ n > 0
  BY <1>0, <1>1 DEF CurveInv
<1>3. vSol * t \in Nat
  BY <1>1
<1>4. o \in Nat /\ o * n >= vSol * t
  BY <1>2, <1>3, DivUp DEF Owed
<1>5. vSol' = vSol + o /\ rSol' = rSol + o /\ vTok' = n /\ rTok' = rTok - t /\ complete' \in BOOLEAN
  BY DEF Bought
<1>6. (vSol + o) * n = vSol * vTok - vSol * t + o * n
  <2>1. (vSol + o) * n = vSol * n + o * n
    BY <1>1, <1>2, <1>4
  <2>2. vSol * n = vSol * vTok - vSol * t
    BY <1>1
  <2> QED BY <2>1, <2>2
<1>7. VSol0 * VTok0 <= (vSol + o) * n
  <2>1. vSol * vTok \in Nat /\ o * n \in Nat /\ VSol0 * VTok0 \in Nat
    BY <1>0, <1>1, <1>2, <1>4
  <2> HIDE DEF n, o
  <2> QED BY <1>3, <1>4, <1>6, <2>1 DEF CurveInv
<1>8. VSol0 * VTok0 <= vSol' * vTok'
  BY <1>5, <1>7
<1> HIDE DEF n, o
<1>9. /\ vSol' \in Nat /\ vTok' \in Nat /\ rSol' \in Nat /\ rTok' \in 0 .. RTok0
      /\ vSol' = VSol0 + rSol'
      BY <1>0, <1>1, <1>2, <1>4, <1>5 DEF CurveInv
<1>10. vTok' = VTok0 - RTok0 + rTok'
  BY <1>0, <1>1, <1>5 DEF CurveInv, n
<1>11. vSol' < U64
  BY DEF Bought
<1> QED BY <1>5, <1>8, <1>9, <1>10, <1>11 DEF CurveInv

\* What a sale of t tokens can bring in: the program's amount and the code's, which
\* rounds up, on a curve whose product has not fallen.
LEMMA SaleBounds ==
    ASSUME CurveInv, NEW t \in 1 .. RTok0 - rTok
    PROVE  /\ Given(t) \in Nat /\ SolOut(t) \in Nat
           /\ SolOut(t) \in Given(t) .. Given(t) + 1
           /\ SolOut(t) <= rSol /\ Given(t) <= rSol
           /\ vSol * vTok <= (vSol - Given(t)) * (vTok + t)
<1>0. VSol0 \in Nat /\ VTok0 \in Nat /\ RTok0 \in Nat /\ RTok0 < VTok0
  BY CurveAssumption
<1>1. t \in Nat /\ vSol \in Nat /\ vTok \in Nat /\ rTok \in Nat /\ rSol \in Nat
  BY <1>0 DEF CurveInv
<1> DEFINE m == vTok + t
           p == vSol * vTok
           a == vSol * t
           g == a \div m
           d == p \div m
<1>2. m \in Nat /\ m > 0 /\ m <= VTok0
  BY <1>0, <1>1 DEF CurveInv
<1>3. p \in Nat /\ a \in Nat
  BY <1>1
<1>4. vSol * m = p + a
  BY <1>1
<1>5. g \in Nat /\ g * m <= a /\ a < g * m + m
  BY <1>2, <1>3, DivDown
<1>6. d \in Nat /\ d * m <= p /\ p < d * m + m
  BY <1>2, <1>3, DivDown
<1>7. Given(t) = g /\ SolOut(t) = vSol - d
  BY DEF Given, SolOut
<1>8. VSol0 * m <= p
  <2>1. VSol0 * m <= VSol0 * VTok0
    BY <1>0, <1>2, MulMono
  <2>2. VSol0 * VTok0 <= p /\ VSol0 * VTok0 \in Nat /\ VSol0 * m \in Nat
    BY <1>0, <1>2 DEF CurveInv
  <2> QED BY <1>3, <2>1, <2>2
<1> HIDE DEF m, p, a, g, d
<1>9. g * m \in Nat /\ d * m \in Nat /\ VSol0 * m \in Nat
  BY <1>0, <1>2, <1>5, <1>6
<1>10. (vSol - g) * m = p + a - g * m
  <2>1. (vSol - g) * m = vSol * m - g * m
    BY <1>1, <1>2, <1>5
  <2> QED BY <2>1, <1>3, <1>4, <1>9
<1>11. p <= (vSol - g) * m
  BY <1>3, <1>5, <1>10, <1>9
<1>12. d >= VSol0
  <2>1. VSol0 * m < (d + 1) * m
    <3>1. (d + 1) * m = d * m + m
      BY <1>2, <1>6
    <3> QED BY <1>2, <1>3, <1>6, <1>8, <1>9, <3>1
  <2>2. VSol0 < d + 1
    BY <2>1, <1>0, <1>2, <1>6, MulCancel
  <2> QED BY <2>2, <1>0, <1>6
<1>13. vSol - d \in g .. g + 1
  <2>1. (vSol - d) * m = p + a - d * m
    <3>1. (vSol - d) * m = vSol * m - d * m
      BY <1>1, <1>2, <1>6
    <3> QED BY <3>1, <1>3, <1>4, <1>9
  <2>2. g * m < (vSol - d + 1) * m
    <3>1. (vSol - d + 1) * m = (vSol - d) * m + m
      BY <1>1, <1>2, <1>6
    <3> QED BY <2>1, <3>1, <1>2, <1>3, <1>5, <1>6, <1>9
  <2>3. (vSol - d) * m < (g + 2) * m
    <3>1. (g + 2) * m = g * m + m + m
      BY <1>2, <1>5
    <3> QED BY <2>1, <3>1, <1>2, <1>3, <1>5, <1>6, <1>9
  <2>4. g < vSol - d + 1
    BY <2>2, <1>1, <1>2, <1>5, <1>6, MulCancel
  <2>5. vSol - d < g + 2
    BY <2>3, <1>1, <1>2, <1>5, <1>6, MulCancel
  <2> QED BY <2>4, <2>5, <1>1, <1>5, <1>6
<1>14. vSol - d <= rSol
  BY <1>0, <1>1, <1>6, <1>12 DEF CurveInv
<1>15. g <= rSol /\ vSol - d \in Nat
  BY <1>1, <1>5, <1>6, <1>13, <1>14
<1>16. vSol * vTok <= (vSol - Given(t)) * (vTok + t)
  BY <1>7, <1>11 DEF m, p
<1> QED BY <1>5, <1>7, <1>13, <1>14, <1>15, <1>16

\* A sale keeps the product too, and the curve can pay for it.
LEMMA SoldKeeps ==
    ASSUME CurveInv, NEW t \in 1 .. RTok0, Sold(t)
    PROVE  CurveInv'
<1>0. VSol0 \in Nat /\ VTok0 \in Nat /\ RTok0 \in Nat /\ RTok0 < VTok0
  BY CurveAssumption
<1>1. t \in 1 .. RTok0 - rTok
  BY DEF Sold
<1>2. /\ Given(t) \in Nat /\ Given(t) <= rSol
      /\ vSol * vTok <= (vSol - Given(t)) * (vTok + t)
  BY <1>1, SaleBounds
<1>3. /\ vSol' = vSol - Given(t) /\ rSol' = rSol - Given(t)
      /\ vTok' = vTok + t /\ rTok' = rTok + t /\ complete' = complete
  BY DEF Sold
<1>4. VSol0 * VTok0 <= vSol' * vTok'
  <2>1. vSol * vTok <= vSol' * vTok'
    BY <1>2, <1>3
  <2>2. VSol0 * VTok0 \in Nat /\ vSol * vTok \in Nat /\ vSol' * vTok' \in Int
    BY <1>0, <1>1, <1>2, <1>3 DEF CurveInv
  <2> QED BY <2>1, <2>2 DEF CurveInv
<1>5. /\ vSol' \in Nat /\ vTok' \in Nat /\ rSol' \in Nat /\ rTok' \in 0 .. RTok0
      /\ vSol' = VSol0 + rSol' /\ vTok' = VTok0 - RTok0 + rTok'
  BY <1>0, <1>1, <1>2, <1>3 DEF CurveInv
<1>6. vSol' < U64
  BY <1>0, <1>2, <1>3, CurveAssumption DEF CurveInv
<1> QED BY <1>3, <1>4, <1>5, <1>6 DEF CurveInv

\* A new token's curve has the product, and both trades keep it.
LEMMA CurveInvHolds == CurveSpec => []CurveInv
<1>1. CurveInit => CurveInv
  <2> SUFFICES ASSUME CurveInit PROVE CurveInv
    OBVIOUS
  <2>1. VSol0 \in Nat /\ VTok0 \in Nat /\ RTok0 \in Nat /\ VSol0 * VTok0 \in Nat
    BY CurveAssumption
  <2>2. vSol = VSol0 /\ vTok = VTok0 /\ rSol = 0 /\ rTok = RTok0 /\ complete = FALSE
    BY DEF CurveInit
  <2>3. VSol0 * VTok0 <= vSol * vTok
    BY <2>1, <2>2
  <2>4. vSol = VSol0 + rSol /\ vTok = VTok0 - RTok0 + rTok
    BY <2>1, <2>2
  <2>5. vSol \in Nat /\ vTok \in Nat /\ rSol \in Nat /\ rTok \in 0 .. RTok0
    BY <2>1, <2>2
  <2>6. complete \in BOOLEAN
    BY <2>2
  <2>7. vSol < U64
    BY <2>2, CurveAssumption
  <2> QED BY <2>3, <2>4, <2>5, <2>6, <2>7 DEF CurveInv
<1>2. CurveInv /\ [CurveNext]_curveVars => CurveInv'
  <2> SUFFICES ASSUME CurveInv, [CurveNext]_curveVars PROVE CurveInv'
    OBVIOUS
  <2>1. ASSUME NEW t \in 1 .. RTok0, Bought(t) PROVE CurveInv'
    BY <2>1, BoughtKeeps
  <2>2. ASSUME NEW t \in 1 .. RTok0, Sold(t) PROVE CurveInv'
    BY <2>2, SoldKeeps
  <2>3. CASE UNCHANGED curveVars
    BY <2>3 DEF CurveInv, curveVars
  <2> QED BY <2>1, <2>2, <2>3 DEF CurveNext
<1> QED BY <1>1, <1>2, PTL DEF CurveSpec

\* Whatever has been traded, sol_for_tokens quotes a holder of tokens what the
\* program gives or a lamport more, and the curve has it.
LEMMA HoldersAreBacked == CurveInv => SalesAreBacked
<1> SUFFICES ASSUME CurveInv, ~complete, NEW t \in 1 .. RTok0 - rTok
             PROVE  /\ SolForTokens(t) = SolOut(t)
                    /\ SolForTokens(t) \in Given(t) .. Given(t) + 1
  BY DEF SalesAreBacked
<1>1. /\ SolOut(t) \in Nat /\ SolOut(t) <= rSol
      /\ SolOut(t) \in Given(t) .. Given(t) + 1
  BY SaleBounds
<1>2. t # 0 /\ rSol \in Nat
  BY DEF CurveInv
<1>3. SolForTokens(t) = SolOut(t)
  BY <1>1, <1>2 DEF SolForTokens, Capped
<1> QED BY <1>1, <1>3

\* A purchase quoted by sol_cost_for_tokens pays for itself on every curve, and a
\* lamport less would not.
LEMMA CostsAreExact == CurveInv => CostIsExact
<1>0. VTok0 \in Nat /\ RTok0 \in Nat /\ RTok0 < VTok0 /\ U64 \in Nat
  BY CurveAssumption
<1> SUFFICES ASSUME CurveInv, ~complete, NEW t \in 1 .. rTok, SolCostForTokens(t) < Max64
             PROVE  LET cost == SolCostForTokens(t) IN
                    /\ (vSol + cost) * (vTok - t) >= vSol * vTok
                    /\ (vSol + cost - 1) * (vTok - t) < vSol * vTok
  BY DEF CostIsExact
<1> DEFINE n == vTok - t
           a == vSol * t
           o == (a + n - 1) \div n
<1>1. t \in Nat /\ t <= rTok /\ vSol \in Nat /\ vTok \in Nat /\ rTok \in Nat /\ t # 0
  BY <1>0 DEF CurveInv
<1>2. n \in Nat /\ n > 0 /\ ~(t >= vTok)
  BY <1>0, <1>1 DEF CurveInv
<1>3. a \in Nat
  BY <1>1
<1>4. o \in Nat /\ o * n >= a /\ o * n - n < a
  BY <1>2, <1>3, DivUp
<1>5. SolCostForTokens(t) = o
  <2>1. SolCostForTokens(t) = Capped(o, Max64)
    BY <1>1, <1>2 DEF SolCostForTokens, Cost
  <2> HIDE DEF o
  <2> QED BY <2>1, <1>0, <1>4 DEF Capped, Max64
<1>6. vSol * n = vSol * vTok - a
  BY <1>1
<1> HIDE DEF n, a, o
<1>7. (vSol + o) * n = vSol * n + o * n
  BY <1>1, <1>2, <1>4
<1>8. (vSol + o - 1) * n = vSol * n + o * n - n
  BY <1>1, <1>2, <1>4
<1>9. vSol * vTok \in Nat /\ o * n \in Nat /\ vSol * n \in Nat
  BY <1>1, <1>2, <1>4
<1>10. (vSol + o) * n >= vSol * vTok /\ (vSol + o - 1) * n < vSol * vTok
  BY <1>2, <1>3, <1>4, <1>6, <1>7, <1>8, <1>9
<1> QED BY <1>5, <1>10 DEF n

\* What is quoted for a purchase is a u64, and pays for it.
LEMMA CostBounds ==
    ASSUME CurveInv, NEW t \in Nat
    PROVE  /\ Cost(t) \in 0 .. Max64
           /\ t < vTok => Cost(t) = Max64 \/ Cost(t) * (vTok - t) >= vSol * t
<1>0. U64 \in Nat /\ U64 > 0 /\ vSol \in Nat /\ vTok \in Nat
  BY CurveAssumption DEF CurveInv
<1>1. CASE t >= vTok
  BY <1>0, <1>1 DEF Cost, Max64
<1>2. CASE ~(t >= vTok)
  <2> DEFINE n == vTok - t
             a == vSol * t
             o == (a + n - 1) \div n
  <2>1. n \in Nat /\ n > 0 /\ a \in Nat
    BY <1>0, <1>2
  <2>2. o \in Nat /\ o * n >= a
    BY <2>1, DivUp
  <2>3. Cost(t) = Capped(o, Max64)
    BY <1>2 DEF Cost
  <2> HIDE DEF o
  <2>4. Cost(t) \in 0 .. Max64 /\ (Cost(t) = Max64 \/ Cost(t) = o)
    BY <2>2, <2>3, <1>0 DEF Capped, Max64
  <2>5. Cost(t) = o => Cost(t) * (vTok - t) >= vSol * t
    BY <2>2
  <2> QED BY <2>4, <2>5
<1> QED BY <1>1, <1>2

\* The cost of t tokens buys t tokens, and t tokens sold bring in no more.
LEMMA CostsBuy == CurveInv => QuotesAgree
<1> SUFFICES ASSUME CurveInv, ~complete, NEW t \in 1 .. rTok
             PROVE  /\ SolCostForTokens(t) < Max64 => TokensForSol(SolCostForTokens(t)) >= t
                    /\ SolForTokens(t) <= SolCostForTokens(t)
  BY DEF QuotesAgree
<1>0. /\ VSol0 \in Nat /\ VSol0 > 0 /\ VTok0 \in Nat /\ RTok0 \in Nat /\ RTok0 < VTok0
      /\ U64 \in Nat
  BY CurveAssumption
<1>1. t \in Nat /\ t >= 1 /\ t <= rTok /\ vSol \in Nat /\ vTok \in Nat /\ rTok \in Nat /\ rSol \in Nat
  BY <1>0 DEF CurveInv
<1>2. t < vTok /\ vSol >= 1 /\ rSol <= Max64
  BY <1>0, <1>1 DEF CurveInv, Max64
<1> DEFINE c == Cost(t)
           n == vTok - t
           m == vTok + t
           p == vSol * vTok
           a == vSol * t
<1>3. c \in Nat /\ c <= Max64 /\ (c = Max64 \/ c * n >= a)
  BY <1>0, <1>1, <1>2, CostBounds DEF Max64
<1>4. SolCostForTokens(t) = c
  BY <1>1 DEF SolCostForTokens
<1>5. n \in Nat /\ n > 0 /\ m \in Nat /\ m > 0 /\ p \in Nat /\ a \in Nat /\ a >= 1 /\ n <= m
  BY <1>1, <1>2
<1>6. vSol * n = p - a /\ vSol * m = p + a
  BY <1>1
<1>7. ASSUME c < Max64 PROVE TokensForSol(c) >= t
  <2> DEFINE k == vSol + c
             d == p \div k
  <2>1. c * n >= a
    BY <1>3, <1>7
  <2>2. c # 0
    BY <2>1, <1>5
  <2>3. k \in Nat /\ k > 0
    BY <1>1, <1>2, <1>3
  <2>4. d \in Nat /\ d * k <= p
    BY <2>3, <1>5, DivDown
  <2>5. TokensForSol(c) = Capped(vTok - d, rTok)
    BY <2>2 DEF TokensForSol
  <2>6. n * k >= p
    <3>1. n * k = vSol * n + c * n
      BY <1>1, <1>3, <1>5
    <3>2. c * n \in Nat
      BY <1>3, <1>5
    <3> HIDE DEF n, p, a, k
    <3> QED BY <3>1, <3>2, <2>1, <1>5, <1>6
  <2> HIDE DEF d, k
  <2>7. d <= n
    <3>1. d * k <= n * k /\ n * k < (n + 1) * k
      <4>1. (n + 1) * k = n * k + k
        BY <1>5, <2>3
      <4>2. d * k \in Nat /\ n * k \in Nat
        BY <1>5, <2>3, <2>4
      <4> HIDE DEF n, p
      <4> QED BY <4>1, <4>2, <1>5, <2>3, <2>4, <2>6
    <3>2. d * k < (n + 1) * k
      <4>1. d * k \in Nat /\ n * k \in Nat /\ (n + 1) * k \in Nat
        BY <1>5, <2>3, <2>4
      <4> QED BY <4>1, <3>1
    <3>3. d < n + 1
      BY <3>2, <1>5, <2>3, <2>4, MulCancel
    <3> QED BY <3>3, <1>5, <2>4
  <2>8. vTok - d >= t
    BY <2>7, <2>4, <1>1
  <2> QED BY <2>5, <2>8, <2>4, <1>1 DEF Capped
<1>8. SolForTokens(t) <= c
  <2> DEFINE d == p \div m
  <2>1. d \in Nat /\ p < d * m + m
    BY <1>5, DivDown
  <2>2. SolForTokens(t) = Capped(vSol - d, rSol)
    BY <1>1 DEF SolForTokens, SolOut
  <2> HIDE DEF d
  <2>3. CASE c = Max64
    BY <2>1, <2>2, <2>3, <1>0, <1>1, <1>2 DEF Capped, Max64
  <2>4. CASE c * n >= a
    <3>1. c * m >= a
      <4>1. c * n <= c * m
        BY <1>3, <1>5, MulMono
      <4>2. c * n \in Nat /\ c * m \in Nat
        BY <1>3, <1>5
      <4> HIDE DEF n, m, a
      <4> QED BY <4>1, <4>2, <2>4, <1>5
    <3>2. (vSol - c) * m = vSol * m - c * m
      BY <1>1, <1>3, <1>5
    <3>3. (d + 1) * m = d * m + m
      BY <2>1, <1>5
    <3>4. (vSol - c) * m < (d + 1) * m
      <4>1. c * m \in Nat /\ d * m \in Nat
        BY <1>3, <1>5, <2>1
      <4> HIDE DEF n, m, p, a
      <4> QED BY <4>1, <3>1, <3>2, <3>3, <2>1, <1>5, <1>6
    <3>5. vSol - c < d + 1
      BY <3>4, <1>1, <1>3, <1>5, <2>1, MulCancel
    <3>6. vSol - d <= c
      BY <3>5, <1>1, <1>3, <2>1
    <3> HIDE DEF c
    <3> QED BY <3>6, <2>1, <2>2, <1>1, <1>3 DEF Capped
  <2> QED BY <2>3, <2>4, <1>3
<1> QED BY <1>4, <1>7, <1>8

\* The u64 product with the slippage may wrap, which makes the tolerance smaller.
LEMMA ToleranceBounds ==
    ASSUME NEW x \in Nat, NEW s \in Slippages
    PROVE  /\ Tolerance(x, s) \in Nat
           /\ (x * s) \div Bps \in Nat
           /\ Tolerance(x, s) <= (x * s) \div Bps
           /\ (x * s) \div Bps <= x
<1>0. U64 \in Nat /\ U64 > 0 /\ Bps \in Nat /\ Bps > 0 /\ s \in Nat /\ s <= Bps
  BY CurveAssumption
<1> DEFINE y == x * s
           w == y % U64
           q == y \div Bps
           v == w \div Bps
<1>1. y \in Nat
  BY <1>0
<1>2. w \in Nat /\ w <= y
  <2> HIDE DEF y
  <2> QED BY <1>0, <1>1, SMT
<1> HIDE DEF w
<1>3. q \in Nat /\ q * Bps <= y /\ y < q * Bps + Bps
  BY <1>0, <1>1, DivDown
<1>4. v \in Nat /\ v * Bps <= w
  BY <1>0, <1>2, DivDown
<1>5. Tolerance(x, s) = v
  BY DEF Tolerance, w
<1>6. y <= x * Bps
  <2>1. s * x <= Bps * x
    BY <1>0, MulMono
  <2> QED BY <2>1, <1>0
<1> HIDE DEF q, v
<1>7. v <= q
  <2>1. v * Bps < (q + 1) * Bps
    <3>1. (q + 1) * Bps = q * Bps + Bps
      BY <1>0, <1>3
    <3>2. v * Bps \in Nat /\ q * Bps \in Nat
      BY <1>0, <1>3, <1>4
    <3> HIDE DEF y
    <3> QED BY <3>1, <3>2, <1>0, <1>1, <1>2, <1>3, <1>4
  <2>2. v < q + 1
    BY <2>1, <1>0, <1>3, <1>4, MulCancel
  <2> QED BY <2>2, <1>3, <1>4
<1>8. q <= x
  <2>1. q * Bps < (x + 1) * Bps
    <3>1. (x + 1) * Bps = x * Bps + Bps
      BY <1>0
    <3>2. x * Bps \in Nat /\ q * Bps \in Nat
      BY <1>0, <1>3
    <3> HIDE DEF y
    <3> QED BY <3>1, <3>2, <1>0, <1>1, <1>3, <1>6
  <2>2. q < x + 1
    BY <2>1, <1>0, <1>3, MulCancel
  <2> QED BY <2>2, <1>3
<1>9. q = (x * s) \div Bps
  BY DEF q
<1> QED BY <1>3, <1>4, <1>5, <1>7, <1>8, <1>9

\* Both bounds lie between the quote and the quote with the whole tolerance.
LEMMA BoundsHold == CurveInv => BoundsBracket
<1> SUFFICES ASSUME CurveInv, ~complete, NEW t \in 1 .. VTok0, NEW s \in Slippages
             PROVE  LET cost == SolCostForTokens(t)
                        out  == SolForTokens(t)
                    IN /\ MaxSolCost(t, s) \in cost .. cost + (cost * s) \div Bps
                       /\ MinSolOutput(t, s) \in out - (out * s) \div Bps .. out
  BY DEF BoundsBracket
<1>0. U64 \in Nat /\ U64 > 0 /\ t \in Nat /\ t # 0 /\ vSol \in Nat /\ vTok \in Nat /\ rSol \in Nat
  BY CurveAssumption DEF CurveInv
<1> DEFINE c == SolCostForTokens(t)
           x == SolForTokens(t)
<1>1. c \in Nat /\ c <= Max64 /\ Max64 \in Nat
  BY <1>0, CostBounds DEF SolCostForTokens, Max64
<1>2. x \in Nat
  <2> DEFINE d == (vSol * vTok) \div (vTok + t)
  <2>1. d \in Nat /\ d * (vTok + t) <= vSol * vTok
    BY <1>0, DivDown
  <2> HIDE DEF d
  <2>2. vSol * vTok <= vSol * (vTok + t)
    <3>1. vTok * vSol <= (vTok + t) * vSol
      BY <1>0, MulMono
    <3> QED BY <3>1, <1>0
  <2>3. d <= vSol
    <3>1. (vSol + 1) * (vTok + t) = vSol * (vTok + t) + (vTok + t)
      BY <1>0
    <3>2. d * (vTok + t) \in Nat /\ vSol * vTok \in Nat /\ vSol * (vTok + t) \in Nat
      BY <1>0, <2>1
    <3>3. d * (vTok + t) < (vSol + 1) * (vTok + t)
      BY <3>1, <3>2, <1>0, <2>1, <2>2
    <3>4. d < vSol + 1
      BY <3>3, <1>0, <2>1, MulCancel
    <3> QED BY <3>4, <2>1, <1>0
  <2>4. SolOut(t) = vSol - d
    BY DEF SolOut, d
  <2>5. SolOut(t) \in Nat
    BY <2>1, <2>3, <2>4, <1>0
  <2> QED BY <2>5, <1>0 DEF SolForTokens, Capped
<1> HIDE DEF c, x
<1>3. MaxSolCost(t, s) \in c .. c + (c * s) \div Bps
  <2> DEFINE k == Tolerance(c, s)
             q == (c * s) \div Bps
  <2>1. k \in Nat /\ q \in Nat /\ k <= q
    BY <1>1, ToleranceBounds
  <2>2. MaxSolCost(t, s) = IF c = Max64 THEN Max64 ELSE Capped(c + k, Max64)
    BY DEF MaxSolCost, c
  <2> HIDE DEF k, q
  <2>3. MaxSolCost(t, s) \in c .. c + q
    BY <2>1, <2>2, <1>1 DEF Capped
  <2> QED BY <2>3 DEF q
<1>4. MinSolOutput(t, s) \in x - (x * s) \div Bps .. x
  <2> DEFINE k == Tolerance(x, s)
             q == (x * s) \div Bps
  <2>1. k \in Nat /\ q \in Nat /\ k <= q /\ q <= x
    BY <1>2, ToleranceBounds
  <2>2. MinSolOutput(t, s) = IF x > k THEN x - k ELSE 0
    BY DEF MinSolOutput, x
  <2> HIDE DEF k, q
  <2>3. MinSolOutput(t, s) \in x - q .. x
    BY <2>1, <2>2, <1>2
  <2> QED BY <2>3 DEF q
<1> QED BY <1>3, <1>4 DEF c, x

\* Whatever has been traded on it, a curve's quotes keep the constant product, are
\* backed by its reserves and agree with each other, and the slippage bounds lie on
\* the right side of them, for u64 or any other width.
THEOREM QuotesAlwaysSound == CurveSpec => []QuotesAreSound
<1>1. CurveInv => QuotesAreSound
  BY HoldersAreBacked, CostsAreExact, CostsBuy, BoundsHold DEF QuotesAreSound
<1> QED BY <1>1, CurveInvHolds, PTL

------------------------------------------------------------------------------
(* PresetControl.                                                          *)

\* A write disturbs the strategies for as long as the loop needs to come round to
\* its next refresh: once more cycles were begun than _scan_cycle counts, the
\* refresh at cycle 0 lies after the latest write, so what it fetches, and what the
\* strategies trade with from then on, is what is stored.
PresetInv ==
    /\ PresetTypeOK
    /\ phase = "refreshing" => cycle = 0
    /\ phase = "loading" => calm = 0
    /\ fetched # NoPreset => phase \in {"loading", "refreshing"}
    /\ phase # "down" /\ cycle < calm =>
         IF phase = "refreshing" THEN fetched # NoPreset => fetched = Wanted
                                 ELSE params = Wanted

\* The strategies' cycle counter steps to the next value below PRESET_REFRESH_CYCLES.
LEMMA CycleSteps ==
    ASSUME NEW n \in 0 .. Cycles - 1
    PROVE  (n + 1) % Cycles = IF n + 1 = Cycles THEN 0 ELSE n + 1
<1>1. Cycles \in Nat /\ Cycles > 0 /\ n \in Nat /\ n < Cycles
  BY PresetAssumption
<1>2. CASE n + 1 = Cycles
  BY <1>1, <1>2
<1>3. CASE n + 1 # Cycles
  BY <1>1, <1>3
<1> QED BY <1>2, <1>3

\* Whatever the routes, the refresh and the loop do, in any order.
LEMMA PresetInvHolds == PresetSpec => []PresetInv
<1>1. PresetInit => PresetInv
  BY PresetAssumption DEF PresetInit, PresetInv, PresetTypeOK
<1>2. PresetInv /\ [PresetNext]_presetVars => PresetInv'
  <2> SUFFICES ASSUME PresetInv, [PresetNext]_presetVars PROVE PresetInv'
    OBVIOUS
  <2> USE PresetAssumption DEF PresetInv, PresetTypeOK, Wanted
  <2>1. ASSUME NEW p \in Presets, PutPreset(p) PROVE PresetInv'
    BY <2>1 DEF PutPreset, Change, UpdatePreset
  <2> DEFINE Write == [preset : Presets, stored : BOOLEAN]
  <2>2. ASSUME NEW p \in Presets, NotifyPython(p) PROVE PresetInv'
    <3>1. [preset |-> p, stored |-> FALSE] \in Write
      OBVIOUS
    <3>2. writes' \subseteq Write
      BY <2>2, <3>1 DEF NotifyPython
    <3> QED BY <2>2, <3>2 DEF NotifyPython
  <2>3. ASSUME NEW p \in Presets, PutPresetConfig(p) PROVE PresetInv'
    BY <2>3 DEF PutPresetConfig, Change, UpdatePreset
  <2>4. ASSUME NEW p \in Presets, SetPreset(p) PROVE PresetInv'
    <3>1. [preset |-> p, stored |-> FALSE] \in Write
      OBVIOUS
    <3>2. writes' \subseteq Write
      BY <2>4, <3>1 DEF SetPreset
    <3> QED BY <2>4, <3>2 DEF SetPreset, Change
  <2>5. ASSUME NEW x \in writes, StorePreset(x) PROVE PresetInv'
    <3>1. x.preset \in Presets /\ [x EXCEPT !.stored = TRUE] \in Write
      OBVIOUS
    <3>2. writes' \subseteq Write
      BY <2>5, <3>1 DEF StorePreset
    <3> QED BY <2>5, <3>1, <3>2 DEF StorePreset, UpdatePreset, Failure
  <2>6. ASSUME NEW x \in writes, ApplyPreset(x) PROVE PresetInv'
    BY <2>6 DEF ApplyPreset
  <2>7. CASE SeedConfig
    BY <2>7 DEF SeedConfig
  <2>8. CASE PatchParams
    BY <2>8 DEF PatchParams, Change
  <2>9. CASE StartPython
    BY <2>9 DEF StartPython
  <2>10. CASE PythonDies
    BY <2>10 DEF PythonDies, Failure
  <2>11. CASE FetchPreset
    BY <2>11 DEF FetchPreset
  <2>12. CASE ApplyFetched
    BY <2>12 DEF ApplyFetched, Refreshed
  <2>13. CASE FetchFails
    BY <2>13 DEF FetchFails, Refreshed, Failure
  <2>14. CASE BeginCycle
    <3>1. cycle' = IF cycle + 1 = Cycles THEN 0 ELSE cycle + 1
      BY <2>14, CycleSteps DEF BeginCycle
    <3> QED BY <2>14, <3>1 DEF BeginCycle
  <2>15. CASE RunStrategies
    BY <2>15 DEF RunStrategies
  <2>16. CASE UNCHANGED presetVars
    BY <2>16 DEF presetVars
  <2> QED BY <2>1, <2>2, <2>3, <2>4, <2>5, <2>6, <2>7, <2>8, <2>9, <2>10, <2>11, <2>12,
             <2>13, <2>14, <2>15, <2>16 DEF PresetNext, Loop
<1> QED BY <1>1, <1>2, PTL DEF PresetSpec

\* However a preset was written, by the API, through Python's route or by the
\* engine's seed, after PRESET_REFRESH_CYCLES undisturbed cycles the strategies
\* trade with the stored one.
THEOREM PresetIsUsed == PresetSpec => []StoredPresetIsUsed
<1>1. PresetInv => StoredPresetIsUsed
  BY PresetAssumption DEF PresetInv, PresetTypeOK, StoredPresetIsUsed
<1> QED BY <1>1, PresetInvHolds, PTL

------------------------------------------------------------------------------
(* BotControl: the calls.                                                  *)

\* How a request, its calls to Python and what became of them hang together: a
\* call that is awaited is the one its request is at, a call that is late has
\* outlived its request's patience, and Python has carried out a call of a request
\* exactly if the request counted an answer, unless one came too late.
CallsInv ==
    /\ BotTypeOK
    /\ \A r \in Requests : succeeded[r] + Len(todo[r]) <= Len(Names)
    /\ \A r \in Requests : stage[r] = "new" => succeeded[r] = 0 /\ todo[r] = <<>>
    /\ \A m \in messages \ late :
         /\ stage[m.request] = "waiting"
         /\ todo[m.request] # <<>>
         /\ m.name = Head(todo[m.request])
    /\ \A m \in late : m.request \in outlived
    /\ ~running => messages = {}
    /\ \A r \in Requests \ outlived : r \in carried <=> succeeded[r] > 0

\* The names that setAllStrategies and PATCH take are names of strategies.
LEMMA NamesAreStrategies ==
    /\ Names \in Seq(Strategies) /\ Len(Names) \in Nat /\ Len(Names) > 0
    /\ \A n \in Strategies : <<n>> \in Seq(Strategies) /\ Len(<<n>>) = 1
<1>1. Names \in Seq(STRING) /\ Len(Names) \in Nat /\ Len(Names) > 0
  BY BotAssumption, LenProperties
<1>2. Names \in [1 .. Len(Names) -> Strategies]
  BY <1>1, LenProperties DEF Strategies
<1>3. Names \in Seq(Strategies)
  BY <1>1, <1>2, SeqDef
<1> QED BY <1>1, <1>3

\* A request begins with its names, none answered.
LEMMA BeginCalls ==
    ASSUME CallsInv, NEW r \in Requests, NEW names \in Seq(Strategies), Len(names) <= Len(Names),
           NEW on \in BOOLEAN, Begin(r, names, on)
    PROVE  CallsInv'
<1> USE NamesAreStrategies DEF CallsInv, BotTypeOK, Begin, Calls
<1>1. Len(names) \in Nat
  BY LenProperties
<1>2. BotTypeOK'
  OBVIOUS
<1>3. \A q \in Requests : succeeded'[q] + Len(todo'[q]) <= Len(Names)
  BY <1>1
<1>4. \A q \in Requests : stage'[q] = "new" => succeeded'[q] = 0 /\ todo'[q] = <<>>
  OBVIOUS
<1>5. \A m \in messages' \ late' : /\ stage'[m.request] = "waiting" /\ todo'[m.request] # <<>>
                                  /\ m.name = Head(todo'[m.request])
  OBVIOUS
<1>6. /\ \A m \in late' : m.request \in outlived'
      /\ ~running' => messages' = {}
      /\ \A q \in Requests \ outlived' : q \in carried' <=> succeeded'[q] > 0
  OBVIOUS
<1> QED BY <1>2, <1>3, <1>4, <1>5, <1>6

\* The call of a waiting request is over: what NextCall leaves of it.
LEMMA NextCallKeeps ==
    ASSUME CallsInv, NEW m \in messages \ late, NEW answered \in BOOLEAN,
           NextCall(m.request, answered)
    PROVE  /\ todo' \in [Requests -> Seq(Strategies)]
           /\ stage' \in [Requests -> {"new", "calling", "waiting", "done"}]
           /\ succeeded' \in [Requests -> 0 .. Len(Names)]
           /\ \A r \in Requests : succeeded'[r] + Len(todo'[r]) <= Len(Names)
           /\ \A r \in Requests : stage'[r] = "new" => succeeded'[r] = 0 /\ todo'[r] = <<>>
           /\ \A n \in messages \ late : n # m =>
                /\ stage'[n.request] = "waiting"
                /\ todo'[n.request] # <<>>
                /\ n.name = Head(todo'[n.request])
           /\ \A r \in Requests : r # m.request => succeeded'[r] = succeeded[r]
           /\ succeeded'[m.request] = IF answered THEN succeeded[m.request] + 1
                                                  ELSE succeeded[m.request]
<1> DEFINE r == m.request
<1>1. r \in Requests /\ todo[r] \in Seq(Strategies) /\ todo[r] # <<>> /\ stage[r] = "waiting"
  BY DEF CallsInv, BotTypeOK, Calls
<1>2. Tail(todo[r]) \in Seq(Strategies) /\ Len(Tail(todo[r])) = Len(todo[r]) - 1
      /\ Len(todo[r]) \in Nat
  BY <1>1, HeadTailProperties, LenProperties
<1>3. succeeded[r] \in Nat /\ succeeded[r] + Len(todo[r]) <= Len(Names) /\ Len(Names) \in Nat
  BY <1>1, NamesAreStrategies DEF CallsInv, BotTypeOK
<1>4. Len(todo[r]) > 0
  BY <1>1, EmptySeq
<1>5. \A n \in messages \ late : n # m => n.request # r
  <2>1. \A n \in messages \ late : n \in Calls /\ n.name = Head(todo[n.request])
    BY DEF CallsInv, BotTypeOK
  <2>2. \A n \in messages \ late : n = [request |-> n.request, name |-> n.name]
    BY <2>1 DEF Calls
  <2> QED BY <2>1, <2>2
<1>6. \A n \in messages : n.request \in Requests
  BY DEF CallsInv, BotTypeOK, Calls
<1> HIDE DEF r
<1>7. /\ todo' = [todo EXCEPT ![r] = Tail(@)]
      /\ stage' = [stage EXCEPT ![r] = "calling"]
      /\ succeeded' = [succeeded EXCEPT ![r] = IF answered THEN @ + 1 ELSE @]
  BY DEF NextCall, r
<1>8. /\ \A q \in Requests : q # r => succeeded'[q] = succeeded[q]
      /\ succeeded'[r] = IF answered THEN succeeded[r] + 1 ELSE succeeded[r]
      /\ succeeded' \in [Requests -> 0 .. Len(Names)]
  BY <1>1, <1>2, <1>3, <1>4, <1>7 DEF CallsInv, BotTypeOK
<1>9. \A q \in Requests : succeeded'[q] + Len(todo'[q]) <= Len(Names)
  BY <1>1, <1>2, <1>3, <1>4, <1>7, <1>8 DEF CallsInv, BotTypeOK
<1>10. todo' \in [Requests -> Seq(Strategies)]
       /\ stage' \in [Requests -> {"new", "calling", "waiting", "done"}]
  BY <1>1, <1>2, <1>7 DEF CallsInv, BotTypeOK
<1>11. \A q \in Requests : stage'[q] = "new" => succeeded'[q] = 0 /\ todo'[q] = <<>>
  <2>1. /\ \A q \in Requests : q # r => stage'[q] = stage[q] /\ todo'[q] = todo[q]
        /\ stage'[r] = "calling"
    BY <1>1, <1>7 DEF CallsInv, BotTypeOK
  <2> QED BY <2>1, <1>8 DEF CallsInv
<1>12. \A n \in messages \ late : n # m =>
         stage'[n.request] = "waiting" /\ todo'[n.request] # <<>> /\ n.name = Head(todo'[n.request])
  BY <1>5, <1>6, <1>7 DEF CallsInv, BotTypeOK
<1> QED BY <1>8, <1>9, <1>10, <1>11, <1>12 DEF r

\* However requests overlap, time out and meet Python's deaths.
LEMMA CallsInvStep == CallsInv /\ [BotNext]_botVars => CallsInv'
<1> SUFFICES ASSUME CallsInv, [BotNext]_botVars PROVE CallsInv'
  OBVIOUS
<1> USE NamesAreStrategies
<1>1. ASSUME NEW r \in Requests, BotStart(r) PROVE CallsInv'
  <2>1. \E on \in BOOLEAN : Begin(r, Names, on)
    BY <1>1, Zenon DEF BotStart
  <2> QED BY <2>1, BeginCalls
<1>2. ASSUME NEW r \in Requests, BotStop(r) PROVE CallsInv'
  <2>1. \E on \in BOOLEAN : Begin(r, Names, on)
    BY <1>2, Zenon DEF BotStop
  <2> QED BY <2>1, BeginCalls
<1>3. ASSUME NEW r \in Requests, NEW n \in Strategies, NEW on \in BOOLEAN, PatchStrategy(r, n, on)
      PROVE  CallsInv'
  BY <1>3, BeginCalls DEF PatchStrategy
<1>4. ASSUME NEW r \in Requests, CallPython(r) PROVE CallsInv'
  <2>1. Head(todo[r]) \in Strategies
    BY <1>4, HeadTailProperties DEF CallPython, CallsInv, BotTypeOK
  <2>2. BotTypeOK'
    BY <1>4, <2>1 DEF CallPython, CallsInv, BotTypeOK, Calls, history
  <2>3. \A m \in messages' \ late' :
          stage'[m.request] = "waiting" /\ todo'[m.request] # <<>> /\ m.name = Head(todo'[m.request])
    BY <1>4, <2>1 DEF CallPython, CallsInv, BotTypeOK, Calls, history
  <2> QED BY <1>4, <2>2, <2>3 DEF CallPython, CallsInv, BotTypeOK, history
<1>5. ASSUME NEW r \in Requests, Refused(r) PROVE CallsInv'
  <2>1. Tail(todo[r]) \in Seq(Strategies) /\ Len(Tail(todo[r])) = Len(todo[r]) - 1
        /\ Len(todo[r]) \in Nat
    BY <1>5, HeadTailProperties, LenProperties DEF Refused, CallsInv, BotTypeOK
  <2>2. BotTypeOK'
    BY <1>5, <2>1 DEF Refused, CallsInv, BotTypeOK, history
  <2>3. \A q \in Requests : succeeded'[q] + Len(todo'[q]) <= Len(Names)
    BY <1>5, <2>1 DEF Refused, CallsInv, BotTypeOK
  <2> QED BY <1>5, <2>2, <2>3 DEF Refused, CallsInv, BotTypeOK, history
<1>6. ASSUME NEW r \in Requests, Finish(r) PROVE CallsInv'
  BY <1>6 DEF Finish, CallsInv, BotTypeOK, Calls, history
<1>7. ASSUME NEW m \in messages, Activate(m) PROVE CallsInv'
  <2>1. m.request \in Requests /\ m.name \in Strategies
    BY <1>7 DEF CallsInv, BotTypeOK, Calls
  <2>2. CASE m \in late
    BY <1>7, <2>1, <2>2 DEF Activate, CallsInv, BotTypeOK, Calls
  <2>3. CASE m \notin late
    <3>1. PICK inTime \in BOOLEAN :
            /\ NextCall(m.request, inTime)
            /\ outlived' = IF inTime THEN outlived ELSE outlived \cup {m.request}
      BY <1>7, <2>3 DEF Activate
    <3>2. /\ messages' = messages \ {m} /\ late' = late \ {m}
          /\ enabled' = IF target[m.request] THEN enabled \cup {m.name} ELSE enabled \ {m.name}
          /\ carried' = carried \cup {m.request} /\ alone' = alone
          /\ UNCHANGED <<running, deaths, target>>
      BY <1>7, <2>3 DEF Activate
    <3>a. /\ todo' \in [Requests -> Seq(Strategies)]
          /\ stage' \in [Requests -> {"new", "calling", "waiting", "done"}]
          /\ succeeded' \in [Requests -> 0 .. Len(Names)]
          /\ \A r \in Requests : r # m.request => succeeded'[r] = succeeded[r]
          /\ succeeded'[m.request] = IF inTime THEN succeeded[m.request] + 1 ELSE succeeded[m.request]
      BY <3>1, <2>3, NextCallKeeps
    <3>b. m.request \in Requests /\ m.name \in Strategies
      BY <2>1 DEF CallsInv, BotTypeOK, Calls
    <3>3. BotTypeOK'
      <4>1. outlived' \subseteq Requests /\ carried' \subseteq Requests /\ enabled' \subseteq Strategies
        BY <3>1, <3>2, <3>b DEF CallsInv, BotTypeOK
      <4> QED BY <3>2, <3>a, <4>1 DEF CallsInv, BotTypeOK
    <3>4. ASSUME NEW r \in Requests \ outlived' PROVE r \in carried' <=> succeeded'[r] > 0
      <4>1. r \in Requests \ outlived
        BY <3>1
      <4>2. CASE r = m.request
        <5>1. inTime /\ succeeded'[r] = succeeded[r] + 1 /\ succeeded[r] \in Nat
          BY <3>1, <3>4, <3>a, <4>2 DEF CallsInv, BotTypeOK
        <5> QED BY <3>2, <4>2, <5>1
      <4>3. CASE r # m.request
        BY <3>2, <3>a, <4>1, <4>3 DEF CallsInv
      <4> QED BY <4>2, <4>3
    <3> QED BY <3>1, <3>2, <3>3, <3>4, <2>1, <2>3, NextCallKeeps DEF CallsInv
  <2> QED BY <2>2, <2>3
<1>8. ASSUME NEW m \in messages, TimesOut(m) PROVE CallsInv'
  <2>1. m.request \in Requests /\ m \notin late
    BY <1>8 DEF CallsInv, BotTypeOK, Calls, TimesOut
  <2>2. NextCall(m.request, FALSE)
    BY <1>8 DEF TimesOut
  <2>3. /\ messages' = messages /\ late' = late \cup {m} /\ outlived' = outlived \cup {m.request}
        /\ UNCHANGED <<enabled, running, deaths, target, alone, carried>>
    BY <1>8 DEF TimesOut
  <2>4. BotTypeOK'
    BY <2>1, <2>2, <2>3, NextCallKeeps DEF CallsInv, BotTypeOK
  <2>5. \A r \in Requests \ outlived' : r \in carried' <=> succeeded'[r] > 0
    BY <2>1, <2>2, <2>3, NextCallKeeps DEF CallsInv, BotTypeOK
  <2> QED BY <2>1, <2>2, <2>3, <2>4, <2>5, NextCallKeeps DEF CallsInv
<1>9. CASE PythonCrashes
  <2> DEFINE waiting == {m.request : m \in messages \ late}
  <2>1. \A r \in waiting : r \in Requests /\ stage[r] = "waiting" /\ todo[r] # <<>>
    BY DEF CallsInv, BotTypeOK, Calls
  <2>2. \A r \in waiting : /\ Tail(todo[r]) \in Seq(Strategies)
                           /\ Len(Tail(todo[r])) = Len(todo[r]) - 1
                           /\ Len(todo[r]) \in Nat
    BY <2>1, HeadTailProperties, LenProperties DEF CallsInv, BotTypeOK
  <2>3. /\ todo' = [r \in Requests |-> IF r \in waiting THEN Tail(todo[r]) ELSE todo[r]]
        /\ stage' = [r \in Requests |-> IF r \in waiting THEN "calling" ELSE stage[r]]
    BY <1>9 DEF PythonCrashes
  <2> HIDE DEF waiting
  <2>4. BotTypeOK'
    <3>1. todo' \in [Requests -> Seq(Strategies)]
      BY <2>2, <2>3 DEF CallsInv, BotTypeOK
    <3>2. stage' \in [Requests -> {"new", "calling", "waiting", "done"}]
      BY <2>3 DEF CallsInv, BotTypeOK
    <3>3. deaths' \in 0 .. MaxDeaths
      BY <1>9, BotAssumption DEF PythonCrashes, CallsInv, BotTypeOK
    <3> QED BY <1>9, <3>1, <3>2, <3>3 DEF PythonCrashes, CallsInv, BotTypeOK
  <2>5. \A q \in Requests : succeeded'[q] + Len(todo'[q]) <= Len(Names)
    BY <1>9, <2>2, <2>3 DEF PythonCrashes, CallsInv, BotTypeOK
  <2> QED BY <1>9, <2>1, <2>3, <2>4, <2>5 DEF PythonCrashes, CallsInv, BotTypeOK
<1>10. CASE PythonStarts
  BY <1>10 DEF PythonStarts, CallsInv, BotTypeOK, Calls
<1>11. CASE UNCHANGED botVars
  BY <1>11 DEF botVars, history, CallsInv, BotTypeOK, Calls
<1> QED BY <1>1, <1>2, <1>3, <1>4, <1>5, <1>6, <1>7, <1>8, <1>9, <1>10, <1>11 DEF BotNext

\* No call is made before the first request.
LEMMA CallsInvInit == BotInit => CallsInv
<1> SUFFICES ASSUME BotInit PROVE CallsInv
  OBVIOUS
<1>1. Len(<<>>) = 0 /\ <<>> \in Seq(Strategies)
  OBVIOUS
<1>2. BotTypeOK
  BY <1>1, NamesAreStrategies, BotAssumption DEF BotInit, BotTypeOK
<1>3. \A r \in Requests : succeeded[r] = 0 /\ todo[r] = <<>>
  BY DEF BotInit
<1> QED BY <1>1, <1>2, <1>3, NamesAreStrategies DEF BotInit, CallsInv

\* However requests overlap, time out and meet Python's deaths, an answer tells
\* whether Python has carried anything out.
LEMMA CallsInvHolds == BotSpec => []CallsInv
<1> QED BY CallsInvInit, CallsInvStep, PTL DEF BotSpec

------------------------------------------------------------------------------
(* BotControl: a request that nothing disturbs.                            *)

\* The calls a request may have to make, in their order.
Plans == {Names} \cup {<<n>> : n \in Strategies}

\* A request has come past the first k of its calls; if all of these were answered
\* none of them is on its way any more, and their strategies are switched.
Progress(r, names, k) ==
    /\ k <= Len(names)
    /\ Len(todo[r]) = Len(names) - k
    /\ \A j \in 1 .. Len(todo[r]) : todo[r][j] = names[k + j]
    /\ succeeded[r] <= k
    /\ succeeded[r] = k => late = {} /\ \A i \in 1 .. k : names[i] \in enabled <=> target[r]

\* A request that nothing has disturbed is alone with Python.
Undisturbed(r) ==
    /\ stage[r] # "new"
    /\ \A q \in Requests \ {r} : stage[q] \in {"new", "done"}
    /\ \A m \in messages : m.request = r
    /\ ~running => succeeded[r] = 0
    /\ \E names \in Plans, k \in 0 .. Len(Names) : Progress(r, names, k)

\* What requests that nobody disturbed have done so far.
AloneInv == \A r \in alone : Undisturbed(r)

\* The plans are sequences of strategies, no longer than Names.
LEMMA PlansAreShort ==
    ASSUME NEW names \in Plans
    PROVE  names \in Seq(Strategies) /\ Len(names) \in Nat /\ Len(names) <= Len(Names)
<1>1. CASE names = Names
  BY <1>1, NamesAreStrategies
<1>2. ASSUME NEW n \in Strategies, names = <<n>> PROVE names \in Seq(Strategies) /\ Len(names) = 1
  BY <1>2, NamesAreStrategies
<1> QED BY <1>1, <1>2, NamesAreStrategies DEF Plans

\* One call further.
LEMMA OneCallFurther ==
    ASSUME CallsInv, NEW r \in Requests, NEW names \in Plans, NEW k \in 0 .. Len(Names),
           Progress(r, names, k), todo[r] # <<>>, todo'[r] = Tail(todo[r])
    PROVE  /\ k + 1 <= Len(names) /\ k + 1 \in 0 .. Len(Names)
           /\ Len(todo'[r]) = Len(names) - (k + 1)
           /\ \A j \in 1 .. Len(todo'[r]) : todo'[r][j] = names[k + 1 + j]
           /\ Head(todo[r]) = names[k + 1]
           /\ succeeded[r] \in Nat /\ succeeded[r] < k + 1
<1>1. names \in Seq(Strategies) /\ Len(names) \in Nat /\ Len(names) <= Len(Names) /\ Len(Names) \in Nat
  BY PlansAreShort, NamesAreStrategies
<1>2. todo[r] \in Seq(Strategies) /\ succeeded[r] \in 0 .. Len(Names)
  BY DEF CallsInv, BotTypeOK
<1>3. Len(todo[r]) \in Nat \ {0}
  BY <1>2, EmptySeq
<1>4. /\ Len(Tail(todo[r])) = Len(todo[r]) - 1
      /\ \A j \in 1 .. Len(Tail(todo[r])) : Tail(todo[r])[j] = todo[r][j + 1]
  BY <1>2, HeadTailProperties
<1>5. Head(todo[r]) = todo[r][1]
  BY <1>2
<1>6. /\ k \in Nat /\ k <= Len(names) /\ Len(todo[r]) = Len(names) - k
      /\ \A j \in 1 .. Len(todo[r]) : todo[r][j] = names[k + j]
      /\ succeeded[r] <= k
  BY <1>1 DEF Progress
<1>7. k + 1 <= Len(names) /\ k + 1 \in 0 .. Len(Names) /\ Len(todo'[r]) = Len(names) - (k + 1)
  BY <1>1, <1>3, <1>4, <1>6
<1>8. ASSUME NEW j \in 1 .. Len(todo'[r]) PROVE todo'[r][j] = names[k + 1 + j]
  <2>1. j + 1 \in 1 .. Len(todo[r])
    BY <1>3, <1>4, <1>8
  <2>2. todo'[r][j] = todo[r][j + 1] /\ todo[r][j + 1] = names[k + (j + 1)]
    BY <2>1, <1>4, <1>6, <1>8
  <2> QED BY <2>2, <1>6
<1>9. Head(todo[r]) = names[k + 1]
  BY <1>3, <1>5, <1>6
<1> QED BY <1>2, <1>6, <1>7, <1>8, <1>9

\* What each step of the routes and of Python leaves of a request that is alone.
LEMMA AloneInvStep == CallsInv /\ AloneInv /\ [BotNext]_botVars => AloneInv'
<1> SUFFICES ASSUME CallsInv, AloneInv, [BotNext]_botVars, NEW r \in alone'
             PROVE  Undisturbed(r)'
  BY DEF AloneInv
<1>0. CallsInv'
  BY CallsInvStep
<1>00. r \in Requests
  BY <1>0 DEF CallsInv, BotTypeOK
<1>a. ASSUME NEW q \in Requests, NEW names \in Plans, NEW on, Begin(q, names, on)
      PROVE  Undisturbed(r)'
  <2>1. /\ r = q /\ messages = {} /\ \A p \in Requests : stage[p] \in {"new", "done"}
        /\ stage[q] = "new" /\ stage' = [stage EXCEPT ![q] = "calling"]
        /\ todo' = [todo EXCEPT ![q] = names]
        /\ UNCHANGED <<running, succeeded, messages, late>>
    BY <1>a DEF Begin
  <2>2. succeeded'[r] = 0 /\ late' = {} /\ todo'[r] = names
    BY <2>1 DEF CallsInv, BotTypeOK
  <2>3. names \in Seq(Strategies) /\ Len(names) \in Nat /\ Len(names) <= Len(Names)
    BY PlansAreShort
  <2>4. Progress(r, names, 0)'
    BY <2>2, <2>3 DEF Progress
  <2>5. \E k \in 0 .. Len(Names) : Progress(r, names, k)'
    BY <2>4, NamesAreStrategies
  <2> QED BY <2>1, <2>2, <2>5 DEF Undisturbed, Plans, CallsInv, BotTypeOK
<1>b. ASSUME alone' = alone PROVE Undisturbed(r)
  BY <1>b DEF AloneInv
<1>1. ASSUME NEW q \in Requests, BotStart(q) PROVE Undisturbed(r)'
  <2>1. \E on \in BOOLEAN : Begin(q, Names, on)
    BY <1>1, Zenon DEF BotStart
  <2> QED BY <2>1, <1>a DEF Plans
<1>2. ASSUME NEW q \in Requests, BotStop(q) PROVE Undisturbed(r)'
  <2>1. \E on \in BOOLEAN : Begin(q, Names, on)
    BY <1>2, Zenon DEF BotStop
  <2> QED BY <2>1, <1>a DEF Plans
<1>3. ASSUME NEW q \in Requests, NEW n \in Strategies, NEW on \in BOOLEAN, PatchStrategy(q, n, on)
      PROVE  Undisturbed(r)'
  BY <1>3, <1>a DEF PatchStrategy, Plans
<1>4. ASSUME NEW q \in Requests, CallPython(q) PROVE Undisturbed(r)'
  <2>1. Undisturbed(r)
    BY <1>4, <1>b DEF CallPython, history
  <2>2. q = r
    BY <1>4, <2>1 DEF CallPython, Undisturbed
  <2>3. /\ UNCHANGED <<enabled, running, todo, target, succeeded, late>> /\ running
        /\ messages' = messages \cup {[request |-> r, name |-> Head(todo[r])]}
        /\ stage' = [stage EXCEPT ![r] = "waiting"]
    BY <1>4, <2>2 DEF CallPython
  <2>4. \E n \in Plans, j \in 0 .. Len(Names) : Progress(r, n, j)'
    BY <2>1, <2>3 DEF Undisturbed, Progress
  <2>5. stage'[r] # "new" /\ \A p \in Requests \ {r} : stage'[p] = stage[p]
    BY <2>3, <1>00 DEF CallsInv, BotTypeOK
  <2>6. \A m \in messages' : m.request = r
    BY <2>1, <2>3 DEF Undisturbed
  <2> QED BY <2>1, <2>3, <2>4, <2>5, <2>6 DEF Undisturbed, Plans
<1>5. ASSUME NEW q \in Requests, Refused(q) PROVE Undisturbed(r)'
  <2>1. Undisturbed(r)
    BY <1>5, <1>b DEF Refused, history
  <2>2. q = r
    BY <1>5, <2>1 DEF Refused, Undisturbed
  <2>3. PICK names \in Plans, k \in 0 .. Len(Names) : Progress(r, names, k)
    BY <2>1 DEF Undisturbed
  <2>4. todo[r] # <<>> /\ todo'[r] = Tail(todo[r]) /\ succeeded' = succeeded
    BY <1>5, <2>2 DEF Refused, CallsInv, BotTypeOK
  <2>5. Progress(r, names, k + 1)' /\ k + 1 \in 0 .. Len(Names)
    <3>1. /\ k + 1 <= Len(names) /\ k + 1 \in 0 .. Len(Names)
          /\ Len(todo'[r]) = Len(names) - (k + 1)
          /\ \A j \in 1 .. Len(todo'[r]) : todo'[r][j] = names[k + 1 + j]
          /\ succeeded[r] \in Nat /\ succeeded[r] < k + 1
      BY <1>00, <2>3, <2>4, OneCallFurther
    <3> QED BY <3>1, <2>4 DEF Progress
  <2>6. \E n \in Plans, j \in 0 .. Len(Names) : Progress(r, n, j)'
    BY <2>5
  <2> QED BY <1>5, <2>1, <2>2, <2>6 DEF Refused, Undisturbed, history, Plans
<1>6. ASSUME NEW q \in Requests, Finish(q) PROVE Undisturbed(r)'
  <2>1. Undisturbed(r)
    BY <1>6, <1>b DEF Finish, history
  <2>2. q = r
    BY <1>6, <2>1 DEF Finish, Undisturbed
  <2>3. /\ UNCHANGED <<enabled, running, todo, target, succeeded, messages, late>>
        /\ stage' = [stage EXCEPT ![r] = "done"]
    BY <1>6, <2>2 DEF Finish
  <2>4. \E n \in Plans, j \in 0 .. Len(Names) : Progress(r, n, j)'
    BY <2>1, <2>3 DEF Undisturbed, Progress
  <2>5. stage'[r] # "new" /\ \A p \in Requests \ {r} : stage'[p] = stage[p]
    BY <2>3, <1>00 DEF CallsInv, BotTypeOK
  <2> QED BY <2>1, <2>3, <2>4, <2>5 DEF Undisturbed, Plans
<1>7. ASSUME NEW m \in messages, Activate(m) PROVE Undisturbed(r)'
  <2>1. m \notin late /\ alone' = alone
    BY <1>7 DEF Activate
  <2>2. Undisturbed(r)
    BY <2>1, <1>b
  <2>3. m.request = r /\ running
    BY <2>2 DEF Undisturbed, CallsInv
  <2>4. todo[r] # <<>> /\ m.name = Head(todo[r]) /\ m.name \in Strategies
    BY <2>1, <2>3 DEF CallsInv, BotTypeOK, Calls
  <2>5. PICK names \in Plans, k \in 0 .. Len(Names) : Progress(r, names, k)
    BY <2>2 DEF Undisturbed
  <2>6. PICK inTime \in BOOLEAN : NextCall(r, inTime)
    BY <1>7, <2>1, <2>3 DEF Activate
  <2>7. /\ todo'[r] = Tail(todo[r])
        /\ succeeded'[r] = IF inTime THEN succeeded[r] + 1 ELSE succeeded[r]
        /\ stage' = [stage EXCEPT ![r] = "calling"]
    BY <2>6, <1>00 DEF NextCall, CallsInv, BotTypeOK
  <2>8. /\ messages' = messages \ {m} /\ late' = late \ {m} /\ UNCHANGED <<running, target>>
        /\ enabled' = IF target[r] THEN enabled \cup {m.name} ELSE enabled \ {m.name}
    BY <1>7, <2>3 DEF Activate
  <2>9. /\ k + 1 <= Len(names) /\ k + 1 \in 0 .. Len(Names)
        /\ Len(todo'[r]) = Len(names) - (k + 1)
        /\ \A j \in 1 .. Len(todo'[r]) : todo'[r][j] = names[k + 1 + j]
        /\ m.name = names[k + 1]
        /\ succeeded[r] \in Nat /\ succeeded[r] <= k
    BY <1>00, <2>4, <2>5, <2>7, OneCallFurther DEF Progress
  <2>10. ASSUME succeeded'[r] = k + 1
         PROVE  late' = {} /\ \A i \in 1 .. k + 1 : names[i] \in enabled' <=> target'[r]
    <3>1. succeeded[r] = k
      BY <2>7, <2>9, <2>10
    <3>2. late = {} /\ \A i \in 1 .. k : names[i] \in enabled <=> target[r]
      BY <3>1, <2>5 DEF Progress
    <3>3. target[r] \in BOOLEAN
      BY <1>00 DEF CallsInv, BotTypeOK
    <3>4. ASSUME NEW i \in 1 .. k + 1 PROVE names[i] \in enabled' <=> target[r]
      <4>1. CASE i = k + 1
        BY <4>1, <2>8, <2>9
      <4>2. CASE i \in 1 .. k
        <5>1. names[i] \in enabled <=> target[r]
          BY <4>2, <3>2
        <5>2. CASE target[r]
          BY <5>1, <5>2, <2>8
        <5>3. CASE ~target[r]
          BY <5>1, <5>3, <2>8
        <5> QED BY <5>2, <5>3
      <4> QED BY <4>1, <4>2
    <3> QED BY <3>2, <3>4, <2>8
  <2>11. Progress(r, names, k + 1)'
    BY <2>7, <2>9, <2>10 DEF Progress
  <2>12. \E n \in Plans, j \in 0 .. Len(Names) : Progress(r, n, j)'
    BY <2>9, <2>11
  <2>13. \A q \in Requests \ {r} : stage'[q] = stage[q]
    BY <2>7, <1>00 DEF CallsInv, BotTypeOK
  <2>14. stage'[r] # "new"
    BY <2>7, <1>00 DEF CallsInv, BotTypeOK
  <2> QED BY <2>2, <2>3, <2>8, <2>12, <2>13, <2>14 DEF Undisturbed, Plans
<1>8. ASSUME NEW m \in messages, TimesOut(m) PROVE Undisturbed(r)'
  <2>1. m \notin late /\ alone' = alone /\ NextCall(m.request, FALSE)
    BY <1>8 DEF TimesOut
  <2>2. Undisturbed(r)
    BY <2>1, <1>b
  <2>3. m.request = r /\ running
    BY <2>2 DEF Undisturbed, CallsInv
  <2>4. todo[r] # <<>>
    BY <2>1, <2>3 DEF CallsInv
  <2>5. PICK names \in Plans, k \in 0 .. Len(Names) : Progress(r, names, k)
    BY <2>2 DEF Undisturbed
  <2>6. /\ todo'[r] = Tail(todo[r]) /\ succeeded'[r] = succeeded[r]
        /\ stage' = [stage EXCEPT ![r] = "calling"]
    BY <2>1, <2>3, <1>00 DEF NextCall, CallsInv, BotTypeOK
  <2>7. Progress(r, names, k + 1)' /\ k + 1 \in 0 .. Len(Names)
    <3>1. /\ k + 1 <= Len(names) /\ k + 1 \in 0 .. Len(Names)
          /\ Len(todo'[r]) = Len(names) - (k + 1)
          /\ \A j \in 1 .. Len(todo'[r]) : todo'[r][j] = names[k + 1 + j]
          /\ succeeded[r] \in Nat /\ succeeded[r] < k + 1
      BY <1>00, <2>4, <2>5, <2>6, OneCallFurther
    <3> QED BY <3>1, <2>6 DEF Progress
  <2>8. \E n \in Plans, j \in 0 .. Len(Names) : Progress(r, n, j)'
    BY <2>7
  <2>9. stage'[r] # "new" /\ \A q \in Requests \ {r} : stage'[q] = stage[q]
    BY <2>6, <1>00 DEF CallsInv, BotTypeOK
  <2> QED BY <1>8, <2>2, <2>3, <2>8, <2>9 DEF Undisturbed, Plans, TimesOut
<1>9. ~PythonCrashes /\ ~PythonStarts
  BY DEF PythonCrashes, PythonStarts
<1>10. CASE UNCHANGED botVars
  <2>1. Undisturbed(r)
    BY <1>10, <1>b DEF botVars, history
  <2> QED BY <1>10, <2>1 DEF botVars, history, Undisturbed, Progress, Plans
<1> QED BY <1>1, <1>2, <1>3, <1>4, <1>5, <1>6, <1>7, <1>8, <1>9, <1>10 DEF BotNext

\* A request all of whose calls were answered, and which nothing disturbed, has
\* switched every strategy, and Python runs.
LEMMA AllAreSwitched ==
    ASSUME CallsInv, NEW r \in Requests, Undisturbed(r), stage[r] = "done", succeeded[r] = Len(Names)
    PROVE  running /\ enabled = IF target[r] THEN Strategies ELSE {}
<1>1. PICK names \in Plans, k \in 0 .. Len(Names) : Progress(r, names, k)
  BY DEF Undisturbed
<1>2. Len(Names) \in Nat /\ Len(Names) > 0 /\ Len(names) \in Nat /\ Len(names) <= Len(Names)
  BY NamesAreStrategies, PlansAreShort
<1>3. k = Len(Names) /\ Len(names) = Len(Names)
  BY <1>1, <1>2 DEF Progress
<1>4. \A n \in Strategies : \E i \in 1 .. k : n = names[i]
  <2>1. CASE names = Names
    BY <2>1, <1>3 DEF Strategies
  <2>2. ASSUME NEW a \in Strategies, names = <<a>> PROVE \A n \in Strategies : \E i \in 1 .. k : n = names[i]
    <3>1. Len(Names) = 1 /\ k = 1
      BY <2>2, <1>3
    <3>2. Strategies = {Names[1]}
      BY <3>1 DEF Strategies
    <3> QED BY <2>2, <3>1, <3>2
  <2> QED BY <2>1, <2>2 DEF Plans
<1>5. \A i \in 1 .. k : names[i] \in enabled <=> target[r]
  BY <1>1, <1>3 DEF Progress
<1>6. enabled \subseteq Strategies /\ target[r] \in BOOLEAN
  BY DEF CallsInv, BotTypeOK
<1>7. enabled = IF target[r] THEN Strategies ELSE {}
  <2>1. \A n \in Strategies : n \in enabled <=> target[r]
    BY <1>4, <1>5
  <2>2. CASE target[r]
    BY <2>1, <2>2, <1>6
  <2>3. CASE ~target[r]
    BY <2>1, <2>3, <1>6
  <2> QED BY <2>2, <2>3
<1> QED BY <1>2, <1>7 DEF Undisturbed

\* What POST /bot/start and /bot/stop answer is true: every strategy is switched,
\* or none was touched.
LEMMA AnswersAreTrue == CallsInv /\ AloneInv => StopAllStops /\ FailureIsHonest
<1> SUFFICES ASSUME CallsInv, AloneInv PROVE StopAllStops /\ FailureIsHonest
  OBVIOUS
<1>1. alone \subseteq Requests
  BY DEF CallsInv, BotTypeOK
<1>2. StopAllStops
  BY <1>1, AllAreSwitched DEF StopAllStops, AloneInv
<1>3. FailureIsHonest
  BY DEF FailureIsHonest, CallsInv, Success
<1> QED BY <1>2, <1>3

\* However starts, stops and PATCHes overlap, calls time out and Python dies and
\* returns, setAllStrategies reports what it has done.
THEOREM BotAnswersAreTrue == BotSpec => [](StopAllStops /\ FailureIsHonest)
<1>1. BotInit => AloneInv
  BY DEF BotInit, AloneInv
<1>2. BotSpec => []AloneInv
  BY <1>1, AloneInvStep, CallsInvHolds, PTL DEF BotSpec
<1> QED BY <1>2, AnswersAreTrue, CallsInvHolds, PTL

------------------------------------------------------------------------------
(* BotStatus.                                                              *)

\* The steps the page may see: its own, and any of the routes and of Python (the
\* page begins requests by Press only, but its status does not depend on it).
StatusStep == StatusNext \/ (BotNext /\ UNCHANGED statusVars)

\* What the page shows after request r, if r switched every strategy.
Ordered(r) == IF target[r] THEN Strategies ELSE {}

\* A request whose success had the status fetched anew is over; and if no later
\* request, late call or death of Python came in between, a fetch without a fault
\* has read what the request has left.
ShownInv ==
    /\ \A r \in acked : stage[r] = "done"
    /\ \A r \in alone \cap acked : clean /\ succeeded[r] = Len(Names) =>
        /\ query = "idle" => status = Ordered(r)
        /\ query = "listed" => listed = Ordered(r)

\* The types of the page and of the calls it shows.
PageTypeOK ==
    /\ StatusTypeOK
    /\ CallsInv

\* The status page keeps its types.
LEMMA PageTypeStep == PageTypeOK /\ [StatusStep]_<<botVars, statusVars>> => PageTypeOK'
<1> SUFFICES ASSUME PageTypeOK, [StatusStep]_<<botVars, statusVars>> PROVE PageTypeOK'
  OBVIOUS
<1>1. CallsInv'
  <2>1. [BotNext]_botVars
    BY DEF StatusStep, StatusNext, Others, Refresh, Poll, ProbePython, StatusArrives, StatusFails,
           Answered, AnswerLost, Press, BotNext
  <2> QED BY <2>1, CallsInvStep DEF PageTypeOK
<1>2. StatusTypeOK'
  <2> USE StatusAssumption DEF PageTypeOK, StatusTypeOK, Fault, NoFault, FetchAnew
  <2>1. BotTypeOK'
    BY <1>1 DEF CallsInv
  <2>2. enabled \subseteq Strategies
    BY DEF BotTypeOK
  <2>3. CASE Poll
    BY <2>1, <2>3 DEF Poll
  <2>4. CASE ProbePython
    <3>1. listed' \in SUBSET Strategies
      BY <2>2, <2>4 DEF ProbePython
    <3>2. clean' = clean \/ clean' = FALSE
      BY <2>4 DEF ProbePython
    <3>3. faults' \in 0 .. MaxFaults
      BY <2>4 DEF ProbePython
    <3>4. query' = "listed" /\ UNCHANGED <<retried, status, loaded, pressed, acked>>
      BY <2>4 DEF ProbePython
    <3> QED BY <2>1, <3>1, <3>2, <3>3, <3>4
  <2>5. CASE StatusArrives
    BY <2>1, <2>5 DEF StatusArrives
  <2>6. CASE StatusFails
    <3>1. retried' \in BOOLEAN
      BY <2>6, Zenon DEF StatusFails
    <3>2. /\ query' \in {"idle", "sent"} /\ listed' = {} /\ clean' = FALSE
          /\ faults' \in 0 .. MaxFaults /\ UNCHANGED <<status, loaded, pressed, acked>>
      BY <2>6 DEF StatusFails
    <3> QED BY <2>1, <3>1, <3>2
  <2>7. CASE Answered
    BY <2>1, <2>7 DEF Answered, Invalidate
  <2>8. CASE AnswerLost
    BY <2>1, <2>8 DEF AnswerLost
  <2>9. ASSUME NEW r \in Requests, Press(r) PROVE StatusTypeOK'
    BY <2>1, <2>9 DEF Press
  <2>10. CASE UNCHANGED statusVars
    BY <2>1, <2>10 DEF statusVars
  <2> QED BY <2>3, <2>4, <2>5, <2>6, <2>7, <2>8, <2>9, <2>10
          DEF StatusStep, StatusNext, Others, Refresh
<1> QED BY <1>1, <1>2 DEF PageTypeOK

\* A request that is over keeps its outcome.
LEMMA DoneIsKept ==
    ASSUME CallsInv, [BotNext]_botVars, NEW r \in Requests, stage[r] = "done"
    PROVE  /\ stage'[r] = "done" /\ target'[r] = target[r] /\ succeeded'[r] = succeeded[r]
           /\ r \in alone' => r \in alone
<1> USE DEF CallsInv, BotTypeOK
<1>a. ASSUME NEW q \in Requests, NEW names, NEW on, Begin(q, names, on)
      PROVE  /\ stage'[r] = "done" /\ target'[r] = target[r] /\ succeeded'[r] = succeeded[r]
             /\ r \in alone' => r \in alone
  BY <1>a DEF Begin
<1>b. \A m \in messages \ late : m.request # r /\ m.request \in Requests
  BY DEF Calls
<1>1. ASSUME NEW q \in Requests, BotStart(q) PROVE \E on \in BOOLEAN : Begin(q, Names, on)
  BY <1>1, Zenon DEF BotStart
<1>2. ASSUME NEW q \in Requests, BotStop(q) PROVE \E on \in BOOLEAN : Begin(q, Names, on)
  BY <1>2, Zenon DEF BotStop
<1>3. ASSUME NEW q \in Requests, NEW n \in Strategies, NEW on \in BOOLEAN, PatchStrategy(q, n, on)
      PROVE  \E o \in BOOLEAN : Begin(q, <<n>>, o)
  BY <1>3, Zenon DEF PatchStrategy
<1>4. ASSUME NEW q \in Requests, CallPython(q) \/ Refused(q) \/ Finish(q)
      PROVE  /\ stage'[r] = "done" /\ target'[r] = target[r] /\ succeeded'[r] = succeeded[r]
             /\ r \in alone' => r \in alone
  BY <1>4 DEF CallPython, Refused, Finish, history
<1>5. ASSUME NEW m \in messages, Activate(m)
      PROVE  /\ stage'[r] = "done" /\ target'[r] = target[r] /\ succeeded'[r] = succeeded[r]
             /\ r \in alone' => r \in alone
  BY <1>5, <1>b DEF Activate, NextCall
<1>6. ASSUME NEW m \in messages, TimesOut(m)
      PROVE  /\ stage'[r] = "done" /\ target'[r] = target[r] /\ succeeded'[r] = succeeded[r]
             /\ r \in alone' => r \in alone
  BY <1>6, <1>b DEF TimesOut, NextCall
<1>7. CASE PythonCrashes
  BY <1>7, <1>b DEF PythonCrashes
<1>8. CASE PythonStarts
  BY <1>8 DEF PythonStarts
<1>9. CASE UNCHANGED botVars
  BY <1>9 DEF botVars, history
<1>10. ASSUME NEW q \in Requests, BotStart(q) \/ BotStop(q) \/ CallPython(q) \/ Refused(q) \/ Finish(q)
       PROVE  /\ stage'[r] = "done" /\ target'[r] = target[r] /\ succeeded'[r] = succeeded[r]
              /\ r \in alone' => r \in alone
  BY <1>a, <1>1, <1>2, <1>4, <1>10
<1>11. ASSUME NEW q \in Requests, NEW n \in Strategies, NEW on \in BOOLEAN, PatchStrategy(q, n, on)
       PROVE  /\ stage'[r] = "done" /\ target'[r] = target[r] /\ succeeded'[r] = succeeded[r]
              /\ r \in alone' => r \in alone
  <2>1. PICK o \in BOOLEAN : Begin(q, <<n>>, o)
    BY <1>3, <1>11
  <2> DEFINE names == <<n>>
  <2>2. Begin(q, names, o)
    BY <2>1
  <2> HIDE DEF names
  <2> QED BY <2>2, <1>a
<1> QED BY <1>5, <1>6, <1>7, <1>8, <1>9, <1>10, <1>11 DEF BotNext

\* Whichever fetch was under way when a start or stop was answered, what the page
\* comes to rest with was read after it.
LEMMA ShownInvStep ==
    PageTypeOK /\ AloneInv /\ ShownInv /\ [StatusStep]_<<botVars, statusVars>> => ShownInv'
<1> SUFFICES ASSUME PageTypeOK, AloneInv, ShownInv, [StatusStep]_<<botVars, statusVars>>
             PROVE ShownInv'
  OBVIOUS
<1>1. CallsInv /\ acked \subseteq Requests /\ alone \subseteq Requests
  BY DEF PageTypeOK, StatusTypeOK, CallsInv, BotTypeOK
<1>2. ASSUME [BotNext]_botVars, UNCHANGED <<query, listed, status, clean, acked>> PROVE ShownInv'
  BY <1>1, <1>2, DoneIsKept DEF ShownInv, Ordered
<1>3. CASE Poll
  BY <1>3 DEF Poll, FetchAnew, ShownInv, Ordered, botVars, history
<1>4. CASE ProbePython
  <2>1. \A r \in alone \cap acked : succeeded[r] = Len(Names) => running /\ enabled = Ordered(r)
    BY <1>1, AllAreSwitched DEF ShownInv, AloneInv, Ordered
  <2> QED BY <1>4, <2>1 DEF ProbePython, NoFault, Fault, ShownInv, Ordered, botVars, history
<1>5. CASE StatusArrives
  BY <1>5 DEF StatusArrives, ShownInv, Ordered, botVars, history
<1>6. CASE StatusFails
  BY <1>6 DEF StatusFails, Fault, ShownInv, Ordered, botVars, history
<1>7. CASE Answered
  BY <1>7 DEF Answered, Invalidate, FetchAnew, ShownInv, Ordered, botVars, history
<1>8. CASE AnswerLost
  BY <1>8 DEF AnswerLost, ShownInv, Ordered, botVars, history
<1>9. ASSUME NEW r \in Requests, Press(r) PROVE ShownInv'
  <2>1. BotNext
    BY <1>9 DEF Press, BotNext
  <2> QED BY <1>2, <1>9, <2>1 DEF Press
<1>10. CASE BotNext /\ UNCHANGED statusVars
  BY <1>2, <1>10 DEF statusVars
<1>11. CASE UNCHANGED <<botVars, statusVars>>
  BY <1>2, <1>11 DEF statusVars
<1> QED BY <1>3, <1>4, <1>5, <1>6, <1>7, <1>8, <1>9, <1>10, <1>11
        DEF StatusStep, StatusNext, Others, Refresh

\* A page that steps as StatusStep allows: what operators are told is what Python did.
LEMMA ObeyedThroughout ==
    StatusInit /\ [][StatusStep]_<<botVars, statusVars>> => [](PageTypeOK /\ BotObeys)
<1>1. StatusInit => PageTypeOK /\ AloneInv /\ ShownInv
  <2> SUFFICES ASSUME StatusInit PROVE PageTypeOK /\ AloneInv /\ ShownInv
    OBVIOUS
  <2>1. CallsInv
    BY CallsInvInit DEF StatusInit
  <2>2. StatusTypeOK
    <3>1. BotTypeOK
      BY <2>1 DEF CallsInv
    <3>2. 0 \in 0 .. MaxFaults
      BY StatusAssumption
    <3>3. {retried, loaded, clean} \subseteq BOOLEAN
      BY DEF StatusInit
    <3> QED BY <3>1, <3>2, <3>3 DEF StatusInit, StatusTypeOK
  <2>3. AloneInv /\ ShownInv
    BY DEF StatusInit, BotInit, AloneInv, ShownInv
  <2> QED BY <2>1, <2>2, <2>3 DEF PageTypeOK
<1>2. PageTypeOK /\ AloneInv /\ [StatusStep]_<<botVars, statusVars>> => AloneInv'
  <2> SUFFICES ASSUME PageTypeOK, AloneInv, [StatusStep]_<<botVars, statusVars>> PROVE AloneInv'
    OBVIOUS
  <2>1. [BotNext]_botVars
    BY DEF StatusStep, StatusNext, Others, Refresh, Poll, ProbePython, StatusArrives, StatusFails,
           Answered, AnswerLost, Press, BotNext
  <2> QED BY <2>1, AloneInvStep DEF PageTypeOK
<1>3. PageTypeOK /\ AloneInv /\ ShownInv => BotObeys
  <2> SUFFICES ASSUME PageTypeOK, AloneInv, ShownInv PROVE BotObeys
    OBVIOUS
  <2>1. ShownAfterControl
    BY DEF ShownAfterControl, ShownInv, Ordered
  <2> QED BY <2>1, AnswersAreTrue DEF BotObeys, PageTypeOK
<1> QED BY <1>1, <1>2, <1>3, PageTypeStep, ShownInvStep, PTL

\* However polls, clicks, faults and answers interleave, the page's status is not
\* older than the latest start or stop that it was told succeeded.
THEOREM PageIsObeyed == StatusSpec => []BotObeys
<1>1. [StatusNext]_<<botVars, statusVars>> => [StatusStep]_<<botVars, statusVars>>
  BY DEF StatusStep
<1> QED BY <1>1, ObeyedThroughout, PTL DEF StatusSpec

------------------------------------------------------------------------------
(* RpcManager.                                                             *)

\* While a round is under way, the endpoints probed in it are healthy exactly if
\* they answered; between two rounds all are.
RpcInv ==
    /\ RpcTypeOK
    /\ IF probing = 0 THEN healthy = lastRound
                      ELSE round = {e \in healthy : e < probing}

\* The endpoints are probed in their order, and then no round is under way.
LEMMA ProbeOrder ==
    ASSUME probing \in 0 .. Endpoints
    PROVE  NextProbe = IF probing = Endpoints THEN 0 ELSE probing + 1
<1>1. Endpoints \in Nat /\ Endpoints > 0 /\ probing \in Nat /\ probing <= Endpoints
  BY EndpointAssumption
<1>2. CASE probing = Endpoints
  BY <1>1, <1>2 DEF NextProbe
<1>3. CASE probing # Endpoints
  BY <1>1, <1>3 DEF NextProbe
<1> QED BY <1>2, <1>3

\* The choice has an outcome, and it is healthy and of the best priority there is.
LEMMA SelectedIsBest ==
    ASSUME healthy \subseteq Endpoint, latency \in [Endpoint -> Latencies], healthy # {}
    PROVE  Selected \in healthy /\ \A e \in healthy : Priority[Selected] <= Priority[e]
<1> DEFINE topTier == {e \in healthy : \A f \in healthy : Priority[e] <= Priority[f]}
           fastest == {e \in topTier : \A f \in topTier : latency[e] <= latency[f]}
<1>1. \A e \in healthy : e \in Nat /\ Priority[e] \in Nat /\ latency[e] \in Nat
  <2>1. \A e \in healthy : e \in Nat /\ e \in Endpoint
    BY EndpointAssumption DEF Endpoint
  <2>2. \A e \in Endpoint : Priority[e] \in Nat /\ latency[e] \in Latencies
    BY EndpointAssumption
  <2> QED BY <2>1, <2>2, EndpointAssumption
<1>2. PICK p \in {Priority[e] : e \in healthy} : \A q \in {Priority[e] : e \in healthy} : p <= q
  <2>1. {Priority[e] : e \in healthy} \subseteq Nat /\ {Priority[e] : e \in healthy} # {}
    BY <1>1
  <2> QED BY <2>1, LeastNatural
<1>3. topTier # {} /\ topTier \subseteq healthy
  BY <1>2
<1> HIDE DEF topTier
<1>4. PICK l \in {latency[e] : e \in topTier} : \A q \in {latency[e] : e \in topTier} : l <= q
  <2>1. {latency[e] : e \in topTier} \subseteq Nat /\ {latency[e] : e \in topTier} # {}
    BY <1>1, <1>3
  <2> QED BY <2>1, LeastNatural
<1>5. fastest # {} /\ fastest \subseteq topTier
  BY <1>4
<1> HIDE DEF fastest
<1>6. \E m \in fastest : \A n \in fastest : m <= n
  <2>1. fastest \subseteq Nat
    BY <1>1, <1>3, <1>5
  <2> QED BY <2>1, <1>5, LeastNatural
<1>7. Min(fastest) \in fastest
  BY <1>6 DEF Min
<1>8. Selected = Min(fastest)
  BY DEF Selected, fastest, topTier
<1> QED BY <1>3, <1>5, <1>7, <1>8 DEF topTier

\* Probes, nodes that come and go, and callers, in any order.
LEMMA RpcInvHolds == RpcSpec => []RpcInv
<1>1. RpcInit => RpcInv
  BY EndpointAssumption DEF RpcInit, RpcInv, RpcTypeOK, Endpoint
<1>2. RpcInv /\ [RpcNext]_rpcVars => RpcInv'
  <2> SUFFICES ASSUME RpcInv, [RpcNext]_rpcVars PROVE RpcInv'
    OBVIOUS
  <2> USE EndpointAssumption DEF RpcInv, RpcTypeOK
  <2>1. CASE Tick
    BY <2>1 DEF Tick, Endpoint
  <2>2. CASE Probe
    <3>1. /\ probing \in Nat /\ probing > 0 /\ probing <= Endpoints /\ Endpoints \in Nat
          /\ probing \in Endpoint
      BY <2>2 DEF Probe, Endpoint
    <3>2. probing' = IF probing = Endpoints THEN 0 ELSE probing + 1
      BY <2>2, ProbeOrder DEF Probe
    <3>3. \A e \in healthy \cup {probing} : e \in Nat /\ e <= Endpoints
      BY <3>1 DEF Endpoint
    <3>4. latency' \in [Endpoint -> Latencies]
      BY <2>2, <3>1 DEF Probe
    <3>5. round' = {e \in healthy' : e <= probing} /\ healthy' \subseteq healthy \cup {probing}
      BY <2>2, <3>1, <3>3 DEF Probe
    <3>6. CASE probing = Endpoints
      <4>1. round' = healthy'
        BY <3>3, <3>5, <3>6
      <4> QED BY <2>2, <3>1, <3>2, <3>4, <3>5, <3>6, <4>1 DEF Probe
    <3>7. CASE probing # Endpoints
      <4>1. round' = {e \in healthy' : e < probing'} /\ probing' \in 1 .. Endpoints
        BY <3>1, <3>2, <3>3, <3>5, <3>7
      <4> QED BY <2>2, <3>1, <3>4, <3>5, <3>7, <4>1 DEF Probe
    <3> QED BY <3>6, <3>7
  <2>3. ASSUME NEW e \in Endpoint, NodeTurns(e) PROVE RpcInv'
    BY <2>3 DEF NodeTurns
  <2>4. ASSUME NEW c \in Callers, GetClient(c) PROVE RpcInv'
    <3>1. Selected \in 0 .. Endpoints
      <4>1. CASE healthy = {}
        BY <4>1 DEF Selected
      <4>2. CASE healthy # {}
        BY <4>2, SelectedIsBest DEF Endpoint
      <4> QED BY <4>1, <4>2
    <3> QED BY <2>4, <3>1 DEF GetClient
  <2>5. ASSUME NEW c \in Callers, DropClient(c) PROVE RpcInv'
    BY <2>5 DEF DropClient
  <2>6. CASE UNCHANGED rpcVars
    BY <2>6 DEF rpcVars
  <2> QED BY <2>1, <2>2, <2>3, <2>4, <2>5, <2>6 DEF RpcNext
<1> QED BY <1>1, <1>2, PTL DEF RpcSpec

\* get_client never sees a round that is half done, so that the endpoint it returns
\* answered in the latest round and had the best priority of those that did.
THEOREM OneRound == RpcSpec => ChosenFromOneRound
<1>1. ASSUME RpcInv, [RpcNext]_rpcVars
      PROVE  [\A c \in Callers : client[c] = 0 /\ client'[c] # 0 =>
                 /\ client'[c] \in lastRound \/ lastRound = {}
                 /\ \A e \in lastRound :
                      Priority[client'[c]] <= Priority[e] \/ lastRound = {}]_rpcVars
  <2> SUFFICES ASSUME NEW c \in Callers, client[c] = 0, client'[c] # 0
               PROVE  /\ client'[c] \in lastRound \/ lastRound = {}
                      /\ \A e \in lastRound :
                           Priority[client'[c]] <= Priority[e] \/ lastRound = {}
    OBVIOUS
  <2>1. client \in [Callers -> 0 .. Endpoints]
    BY <1>1 DEF RpcInv, RpcTypeOK
  <2>2. GetClient(c)
    <3>1. ASSUME NEW d \in Callers, GetClient(d) PROVE d = c
      BY <2>1, <3>1 DEF GetClient
    <3>2. ASSUME NEW d \in Callers, DropClient(d) PROVE FALSE
      BY <2>1, <3>2 DEF DropClient
    <3>3. client' # client
      BY <2>1
    <3> QED BY <1>1, <3>1, <3>2, <3>3 DEF RpcNext, rpcVars, Tick, Probe, NodeTurns
  <2>3. client'[c] = Selected /\ probing = 0
    BY <2>1, <2>2 DEF GetClient
  <2>4. healthy = lastRound
    BY <1>1, <2>3 DEF RpcInv
  <2> QED BY <1>1, <2>3, <2>4, SelectedIsBest DEF RpcInv, RpcTypeOK
<1> QED BY <1>1, RpcInvHolds, PTL DEF RpcSpec, ChosenFromOneRound

------------------------------------------------------------------------------
(* Backtest.                                                               *)

\* What a trade earns is an amount within the limits of the form.
LEMMA PnlBounds ==
    ASSUME NEW limits \in Overrides, NEW h \in Seq(Prices), NEW k \in 1 .. Len(h) - 1
    PROVE  /\ Pnl(limits, h, k) \in Int
           /\ limits.stop # NoLimit => Pnl(limits, h, k) >= -limits.stop
           /\ limits.take # NoLimit => Pnl(limits, h, k) <= limits.take
<1>1. k \in 1 .. Len(h) /\ k + 1 \in 1 .. Len(h)
  OBVIOUS
<1>2. h[k] \in Nat \ {0} /\ h[k + 1] \in Nat \ {0} /\ Unit \in Nat
  BY <1>1, BacktestAssumption
<1>3. /\ limits.stop # NoLimit => limits.stop \in Nat
      /\ limits.take # NoLimit => limits.take \in Nat
  BY BacktestAssumption
<1> DEFINE earned  == ((h[k + 1] - h[k]) * Unit) \div h[k]
           stopped == IF limits.stop # NoLimit /\ earned < -limits.stop THEN -limits.stop ELSE earned
           pnl     == IF limits.take # NoLimit /\ stopped > limits.take THEN limits.take ELSE stopped
<1>4. earned \in Int
  <2>1. (h[k + 1] - h[k]) * Unit \in Int
    BY <1>2
  <2> QED BY <1>2, <2>1
<1> HIDE DEF earned
<1>5. stopped \in Int /\ (limits.stop # NoLimit => stopped >= -limits.stop)
  BY <1>3, <1>4
<1> HIDE DEF stopped
<1>6. /\ pnl \in Int
      /\ limits.stop # NoLimit => pnl >= -limits.stop
      /\ limits.take # NoLimit => pnl <= limits.take
  BY <1>3, <1>5
<1>7. Pnl(limits, h, k) = pnl
  BY DEF Pnl, earned, stopped
<1> QED BY <1>6, <1>7

\* g[k] is what the trades up to bar k earn.
IsEarned(g, run, source, n) ==
    /\ g \in [0 .. n -> Seq(Int)]
    /\ g[0] = <<>>
    /\ \A k \in 1 .. n : g[k] = IF ShouldEnter(run.strategy, source, k)
                                THEN Append(g[k - 1], Pnl(run.limits, source.prices, k))
                                ELSE g[k - 1]

\* The loop over the bars of a series takes one of two steps for each.
LEMMA EntriesStep ==
    ASSUME NEW run \in Runs, NEW source, source.prices \in Seq(Prices), NEW n \in Nat,
           n = Len(source.prices) - 1
    PROVE  \E g : IsEarned(g, run, source, n) /\ Entries(run, source) = g[n]
<1> DEFINE S == 1 .. n
           s == [i \in 1 .. n |-> i]
           op(pnls, i) == IF ShouldEnter(run.strategy, source, i)
                          THEN Append(pnls, Pnl(run.limits, source.prices, i)) ELSE pnls
           eqn(h) == h = [t \in SUBSET (1 .. n) |->
                             IF t = {} THEN <<>> ELSE op(h[t \ {Max(t)}], s[Max(t)])]
           iter == CHOOSE h : eqn(h)
           Q == Seq(Int)
           e == <<>>
           f == [p \in Q \X S |-> op(p[1], p[2])]
<1>0. s \in [1 .. n -> S] /\ \A k \in 1 .. n : s[k] = k
  OBVIOUS
<1>1. f \in [Q \X S -> Q]
  <2>1. ASSUME NEW p \in Q \X S PROVE op(p[1], p[2]) \in Seq(Int)
    <3>1. run.limits \in Overrides
      BY DEF Runs
    <3>2. Pnl(run.limits, source.prices, p[2]) \in Int
      BY <3>1, PnlBounds
    <3> QED BY <3>2
  <2> HIDE DEF op
  <2> QED BY <2>1
<1>2. e \in Q
  OBVIOUS
<1> HIDE DEF f, Q, e, s, S
<1>3. PICK h : IsTable(h, f, e, n, s, Q)
  <2>1. Combines(f, S, Q) /\ HasElements(s, n, S)
    BY <1>0, <1>1 DEF Combines, HasElements
  <2> QED BY <1>2, <2>1, FoldTable
<1>4. eqn(h)
  <2>1. ASSUME NEW t \in SUBSET (1 .. n), t # {}
        PROVE  f[<<h[t \ {Max(t)}], s[Max(t)]>>] = op(h[t \ {Max(t)}], s[Max(t)])
    <3>1. Max(t) \in 1 .. n
      BY <2>1, MaxIsIn
    <3>2. h[t \ {Max(t)}] \in Q /\ s[Max(t)] \in S
      BY <3>1, <1>0, <1>3 DEF IsTable
    <3> HIDE DEF op
    <3> QED BY <3>2 DEF f
  <2> HIDE DEF op
  <2> QED BY <1>3, <2>1 DEF e, IsTable
<1>5. eqn(iter)
  <2> HIDE DEF eqn
  <2> QED BY <1>4
<1>6. Entries(run, source) = iter[1 .. n]
  <2>1. DOMAIN s = 1 .. n /\ s = [i \in 1 .. Len(source.prices) - 1 |-> i]
    BY DEF s
  <2> QED BY <2>1 DEF Entries, FoldLeft, MapThenFoldSet, s
<1> HIDE DEF iter, op
<1>7. Follows(iter, f, e, n, s, Q)
  <2>1. {} \in SUBSET (1 .. n)
    OBVIOUS
  <2>2. ASSUME NEW t \in SUBSET (1 .. n), t # {}, iter[t \ {Max(t)}] \in Q
        PROVE  iter[t] = f[<<iter[t \ {Max(t)}], s[Max(t)]>>]
    <3>1. Max(t) \in 1 .. n /\ s[Max(t)] \in S
      BY <1>0, <2>2, MaxIsIn
    <3>2. iter[t] = op(iter[t \ {Max(t)}], s[Max(t)])
      BY <1>5, <2>2
    <3> QED BY <2>2, <3>1, <3>2 DEF f
  <2> QED BY <1>5, <2>1, <2>2 DEF Follows, e
<1> HIDE DEF eqn
<1>8. PICK g : IsRun(g, f, e, n, s, Q) /\ g[n] = iter[1 .. n]
  <2>1. Combines(f, S, Q) /\ HasElements(s, n, S)
    BY <1>0, <1>1 DEF Combines, HasElements
  <2> QED BY <1>2, <1>7, <2>1, FoldRun
<1>9. ASSUME NEW k \in 1 .. n PROVE g[k] = op(g[k - 1], k)
  <2>1. k - 1 \in 0 .. n /\ s[k] \in S /\ s[k] = k
    BY <1>0
  <2>2. g[k - 1] \in Q /\ g[k] = f[<<g[k - 1], s[k]>>]
    BY <1>8, <2>1 DEF IsRun
  <2> QED BY <2>1, <2>2 DEF f
<1>10. g \in [0 .. n -> Seq(Int)] /\ g[0] = <<>>
  BY <1>8 DEF IsRun, Q, e
<1>11. IsEarned(g, run, source, n)
  BY <1>9, <1>10 DEF IsEarned, op
<1> QED BY <1>6, <1>8, <1>11

\* What the earnings of a series have: amounts within the limits of the form.
Within(pnls, limits) ==
    \A j \in 1 .. Len(pnls) : /\ limits.stop # NoLimit => pnls[j] >= -limits.stop
                              /\ limits.take # NoLimit => pnls[j] <= limits.take

\* No trade loses more than the stop, or earns more than the take.
LEMMA EarnedWithin ==
    ASSUME NEW run \in Runs, NEW source, source.prices \in Seq(Prices), NEW n \in Nat,
           n = Len(source.prices) - 1, NEW g, IsEarned(g, run, source, n)
    PROVE  Within(g[n], run.limits)
<1> DEFINE Good == {k \in Nat : k <= n => Within(g[k], run.limits)}
<1>1. 0 \in Good
  BY DEF IsEarned, Within
<1>2. ASSUME NEW k \in Nat, k \in Good PROVE k + 1 \in Good
  <2> SUFFICES ASSUME k + 1 <= n PROVE Within(g[k + 1], run.limits)
    OBVIOUS
  <2>1. k + 1 \in 1 .. n /\ (k + 1) - 1 = k /\ k \in 0 .. n
    OBVIOUS
  <2>2. g[k] \in Seq(Int) /\ Within(g[k], run.limits)
    BY <1>2, <2>1 DEF IsEarned
  <2> DEFINE x == Pnl(run.limits, source.prices, k + 1)
  <2>3. /\ x \in Int
        /\ run.limits.stop # NoLimit => x >= -run.limits.stop
        /\ run.limits.take # NoLimit => x <= run.limits.take
    <3>1. run.limits \in Overrides
      BY DEF Runs
    <3> QED BY <2>1, <3>1, PnlBounds
  <2>4. g[k + 1] = Append(g[k], x) \/ g[k + 1] = g[k]
    BY <2>1 DEF IsEarned
  <2> HIDE DEF x
  <2>5. CASE g[k + 1] = Append(g[k], x)
    <3>1. /\ Len(Append(g[k], x)) = Len(g[k]) + 1
          /\ \A i \in 1 .. Len(g[k]) : Append(g[k], x)[i] = g[k][i]
          /\ Append(g[k], x)[Len(g[k]) + 1] = x
      BY <2>2, <2>3, AppendProperties
    <3>2. Len(g[k]) \in Nat
      BY <2>2, LenProperties
    <3>3. \A j \in 1 .. Len(g[k]) + 1 : j \in 1 .. Len(g[k]) \/ j = Len(g[k]) + 1
      BY <3>2
    <3> QED BY <2>2, <2>3, <2>5, <3>1, <3>3 DEF Within
  <2> QED BY <2>2, <2>4, <2>5
<1> HIDE DEF Good
<1>3. Nat \subseteq Good
  BY <1>1, <1>2, SetInduction
<1> QED BY <1>3 DEF Good

\* Two series that agree in their bars up to m, and in what is known of the token.
SameBars(a, b, m) ==
    /\ a.liquid = b.liquid /\ a.progress = b.progress
    /\ \A k \in 1 .. m : SubSeq(a.prices, 1, k) = SubSeq(b.prices, 1, k)

\* _should_enter looks at nothing but the bars up to the entry.
LEMMA SameEntry ==
    ASSUME NEW a, NEW b, NEW m, SameBars(a, b, m), NEW k \in 1 .. m, NEW strategy
    PROVE  ShouldEnter(strategy, a, k) = ShouldEnter(strategy, b, k)
<1>1. /\ a.liquid = b.liquid /\ a.progress = b.progress
      /\ \A x : Window(a.prices, k, x) = Window(b.prices, k, x)
  BY DEF SameBars, Window
<1>2. /\ Window(a.prices, k, Lookback) = Window(b.prices, k, Lookback)
      /\ Window(a.prices, k, Short) = Window(b.prices, k, Short)
      /\ Window(a.prices, k, Long) = Window(b.prices, k, Long)
  BY <1>1
<1> QED BY <1>1, <1>2 DEF ShouldEnter

\* The same for a series of prices with its length.
Earns(g, run, source) ==
    /\ source.prices \in Seq(Prices)
    /\ Len(source.prices) - 1 \in Nat
    /\ IsEarned(g, run, source, Len(source.prices) - 1)

\* Until the bar where two series differ they have as many trades, and where the price
\* of the exit is the same they earn the same.
LEMMA SameTrades ==
    ASSUME NEW run \in Runs, NEW a, NEW b, NEW g, NEW h, Earns(g, run, a), Earns(h, run, b),
           NEW m \in Nat, m <= Len(a.prices) - 1, m <= Len(b.prices) - 1, SameBars(a, b, m)
    PROVE  /\ Len(g[m]) = Len(h[m])
           /\ (\A k \in 1 .. m + 1 : a.prices[k] = b.prices[k]) => g[m] = h[m]
<1> DEFINE na == Len(a.prices) - 1
           nb == Len(b.prices) - 1
<1>0. /\ a.prices \in Seq(Prices) /\ na \in Nat /\ IsEarned(g, run, a, na)
      /\ b.prices \in Seq(Prices) /\ nb \in Nat /\ IsEarned(h, run, b, nb)
  BY DEF Earns
<1> DEFINE same == \A k \in 1 .. m + 1 : a.prices[k] = b.prices[k]
           Good == {k \in Nat : k <= m => Len(g[k]) = Len(h[k]) /\ (same => g[k] = h[k])}
<1>1. 0 \in Good
  BY <1>0 DEF IsEarned
<1>2. ASSUME NEW k \in Nat, k \in Good PROVE k + 1 \in Good
  <2> SUFFICES ASSUME k + 1 <= m PROVE Len(g[k + 1]) = Len(h[k + 1]) /\ (same => g[k + 1] = h[k + 1])
    OBVIOUS
  <2> DEFINE x == Pnl(run.limits, a.prices, k + 1)
             y == Pnl(run.limits, b.prices, k + 1)
  <2>1. /\ k + 1 \in 1 .. na /\ k + 1 \in 1 .. nb /\ k + 1 \in 1 .. m /\ (k + 1) - 1 = k
        /\ k \in 0 .. na /\ k \in 0 .. nb
        /\ (k + 1) + 1 \in 1 .. m + 1 /\ k + 1 \in 1 .. m + 1
    BY <1>0
  <2>2. g[k] \in Seq(Int) /\ h[k] \in Seq(Int) /\ Len(g[k]) = Len(h[k]) /\ (same => g[k] = h[k])
    <3>1. g[k] \in Seq(Int) /\ h[k] \in Seq(Int)
      BY <1>0, <2>1 DEF IsEarned
    <3>2. k <= m
      OBVIOUS
    <3> HIDE DEF same
    <3> QED BY <1>2, <3>1, <3>2
  <2>3. ShouldEnter(run.strategy, a, k + 1) = ShouldEnter(run.strategy, b, k + 1)
    BY <2>1, SameEntry
  <2>4. x \in Int /\ y \in Int
    <3>1. run.limits \in Overrides
      BY DEF Runs
    <3> QED BY <1>0, <2>1, <3>1, PnlBounds
  <2>5. same => x = y
    BY <2>1 DEF Pnl
  <2>6. /\ g[k + 1] = IF ShouldEnter(run.strategy, a, k + 1) THEN Append(g[k], x) ELSE g[k]
        /\ h[k + 1] = IF ShouldEnter(run.strategy, b, k + 1) THEN Append(h[k], y) ELSE h[k]
    BY <1>0, <2>1 DEF IsEarned
  <2> HIDE DEF x, y, same
  <2>7. Len(Append(g[k], x)) = Len(g[k]) + 1 /\ Len(Append(h[k], y)) = Len(h[k]) + 1
    BY <2>2, <2>4, AppendProperties
  <2> QED BY <2>2, <2>3, <2>5, <2>6, <2>7
<1> HIDE DEF Good
<1>3. Nat \subseteq Good
  BY <1>1, <1>2, SetInduction
<1> QED BY <1>3 DEF Good

\* What has been earned stays at the head of what will be.
LEMMA EarnedIsPrefix ==
    ASSUME NEW run \in Runs, NEW source, source.prices \in Seq(Prices), NEW n \in Nat,
           n = Len(source.prices) - 1, NEW g, IsEarned(g, run, source, n), NEW m \in 0 .. n
    PROVE  IsPrefix(g[m], g[n])
<1> DEFINE Begins(k) == Len(g[m]) <= Len(g[k]) /\ \A i \in 1 .. Len(g[m]) : g[k][i] = g[m][i]
           Good == {d \in Nat : m + d <= n => Begins(m + d)}
<1>0. \A k \in 0 .. n : g[k] \in Seq(Int) /\ Len(g[k]) \in Nat
  BY LenProperties DEF IsEarned
<1>1. 0 \in Good
  <2>1. m + 0 = m /\ Len(g[m]) \in Nat
    BY <1>0
  <2>2. Begins(m)
    BY <2>1
  <2> QED BY <2>1, <2>2
<1>2. ASSUME NEW d \in Nat, d \in Good PROVE d + 1 \in Good
  <2> DEFINE k == m + d
  <2> SUFFICES ASSUME m + (d + 1) <= n PROVE Begins(m + (d + 1))
    OBVIOUS
  <2>1. /\ k + 1 \in 1 .. n /\ (k + 1) - 1 = k /\ k \in 0 .. n /\ k + 1 \in 0 .. n
        /\ m + (d + 1) = k + 1
    OBVIOUS
  <2>2. Begins(k)
    BY <1>2
  <2> DEFINE x == Pnl(run.limits, source.prices, k + 1)
  <2>3. x \in Int
    <3>1. run.limits \in Overrides
      BY DEF Runs
    <3> QED BY <2>1, <3>1, PnlBounds
  <2>4. g[k + 1] = Append(g[k], x) \/ g[k + 1] = g[k]
    BY <2>1 DEF IsEarned
  <2> HIDE DEF x, k
  <2>5. CASE g[k + 1] = Append(g[k], x)
    <3>1. /\ Len(Append(g[k], x)) = Len(g[k]) + 1
          /\ \A i \in 1 .. Len(g[k]) : Append(g[k], x)[i] = g[k][i]
      BY <1>0, <2>1, <2>3, AppendProperties
    <3>2. Len(g[k]) \in Nat /\ Len(g[m]) \in Nat
      BY <1>0, <2>1
    <3>3. \A j \in 1 .. Len(g[m]) : j \in 1 .. Len(g[k])
      BY <2>2, <3>2
    <3>4. Len(g[m]) <= Len(g[k + 1])
      BY <2>2, <2>5, <3>1, <3>2
    <3>5. \A i \in 1 .. Len(g[m]) : g[k + 1][i] = g[m][i]
      BY <2>2, <2>5, <3>1, <3>3
    <3> QED BY <2>1, <3>4, <3>5
  <2> QED BY <2>1, <2>2, <2>4, <2>5
<1>3. n - m \in Nat /\ m + (n - m) = n
  OBVIOUS
<1>4. Begins(n)
  <2> HIDE DEF Good, Begins
  <2>1. Nat \subseteq Good
    BY <1>1, <1>2, SetInduction
  <2>2. n - m \in Good
    BY <1>3, <2>1
  <2> QED BY <1>3, <2>2 DEF Good
<1>5. g[m] \in Seq(Int) /\ g[n] \in Seq(Int) /\ Len(g[m]) \in Nat /\ Len(g[n]) \in Nat
  BY <1>0
<1>6. SubSeq(g[m], 1, Len(g[m])) = SubSeq(g[n], 1, Len(g[m]))
  <2> DEFINE l == Len(g[m])
             a == SubSeq(g[m], 1, l)
             b == SubSeq(g[n], 1, l)
  <2>1. /\ \A i \in 1 .. l : g[m][i] \in Int
        /\ \A i \in 1 .. l : g[n][i] \in Int
    <3>1. \A i \in 1 .. Len(g[m]) : i \in 1 .. Len(g[n])
      BY <1>4, <1>5
    <3> QED BY <1>5, <3>1, ElementOfSeq
  <2>2. a \in Seq(Int) /\ Len(a) = (IF 1 <= l THEN l - 1 + 1 ELSE 0)
        /\ \A i \in 1 .. l - 1 + 1 : a[i] = g[m][1 + i - 1]
    BY <1>5, <2>1, SubSeqProperties
  <2>3. b \in Seq(Int) /\ Len(b) = (IF 1 <= l THEN l - 1 + 1 ELSE 0)
        /\ \A i \in 1 .. l - 1 + 1 : b[i] = g[n][1 + i - 1]
    BY <1>5, <2>1, SubSeqProperties
  <2> HIDE DEF a, b
  <2>4. Len(a) = l /\ Len(b) = l /\ l - 1 + 1 = l /\ \A i \in 1 .. l : 1 + i - 1 = i
    BY <1>5, <2>2, <2>3
  <2>5. \A i \in 1 .. Len(a) : a[i] = b[i]
    BY <1>4, <2>2, <2>3, <2>4
  <2>6. a = b
    BY <2>2, <2>3, <2>4, <2>5, SeqEqual
  <2> QED BY <2>6 DEF a, b
<1> QED BY <1>4, <1>6 DEF IsPrefix

\* What may be replayed.
Sources == [prices : Seq(Prices), liquid : BOOLEAN, progress : {0, 20, 50, 80}]

\* A series that is long enough has a table of what its trades earn.
LEMMA TradesEarned ==
    ASSUME NEW run \in Runs, NEW source \in Sources, Len(source.prices) >= MinSeries
    PROVE  /\ Len(source.prices) - 1 \in Nat
           /\ \E g : /\ IsEarned(g, run, source, Len(source.prices) - 1)
                     /\ Trades(run, source) = g[Len(source.prices) - 1]
<1> DEFINE n == Len(source.prices) - 1
<1>1. source.prices \in Seq(Prices) /\ Len(source.prices) \in Nat /\ MinSeries \in Nat \ {0}
  BY BacktestAssumption, LenProperties DEF Sources
<1>2. n \in Nat /\ ~ (Len(source.prices) < MinSeries)
  BY <1>1
<1>3. PICK g : IsEarned(g, run, source, n) /\ Entries(run, source) = g[n]
  BY <1>1, <1>2, EntriesStep
<1>4. Trades(run, source) = Entries(run, source)
  BY <1>2 DEF Trades
<1> QED BY <1>2, <1>3, <1>4

\* The trades of a replay earn amounts, and those keep to the limits of the form.
LEMMA TradesTyped ==
    ASSUME NEW run \in Runs, NEW source \in Sources
    PROVE  Trades(run, source) \in Seq(Int) /\ Within(Trades(run, source), run.limits)
<1> DEFINE n == Len(source.prices) - 1
<1>1. source.prices \in Seq(Prices) /\ Len(source.prices) \in Nat /\ MinSeries \in Nat
  BY BacktestAssumption, LenProperties DEF Sources
<1>2. CASE Len(source.prices) < MinSeries
  <2>1. Trades(run, source) = <<>>
    BY <1>2 DEF Trades
  <2> QED BY <2>1 DEF Within
<1>3. CASE Len(source.prices) >= MinSeries
  <2>1. PICK g : IsEarned(g, run, source, n) /\ Trades(run, source) = g[n]
    BY <1>3, TradesEarned
  <2>2. n \in Nat
    BY <1>3, TradesEarned
  <2>3. Within(g[n], run.limits)
    BY <1>1, <2>1, <2>2, EarnedWithin
  <2>4. g[n] \in Seq(Int)
    BY <2>1, <2>2 DEF IsEarned
  <2> QED BY <2>1, <2>3, <2>4
<1> QED BY <1>1, <1>2, <1>3

\* The first n prices, and the first k of those.
LEMMA FirstPrices ==
    ASSUME NEW h \in Seq(Prices), NEW n \in 1 .. Len(h)
    PROVE  /\ SubSeq(h, 1, n) \in Seq(Prices) /\ Len(SubSeq(h, 1, n)) = n
           /\ \A k \in 1 .. n : SubSeq(h, 1, n)[k] = h[k]
<1>1. Len(h) \in Nat /\ \A i \in 1 .. n : h[i] \in Prices
  BY LenProperties
<1>2. /\ SubSeq(h, 1, n) \in Seq(Prices)
      /\ Len(SubSeq(h, 1, n)) = (IF 1 <= n THEN n - 1 + 1 ELSE 0)
      /\ \A i \in 1 .. n - 1 + 1 : SubSeq(h, 1, n)[i] = h[1 + i - 1]
  BY <1>1, SubSeqProperties
<1>3. n - 1 + 1 = n /\ \A i \in 1 .. n : 1 + i - 1 = i
  BY <1>1
<1> QED BY <1>1, <1>2, <1>3

\* Series that agree up to a bar have the same first prices.
LEMMA SameFirst ==
    ASSUME NEW h \in Seq(Prices), NEW x \in Seq(Prices), NEW n \in Nat, n <= Len(h), n <= Len(x),
           \A k \in 1 .. n : h[k] = x[k]
    PROVE  \A k \in 1 .. n : SubSeq(h, 1, k) = SubSeq(x, 1, k)
<1> SUFFICES ASSUME NEW k \in 1 .. n PROVE SubSeq(h, 1, k) = SubSeq(x, 1, k)
  OBVIOUS
<1>1. k \in 1 .. Len(h) /\ k \in 1 .. Len(x) /\ \A i \in 1 .. k : i \in 1 .. n
  BY LenProperties
<1>2. /\ SubSeq(h, 1, k) \in Seq(Prices) /\ Len(SubSeq(h, 1, k)) = k
      /\ \A i \in 1 .. k : SubSeq(h, 1, k)[i] = h[i]
  BY <1>1, FirstPrices
<1>3. /\ SubSeq(x, 1, k) \in Seq(Prices) /\ Len(SubSeq(x, 1, k)) = k
      /\ \A i \in 1 .. k : SubSeq(x, 1, k)[i] = x[i]
  BY <1>1, FirstPrices
<1>4. \A i \in 1 .. Len(SubSeq(h, 1, k)) : SubSeq(h, 1, k)[i] = SubSeq(x, 1, k)[i]
  BY <1>1, <1>2, <1>3
<1> QED BY <1>2, <1>3, <1>4, SeqEqual

\* On the first n prices, known, the backtest makes the trades it makes on all of them
\* until then, and as many of them if the last of the n is p.
NoForesightTo(run, source, n, p, known) ==
    /\ IsPrefix(Trades(run, [source EXCEPT !.prices = known]), Trades(run, source))
    /\ Len(Trades(run, [source EXCEPT !.prices = [known EXCEPT ![n] = p]]))
         = Len(Trades(run, [source EXCEPT !.prices = known]))

\* The backtest does not look ahead.
LEMMA NoForesightAt ==
    ASSUME NEW run \in Runs, NEW source \in Sources, NEW n \in 1 .. Len(source.prices),
           NEW p \in Prices, NEW known, known = SubSeq(source.prices, 1, n)
    PROVE  NoForesightTo(run, source, n, p, known)
<1> DEFINE other == [known EXCEPT ![n] = p]
           a == [source EXCEPT !.prices = known]
           b == [source EXCEPT !.prices = other]
           h == source.prices
           N == Len(h) - 1
           m == n - 1
<1>1. h \in Seq(Prices) /\ Len(h) \in Nat /\ MinSeries \in Nat \ {0} /\ n \in Nat /\ n <= Len(h)
  BY BacktestAssumption, LenProperties DEF Sources
<1>2. known \in Seq(Prices) /\ Len(known) = n /\ \A k \in 1 .. n : known[k] = h[k]
  BY <1>1, FirstPrices
<1>3. other \in Seq(Prices) /\ Len(other) = n /\ \A k \in 1 .. n - 1 : other[k] = known[k]
  <2>1. n \in 1 .. Len(known)
    BY <1>1, <1>2
  <2>2. [known EXCEPT ![n] = p] \in Seq(Prices) /\ Len([known EXCEPT ![n] = p]) = Len(known)
    BY <1>2, <2>1, ExceptSeq
  <2>3. \A k \in 1 .. n - 1 : [known EXCEPT ![n] = p][k] = known[k]
    <3>1. DOMAIN known = 1 .. n
      BY <1>2, LenProperties
    <3>2. \A k \in 1 .. n - 1 : k \in 1 .. n /\ k # n
      BY <1>1
    <3> QED BY <3>1, <3>2
  <2> QED BY <1>2, <2>2, <2>3
<1>4. /\ a \in Sources /\ a.prices = known /\ a.liquid = source.liquid /\ a.progress = source.progress
      /\ b \in Sources /\ b.prices = other /\ b.liquid = source.liquid /\ b.progress = source.progress
  BY <1>2, <1>3 DEF Sources
<1> HIDE DEF a, b, other
<1>5. CASE n < MinSeries
  <2>1. Trades(run, a) = <<>> /\ Trades(run, b) = <<>>
    BY <1>2, <1>3, <1>4, <1>5 DEF Trades
  <2>2. Trades(run, source) \in Seq(Int)
    BY TradesTyped
  <2>3. Len(Trades(run, source)) \in Nat /\ Len(<<>>) = 0
    BY <2>2, LenProperties
  <2>4. SubSeq(<<>>, 1, 0) = <<>> /\ SubSeq(Trades(run, source), 1, 0) = <<>>
    BY SubSeqEmpty
  <2>5. IsPrefix(<<>>, Trades(run, source))
    BY <2>3, <2>4 DEF IsPrefix
  <2> QED BY <2>1, <2>5 DEF a, b, other, NoForesightTo
<1>6. CASE n >= MinSeries
  <2>1. m \in Nat /\ N \in Nat /\ m <= N /\ m \in 0 .. N /\ Len(h) >= MinSeries
    BY <1>1, <1>6
  <2>2. PICK ga : IsEarned(ga, run, a, m) /\ Trades(run, a) = ga[m]
    BY <1>2, <1>4, <1>6, TradesEarned
  <2>3. PICK gb : IsEarned(gb, run, b, m) /\ Trades(run, b) = gb[m]
    BY <1>3, <1>4, <1>6, TradesEarned
  <2>4. PICK g : IsEarned(g, run, source, N) /\ Trades(run, source) = g[N]
    BY <2>1, TradesEarned
  <2>5. SameBars(a, source, m)
    <3>1. m <= Len(known) /\ m <= Len(h) /\ \A k \in 1 .. m : known[k] = h[k]
      BY <1>1, <1>2
    <3> QED BY <1>1, <1>2, <1>4, <2>1, <3>1, SameFirst DEF SameBars
  <2>6. SameBars(b, a, m)
    <3>1. m <= Len(known) /\ m <= Len(other) /\ \A k \in 1 .. m : other[k] = known[k]
      BY <1>1, <1>2, <1>3
    <3> QED BY <1>2, <1>3, <1>4, <2>1, <3>1, SameFirst DEF SameBars
  <2>7. Earns(ga, run, a) /\ Earns(gb, run, b) /\ Earns(g, run, source)
    <3>1. m = Len(a.prices) - 1 /\ m = Len(b.prices) - 1 /\ N = Len(source.prices) - 1
      BY <1>1, <1>2, <1>3, <1>4
    <3> QED BY <1>1, <1>2, <1>3, <1>4, <2>1, <2>2, <2>3, <2>4, <3>1 DEF Earns
  <2>8. m <= Len(a.prices) - 1 /\ m <= Len(b.prices) - 1 /\ m <= Len(source.prices) - 1
    BY <1>1, <1>2, <1>3, <1>4
  <2>9. ga[m] = g[m]
    <3>1. m + 1 = n /\ \A k \in 1 .. m + 1 : a.prices[k] = source.prices[k]
      BY <1>1, <1>2, <1>4
    <3> HIDE DEF m, N, h
    <3> QED BY <2>1, <2>5, <2>7, <2>8, <3>1, SameTrades
  <2>10. Len(gb[m]) = Len(ga[m])
    <3> HIDE DEF m, N, h
    <3> QED BY <2>1, <2>6, <2>7, <2>8, SameTrades
  <2>11. IsPrefix(g[m], g[N])
    BY <1>1, <2>1, <2>4, EarnedIsPrefix
  <2> QED BY <2>2, <2>3, <2>4, <2>9, <2>10, <2>11 DEF a, b, other, NoForesightTo
<1> QED BY <1>1, <1>5, <1>6

\* c is the balance at the start and after every trade.
IsBalance(c, pnls) ==
    /\ c \in Seq(Int) /\ Len(c) = Len(pnls) + 1
    /\ c[1] = Unit
    /\ \A k \in 1 .. Len(pnls) : c[k + 1] = c[k] + pnls[k]

\* The equity curve starts with 1 SOL and adds what each trade earns.
LEMMA EquityIs ==
    ASSUME NEW pnls \in Seq(Int)
    PROVE  IsBalance(Equity(pnls), pnls)
<1> DEFINE n == Len(pnls)
           op(curve, p) == Append(curve, Last(curve) + p)
           eqn(h) == h = [t \in SUBSET (1 .. n) |->
                             IF t = {} THEN <<Unit>> ELSE op(h[t \ {Max(t)}], pnls[Max(t)])]
           iter == CHOOSE h : eqn(h)
           Q == {c \in Seq(Int) : Len(c) > 0}
           e == <<Unit>>
           f == [p \in Q \X Int |-> op(p[1], p[2])]
<1>0. n \in Nat /\ pnls \in [1 .. n -> Int] /\ DOMAIN pnls = 1 .. n /\ Unit \in Int
  BY LenProperties, BacktestAssumption
<1>1. f \in [Q \X Int -> Q]
  <2>1. ASSUME NEW p \in Q \X Int PROVE op(p[1], p[2]) \in Q
    <3> DEFINE c == p[1]
    <3>1. c \in Seq(Int) /\ Len(c) \in Nat /\ Len(c) > 0 /\ p[2] \in Int
      BY LenProperties
    <3>2. Last(c) + p[2] \in Int
      BY <3>1 DEF Last
    <3>3. Append(c, Last(c) + p[2]) \in Seq(Int) /\ Len(Append(c, Last(c) + p[2])) = Len(c) + 1
      BY <3>1, <3>2, AppendProperties
    <3> QED BY <3>1, <3>3
  <2> HIDE DEF op, Q
  <2> QED BY <2>1
<1>2. e \in Q
  BY <1>0
<1> HIDE DEF f, Q, e, n
<1>3. PICK h : IsTable(h, f, e, n, pnls, Q)
  <2>1. Combines(f, Int, Q) /\ HasElements(pnls, n, Int)
    BY <1>0, <1>1 DEF Combines, HasElements
  <2> QED BY <1>0, <1>2, <2>1, FoldTable
<1>4. eqn(h)
  <2>1. ASSUME NEW t \in SUBSET (1 .. n), t # {}
        PROVE  f[<<h[t \ {Max(t)}], pnls[Max(t)]>>] = op(h[t \ {Max(t)}], pnls[Max(t)])
    <3>1. Max(t) \in 1 .. n
      BY <1>0, <2>1, MaxIsIn
    <3>2. h[t \ {Max(t)}] \in Q /\ pnls[Max(t)] \in Int
      BY <3>1, <1>0, <1>3 DEF IsTable
    <3> HIDE DEF op
    <3> QED BY <3>2 DEF f
  <2> HIDE DEF op
  <2> QED BY <1>3, <2>1 DEF e, IsTable
<1>5. eqn(iter)
  <2> HIDE DEF eqn
  <2> QED BY <1>4
<1>6. Equity(pnls) = iter[1 .. n]
  BY <1>0 DEF Equity, FoldLeft, MapThenFoldSet
<1> HIDE DEF iter, op
<1>7. Follows(iter, f, e, n, pnls, Q)
  <2>1. {} \in SUBSET (1 .. n)
    OBVIOUS
  <2>2. ASSUME NEW t \in SUBSET (1 .. n), t # {}, iter[t \ {Max(t)}] \in Q
        PROVE  iter[t] = f[<<iter[t \ {Max(t)}], pnls[Max(t)]>>]
    <3>1. Max(t) \in 1 .. n /\ pnls[Max(t)] \in Int
      BY <1>0, <2>2, MaxIsIn
    <3>2. iter[t] = op(iter[t \ {Max(t)}], pnls[Max(t)])
      BY <1>5, <2>2
    <3> QED BY <2>2, <3>1, <3>2 DEF f
  <2> QED BY <1>5, <2>1, <2>2 DEF Follows, e
<1> HIDE DEF eqn
<1>8. PICK g : IsRun(g, f, e, n, pnls, Q) /\ g[n] = iter[1 .. n]
  <2>1. Combines(f, Int, Q) /\ HasElements(pnls, n, Int)
    BY <1>0, <1>1 DEF Combines, HasElements
  <2> QED BY <1>0, <1>2, <1>7, <2>1, FoldRun
<1>9. ASSUME NEW k \in 1 .. n PROVE g[k] = op(g[k - 1], pnls[k])
  <2>1. k - 1 \in 0 .. n /\ pnls[k] \in Int
    BY <1>0
  <2>2. g[k - 1] \in Q /\ g[k] = f[<<g[k - 1], pnls[k]>>]
    BY <1>8, <2>1 DEF IsRun
  <2> QED BY <2>1, <2>2 DEF f
<1> DEFINE Is(k) == /\ g[k] \in Seq(Int) /\ Len(g[k]) = k + 1
                    /\ g[k][1] = Unit
                    /\ \A i \in 1 .. k : g[k][i + 1] = g[k][i] + pnls[i]
           Good == {k \in Nat : k <= n => Is(k)}
<1>10. 0 \in Good
  <2>1. g[0] = <<Unit>>
    BY <1>8 DEF IsRun, e
  <2>2. <<Unit>> \in Seq(Int) /\ Len(<<Unit>>) = 0 + 1 /\ <<Unit>>[1] = Unit
    BY <1>0
  <2>3. Is(0)
    BY <2>1, <2>2
  <2> QED BY <2>3
<1>11. ASSUME NEW k \in Nat, k \in Good PROVE k + 1 \in Good
  <2> SUFFICES ASSUME k + 1 <= n PROVE Is(k + 1)
    OBVIOUS
  <2> DEFINE c == g[k]
             x == Last(c) + pnls[k + 1]
  <2>1. k + 1 \in 1 .. n /\ (k + 1) - 1 = k
    BY <1>0
  <2>2. c \in Seq(Int) /\ Len(c) = k + 1 /\ c[1] = Unit /\ \A i \in 1 .. k : c[i + 1] = c[i] + pnls[i]
    <3>1. k <= n
      BY <1>0
    <3> QED BY <1>11, <3>1
  <2>3. x \in Int /\ x = c[k + 1] + pnls[k + 1]
    BY <1>0, <2>1, <2>2 DEF Last
  <2>4. g[k + 1] = Append(c, x)
    BY <1>9, <2>1 DEF op
  <2> HIDE DEF c, x
  <2>5. /\ Append(c, x) \in Seq(Int)
        /\ Len(Append(c, x)) = Len(c) + 1
        /\ \A i \in 1 .. Len(c) : Append(c, x)[i] = c[i]
        /\ Append(c, x)[Len(c) + 1] = x
    BY <2>2, <2>3, AppendProperties
  <2>6. ASSUME NEW i \in 1 .. (k + 1) PROVE g[k + 1][i + 1] = g[k + 1][i] + pnls[i]
    <3>1. CASE i = k + 1
      BY <2>2, <2>3, <2>4, <2>5, <3>1
    <3>2. CASE i \in 1 .. k
      <4>1. i \in 1 .. (k + 1) /\ i + 1 \in 1 .. (k + 1)
        BY <3>2
      <4> QED BY <2>2, <2>4, <2>5, <3>2, <4>1
    <3> QED BY <3>1, <3>2
  <2>7. 1 \in 1 .. (k + 1)
    OBVIOUS
  <2> QED BY <2>2, <2>4, <2>5, <2>6, <2>7
<1>12. Is(n)
  <2> HIDE DEF Good, Is
  <2>1. Nat \subseteq Good
    BY <1>10, <1>11, SetInduction
  <2> QED BY <1>0, <2>1 DEF Good
<1> QED BY <1>6, <1>8, <1>12 DEF IsBalance, n

\* A fall below the peak, rounded to millionths of it.
Rounded(peak, equity) == (2 * Million * (peak - equity) + peak) \div (2 * peak)

\* A fall of a millionth is not rounded to 0, and where nothing falls nothing is found.
LEMMA RoundedFall ==
    ASSUME NEW peak \in Nat \ {0}, NEW equity \in Int, equity <= peak
    PROVE  /\ Rounded(peak, equity) \in Nat
           /\ Million * (peak - equity) >= peak => Rounded(peak, equity) > 0
           /\ Rounded(peak, equity) > 0 => equity < peak
<1> DEFINE a == 2 * Million * (peak - equity) + peak
           b == 2 * peak
           q == a \div b
<1>1. a \in Nat /\ b \in Nat \ {0}
  BY SMT DEF Million
<1> HIDE DEF a, b
<1>2. q \in Nat /\ (a >= b => q > 0) /\ (q > 0 => a >= b)
  BY <1>1
<1> HIDE DEF q
<1>3. Million * (peak - equity) >= peak => a >= b
  BY SMT DEF a, b, Million
<1>4. a >= b => equity < peak
  BY SMT DEF a, b, Million
<1> QED BY <1>2, <1>3, <1>4 DEF Rounded, a, b, q

\* d tells whether the curve c falls: it is not 0 if c falls by a millionth of where the
\* fall starts, and 0 if c never falls.
TellsFalls(d, c) ==
    /\ d \in Nat
    /\ \A j \in 1 .. Len(c) : \A i \in 1 .. j : Million * (c[i] - c[j]) >= c[i] => d > 0
    /\ d > 0 => \E j \in 1 .. Len(c) : \E i \in 1 .. j : c[i] > c[j]

\* The drawdown that Python finds with a balance of its own is that of the equity curve.
LEMMA FallsTell ==
    ASSUME NEW pnls \in Seq(Int), NEW c, IsBalance(c, pnls)
    PROVE  TellsFalls(Falls(pnls).deepest, c)
<1> DEFINE n == Len(pnls)
           op(m, p) ==
             LET equity == m.equity + p
                 peak   == IF equity > m.peak THEN equity ELSE m.peak
                 fall   == (2 * Million * (peak - equity) + peak) \div (2 * peak)
             IN [equity |-> equity, peak |-> peak,
                 deepest |-> IF fall > m.deepest THEN fall ELSE m.deepest]
           eqn(h) == h = [t \in SUBSET (1 .. n) |->
                             IF t = {} THEN [equity |-> Unit, peak |-> Unit, deepest |-> 0]
                             ELSE op(h[t \ {Max(t)}], pnls[Max(t)])]
           iter == CHOOSE h : eqn(h)
           Q == [equity : Int, peak : Nat \ {0}, deepest : Nat]
           e == [equity |-> Unit, peak |-> Unit, deepest |-> 0]
           f == [p \in Q \X Int |-> op(p[1], p[2])]
           Up(m, p) == IF m.equity + p > m.peak THEN m.equity + p ELSE m.peak
<1>0. n \in Nat /\ pnls \in [1 .. n -> Int] /\ DOMAIN pnls = 1 .. n /\ Unit \in Nat \ {0}
  BY LenProperties, BacktestAssumption
<1>a. ASSUME NEW m \in Q, NEW p \in Int
      PROVE  /\ op(m, p) \in Q
             /\ op(m, p).equity = m.equity + p
             /\ op(m, p).peak = Up(m, p)
             /\ Up(m, p) \in Nat \ {0} /\ m.equity + p <= Up(m, p)
             /\ op(m, p).deepest = IF Rounded(Up(m, p), m.equity + p) > m.deepest
                                   THEN Rounded(Up(m, p), m.equity + p) ELSE m.deepest
  <2>1. Up(m, p) \in Nat \ {0} /\ m.equity + p <= Up(m, p) /\ m.equity + p \in Int
    OBVIOUS
  <2>2. Rounded(Up(m, p), m.equity + p) \in Nat
    BY <2>1, RoundedFall
  <2>3. op(m, p) = [equity |-> m.equity + p, peak |-> Up(m, p),
                    deepest |-> IF Rounded(Up(m, p), m.equity + p) > m.deepest
                                THEN Rounded(Up(m, p), m.equity + p) ELSE m.deepest]
    BY DEF Rounded
  <2> HIDE DEF op, Up
  <2>4. (IF Rounded(Up(m, p), m.equity + p) > m.deepest
         THEN Rounded(Up(m, p), m.equity + p) ELSE m.deepest) \in Nat
    BY <2>2
  <2> QED BY <2>1, <2>3, <2>4
<1>1. f \in [Q \X Int -> Q]
  <2> HIDE DEF op, Q, Up
  <2> QED BY <1>a
<1>2. e \in Q
  BY <1>0
<1> HIDE DEF f, Q, e, n, Up
<1>3. PICK h : IsTable(h, f, e, n, pnls, Q)
  <2>1. Combines(f, Int, Q) /\ HasElements(pnls, n, Int)
    BY <1>0, <1>1 DEF Combines, HasElements
  <2> QED BY <1>0, <1>2, <2>1, FoldTable
<1>4. eqn(h)
  <2>1. ASSUME NEW t \in SUBSET (1 .. n), t # {}
        PROVE  f[<<h[t \ {Max(t)}], pnls[Max(t)]>>] = op(h[t \ {Max(t)}], pnls[Max(t)])
    <3>1. Max(t) \in 1 .. n
      BY <1>0, <2>1, MaxIsIn
    <3>2. h[t \ {Max(t)}] \in Q /\ pnls[Max(t)] \in Int
      BY <3>1, <1>0, <1>3 DEF IsTable
    <3> HIDE DEF op
    <3> QED BY <3>2 DEF f
  <2> HIDE DEF op
  <2> QED BY <1>3, <2>1 DEF e, IsTable
<1>5. eqn(iter)
  <2> HIDE DEF eqn
  <2> QED BY <1>4
<1>6. Falls(pnls) = iter[1 .. n]
  BY <1>0 DEF Falls, FoldLeft, MapThenFoldSet
<1> HIDE DEF iter, op
<1>7. Follows(iter, f, e, n, pnls, Q)
  <2>1. {} \in SUBSET (1 .. n)
    OBVIOUS
  <2>2. ASSUME NEW t \in SUBSET (1 .. n), t # {}, iter[t \ {Max(t)}] \in Q
        PROVE  iter[t] = f[<<iter[t \ {Max(t)}], pnls[Max(t)]>>]
    <3>1. Max(t) \in 1 .. n /\ pnls[Max(t)] \in Int
      BY <1>0, <2>2, MaxIsIn
    <3>2. iter[t] = op(iter[t \ {Max(t)}], pnls[Max(t)])
      BY <1>5, <2>2
    <3> QED BY <2>2, <3>1, <3>2 DEF f
  <2> QED BY <1>5, <2>1, <2>2 DEF Follows, e
<1> HIDE DEF eqn
<1>8. PICK g : IsRun(g, f, e, n, pnls, Q) /\ g[n] = iter[1 .. n]
  <2>1. Combines(f, Int, Q) /\ HasElements(pnls, n, Int)
    BY <1>0, <1>1 DEF Combines, HasElements
  <2> QED BY <1>0, <1>2, <1>7, <2>1, FoldRun
<1>9. ASSUME NEW k \in 1 .. n PROVE g[k - 1] \in Q /\ g[k] = op(g[k - 1], pnls[k])
  <2>1. k - 1 \in 0 .. n /\ pnls[k] \in Int
    BY <1>0
  <2>2. g[k - 1] \in Q /\ g[k] = f[<<g[k - 1], pnls[k]>>]
    BY <1>8, <2>1 DEF IsRun
  <2> QED BY <2>1, <2>2 DEF f
<1>b. /\ c \in [1 .. n + 1 -> Int] /\ Len(c) = n + 1 /\ c[1] = Unit
      /\ \A k \in 1 .. n : c[k + 1] = c[k] + pnls[k]
  <2>1. c \in Seq(Int) /\ Len(c) = n + 1
    BY DEF IsBalance, n
  <2>2. c \in [1 .. Len(c) -> Int]
    BY <2>1, LenProperties
  <2> QED BY <2>1, <2>2 DEF IsBalance, n
<1> DEFINE Is(k) ==
             LET m == g[k]
             IN /\ m \in Q
                /\ m.equity = c[k + 1]
                /\ \A i \in 1 .. k + 1 : c[i] <= m.peak
                /\ \E i \in 1 .. k + 1 : c[i] = m.peak
                /\ \A j \in 1 .. k + 1 : \A i \in 1 .. j : Million * (c[i] - c[j]) >= c[i] => m.deepest > 0
                /\ m.deepest > 0 => \E j \in 1 .. k + 1 : \E i \in 1 .. j : c[i] > c[j]
           Good == {k \in Nat : k <= n => Is(k)}
<1>10. Is(0)
  <2>1. g[0] = e /\ e.equity = Unit /\ e.peak = Unit /\ e.deepest = 0
    BY <1>8 DEF IsRun, e
  <2>2. \A i \in 1 .. 0 + 1 : i = 1
    OBVIOUS
  <2>3. c[0 + 1] = Unit /\ 1 \in 1 .. 0 + 1
    BY <1>b
  <2>4. ASSUME NEW j \in 1 .. 0 + 1, NEW i \in 1 .. j PROVE ~ (Million * (c[i] - c[j]) >= c[i])
    <3>1. i = 1 /\ j = 1
      OBVIOUS
    <3> QED BY <1>0, <1>b, <3>1, SMT DEF Million
  <2> QED BY <1>0, <1>2, <1>b, <2>1, <2>2, <2>3, <2>4
<1>11. ASSUME NEW k \in Nat, k + 1 <= n, Is(k) PROVE Is(k + 1)
  <2> DEFINE m == g[k]
             p == pnls[k + 1]
             x == c[k + 2]
             y == Up(m, p)
             r == Rounded(y, x)
             q == g[k + 1]
  <2>1. k + 1 \in 1 .. n /\ (k + 1) - 1 = k /\ (k + 1) + 1 = k + 2 /\ p \in Int
    <3>1. k + 1 \in 1 .. n
      BY <1>0, <1>11
    <3> QED BY <1>0, <3>1
  <2>2. m \in Q /\ q = op(m, p)
    BY <1>9, <2>1
  <2>3. m.equity + p = x /\ x \in Int
    <3>1. k + 2 \in 1 .. n + 1
      BY <1>0, <2>1
    <3> QED BY <1>11, <1>b, <2>1, <3>1
  <2>4. /\ q \in Q /\ q.equity = x /\ q.peak = y /\ y \in Nat \ {0} /\ x <= y
        /\ q.deepest = IF r > m.deepest THEN r ELSE m.deepest
    <3> HIDE DEF m, p, x
    <3>1. /\ op(m, p) \in Q /\ op(m, p).equity = m.equity + p /\ op(m, p).peak = Up(m, p)
          /\ Up(m, p) \in Nat \ {0} /\ m.equity + p <= Up(m, p)
          /\ op(m, p).deepest = IF Rounded(Up(m, p), m.equity + p) > m.deepest
                                THEN Rounded(Up(m, p), m.equity + p) ELSE m.deepest
      BY <1>a, <2>1, <2>2
    <3> QED BY <2>2, <2>3, <3>1
  <2>5. y = IF x > m.peak THEN x ELSE m.peak
    BY <2>3 DEF Up
  <2>6. r \in Nat /\ (Million * (y - x) >= y => r > 0) /\ (r > 0 => x < y)
    BY <2>3, <2>4, RoundedFall
  <2>7. m.peak \in Nat /\ m.deepest \in Nat
    BY <2>2 DEF Q
  <2>8. /\ \A i \in 1 .. k + 1 : c[i] <= m.peak
        /\ \E i \in 1 .. k + 1 : c[i] = m.peak
        /\ \A j \in 1 .. k + 1 : \A i \in 1 .. j : Million * (c[i] - c[j]) >= c[i] => m.deepest > 0
        /\ m.deepest > 0 => \E j \in 1 .. k + 1 : \E i \in 1 .. j : c[i] > c[j]
    BY <1>11
  <2>9. /\ \A i \in 1 .. k + 2 : i \in 1 .. k + 1 \/ i = k + 2
        /\ \A i \in 1 .. k + 1 : i \in 1 .. k + 2
        /\ k + 2 \in 1 .. k + 2
        /\ \A i \in 1 .. k + 2 : c[i] \in Int
    <3>1. \A i \in 1 .. k + 2 : i \in 1 .. n + 1
      BY <1>0, <2>1
    <3> QED BY <1>b, <3>1
  <2> HIDE DEF m, p, x, y, r, q
  <2>10. \A i \in 1 .. k + 2 : c[i] <= y
    <3>1. \A i \in 1 .. k + 1 : c[i] <= y
      BY <2>3, <2>5, <2>7, <2>8, <2>9
    <3> QED BY <2>4, <2>9, <3>1 DEF x
  <2>11. \E i \in 1 .. k + 2 : c[i] = y
    BY <2>5, <2>8, <2>9 DEF x
  <2>12. q.deepest >= m.deepest /\ q.deepest >= r /\ q.deepest \in Nat
         /\ (q.deepest > 0 => m.deepest > 0 \/ r > 0)
    BY <2>4, <2>6, <2>7
  <2>13. ASSUME NEW j \in 1 .. k + 2, NEW i \in 1 .. j, Million * (c[i] - c[j]) >= c[i]
         PROVE  q.deepest > 0
    <3>1. CASE j \in 1 .. k + 1
      <4>1. m.deepest > 0
        BY <2>8, <2>13, <3>1
      <4> QED BY <2>7, <2>12, <4>1
    <3>2. CASE j = k + 2
      <4>1. i \in 1 .. k + 2 /\ c[j] = x
        BY <3>2 DEF x
      <4>2. c[i] <= y /\ c[i] \in Int
        BY <2>9, <2>10, <4>1
      <4>3. Million * (c[i] - x) >= c[i]
        BY <2>13, <4>1
      <4>4. Million * (y - x) >= y
        BY <2>3, <2>4, <4>2, <4>3, SMT DEF Million
      <4> QED BY <2>6, <2>12, <4>4
    <3> QED BY <2>9, <3>1, <3>2
  <2>14. ASSUME q.deepest > 0 PROVE \E j \in 1 .. k + 2 : \E i \in 1 .. j : c[i] > c[j]
    <3>1. CASE m.deepest > 0
      BY <2>8, <2>9, <3>1
    <3>2. CASE r > 0
      <4>1. PICK i \in 1 .. k + 2 : c[i] = y
        BY <2>11
      <4>2. c[i] > c[k + 2]
        BY <2>3, <2>4, <2>6, <3>2, <4>1 DEF x
      <4> QED BY <2>9, <4>2
    <3> QED BY <2>12, <2>14, <3>1, <3>2
  <2> QED BY <2>1, <2>4, <2>10, <2>11, <2>13, <2>14 DEF q, x
<1>12. Is(n)
  <2> HIDE DEF Is
  <2>1. 0 \in Good
    BY <1>10
  <2>2. ASSUME NEW k \in Nat, k \in Good PROVE k + 1 \in Good
    <3> SUFFICES ASSUME k + 1 <= n PROVE Is(k + 1)
      OBVIOUS
    <3>1. k <= n
      BY <1>0
    <3> QED BY <1>11, <2>2, <3>1
  <2> HIDE DEF Good
  <2>3. Nat \subseteq Good
    BY <2>1, <2>2, SetInduction
  <2> QED BY <1>0, <2>3 DEF Good
<1>13. g[n].deepest \in Nat
  BY <1>12 DEF Q
<1> QED BY <1>6, <1>8, <1>12, <1>13, <1>b DEF TellsFalls

\* d is the deepest fall of the curve c from any point to a later one.
IsDeepest(d, c) ==
    /\ \E j \in 1 .. Len(c) : \E i \in 1 .. j : c[i] - c[j] = d
    /\ \A j \in 1 .. Len(c) : \A i \in 1 .. j : c[i] - c[j] <= d

\* The panel finds the deepest fall of the curve it was sent.
LEMMA TroughsFind ==
    ASSUME NEW c \in Seq(Int), Len(c) > 0
    PROVE  IsDeepest(PeakToTrough(c), c)
<1> DEFINE n == Len(c)
           op(m, v) ==
             LET peak == IF v > m.peak THEN v ELSE m.peak
             IN [peak |-> peak, deepest |-> IF peak - v > m.deepest THEN peak - v ELSE m.deepest]
           eqn(h) == h = [t \in SUBSET (1 .. n) |->
                             IF t = {} THEN [peak |-> Head(c), deepest |-> 0]
                             ELSE op(h[t \ {Max(t)}], c[Max(t)])]
           iter == CHOOSE h : eqn(h)
           Q == [peak : Int, deepest : Int]
           e == [peak |-> Head(c), deepest |-> 0]
           f == [p \in Q \X Int |-> op(p[1], p[2])]
           Up(m, v) == IF v > m.peak THEN v ELSE m.peak
<1>0. n \in Nat /\ c \in [1 .. n -> Int] /\ DOMAIN c = 1 .. n /\ n > 0 /\ Head(c) = c[1]
  BY LenProperties
<1>a. ASSUME NEW m \in Q, NEW v \in Int
      PROVE  /\ op(m, v) \in Q
             /\ op(m, v).peak = Up(m, v)
             /\ op(m, v).deepest = IF Up(m, v) - v > m.deepest THEN Up(m, v) - v ELSE m.deepest
  OBVIOUS
<1>1. f \in [Q \X Int -> Q]
  <2> HIDE DEF op, Q, Up
  <2> QED BY <1>a
<1>2. e \in Q
  <2>1. 1 \in 1 .. n
    BY <1>0
  <2> QED BY <1>0, <2>1
<1> HIDE DEF f, Q, e, n, Up
<1>3. PICK h : IsTable(h, f, e, n, c, Q)
  <2>1. Combines(f, Int, Q) /\ HasElements(c, n, Int)
    BY <1>0, <1>1 DEF Combines, HasElements
  <2> QED BY <1>0, <1>2, <2>1, FoldTable
<1>4. eqn(h)
  <2>1. ASSUME NEW t \in SUBSET (1 .. n), t # {}
        PROVE  f[<<h[t \ {Max(t)}], c[Max(t)]>>] = op(h[t \ {Max(t)}], c[Max(t)])
    <3>1. Max(t) \in 1 .. n
      BY <1>0, <2>1, MaxIsIn
    <3>2. h[t \ {Max(t)}] \in Q /\ c[Max(t)] \in Int
      BY <3>1, <1>0, <1>3 DEF IsTable
    <3> HIDE DEF op
    <3> QED BY <3>2 DEF f
  <2> HIDE DEF op
  <2> QED BY <1>3, <2>1 DEF e, IsTable
<1>5. eqn(iter)
  <2> HIDE DEF eqn
  <2> QED BY <1>4
<1>6. Troughs(c) = iter[1 .. n]
  BY <1>0 DEF Troughs, FoldLeft, MapThenFoldSet
<1> HIDE DEF iter, op
<1>7. Follows(iter, f, e, n, c, Q)
  <2>1. {} \in SUBSET (1 .. n)
    OBVIOUS
  <2>2. ASSUME NEW t \in SUBSET (1 .. n), t # {}, iter[t \ {Max(t)}] \in Q
        PROVE  iter[t] = f[<<iter[t \ {Max(t)}], c[Max(t)]>>]
    <3>1. Max(t) \in 1 .. n /\ c[Max(t)] \in Int
      BY <1>0, <2>2, MaxIsIn
    <3>2. iter[t] = op(iter[t \ {Max(t)}], c[Max(t)])
      BY <1>5, <2>2
    <3> QED BY <2>2, <3>1, <3>2 DEF f
  <2> QED BY <1>5, <2>1, <2>2 DEF Follows, e
<1> HIDE DEF eqn
<1>8. PICK g : IsRun(g, f, e, n, c, Q) /\ g[n] = iter[1 .. n]
  <2>1. Combines(f, Int, Q) /\ HasElements(c, n, Int)
    BY <1>0, <1>1 DEF Combines, HasElements
  <2> QED BY <1>0, <1>2, <1>7, <2>1, FoldRun
<1>9. ASSUME NEW k \in 1 .. n PROVE g[k - 1] \in Q /\ g[k] = op(g[k - 1], c[k])
  <2>1. k - 1 \in 0 .. n /\ c[k] \in Int
    BY <1>0
  <2>2. g[k - 1] \in Q /\ g[k] = f[<<g[k - 1], c[k]>>]
    BY <1>8, <2>1 DEF IsRun
  <2> QED BY <2>1, <2>2 DEF f
\* The first k + 1 positions; the peak starts at the first.
<1> DEFINE To(k) == {i \in 1 .. n : i <= k \/ i = 1}
           Is(k) ==
             LET m == g[k]
             IN /\ m \in Q
                /\ \A i \in 1 .. k : c[i] <= m.peak
                /\ \E i \in To(k) : c[i] = m.peak
                /\ \E j \in To(k) : \E i \in 1 .. j : c[i] - c[j] = m.deepest
                /\ \A j \in 1 .. k : \A i \in 1 .. j : c[i] - c[j] <= m.deepest
           Good == {k \in Nat : k <= n => Is(k)}
<1>10. Is(0)
  <2>1. g[0] = e /\ e.peak = c[1] /\ e.deepest = 0
    BY <1>0, <1>8 DEF IsRun, e
  <2>2. 1 \in To(0) /\ 1 \in 1 .. 1 /\ c[1] - c[1] = 0 /\ 1 .. 0 = {}
    <3>1. 1 \in 1 .. n
      BY <1>0
    <3> QED BY <1>0, <3>1
  <2> HIDE DEF To
  <2> QED BY <1>2, <2>1, <2>2
<1>11. ASSUME NEW k \in Nat, k + 1 <= n, Is(k) PROVE Is(k + 1)
  <2> DEFINE m == g[k]
             x == c[k + 1]
             y == Up(m, x)
             q == g[k + 1]
  <2>1. k + 1 \in 1 .. n /\ (k + 1) - 1 = k
    <3> HIDE DEF Is
    <3> QED BY <1>0, <1>11
  <2>2. m \in Q /\ q = op(m, x) /\ x \in Int
    BY <1>0, <1>9, <2>1
  <2>3. m.peak \in Int /\ m.deepest \in Int
    BY <2>2 DEF Q
  <2>4. /\ q \in Q /\ q.peak = y
        /\ q.deepest = IF y - x > m.deepest THEN y - x ELSE m.deepest
    <3> HIDE DEF m, x
    <3> QED BY <1>a, <2>2
  <2>5. y = IF x > m.peak THEN x ELSE m.peak
    BY DEF Up
  <2>6. y \in Int /\ x <= y /\ m.peak <= y
    <3> HIDE DEF y, m, x
    <3> QED BY <2>2, <2>3, <2>5
  <2>7. /\ \A i \in 1 .. k : c[i] <= m.peak
        /\ \E i \in To(k) : c[i] = m.peak
        /\ \E j \in To(k) : \E i \in 1 .. j : c[i] - c[j] = m.deepest
        /\ \A j \in 1 .. k : \A i \in 1 .. j : c[i] - c[j] <= m.deepest
    BY <1>11
  <2>8. /\ \A i \in 1 .. k + 1 : i \in 1 .. k \/ i = k + 1
        /\ \A i \in To(k) : i \in To(k + 1) /\ i \in 1 .. k + 1
        /\ k + 1 \in To(k + 1) /\ k + 1 \in 1 .. k + 1
        /\ \A i \in 1 .. k + 1 : c[i] \in Int
    <3>1. \A i \in 1 .. k + 1 : i \in 1 .. n
      BY <1>0, <2>1
    <3> QED BY <1>0, <2>1, <3>1
  <2> HIDE DEF m, x, y, q, To
  <2>9. \A i \in 1 .. k + 1 : c[i] <= y
    <3>1. \A i \in 1 .. k : i \in 1 .. k + 1
      OBVIOUS
    <3>2. ASSUME NEW i \in 1 .. k PROVE c[i] <= y
      <4>1. c[i] \in Int
        BY <2>8, <3>1
      <4>2. c[i] <= m.peak
        BY <2>7
      <4> QED BY <2>3, <2>6, <4>1, <4>2
    <3> QED BY <2>6, <2>8, <3>2 DEF x
  <2>10. \E i \in To(k + 1) : i \in 1 .. k + 1 /\ c[i] = y
    BY <2>5, <2>7, <2>8 DEF x
  <2>11. \E j \in To(k + 1) : \E i \in 1 .. j : c[i] - c[j] = q.deepest
    <3>1. CASE y - x > m.deepest
      <4>1. PICK i \in To(k + 1) : i \in 1 .. k + 1 /\ c[i] = y
        BY <2>10
      <4> QED BY <2>4, <2>8, <3>1, <4>1 DEF x
    <3>2. CASE ~ (y - x > m.deepest)
      BY <2>4, <2>7, <2>8, <3>2
    <3> QED BY <3>1, <3>2
  <2>12. ASSUME NEW j \in 1 .. k + 1, NEW i \in 1 .. j PROVE c[i] - c[j] <= q.deepest
    <3>0. q.deepest \in Int /\ q.deepest >= m.deepest /\ q.deepest >= y - x
      BY <2>2, <2>3, <2>4, <2>6
    <3>1. CASE j \in 1 .. k
      <4>1. i \in 1 .. k + 1 /\ j \in 1 .. k + 1
        BY <3>1
      <4>2. c[i] - c[j] <= m.deepest /\ c[i] \in Int /\ c[j] \in Int
        BY <2>7, <2>8, <3>1, <4>1
      <4> QED BY <2>3, <3>0, <4>2
    <3>2. CASE j = k + 1
      <4>1. i \in 1 .. k + 1 /\ c[j] = x
        BY <3>2 DEF x
      <4>2. c[i] <= y /\ c[i] \in Int
        BY <2>8, <2>9, <4>1
      <4> QED BY <2>2, <2>6, <3>0, <4>1, <4>2
    <3> QED BY <2>8, <3>1, <3>2
  <2> QED BY <2>4, <2>9, <2>10, <2>11, <2>12 DEF q
<1>12. Is(n)
  <2> HIDE DEF Is
  <2>1. 0 \in Good
    BY <1>10
  <2>2. ASSUME NEW k \in Nat, k \in Good PROVE k + 1 \in Good
    <3> SUFFICES ASSUME k + 1 <= n PROVE Is(k + 1)
      OBVIOUS
    <3>1. k <= n
      BY <1>0
    <3> QED BY <1>11, <2>2, <3>1
  <2> HIDE DEF Good
  <2>3. Nat \subseteq Good
    BY <2>1, <2>2, SetInduction
  <2> QED BY <1>0, <2>3 DEF Good
<1>13. PeakToTrough(c) = g[n].deepest
  BY <1>6, <1>8 DEF PeakToTrough
<1> QED BY <1>12, <1>13 DEF IsDeepest, n

\* v is the last n elements of s, a sequence over S: those after the first d.
IsLatest(v, d, n, s, S) ==
    /\ d + Len(v) = Len(s)
    /\ d = (IF Len(s) > n THEN Len(s) - n ELSE 0)
    /\ v \in Seq(S)
    /\ \A i \in 1 .. Len(v) : v[i] = s[d + i]

\* The last points of a curve are points of it, in their order.
LEMMA LatestIs ==
    ASSUME NEW S, NEW s \in Seq(S), NEW n \in Nat
    PROVE  \E d \in Nat : IsLatest(Latest(s, n), d, n, s, S)
<1> DEFINE l == Len(s)
           d == IF l > n THEN l - n ELSE 0
           a == IF l > n THEN l - n + 1 ELSE 1
           r == SubSeq(s, a, l)
<1>1. l \in Nat /\ d \in Nat /\ d <= l /\ a = d + 1 /\ a \in Int
  BY LenProperties
<1>2. Latest(s, n) = r
  BY DEF Latest
<1> HIDE DEF l, d, a
<1>3. \A i \in a .. l : s[i] \in S
  BY <1>1 DEF l
<1>4. /\ r \in Seq(S)
      /\ Len(r) = (IF a <= l THEN l - a + 1 ELSE 0)
      /\ \A i \in 1 .. l - a + 1 : r[i] = s[a + i - 1]
  BY <1>1, <1>3, SubSeqProperties
<1> HIDE DEF r
<1>5. Len(r) = l - d /\ l - a + 1 = l - d /\ \A i \in 1 .. l - d : a + i - 1 = d + i
  BY <1>1, <1>4
<1>6. \A i \in 1 .. Len(r) : r[i] = s[d + i]
  BY <1>4, <1>5
<1>7. d + Len(r) = l
  BY <1>1, <1>5
<1>8. IsLatest(r, d, n, s, S)
  BY <1>4, <1>6, <1>7 DEF IsLatest, l, d
<1> HIDE DEF d, l
<1> QED BY <1>1, <1>2, <1>8

\* The drawdown of an answer r in per cent and d in SOL tell of the same falls.
TileAgrees(d, r) ==
    /\ IsDeepest(d, r.curve)
    /\ Len(r.pnls) >= 2 =>
         /\ (\E j \in 1 .. Len(r.curve) : \E i \in 1 .. j :
                 Million * (r.curve[i] - r.curve[j]) >= r.curve[i]) => r.drawdown > 0
         /\ r.drawdown > 0 /\ Len(r.pnls) < MaxCurve => d > 0

\* An answer of the backtest has its types, and its two drawdowns agree.
LEMMA ReplayIs ==
    ASSUME NEW run \in Runs, NEW source \in Sources, NEW r, r = Replay(run, source)
    PROVE  /\ r.run = run /\ r.source = source /\ r.pnls = Trades(run, source)
           /\ r.pnls \in Seq(Int) /\ r.drawdown \in Nat
           /\ r.curve \in Seq(Int) /\ Len(r.curve) \in 1 .. MaxCurve
           /\ TileAgrees(PeakToTrough(r.curve), r)
<1> DEFINE pnls == Trades(run, source)
           all == Equity(pnls)
           v == Returned(all)
           dd == MaxDrawdown(pnls)
           deep == Falls(pnls).deepest
<1>1. /\ r.run = run /\ r.source = source /\ r.pnls = pnls /\ r.drawdown = dd /\ r.curve = v
  BY DEF Replay
<1>2. pnls \in Seq(Int)
  BY TradesTyped
<1> HIDE DEF pnls
<1>3. IsBalance(all, pnls)
  BY <1>2, EquityIs
<1>4. all \in Seq(Int) /\ Len(all) = Len(pnls) + 1 /\ Len(pnls) \in Nat
  BY <1>2, <1>3, LenProperties DEF IsBalance
<1>5. TellsFalls(deep, all)
  BY <1>2, <1>3, FallsTell
<1>6. /\ Len(pnls) < 2 => dd = 0
      /\ Len(pnls) >= 2 => dd = deep
      /\ dd \in Nat
  BY <1>4, <1>5 DEF MaxDrawdown, TellsFalls
<1> HIDE DEF all, dd, deep
<1>7. MaxCurve \in Nat \ {0}
  BY BacktestAssumption
<1>7a. v = Latest(all, MaxCurve)
  BY DEF Returned
<1> HIDE DEF v
<1>7b. PICK d \in Nat : IsLatest(v, d, MaxCurve, all, Int)
  BY <1>4, <1>7, <1>7a, LatestIs
<1>8. /\ d + Len(v) = Len(all)
      /\ d = (IF Len(all) > MaxCurve THEN Len(all) - MaxCurve ELSE 0)
      /\ v \in Seq(Int)
      /\ \A i \in 1 .. Len(v) : v[i] = all[d + i]
  BY <1>7b, Zenon DEF IsLatest
<1>9. Len(v) \in Nat /\ Len(v) \in 1 .. MaxCurve /\ Len(v) > 0
  BY <1>4, <1>7, <1>8, LenProperties
<1>10. IsDeepest(PeakToTrough(v), v)
  BY <1>8, <1>9, TroughsFind
<1>11. ASSUME Len(pnls) >= 2, NEW j \in 1 .. Len(v), NEW i \in 1 .. j,
              Million * (v[i] - v[j]) >= v[i]
       PROVE  dd > 0
  <2>1. i \in 1 .. Len(v) /\ d + j \in 1 .. Len(all) /\ d + i \in 1 .. (d + j)
    <3>1. d + Len(v) = Len(all) /\ d \in Nat /\ Len(v) \in Nat
      BY <1>8, <1>9
    <3>2. j \in Int /\ 1 <= j /\ j <= Len(v) /\ i \in Int /\ 1 <= i /\ i <= j
      BY <3>1
    <3> QED BY <3>1, <3>2
  <2>2. v[i] = all[d + i] /\ v[j] = all[d + j]
    BY <1>8, <2>1
  <2>3. Million * (all[d + i] - all[d + j]) >= all[d + i]
    BY <1>11, <2>2
  <2>4. deep > 0
    BY <1>5, <2>1, <2>3 DEF TellsFalls
  <2> QED BY <1>6, <1>11, <2>4
<1>12. ASSUME Len(pnls) >= 2, dd > 0, Len(pnls) < MaxCurve PROVE PeakToTrough(v) > 0
  <2>1. deep > 0
    BY <1>6, <1>12
  <2>2. PICK j \in 1 .. Len(all) : \E i \in 1 .. j : all[i] > all[j]
    BY <1>5, <2>1 DEF TellsFalls
  <2>3. PICK i \in 1 .. j : all[i] > all[j]
    BY <2>2
  <2>4. d = 0 /\ Len(v) = Len(all)
    BY <1>4, <1>7, <1>8, <1>9, <1>12
  <2>5. i \in 1 .. Len(v) /\ j \in 1 .. Len(v) /\ d + i = i /\ d + j = j
    BY <1>9, <2>4
  <2>6. v[i] = all[i] /\ v[j] = all[j] /\ v[i] \in Int /\ v[j] \in Int
    BY <1>8, <2>5, ElementOfSeq
  <2>7. v[i] - v[j] <= PeakToTrough(v) /\ v[i] - v[j] > 0
    BY <1>10, <2>3, <2>5, <2>6 DEF IsDeepest
  <2>8. PeakToTrough(v) \in Int
    <3>1. PICK y \in 1 .. Len(v) : \E x \in 1 .. y : v[x] - v[y] = PeakToTrough(v)
      BY <1>10 DEF IsDeepest
    <3>2. PICK x \in 1 .. y : v[x] - v[y] = PeakToTrough(v)
      BY <3>1
    <3>3. x \in 1 .. Len(v)
      BY <1>9
    <3>4. v[x] \in Int /\ v[y] \in Int
      BY <1>8, <3>3, ElementOfSeq
    <3> QED BY <3>2, <3>4
  <2> QED BY <2>6, <2>7, <2>8
<1>13. TileAgrees(PeakToTrough(r.curve), r)
  BY <1>1, <1>10, <1>11, <1>12 DEF TileAgrees
<1> QED BY <1>1, <1>2, <1>6, <1>8, <1>9, <1>13 DEF pnls

\* The panel shows the replay of a source that was there.
BacktestInv ==
    /\ metrics \in Seq(Prices) /\ priceHistory \in Seq(Prices)
    /\ progress \in {0, 20, 80} /\ liquid \in BOOLEAN
    /\ selected \in BacktestStrategies
    /\ asked \subseteq Runs
    /\ error \in BOOLEAN /\ (error => result = {})
    /\ \A r \in result : r.run \in Runs /\ r.source \in Sources /\ r = Replay(r.run, r.source)

\* Whichever source is read, it has prices, and what is known of the token.
LEMMA SourceTyped ==
    ASSUME BacktestInv, NEW reached \in BOOLEAN
    PROVE  Source(reached) \in Sources
<1>1. metrics \in Seq(Prices) /\ Len(metrics) \in Nat /\ Limit \in Nat
  BY LenProperties, BacktestAssumption DEF BacktestInv
<1>2. Reverse(metrics) \in Seq(Prices)
  <2>1. \A i \in 1 .. Len(metrics) : Len(metrics) - i + 1 \in 1 .. Len(metrics)
    BY <1>1
  <2>2. \A i \in 1 .. Len(metrics) : metrics[Len(metrics) - i + 1] \in Prices
    BY <1>1, <2>1, ElementOfSeq
  <2> QED BY <1>1, <2>2 DEF Reverse
<1>3. Latest(Reverse(metrics), Limit) \in Seq(Prices)
  BY <1>1, <1>2, LatestIs DEF IsLatest
<1>4. CASE reached /\ metrics # <<>>
  <2>1. Source(reached) = [prices |-> Latest(Reverse(metrics), Limit), liquid |-> liquid,
                           progress |-> IF progress = 0 THEN 50 ELSE progress]
    BY <1>4 DEF Source
  <2>2. (IF progress = 0 THEN 50 ELSE progress) \in {0, 20, 50, 80} /\ liquid \in BOOLEAN
    BY DEF BacktestInv
  <2> QED BY <1>3, <2>1, <2>2 DEF Sources
<1>5. CASE ~ (reached /\ metrics # <<>>)
  <2>1. Source(reached) = [prices |-> priceHistory, liquid |-> liquid, progress |-> progress]
    BY <1>5 DEF Source
  <2> QED BY <2>1 DEF Sources, BacktestInv
<1> QED BY <1>4, <1>5

\* The panel shows a replay or an error, whatever is asked in whichever order.
LEMMA BacktestInvHolds == BacktestSpec => []BacktestInv
<1>1. BacktestInit => BacktestInv
  <2> SUFFICES ASSUME BacktestInit PROVE BacktestInv
    OBVIOUS
  <2>1. BoundedSeq(Prices, MaxHistory) \subseteq Seq(Prices)
    BY BacktestAssumption DEF BoundedSeq, SeqOf
  <2> QED BY <2>1 DEF BacktestInit, BacktestInv, BacktestStrategies
<1>2. BacktestInv /\ [BacktestNext]_backtestVars => BacktestInv'
  <2> SUFFICES ASSUME BacktestInv, [BacktestNext]_backtestVars PROVE BacktestInv'
    OBVIOUS
  <2>1. CASE UNCHANGED backtestVars
    BY <2>1 DEF backtestVars, sourceVars, BacktestInv
  <2>2. ASSUME NEW strategy \in BacktestStrategies, Select(strategy) PROVE BacktestInv'
    BY <2>2 DEF Select, sourceVars, BacktestInv
  <2>3. ASSUME NEW limits \in Overrides, RunBacktest(limits) PROVE BacktestInv'
    <3>1. [strategy |-> selected, limits |-> limits] \in Runs
      BY DEF BacktestInv, Runs
    <3> QED BY <2>3, <3>1 DEF RunBacktest, sourceVars, BacktestInv
  <2>4. ASSUME NEW reached \in BOOLEAN, Replayed(reached) PROVE BacktestInv'
    <3> DEFINE source == Source(reached)
    <3>1. source \in Sources
      BY SourceTyped
    <3>2. result' = {Replay(run, source) : run \in asked} /\ asked' = {} /\ error' = FALSE
          /\ UNCHANGED <<metrics, priceHistory, progress, liquid, selected>>
      BY <2>4 DEF Replayed, sourceVars
    <3> HIDE DEF source
    <3>3. ASSUME NEW r \in result'
          PROVE  r.run \in Runs /\ r.source \in Sources /\ r = Replay(r.run, r.source)
      <4>1. PICK run \in asked : r = Replay(run, source)
        BY <3>2, <3>3
      <4>2. run \in Runs
        BY DEF BacktestInv
      <4>3. r.run = run /\ r.source = source
        BY <3>1, <4>1, <4>2, ReplayIs
      <4> QED BY <3>1, <4>1, <4>2, <4>3
    <3> QED BY <3>2, <3>3 DEF BacktestInv
  <2>5. CASE BacktestFails
    BY <2>5 DEF BacktestFails, sourceVars, BacktestInv
  <2> QED BY <2>1, <2>2, <2>3, <2>4, <2>5 DEF BacktestNext
<1> QED BY <1>1, <1>2, PTL DEF BacktestSpec

\* Every variable of the panel has its type, and so has what it shows: at most MaxCurve
\* points, and at least one.
LEMMA BacktestTyped == BacktestInv => BacktestTypeOK
<1> SUFFICES ASSUME BacktestInv PROVE BacktestTypeOK
  OBVIOUS
<1>1. ASSUME NEW r \in result
      PROVE  /\ r.run \in Runs /\ r.pnls \in Seq(Int) /\ r.drawdown \in Nat
             /\ r.curve \in Seq(Int) /\ Len(r.curve) \in 1 .. MaxCurve
  <2>1. r.run \in Runs /\ r.source \in Sources /\ r = Replay(r.run, r.source)
    BY DEF BacktestInv
  <2> QED BY <2>1, ReplayIs
<1> QED BY <1>1 DEF BacktestInv, BacktestTypeOK

\* No replay looks ahead.
LEMMA NoForesightHolds == BacktestInv => NoForesight
<1> SUFFICES ASSUME BacktestInv, NEW r \in result, NEW n \in DOMAIN r.source.prices, NEW known,
                    known = SubSeq(r.source.prices, 1, n)
             PROVE  /\ IsPrefix(Trades(r.run, [r.source EXCEPT !.prices = known]), r.pnls)
                    /\ \A p \in Prices :
                         Len(Trades(r.run, [r.source EXCEPT !.prices = [known EXCEPT ![n] = p]]))
                           = Len(Trades(r.run, [r.source EXCEPT !.prices = known]))
  BY DEF NoForesight
<1>1. r.run \in Runs /\ r.source \in Sources /\ r = Replay(r.run, r.source)
  BY DEF BacktestInv
<1>2. r.pnls = Trades(r.run, r.source)
  BY <1>1, ReplayIs
<1>3. r.source.prices \in Seq(Prices)
  BY <1>1 DEF Sources
<1>4. n \in 1 .. Len(r.source.prices)
  BY <1>3, LenProperties
<1>5. ASSUME NEW p \in Prices
      PROVE  /\ IsPrefix(Trades(r.run, [r.source EXCEPT !.prices = known]), Trades(r.run, r.source))
             /\ Len(Trades(r.run, [r.source EXCEPT !.prices = [known EXCEPT ![n] = p]]))
                  = Len(Trades(r.run, [r.source EXCEPT !.prices = known]))
  <2> DEFINE run == r.run
             source == r.source
  <2>1. /\ run \in Runs /\ source \in Sources /\ n \in 1 .. Len(source.prices)
        /\ known = SubSeq(source.prices, 1, n)
    BY <1>1, <1>4
  <2>2. NoForesightTo(run, source, n, p, known)
    <3> HIDE DEF run, source
    <3> QED BY <2>1, NoForesightAt
  <2> QED BY <2>2 DEF NoForesightTo
<1>6. r.source.prices[n] \in Prices
  BY <1>3, <1>4, ElementOfSeq
<1> QED BY <1>2, <1>5, <1>6

\* The limits of the form hold for every trade.
LEMMA LimitsAreKept == BacktestInv => LimitsHold
<1> SUFFICES ASSUME BacktestInv, NEW r \in result, NEW p \in ToSet(r.pnls)
             PROVE  /\ r.run.limits.stop # NoLimit => p >= -r.run.limits.stop
                    /\ r.run.limits.take # NoLimit => p <= r.run.limits.take
  BY DEF LimitsHold
<1>1. r.run \in Runs /\ r.source \in Sources /\ r = Replay(r.run, r.source)
  BY DEF BacktestInv
<1>2. r.pnls = Trades(r.run, r.source)
  BY <1>1, ReplayIs
<1>3. r.pnls \in Seq(Int) /\ Within(r.pnls, r.run.limits)
  BY <1>1, <1>2, TradesTyped
<1>4. DOMAIN r.pnls = 1 .. Len(r.pnls)
  BY <1>3, LenProperties
<1>5. PICK j \in 1 .. Len(r.pnls) : p = r.pnls[j]
  BY <1>4 DEF ToSet
<1> QED BY <1>3, <1>5 DEF Within

\* The two drawdowns of the tile agree.
LEMMA DrawdownsAlwaysAgree == BacktestInv => DrawdownsAgree
<1> SUFFICES ASSUME BacktestInv, NEW r \in result, NEW inSol, inSol = PeakToTrough(r.curve)
             PROVE  /\ \E j \in DOMAIN r.curve : \E i \in 1 .. j : r.curve[i] - r.curve[j] = inSol
                    /\ \A j \in DOMAIN r.curve : \A i \in 1 .. j : r.curve[i] - r.curve[j] <= inSol
                    /\ Len(r.pnls) >= 2 =>
                         /\ (\E j \in DOMAIN r.curve : \E i \in 1 .. j :
                                Million * (r.curve[i] - r.curve[j]) >= r.curve[i]) => r.drawdown > 0
                         /\ r.drawdown > 0 /\ Len(r.pnls) < MaxCurve => inSol > 0
  BY DEF DrawdownsAgree
<1>1. r.run \in Runs /\ r.source \in Sources /\ r = Replay(r.run, r.source)
  BY DEF BacktestInv
<1>2. r.curve \in Seq(Int) /\ TileAgrees(PeakToTrough(r.curve), r)
  BY <1>1, ReplayIs
<1>3. DOMAIN r.curve = 1 .. Len(r.curve)
  BY <1>2, LenProperties
<1>4. TileAgrees(inSol, r)
  BY <1>2
<1> QED BY <1>3, <1>4, Zenon DEF TileAgrees, IsDeepest

\* What the panel shows of a backtest could have been earned by trading so: no trade was
\* decided by later prices, none passes the limits of the form, and the drawdowns in per
\* cent and in SOL tell of the same falls, for every series, form and length.
THEOREM BacktestAlwaysTrue == BacktestSpec => []BacktestIsTrue
<1>1. BacktestInv => (error => result = {})
  BY DEF BacktestInv
<1>2. BacktestInv => BacktestIsTrue
  BY <1>1, NoForesightHolds, LimitsAreKept, DrawdownsAlwaysAgree DEF BacktestIsTrue
<1> QED BY <1>2, BacktestInvHolds, PTL

------------------------------------------------------------------------------
(* MCServers: the parts beside each other.                                 *)

\* The parts share no state: what one of them does leaves the others as they are.
LEMMA PartsStepAlone ==
    [Next]_vars => /\ [SupNext]_supVars /\ [PresetNext]_presetVars
                   /\ [StatusStep]_<<botVars, statusVars>>
                   /\ [RpcNext]_rpcVars /\ [ReadyNext]_readyVars /\ [CurveNext]_curveVars
                   /\ [BacktestNext]_backtestVars
BY DEF Next, vars, StatusStep

\* So each part behaves as if it were alone.
LEMMA PartsAreAlone ==
    Spec => /\ SupSpec /\ PresetSpec /\ RpcSpec /\ ReadySpec /\ CurveSpec /\ BacktestSpec
            /\ StatusInit /\ [][StatusStep]_<<botVars, statusVars>>
<1>1. Init => /\ SupInit /\ PresetInit /\ StatusInit /\ RpcInit /\ ReadyInit /\ CurveInit
              /\ BacktestInit
  BY DEF Init
<1> QED
  BY <1>1, PartsStepAlone, PTL
     DEF Spec, SupSpec, PresetSpec, RpcSpec, ReadySpec, CurveSpec, BacktestSpec

\* Whatever the routes, Python and the pages do at the same time, what an operator
\* decides is what Python does: the stored preset is traded with, StopAll stops every
\* strategy, an answer of failure is an honest one, and the page shows the strategies
\* as they were when they were last asked for.
THEOREM OperatorIsAlwaysObeyed == Spec => []OperatorIsObeyed
<1>1. StoredPresetIsUsed /\ BotObeys => OperatorIsObeyed
  BY DEF OperatorIsObeyed
<1> QED BY <1>1, PartsAreAlone, PresetIsUsed, ObeyedThroughout, PTL

\* No worker is started in its backoff, and no endpoint chosen from two half rounds of
\* probes, whatever else the servers do.
THEOREM NoServerMissteps == Spec => ServerSteps
BY PartsAreAlone, BackoffIsHonoured, OneRound, PTL DEF ServerSteps

\* Every variable of every part has its type, for every size of every part.
THEOREM ServersTyped == Spec => []ServersTypeOK
<1>1. CurveInv => CurveTypeOK
  BY DEF CurveInv, CurveTypeOK
<1>2. PresetInv => PresetTypeOK
  BY DEF PresetInv
<1>3. RpcInv => RpcTypeOK
  BY DEF RpcInv
<1>4. PageTypeOK => StatusTypeOK
  BY DEF PageTypeOK
<1>5. SupTypeOK /\ PresetTypeOK /\ StatusTypeOK /\ RpcTypeOK /\ ReadyTypeOK /\ CurveTypeOK
      /\ BacktestTypeOK => ServersTypeOK
  BY DEF ServersTypeOK
<1> QED
  BY <1>1, <1>2, <1>3, <1>4, <1>5, PartsAreAlone, SupTyped, ReadyTyped, CurveInvHolds,
     PresetInvHolds, RpcInvHolds, ObeyedThroughout, BacktestInvHolds, BacktestTyped, PTL

=============================================================================

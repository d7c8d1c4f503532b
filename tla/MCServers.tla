----------------------------- MODULE MCServers -----------------------------
\* What runs without an operator at it, for TLC: who trades (Supervisor), with
\* which parameters (PresetControl), with which strategies (BotControl, and with
\* the page that shows it, BotStatus), through which endpoint (RpcManager),
\* at which price (BondingCurve), whether the API can serve (Readiness), and what a
\* backtest says of a strategy (Backtest).  They share no state, so a behaviour takes
\* steps of one part only.
EXTENDS Supervisor, PresetControl, BotStatus, RpcManager, Readiness,
        BondingCurve, Backtest

MCNames    == <<"sniper", "momentum">>
MCPriority == <<1, 1, 2>>
MCOverrides == {[stop |-> NoLimit, take |-> NoLimit], [stop |-> 2, take |-> 4]}

VARIABLE part   \* "workers", "preset", "bot", "status", "rpc", "ready", "curve" or "backtest"

vars == <<part, supVars, presetVars, botVars, statusVars, rpcVars, readyVars, curveVars,
          backtestVars>>

\* The parts that do not move start in one state only.  A backtest replays the prices of
\* one source, so the other one is left empty.
Series == BoundedSeq(Prices, MaxHistory)
Init ==
    /\ part \in {"workers", "preset", "bot", "status", "rpc", "ready", "curve", "backtest"}
    /\ metrics \in IF part = "backtest" THEN Series ELSE {<<>>}
    /\ priceHistory \in IF part = "backtest" /\ metrics = <<>> THEN Series ELSE {<<>>}
    /\ progress \in IF part = "backtest" THEN {0, 20, 80} ELSE {0}
    /\ liquid \in IF part = "backtest" THEN BOOLEAN ELSE {TRUE}
    /\ SupInit /\ PresetInit /\ StatusInit /\ RpcInit /\ ReadyInit /\ CurveInit
    /\ BacktestInit
    /\ part # "workers" => Enabled = Wallets
    /\ part # "preset" => stored = Balanced
    /\ part # "rpc" => up = {}

\* Under the page Python neither dies nor carries out a call that was given up:
\* the part "bot" has these.
PythonIsWell == deaths' = deaths /\ late' = {}

Next ==
    \/ part = "workers" /\ SupNext
       /\ UNCHANGED <<part, presetVars, botVars, statusVars, rpcVars, readyVars, curveVars, backtestVars>>
    \/ part = "preset" /\ PresetNext
       /\ UNCHANGED <<part, supVars, botVars, statusVars, rpcVars, readyVars, curveVars, backtestVars>>
    \/ part = "bot" /\ BotNext
       /\ UNCHANGED <<part, supVars, presetVars, statusVars, rpcVars, readyVars, curveVars, backtestVars>>
    \/ part = "status" /\ StatusNext /\ PythonIsWell
       /\ UNCHANGED <<part, supVars, presetVars, rpcVars, readyVars, curveVars, backtestVars>>
    \/ part = "rpc" /\ RpcNext
       /\ UNCHANGED <<part, supVars, presetVars, botVars, statusVars, readyVars, curveVars, backtestVars>>
    \/ part = "ready" /\ ReadyNext
       /\ UNCHANGED <<part, supVars, presetVars, botVars, statusVars, rpcVars, curveVars, backtestVars>>
    \/ part = "curve" /\ CurveNext
       /\ UNCHANGED <<part, supVars, presetVars, botVars, statusVars, rpcVars, readyVars, backtestVars>>
    \/ part = "backtest" /\ BacktestNext
       /\ UNCHANGED <<part, supVars, presetVars, botVars, statusVars, rpcVars, readyVars, curveVars>>

\* The fairness of the part that moves.
Spec ==
    /\ Init /\ [][Next]_vars
    /\ \/ part = "workers" /\ SupFairness
       \/ part = "preset" /\ PresetFairness
       \/ part = "bot" /\ BotFairness
       \/ part = "status" /\ StatusFairness
       \/ part \in {"rpc", "ready", "curve", "backtest"}

------------------------------------------------------------------------------
\* The type invariants of all parts: what each variable of the code may hold.
ServersTypeOK ==
    /\ SupTypeOK /\ PresetTypeOK /\ StatusTypeOK /\ RpcTypeOK /\ ReadyTypeOK /\ CurveTypeOK
    /\ BacktestTypeOK

\* What an operator decides is what Python does: the stored preset is traded with
\* (PresetControl), and starts, stops and the page that shows them tell of the
\* strategies as they are (BotControl, BotStatus).
OperatorIsObeyed == StoredPresetIsUsed /\ BotObeys

\* What no step may do: start a worker in its backoff (Supervisor), choose an
\* endpoint from two half rounds (RpcManager).
ServerSteps == BackoffHonoured /\ ChosenFromOneRound

\* What the parts settle to when nothing disturbs them any more: enabled wallets
\* have workers, the stored preset is traded with, requests to the strategies
\* are answered, and the page shows which of them are active.
ServersSettle ==
    /\ part = "workers" => EnabledIsServed
    /\ part = "preset" => PresetConverges
    /\ part = "bot" => RequestsAnswered
    /\ part = "status" => StatusConverges
============================================================================

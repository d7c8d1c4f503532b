------------------------------- MODULE Backtest -------------------------------
(***************************************************************************)
(* The backtest: the panel on the page Strategies (Strategies.tsx), the    *)
(* route it posts to (api-server routes/bot.ts), and run_backtest of       *)
(* Python (api/routes.py), which replays the prices of a token that the    *)
(* API has stored (routes/token-metrics.ts) or, if there are none, those   *)
(* Python remembers.  Tokens share nothing but the balance, so there       *)
(* is one.  The panel always starts with 1 SOL; an amount is a number of   *)
(* units of 1/Unit SOL, and every trade buys for 1 SOL.                    *)
(***************************************************************************)
EXTENDS Integers, Sequences, SequencesExt

CONSTANTS
    Prices,      \* what a token may cost: divisors of Unit
    Unit,
    Limit,       \* rows a query of the API returns at most
    MaxHistory,  \* bound: prices of the token that are stored, or remembered
    Lookback,    \* bars the sniper looks back, 3
    Short, Long, \* bars of the two averages of momentum, 5 and 20
    MinSeries,   \* prices below which a token is not replayed, 4
    MaxCurve,    \* points of the equity curve that are returned, 200
    NoLimit,     \* a stop or take the form leaves empty: the strategies have none of their own
    Overrides    \* what the form may say: [stop, take], in units per SOL

ASSUME BacktestAssumption ==
    /\ Unit \in Nat \ {0} /\ \A p \in Prices : p \in Nat \ {0} /\ Unit % p = 0
    /\ {Limit, MaxHistory, Lookback, Short, Long} \subseteq Nat
    /\ {MinSeries, MaxCurve} \subseteq Nat \ {0}
    /\ \A o \in Overrides : {o.stop, o.take} \subseteq Nat \cup {NoLimit}

VARIABLES
    metrics,      \* token_metrics, newest first
    priceHistory, \* price_history of the tracked token
    progress,     \* bonding_curve_progress, in per cent
    liquid,       \* liquidity_sol is at least min_liquidity_sol
    selected,     \* selectedStrategy
    asked,        \* the request under way: a set of at most one
    result,       \* the answer that is shown: a set of at most one
    error         \* an error is shown

sourceVars   == <<metrics, priceHistory, progress, liquid>>
backtestVars == <<sourceVars, selected, asked, result, error>>

BacktestStrategies == {"sniper", "momentum"}
Runs     == [strategy : BacktestStrategies, limits : Overrides]

------------------------------------------------------------------------------
(* run_backtest.                                                           *)

\* The last n elements of s.
Latest(s, n) == SubSeq(s, IF Len(s) > n THEN Len(s) - n + 1 ELSE 1, Len(s))

\* What is replayed: the route's rows, reversed, or price_history where there are none or
\* the route cannot be reached, and db_meta.  bondingCurveProgress "or 50.0": stored, 0
\* reads as 50.
Source(reached) ==
    IF reached /\ metrics # <<>>
    THEN [prices |-> Latest(Reverse(metrics), Limit), liquid |-> liquid,
          progress |-> IF progress = 0 THEN 50 ELSE progress]
    ELSE [prices |-> priceHistory, liquid |-> liquid, progress |-> progress]

\* Mutant: the window has the bar of the exit in it.
WindowWithExit(h, entry, n) == Latest(SubSeq(h, 1, entry + 1), n)

\* The latest n prices at the time of the entry.
Window(h, entry, n) == Latest(SubSeq(h, 1, entry), n)

SumOf(s) == FoldLeft(LAMBDA sum, x : sum + x, 0, s)

ShouldEnter(strategy, source, entry) ==
    LET Bars(n) == Window(source.prices, entry, n)
    IN /\ source.liquid
       /\ strategy = "sniper" =>
            /\ source.progress <= 30
            /\ Len(Bars(Lookback)) >= 2
            /\ Last(Bars(Lookback)) > Head(Bars(Lookback))
       /\ strategy = "momentum" =>
            /\ Len(Bars(Short)) >= 2
            /\ SumOf(Bars(Short)) * Len(Bars(Long)) > SumOf(Bars(Long)) * Len(Bars(Short))

\* What a trade earns that is entered at one bar and left at the next.
Pnl(limits, h, entry) ==
    LET earned  == ((h[entry + 1] - h[entry]) * Unit) \div h[entry]
        stopped == IF limits.stop # NoLimit /\ earned < -limits.stop THEN -limits.stop ELSE earned
    IN IF limits.take # NoLimit /\ stopped > limits.take THEN limits.take ELSE stopped

\* The bars of a series, at which a trade is entered or not, and what the trades earn.
Entries(run, source) ==
    FoldLeft(LAMBDA pnls, i : IF ShouldEnter(run.strategy, source, i)
                              THEN Append(pnls, Pnl(run.limits, source.prices, i))
                              ELSE pnls,
             <<>>, [i \in 1 .. Len(source.prices) - 1 |-> i])

\* What the trades of a replay earn, in order: a short series has none.
Trades(run, source) == IF Len(source.prices) < MinSeries THEN <<>> ELSE Entries(run, source)

\* The balance at the start and after every trade.
Equity(pnls) == FoldLeft(LAMBDA curve, p : Append(curve, Last(curve) + p), <<Unit>>, pnls)

\* equity_curve[-200:].
Returned(curve) == Latest(curve, MaxCurve)

\* round(max_dd_pct, 4): per cent with four digits are millionths.
Million == 1000000

\* The loop of _compute_advanced_metrics, from a balance of 1 SOL of its own: the deepest
\* fall below the peak so far, in millionths of it.
Falls(pnls) ==
    FoldLeft(LAMBDA m, p :
               LET equity == m.equity + p
                   peak   == IF equity > m.peak THEN equity ELSE m.peak
                   fall   == (2 * Million * (peak - equity) + peak) \div (2 * peak)
               IN [equity |-> equity, peak |-> peak,
                   deepest |-> IF fall > m.deepest THEN fall ELSE m.deepest],
             [equity |-> Unit, peak |-> Unit, deepest |-> 0], pnls)

\* max_drawdown_pct, which a single trade does not have.
MaxDrawdown(pnls) == IF Len(pnls) < 2 THEN 0 ELSE Falls(pnls).deepest

\* The loop of peakToTroughDrawdownSol.
Troughs(curve) ==
    FoldLeft(LAMBDA m, v :
               LET peak == IF v > m.peak THEN v ELSE m.peak
               IN [peak |-> peak, deepest |-> IF peak - v > m.deepest THEN peak - v ELSE m.deepest],
             [peak |-> Head(curve), deepest |-> 0], curve)

\* peakToTroughDrawdownSol of the panel, over the curve it was sent.
PeakToTrough(curve) == Troughs(curve).deepest

\* The answer, with what was replayed and what it earned.
Replay(run, source) ==
    LET pnls == Trades(run, source)
    IN [run |-> run, source |-> source, pnls |-> pnls,
        drawdown |-> MaxDrawdown(pnls), curve |-> Returned(Equity(pnls))]

------------------------------------------------------------------------------
(* The panel.                                                              *)

Select(strategy) ==
    /\ selected' = strategy
    /\ result' = {} /\ error' = FALSE
    /\ UNCHANGED <<sourceVars, asked>>

\* Run Backtest, disabled while a request is pending.
RunBacktest(limits) ==
    /\ asked = {}
    /\ asked' = {[strategy |-> selected, limits |-> limits]}
    /\ UNCHANGED <<sourceVars, selected, result, error>>

\* The prices are read in one query, and nothing is awaited after it.
Replayed(reached) ==
    /\ asked # {}
    /\ result' = {Replay(run, Source(reached)) : run \in asked}
    /\ error' = FALSE
    /\ asked' = {}
    /\ UNCHANGED <<sourceVars, selected>>

\* Python is down, or has not answered after four seconds.
BacktestFails ==
    /\ asked # {}
    /\ result' = {} /\ error' = TRUE
    /\ asked' = {}
    /\ UNCHANGED <<sourceVars, selected>>

\* Any prices may have been stored or remembered: what comes later is as if it
\* had been there, for a request reads them once.
BacktestInit ==
    /\ metrics \in BoundedSeq(Prices, MaxHistory)
    /\ priceHistory \in BoundedSeq(Prices, MaxHistory)
    /\ progress \in {0, 20, 80}
    /\ liquid \in BOOLEAN
    /\ selected = "sniper"
    /\ asked = {}
    /\ result = {} /\ error = FALSE

BacktestNext ==
    \/ \E strategy \in BacktestStrategies : Select(strategy)
    \/ \E limits \in Overrides : RunBacktest(limits)
    \/ \E reached \in BOOLEAN : Replayed(reached)
    \/ BacktestFails

BacktestSpec == BacktestInit /\ [][BacktestNext]_backtestVars

------------------------------------------------------------------------------
(* Properties.                                                             *)

BacktestTypeOK ==
    /\ metrics \in Seq(Prices) /\ priceHistory \in Seq(Prices)
    /\ selected \in BacktestStrategies
    /\ asked \subseteq Runs
    /\ error \in BOOLEAN
    /\ \A r \in result : /\ r.run \in Runs
                        /\ r.pnls \in Seq(Int) /\ r.drawdown \in Nat
                        /\ r.curve \in Seq(Int) /\ Len(r.curve) \in 1 .. MaxCurve

\* No trade of a replay was decided by the price at which it is left, or by later ones:
\* until any bar the trades are the same if the prices end there, and they are as many
\* if the last price is another.
NoForesight ==
    \A r \in result : \A n \in DOMAIN r.source.prices :
        LET Made(prices) == Trades(r.run, [r.source EXCEPT !.prices = prices])
            known == SubSeq(r.source.prices, 1, n)
        IN /\ IsPrefix(Made(known), r.pnls)
           /\ \A p \in Prices : Len(Made([known EXCEPT ![n] = p])) = Len(Made(known))

\* No trade loses more than the stop of the form, or earns more than its take.
LimitsHold ==
    \A r \in result : \A p \in ToSet(r.pnls) :
        /\ r.run.limits.stop # NoLimit => p >= -r.run.limits.stop
        /\ r.run.limits.take # NoLimit => p <= r.run.limits.take

\* The two drawdowns of one tile, Python's in per cent and the panel's in SOL, tell of
\* the same falls.  The panel's is the deepest fall of the curve from any point to a later
\* one.  If there were two trades, Python's is not 0 if one of these falls is a millionth
\* of where it starts, and where the curve was not cut off the panel's is not 0 unless
\* Python's is.
DrawdownsAgree ==
    \A r \in result :
        LET Fall(i, j) == r.curve[i] - r.curve[j]
            inSol == PeakToTrough(r.curve)
        IN /\ \E j \in DOMAIN r.curve : \E i \in 1 .. j : Fall(i, j) = inSol
           /\ \A j \in DOMAIN r.curve : \A i \in 1 .. j : Fall(i, j) <= inSol
           /\ Len(r.pnls) >= 2 =>
                /\ (\E j \in DOMAIN r.curve : \E i \in 1 .. j : Million * Fall(i, j) >= r.curve[i])
                      => r.drawdown > 0
                /\ r.drawdown > 0 /\ Len(r.pnls) < MaxCurve => inSol > 0

\* What the panel shows of a backtest could have been earned by trading so, and it
\* shows an error or a result.
BacktestIsTrue ==
    /\ NoForesight /\ LimitsHold /\ DrawdownsAgree
    /\ error => result = {}
==============================================================================

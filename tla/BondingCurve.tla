----------------------------- MODULE BondingCurve -----------------------------
(***************************************************************************)
(* The quotes of a token's bonding curve (pumpfun/bonding_curve.rs), on    *)
(* every curve that trades lead to.  The curve belongs to the pump.fun     *)
(* program on the chain, which is external: of its trades the code says    *)
(* that they keep the constant product, and this is all the model takes.   *)
(* Amounts are u64, intermediate values u128, which cannot overflow here.  *)
(***************************************************************************)
EXTENDS Integers

CONSTANTS
    VSol0, VTok0, RTok0,   \* BONDING_CURVE_INITIAL_VIRTUAL_SOL_RESERVES, ..._VIRTUAL_TOKEN_RESERVES, ..._REAL_TOKEN_RESERVES
    U64,                   \* the first integer that is no u64
    Bps,                   \* 10_000
    Slippages              \* values of slippage_bps

ASSUME CurveAssumption ==
    /\ VSol0 \in Nat \ {0} /\ VTok0 \in Nat /\ RTok0 \in Nat
    /\ RTok0 < VTok0
    /\ U64 \in Nat /\ VSol0 < U64
    /\ Bps \in Nat \ {0}
    /\ Slippages \subseteq 0 .. Bps

VARIABLES
    vSol, vTok,   \* virtual_sol_reserves, virtual_token_reserves
    rSol, rTok,   \* real_sol_reserves, real_token_reserves
    complete

curveVars == <<vSol, vTok, rSol, rTok, complete>>

CurveTypeOK ==
    /\ vSol \in Nat /\ vTok \in Nat /\ rSol \in Nat /\ rTok \in 0 .. RTok0
    /\ complete \in BOOLEAN

Capped(n, cap) == IF n < cap THEN n ELSE cap

Max64 == U64 - 1

------------------------------------------------------------------------------
(* What the code computes.                                                 *)

\* Mutant: a division that rounds down.
CostRoundedDown(t) ==
    IF t >= vTok THEN Max64 ELSE Capped((vSol * t) \div (vTok - t), Max64)

\* sol_cost_for_tokens, when tokens are asked for and the curve is open.
Cost(t) ==
    IF t >= vTok THEN Max64
    ELSE Capped((vSol * t + (vTok - t) - 1) \div (vTok - t), Max64)

SolCostForTokens(t) == IF t = 0 \/ complete THEN 0 ELSE Cost(t)

\* sol_for_tokens, before and after the cap of what the curve holds.
SolOut(t) == vSol - (vSol * vTok) \div (vTok + t)

SolForTokens(t) == IF t = 0 \/ complete THEN 0 ELSE Capped(SolOut(t), rSol)

\* tokens_for_sol.
TokensForSol(s) ==
    IF s = 0 \/ complete THEN 0 ELSE Capped(vTok - (vSol * vTok) \div (vSol + s), rTok)

\* `amount * slippage_bps / 10_000` on u64: a release build wraps.
Tolerance(n, slippage) == ((n * slippage) % U64) \div Bps

\* calculate_price_impact: the bounds of a buy and of a sale.
MaxSolCost(t, slippage) ==
    LET cost == SolCostForTokens(t)
    IN IF cost = Max64 THEN Max64 ELSE Capped(cost + Tolerance(cost, slippage), Max64)

MinSolOutput(t, slippage) ==
    LET out == SolForTokens(t)
    IN IF out > Tolerance(out, slippage) THEN out - Tolerance(out, slippage) ELSE 0

------------------------------------------------------------------------------
(* The program on the chain: what it asks for and gives keeps the constant *)
(* product, at the least cost to the trader, and fits its integers.        *)

Owed(t) == (vSol * t + (vTok - t) - 1) \div (vTok - t)

Given(t) == (vSol * t) \div (vTok + t)

Bought(t) ==
    /\ ~complete /\ t \in 1 .. rTok
    /\ vSol + Owed(t) < U64
    /\ vSol' = vSol + Owed(t)
    /\ rSol' = rSol + Owed(t)
    /\ vTok' = vTok - t
    /\ rTok' = rTok - t
    /\ complete' = (rTok = t)

Sold(t) ==
    /\ ~complete /\ t \in 1 .. RTok0 - rTok
    /\ vSol' = vSol - Given(t)
    /\ rSol' = rSol - Given(t)
    /\ vTok' = vTok + t
    /\ rTok' = rTok + t
    /\ UNCHANGED complete

\* BondingCurveParams::default(), the curve of a new token.
CurveInit ==
    /\ vSol = VSol0 /\ vTok = VTok0
    /\ rSol = 0 /\ rTok = RTok0
    /\ complete = FALSE

CurveNext == \E t \in 1 .. RTok0 : Bought(t) \/ Sold(t)

CurveSpec == CurveInit /\ [][CurveNext]_curveVars

------------------------------------------------------------------------------
(* Properties.                                                             *)

\* "the on-chain instruction never undershoots the required payment"
\* (sol_cost_for_tokens): what is quoted for tokens the curve has keeps the
\* product, if it is a u64 at all, and one lamport less would not.
CostIsExact ==
    ~complete => \A t \in 1 .. rTok :
        LET cost == SolCostForTokens(t) IN
        cost < Max64 =>
            /\ (vSol + cost) * (vTok - t) >= vSol * vTok
            /\ (vSol + cost - 1) * (vTok - t) < vSol * vTok

\* Whoever holds tokens of this curve is quoted what the program gives, or a
\* lamport more: sol_for_tokens rounds up; and the curve can pay that, so the cap
\* takes nothing off.
SalesAreBacked ==
    ~complete => \A t \in 1 .. RTok0 - rTok :
        /\ SolForTokens(t) = SolOut(t)
        /\ SolForTokens(t) \in Given(t) .. Given(t) + 1

\* The two quotes agree: the cost of t tokens buys t, and selling t tokens
\* brings in no more than t tokens cost.
QuotesAgree ==
    ~complete => \A t \in 1 .. rTok :
        /\ SolCostForTokens(t) < Max64 => TokensForSol(SolCostForTokens(t)) >= t
        /\ SolForTokens(t) <= SolCostForTokens(t)

\* The bounds lie on the right side of the quote and within the tolerance, even
\* where the multiplication wraps; so an order whose quote still holds when its
\* transaction arrives is not refused for its price.
BoundsBracket ==
    ~complete => \A t \in 1 .. VTok0, s \in Slippages :
        LET cost == SolCostForTokens(t)
            out  == SolForTokens(t)
        IN /\ MaxSolCost(t, s) \in cost .. cost + (cost * s) \div Bps
           /\ MinSolOutput(t, s) \in out - (out * s) \div Bps .. out

\* Quotes and bounds are sound on every curve that trades lead to.
QuotesAreSound == CostIsExact /\ SalesAreBacked /\ QuotesAgree /\ BoundsBracket
==============================================================================

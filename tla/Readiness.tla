------------------------------ MODULE Readiness ------------------------------
(***************************************************************************)
(* GET /readiness (api-server routes/health.ts): a check waits for a       *)
(* connection of the pool it shares with every other route, for three      *)
(* seconds at most, and asks the database with it.  A connection may come  *)
(* when its check has been answered already.                               *)
(***************************************************************************)
EXTENDS Naturals, FiniteSets

CONSTANTS
    Checks,     \* requests
    PoolSize    \* connections of the pool, while nothing else uses it

ASSUME PoolAssumption == PoolSize \in Nat \ {0}

VARIABLES
    check,      \* [Checks -> "new" | "connecting" | "querying" | "ok" | "unavailable"]
    wanted,     \* checks whose pool.connect() has not settled
    borrowed    \* [Checks -> Nat]: connections taken from the pool and not released

readyVars == <<check, wanted, borrowed>>

free == PoolSize - Cardinality({c \in Checks : borrowed[c] > 0})

ReadyTypeOK ==
    /\ check \in [Checks -> {"new", "connecting", "querying", "ok", "unavailable"}]
    /\ wanted \subseteq Checks
    /\ borrowed \in [Checks -> 0 .. 1]
    /\ free \in 0 .. PoolSize

Ask(c) ==
    /\ check[c] = "new"
    /\ check' = [check EXCEPT ![c] = "connecting"]
    /\ wanted' = wanted \cup {c}
    /\ UNCHANGED borrowed

\* Mutant: a connection that comes too late is not released.
ConnectedAndKept(c) ==
    /\ c \in wanted /\ free > 0
    /\ wanted' = wanted \ {c}
    /\ borrowed' = [borrowed EXCEPT ![c] = @ + 1]
    /\ check' = [check EXCEPT ![c] = IF @ = "connecting" THEN "querying" ELSE @]

\* The pool gives a connection: to the check, or back if it no longer waits.
Connected(c) ==
    /\ c \in wanted /\ free > 0
    /\ wanted' = wanted \ {c}
    /\ IF check[c] = "connecting"
         THEN /\ check' = [check EXCEPT ![c] = "querying"]
              /\ borrowed' = [borrowed EXCEPT ![c] = @ + 1]
         ELSE UNCHANGED <<check, borrowed>>

\* pool.connect() rejects.
ConnectFails(c) ==
    /\ c \in wanted
    /\ wanted' = wanted \ {c}
    /\ check' = [check EXCEPT ![c] = IF @ = "connecting" THEN "unavailable" ELSE @]
    /\ UNCHANGED borrowed

\* CONNECT_TIMEOUT_MS.
ConnectTimesOut(c) ==
    /\ check[c] = "connecting"
    /\ check' = [check EXCEPT ![c] = "unavailable"]
    /\ UNCHANGED <<wanted, borrowed>>

\* Both queries are over, or one has failed; finally, the connection is released.
QueryEnds(c) ==
    /\ check[c] = "querying"
    /\ \E answer \in {"ok", "unavailable"} : check' = [check EXCEPT ![c] = answer]
    /\ borrowed' = [borrowed EXCEPT ![c] = @ - 1]
    /\ UNCHANGED wanted

ReadyInit ==
    /\ check = [c \in Checks |-> "new"]
    /\ wanted = {}
    /\ borrowed = [c \in Checks |-> 0]

ReadyNext ==
    \E c \in Checks : Ask(c) \/ Connected(c) \/ ConnectFails(c) \/ ConnectTimesOut(c) \/ QueryEnds(c)

ReadySpec == ReadyInit /\ [][ReadyNext]_readyVars

------------------------------------------------------------------------------
(* Property.                                                               *)

\* However connections and timeouts cross, a check that has been answered holds
\* none of the pool's connections.
AnsweredHoldsNone == \A c \in Checks : check[c] \in {"ok", "unavailable"} => borrowed[c] = 0
==============================================================================

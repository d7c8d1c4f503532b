---------------------------- MODULE OrderLifecycle ----------------------------
(***************************************************************************)
(* What the order pipeline promises about an order, without queue, tasks,  *)
(* locks or tables.  An accepted order is in one place at a time: it waits *)
(* for an attempt, is tried, or its result is being written.  It gets a    *)
(* limited number of attempts, one after the other, each with a limited    *)
(* number of transactions; it gets one result, which is the last thing     *)
(* that happens to it in this process, and "Executed" is said only of an   *)
(* order that was sent.                                                    *)
(***************************************************************************)
EXTENDS Integers

CONSTANTS
    Orders,
    MaxAttempts,       \* attempts an order gets
    SendsPerAttempt    \* transactions an attempt adds to its order's budget

VARIABLES
    life,       \* [Orders -> Lives]
    attempts,   \* attempts begun
    sent        \* transactions handed out

lifeVars == <<life, attempts, sent>>

Results == {"Executed", "Failed", "unsaved"}
Lives   == {"new", "waiting", "trying", "settling", "lost"} \cup Results

LifeInit ==
    /\ life     = [o \in Orders |-> "new"]
    /\ attempts = [o \in Orders |-> 0]
    /\ sent     = [o \in Orders |-> 0]

Becomes(o, stage) == life' = [life EXCEPT ![o] = stage]

Accept(o) ==
    /\ life[o] = "new"
    /\ Becomes(o, "waiting")
    /\ UNCHANGED <<attempts, sent>>

BeginAttempt(o) ==
    /\ life[o] = "waiting"
    /\ attempts[o] < MaxAttempts
    /\ attempts' = [attempts EXCEPT ![o] = @ + 1]
    /\ Becomes(o, "trying")
    /\ UNCHANGED sent

Send(o) ==
    /\ life[o] = "trying"
    /\ sent[o] < SendsPerAttempt * attempts[o]
    /\ sent' = [sent EXCEPT ![o] = @ + 1]
    /\ UNCHANGED <<life, attempts>>

\* An attempt that failed, while there is another one left.
Retry(o) ==
    /\ life[o] = "trying"
    /\ attempts[o] < MaxAttempts
    /\ Becomes(o, "waiting")
    /\ UNCHANGED <<attempts, sent>>

\* An attempt that ends the order, or an order refused before its attempt.
Settle(o) ==
    /\ life[o] \in {"waiting", "trying"}
    /\ Becomes(o, "settling")
    /\ UNCHANGED <<attempts, sent>>

Report(o, result) ==
    /\ life[o] = "settling"
    /\ result = "Executed" => sent[o] > 0
    /\ Becomes(o, result)
    /\ UNCHANGED <<attempts, sent>>

\* The process dies, and with it everything it knows of any order but those
\* nobody has submitted.
Lose ==
    /\ life' \in [Orders -> {"new", "lost"}]
    /\ \A o \in Orders : life'[o] = "new" => life[o] = "new"
    /\ UNCHANGED <<attempts, sent>>

LifeNext ==
    \/ \E o \in Orders :
         \/ Accept(o) \/ BeginAttempt(o) \/ Send(o) \/ Retry(o) \/ Settle(o)
         \/ \E result \in Results : Report(o, result)
    \/ Lose

LifeSpec == LifeInit /\ [][LifeNext]_lifeVars

\* A result is never taken back or replaced: all that can happen to it is that the
\* process, which alone remembers it, dies; and what has died with it stays dead.
ResultsStay ==
    [][\A o \in Orders : life[o] \in Results \cup {"lost"} => life'[o] \in {life[o], "lost"}]_lifeVars
=============================================================================

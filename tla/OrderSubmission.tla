--------------------------- MODULE OrderSubmission ---------------------------
(***************************************************************************)
(* How an order reaches the engine from outside: POST /api/bot/orders      *)
(* (api-server routes/bot.ts), which falls back to Python when its own     *)
(* call fails, and BotGrpcClient.submit_order (python-strategy             *)
(* grpc_client/client.py) with its three attempts and its circuit breaker. *)
(*                                                                         *)
(* Of the engine only the deduplication matters: calls with one            *)
(* idempotency_key make one order (module Idempotency), calls without a    *)
(* key one order each.  A call may fail although its order was accepted,   *)
(* and its request may still reach the engine after that.                  *)
(* The strategies' loop hands over one signal at a time, with a            *)
(* client_order_id; the fallback comes without one, next to it.            *)
(***************************************************************************)
EXTENDS Integers, FiniteSets

CONSTANTS
    Signals,    \* signals of the strategies
    Posted,      \* the order POSTed to the API
    Attempts,   \* stop_after_attempt
    Threshold,  \* cb_failure_threshold
    MaxFaults   \* bound: calls that fail

ASSUME SubmissionAssumption ==
    /\ Posted \notin Signals
    /\ Attempts \in Nat \ {0}
    /\ Threshold \in Nat \ {0}
    /\ MaxFaults \in Nat

VARIABLES
    api,        \* the route: "idle", "grpc", "python", "done"
    told,       \* what it answered: "nothing", "success", "refused" or "unavailable"
    pc,         \* [Calls -> ...]: submit_order: "idle", "start", "sent", "backoff", "done"
    attempt,    \* [Calls -> 0 .. Attempts]: attempts sent
    result,     \* [Calls -> ...]: how submit_order ended
    connected,  \* _connected
    state,      \* _state of the breaker
    failures,   \* _failures
    cooled,     \* _recovery_interval has passed since _opened_at
    orders,     \* orders the engine has made, each named after its key
    faults,
    failed,     \* calls that were reported to have failed: their requests may be on the way
    gaveUp      \* history variable: the route did not wait for Python

breaker == <<state, failures, cooled>>
calls   == <<pc, attempt, result>>
route   == <<api, told, gaveUp>>
subVars == <<route, calls, connected, breaker, orders, faults, failed>>

Calls    == Signals \cup {Posted}
Outcomes == {"nothing", "success", "refused", "unavailable"}

\* The engine tells orders apart by their keys.  submit_order makes a key for
\* every attempt unless it was given one; attempt 0 is a key that was given, or
\* the route's own call.
EngineKeys   == [call : Calls, attempt : 0 .. Attempts]

Key(c) == [call |-> c, attempt |-> IF c \in Signals THEN 0 ELSE attempt[c]]

Direct == [call |-> Posted, attempt |-> 0]

SubTypeOK ==
    /\ api \in {"idle", "grpc", "python", "done"}
    /\ told \in Outcomes
    /\ pc \in [Calls -> {"idle", "start", "sent", "backoff", "done"}]
    /\ attempt \in [Calls -> 0 .. Attempts]
    /\ result \in [Calls -> Outcomes]
    /\ connected \in BOOLEAN
    /\ state \in {"CLOSED", "OPEN", "HALF_OPEN"}
    /\ failures \in Nat
    /\ cooled \in BOOLEAN
    /\ orders \subseteq EngineKeys
    /\ faults \in 0 .. MaxFaults
    /\ failed \subseteq EngineKeys
    /\ gaveUp \in BOOLEAN

------------------------------------------------------------------------------
(* CircuitBreaker.                                                         *)

\* is_open, and what reading it does.
IsOpen     == state = "OPEN" /\ ~cooled
ReadIsOpen == /\ state' = IF state = "OPEN" /\ cooled THEN "HALF_OPEN" ELSE state
              /\ UNCHANGED <<failures, cooled>>

\* Mutant: the count of failures is not reset.
RecordSuccessKeepsCount == state' = "CLOSED" /\ UNCHANGED <<failures, cooled>>

RecordSuccess == state' = "CLOSED" /\ failures' = 0 /\ UNCHANGED cooled

RecordFailure ==
    LET opens == state = "HALF_OPEN" \/ (state = "CLOSED" /\ failures + 1 >= Threshold)
    IN /\ failures' = failures + 1
       /\ state' = IF opens THEN "OPEN" ELSE state
       /\ cooled' = IF opens THEN FALSE ELSE cooled

\* _on_rpc_error: only UNAVAILABLE, DEADLINE_EXCEEDED and INTERNAL count.
OnRpcError(fatal) ==
    IF fatal THEN connected' = FALSE /\ RecordFailure
             ELSE UNCHANGED <<connected, breaker>>

Fault == faults < MaxFaults /\ faults' = faults + 1

\* Time passes.
Cool ==
    /\ state = "OPEN" /\ ~cooled
    /\ cooled' = TRUE
    /\ UNCHANGED <<route, calls, connected, state, failures, orders, faults, failed>>

\* The reconnect loop's probe finds the engine.
ProbeConnection ==
    /\ ~connected
    /\ connected' = TRUE
    /\ UNCHANGED <<route, calls, breaker, orders, faults, failed>>

\* Calls other than submit_order count their failures, and not their successes.
OtherCallFails ==
    /\ connected
    /\ Fault
    /\ OnRpcError(TRUE)
    /\ UNCHANGED <<route, calls, orders, failed>>

------------------------------------------------------------------------------
(* submit_order.                                                           *)

\* One signal after the other: _execute_signal, whose own look at the breaker
\* runs up to the first attempt without an await.
ExecuteSignal(c) ==
    /\ c \in Signals /\ pc[c] = "idle"
    /\ \A d \in Signals : pc[d] \in {"idle", "done"}
    /\ ReadIsOpen
    /\ pc' = [pc EXCEPT ![c] = IF IsOpen THEN "done" ELSE "start"]
    /\ result' = [result EXCEPT ![c] = IF IsOpen THEN "unavailable" ELSE @]
    /\ UNCHANGED <<route, attempt, connected, orders, faults, failed>>

\* An attempt, up to the await.
Attempt(c) ==
    /\ pc[c] = "start"
    /\ IF connected THEN ReadIsOpen ELSE UNCHANGED breaker
    /\ IF connected /\ ~IsOpen
         THEN /\ pc' = [pc EXCEPT ![c] = "sent"]
              /\ attempt' = [attempt EXCEPT ![c] = @ + 1]
              /\ UNCHANGED result
         ELSE /\ pc' = [pc EXCEPT ![c] = "done"]
              /\ result' = [result EXCEPT ![c] = "unavailable"]
              /\ UNCHANGED attempt
    /\ UNCHANGED <<route, connected, orders, faults, failed>>

\* The engine answers; success is FALSE when it refused the order.
Answered(c) ==
    /\ pc[c] = "sent"
    /\ RecordSuccess
    /\ pc' = [pc EXCEPT ![c] = "done"]
    /\ result' = [result EXCEPT ![c] = IF Key(c) \in orders THEN "success" ELSE "refused"]
    /\ UNCHANGED <<route, attempt, connected, orders, faults, failed>>

\* Mutant: one attempt more than stop_after_attempt says.
CallFailsOnceMore(c, fatal) ==
    /\ pc[c] = "sent"
    /\ Fault
    /\ OnRpcError(fatal)
    /\ failed' = failed \cup {Key(c)}
    /\ IF attempt[c] <= Attempts
         THEN pc' = [pc EXCEPT ![c] = "backoff"] /\ UNCHANGED result
         ELSE /\ pc' = [pc EXCEPT ![c] = "done"]
              /\ result' = [result EXCEPT ![c] = "unavailable"]
    /\ UNCHANGED <<route, attempt, orders>>

\* The call fails, wherever its request is, and tenacity waits, or raises RetryError
\* in the end.
CallFails(c, fatal) ==
    /\ pc[c] = "sent"
    /\ Fault
    /\ OnRpcError(fatal)
    /\ failed' = failed \cup {Key(c)}
    /\ IF attempt[c] < Attempts
         THEN pc' = [pc EXCEPT ![c] = "backoff"] /\ UNCHANGED result
         ELSE /\ pc' = [pc EXCEPT ![c] = "done"]
              /\ result' = [result EXCEPT ![c] = "unavailable"]
    /\ UNCHANGED <<route, attempt, orders>>

RetryCall(c) ==
    /\ pc[c] = "backoff"
    /\ pc' = [pc EXCEPT ![c] = "start"]
    /\ UNCHANGED <<route, attempt, result, connected, breaker, orders, faults, failed>>

------------------------------------------------------------------------------
(* The route.                                                              *)

\* The request passes validation and goes to the engine, without a key.
Post ==
    /\ api = "idle"
    /\ api' = "grpc"
    /\ UNCHANGED <<told, gaveUp, calls, connected, breaker, orders, faults, failed>>

AnswerPost(outcome) == api' = "done" /\ told' = outcome

\* Mutant: no return after the engine's answer; the route goes on to Python.
AnsweredDirectFallsThrough ==
    /\ api = "grpc"
    /\ api' = "python" /\ pc' = [pc EXCEPT ![Posted] = "start"]
    /\ UNCHANGED <<told, gaveUp, attempt, result, connected, breaker, orders, faults, failed>>

AnsweredDirect ==
    /\ api = "grpc"
    /\ AnswerPost(IF Direct \in orders THEN "success" ELSE "refused")
    /\ UNCHANGED <<gaveUp, calls, connected, breaker, orders, faults, failed>>

\* Any error of the call: the route asks Python for the order, without the
\* client_order_id, or finds Python down.
FallBack ==
    /\ api = "grpc"
    /\ Fault
    /\ failed' = failed \cup {Direct}
    /\ \/ api' = "python" /\ pc' = [pc EXCEPT ![Posted] = "start"] /\ UNCHANGED told
       \/ AnswerPost("unavailable") /\ UNCHANGED pc
    /\ UNCHANGED <<gaveUp, attempt, result, connected, breaker, orders>>

\* fetchPython: Python answers; every status but 200 is "Engine not available".
PythonAnswers ==
    /\ api = "python" /\ pc[Posted] = "done"
    /\ AnswerPost(IF result[Posted] = "success" THEN "success" ELSE "unavailable")
    /\ UNCHANGED <<gaveUp, calls, connected, breaker, orders, faults, failed>>

\* fetchPython gives up after four seconds; submit_order goes on.
PythonTimesOut ==
    /\ api = "python" /\ pc[Posted] # "done"
    /\ AnswerPost("unavailable")
    /\ gaveUp' = TRUE
    /\ UNCHANGED <<calls, connected, breaker, orders, faults, failed>>

------------------------------------------------------------------------------
(* The engine.                                                             *)

\* Requests that may be on their way or in the handler: of a call that waits for
\* the answer, and of one that ran into its deadline or an error before.
RequestsOut ==
    failed \cup {Key(c) : c \in {d \in Calls : pc[d] = "sent"}}
           \cup (IF api = "grpc" THEN {Direct} ELSE {})

\* The engine accepts an order that it does not have.
Accept(k) ==
    /\ k \in RequestsOut \ orders
    /\ orders' = orders \cup {k}
    /\ UNCHANGED <<route, calls, connected, breaker, faults, failed>>

------------------------------------------------------------------------------
SubInit ==
    /\ api = "idle"
    /\ told = "nothing"
    /\ pc = [c \in Calls |-> "idle"]
    /\ attempt = [c \in Calls |-> 0]
    /\ result = [c \in Calls |-> "nothing"]
    /\ connected = FALSE
    /\ state = "CLOSED"
    /\ failures = 0
    /\ cooled = FALSE
    /\ orders = {}
    /\ faults = 0
    /\ failed = {}
    /\ gaveUp = FALSE

SubNext ==
    \/ Cool \/ ProbeConnection \/ OtherCallFails
    \/ \E c \in Signals : ExecuteSignal(c)
    \/ \E c \in Calls : Attempt(c) \/ Answered(c) \/ RetryCall(c)
    \/ \E c \in Calls, fatal \in BOOLEAN : CallFails(c, fatal)
    \/ Post \/ AnsweredDirect \/ FallBack \/ PythonAnswers \/ PythonTimesOut
    \/ \E k \in EngineKeys : Accept(k)

SubSpec == SubInit /\ [][SubNext]_subVars

------------------------------------------------------------------------------
(* Properties.                                                             *)

OrdersOf(c) == {k \in orders : k.call = c}

\* However often its call is repeated, a signal makes one order: the key is the
\* same for every attempt.
OneOrderPerSignal == \A c \in Signals : Cardinality(OrdersOf(c)) <= 1

\* Of the orders a click has made, all but one were accepted by calls that were
\* reported to have failed: the fallback and its retries carry no common key.
DuplicateNeedsFailedCall == Cardinality(OrdersOf(Posted) \ failed) <= 1

\* What the operator is told of his order, and what the strategy is told, is so as
\* far as it goes: "success" of an order that is there, "refused" of none that is or
\* may still come, and who is told that the engine is not available has no order
\* unless a call that was reported to have failed was accepted, before or after, or
\* the route did not wait for Python.
AnswersAreHonest ==
    /\ told = "success" => OrdersOf(Posted) # {}
    /\ \A c \in Calls : result[c] = "success" => OrdersOf(c) # {}
    /\ told = "refused" => OrdersOf(Posted) = {} /\ \A k \in RequestsOut : k.call # Posted
    /\ told = "unavailable" => gaveUp \/ OrdersOf(Posted) \subseteq failed

\* What is sent again makes no second order, and what is answered is so, as long as
\* no call fails whose order is accepted all the same.
SubmissionIsHonest == OneOrderPerSignal /\ DuplicateNeedsFailedCall /\ AnswersAreHonest

\* The breaker is closed exactly while fewer failures than its threshold have been
\* counted since the last success, and half open only after its recovery interval,
\* in whatever order the results come in: a call that was sent before the breaker
\* opened may close it, with its count, and may not shorten the interval.
BreakerFollowsResults ==
    /\ state = "CLOSED" <=> failures < Threshold
    /\ state = "HALF_OPEN" => cooled
==============================================================================

----------------------------- MODULE OrderStream -----------------------------
(***************************************************************************)
(* The order feed of the API server (artifacts/api-server/src/index.ts):   *)
(* one StreamOrders call to the engine, shared by every WebSocket client.  *)
(* An update that arrives is looked up in the database before it is sent   *)
(* on, so several updates may be in hand at once.  A call that ends is     *)
(* replaced after a delay that grows with every end; a call that has been  *)
(* up for BACKOFF_RESET_AFTER_MS resets the delay.                         *)
(*                                                                         *)
(* grpc-js reports a failed call by "error" and then, in the same tick, by *)
(* what data it still holds and by "end": no timer runs in between.  The   *)
(* engine sends from a bounded broadcast channel that drops the oldest     *)
(* event for a reader that lags, and keeps nothing for an absent reader.   *)
(***************************************************************************)
EXTENDS Naturals, Sequences, FiniteSets

CONSTANTS
    Orders,      \* the orders the engine reports on
    MaxVersion,  \* bound: status changes of an order
    Channel,     \* capacity of the broadcast channel and of the call's buffers
    MaxEnds,     \* bound: a call ends, or cannot be made, only while Spent is below it
    Hooks        \* the browsers' instances of useLiveTrades

ASSUME StreamAssumption ==
    /\ MaxVersion \in Nat
    /\ Channel \in Nat \ {0}
    /\ MaxEnds \in Nat

VARIABLES
    version,    \* [Orders -> 0 .. MaxVersion]: how many statuses the engine has published
    call,       \* "none", "calling", "open", or "failed": error reported, end still due
    wire,       \* updates on their way to the API server
    active,     \* _singletonActive
    restarts,   \* timers set by scheduleReconnect; _reconnectTimer is null iff there is none
    attempt,    \* _backoffAttempt
    health,     \* _streamHealthTimer: 0, or the number of the call that set it
    calls,      \* calls made so far
    lookups,    \* updates inside enrichUpdate
    overlapped, \* history variable: orders with two updates inside enrichUpdate at once
    listening,  \* hooks whose connection listens to orderEmitter
    alive,      \* of those, the ones with isAlive set
    silent,     \* hooks whose connection has fallen silent: what is sent is lost
    inbox       \* [Hooks -> Seq(Updates)]: sent to the browser, not yet received

singleton == <<active, restarts, attempt, health, calls>>
engine    == <<version, call, wire>>
relay     == <<lookups, overlapped>>
clients   == <<listening, alive, silent, inbox>>

Updates == [order : Orders, version : 1 .. MaxVersion]
\* What is spent of MaxEnds: without it failures could go on for ever.
Spent   == calls + attempt

------------------------------------------------------------------------------

\* Mutant: no guard against a timer that is already set.
ScheduleReconnectAgain == restarts' = restarts + 1 /\ attempt' = attempt + 1

\* scheduleReconnect: the guard keeps the second event of a failed call from
\* setting a second timer.  The wait is ComputeBackoffDelay(attempt').
ScheduleReconnect ==
    IF restarts > 0
      THEN UNCHANGED <<restarts, attempt>>
      ELSE restarts' = restarts + 1 /\ attempt' = attempt + 1

\* Mutant: the health timer of the call that ended is left running.
OnEndKeepsTimer == active' = FALSE /\ ScheduleReconnect /\ UNCHANGED health

\* The onEnd callback, called for "error" and for "end".
OnEnd ==
    /\ health' = 0
    /\ active' = FALSE
    /\ ScheduleReconnect

\* resetBackoff, as the health timer runs it.
ResetBackoff ==
    /\ health # 0
    /\ call # "failed"
    /\ attempt' = 0
    /\ health' = 0
    /\ UNCHANGED <<active, restarts, calls, engine, relay, clients>>

\* The reconnect timer runs startSingletonStream, which makes a call ...
Reconnect ==
    /\ restarts > 0
    /\ call # "failed"
    /\ restarts' = restarts - 1
    /\ IF active
         THEN UNCHANGED <<active, call, calls>>
         ELSE active' = TRUE /\ call' = "calling" /\ calls' = calls + 1
    /\ UNCHANGED <<attempt, health, version, wire, relay, clients>>

\* ... or streamOrders throws.
ReconnectThrows ==
    /\ restarts = 1
    /\ call # "failed"
    /\ ~active
    /\ Spent < MaxEnds
    /\ attempt' = attempt + 1
    /\ UNCHANGED <<active, restarts, health, calls, engine, relay, clients>>

------------------------------------------------------------------------------
\* The engine starts to answer the call: stream_orders subscribes.
Subscribe ==
    /\ call = "calling"
    /\ call' = "open"
    /\ UNCHANGED <<version, wire, singleton, relay, clients>>

\* The engine publishes the next status of an order.
Publish(o) ==
    /\ version[o] < MaxVersion
    /\ version' = [version EXCEPT ![o] = @ + 1]
    /\ wire' = IF call # "open" THEN wire
               ELSE Append(IF Len(wire) = Channel THEN Tail(wire) ELSE wire,
                           [order |-> o, version |-> version[o] + 1])
    /\ UNCHANGED <<call, singleton, relay, clients>>

\* "data", up to the await in enrichUpdate.
Data ==
    /\ wire # <<>>
    /\ health' = IF health = 0 THEN calls ELSE health
    /\ lookups' = lookups \cup {Head(wire)}
    /\ overlapped' = overlapped \cup {u.order : u \in {x \in lookups : x.order = Head(wire).order}}
    /\ wire' = Tail(wire)
    /\ UNCHANGED <<version, call, active, restarts, attempt, calls, clients>>

\* "error": the engine died, refused the call or reset it.
Error ==
    /\ call \in {"calling", "open"}
    /\ Spent < MaxEnds
    /\ call' = "failed"
    /\ OnEnd
    /\ UNCHANGED <<version, wire, calls, relay, clients>>

\* "end": after an error, or alone when the engine closes the stream; a clean
\* end follows the last data.
End ==
    /\ \/ call = "failed"
       \/ call = "open" /\ wire = <<>> /\ Spent < MaxEnds
    /\ call' = "none"
    /\ wire' = <<>>
    /\ OnEnd
    /\ UNCHANGED <<version, calls, relay, clients>>

\* The lookup is done, or has failed and was ignored: the payload goes to every
\* listening connection whose socket is open (no hook filters by order).
EnrichUpdate(u) ==
    /\ u \in lookups
    /\ call # "failed"
    /\ lookups' = lookups \ {u}
    /\ inbox' = [h \in Hooks |->
                               IF h \in listening \ silent THEN Append(inbox[h], u) ELSE inbox[h]]
    /\ UNCHANGED <<overlapped, listening, alive, silent, engine, singleton>>

StreamInit ==
    /\ version = [o \in Orders |-> 0]
    /\ wire = <<>>
    /\ \* startSingletonStream at boot: it makes the call or throws
       \/ call = "calling" /\ active = TRUE /\ restarts = 0 /\ attempt = 0 /\ calls = 1
       \/ call = "none" /\ active = FALSE /\ restarts = 1 /\ attempt = 1 /\ calls = 0
    /\ health = 0
    /\ lookups = {}
    /\ overlapped = {}
    /\ listening = {}
    /\ alive = {}
    /\ silent = {}
    /\ inbox = [h \in Hooks |-> <<>>]

StreamNext ==
    \/ ResetBackoff \/ Reconnect \/ ReconnectThrows
    \/ Subscribe \/ Data \/ Error \/ End
    \/ \E o \in Orders : Publish(o)
    \/ \E u \in lookups : EnrichUpdate(u)
==============================================================================

----------------------------- MODULE Idempotency -----------------------------
(***************************************************************************)
(* BotService::submit_order (rust-engine/src/grpc_server.rs): the two      *)
(* tiers of deduplication for one idempotency key.  Keys share nothing, so *)
(* one is enough.  Tier 1 is an in-memory map, tier 2 the table            *)
(* idempotency_keys; a call looks in both before it hands its order to     *)
(* OrderManager::submit_order, of which only the outcome matters here.     *)
(*                                                                         *)
(* Every await is a boundary between two actions.  Both tiers forget after *)
(* TTL, so there is a clock; a call is dropped at its deadline, at any     *)
(* await, leaving both tiers as they are.  A statement whose call is gone, *)
(* or was told of an error, may still be executed by the database.         *)
(***************************************************************************)
EXTENDS Integers, FiniteSets

CONSTANTS
    Calls,       \* calls of SubmitOrder that retry one order
    Keyless,     \* those of them that come without an idempotency_key
    NoCall,      \* the empty order_id
    TTL,         \* IKEY_TTL_SECS, and the INTERVAL of the cleanup
    Deadline,    \* how long a call, or an abandoned statement, can last
    MaxTime,     \* bound: the clock
    MaxCrashes   \* bound: how often the engine process may die

\* The Python client sends a deadline of 10 s with a window of 60 s; clients
\* without a deadline send no key.
ASSUME ConstantsAssumption ==
    /\ NoCall \notin Calls
    /\ Keyless \subseteq Calls
    /\ TTL \in Nat
    /\ Deadline \in Nat
    /\ 2 * Deadline <= TTL
    /\ MaxTime \in Nat
    /\ MaxCrashes \in Nat

VARIABLES
    now,        \* the clock
    pc,         \* [Calls -> CallPC]: progress of each call
    started,    \* [Calls -> Nat]: when it arrived
    answer,     \* [Calls -> Answers]: the outcome it was told, or will be
    told,       \* [Calls -> Ids]: the order_id in the answer
    mem,        \* the entry of ikey_cache
    row,        \* the row of idempotency_keys
    late,       \* statements that may yet reach the database
    crashes,    \* process deaths so far
    orders,     \* history variable: orders accepted for the key, each with the time of its reservation
    failed,     \* history variable: a call was dropped, a statement failed, or the process died
    unfounded   \* history variable: calls acknowledged while no other call was in progress

progress == <<pc, started, answer, told>>
tiers    == <<mem, row, late>>
hist     == <<orders, failed, unfounded>>
vars     == <<now, progress, tiers, crashes, hist>>

\* An order is named after the call that made it.
Ids     == Calls \cup {NoCall}
\* What both tiers hold for a key.  "by", the call that put it there, is for
\* the properties only: nothing reads it.
Entries == [by : Ids, order : Ids, at : Nat]
Absent  == [by |-> NoCall, order |-> NoCall, at |-> 0]

Busy    == {"check", "reserve", "learn", "submit", "remember", "commit", "forget", "release", "undo"}
CallPC  == Busy \cup {"new", "done"}
Answers == {"none", "order", "acknowledged", "refused", "unavailable", "invalid", "dropped"}
Statements == [verb : {"insert", "update", "delete"}, by : Calls, at : Nat]

Init ==
    /\ now = 0
    /\ pc = [c \in Calls |-> "new"]
    /\ started = [c \in Calls |-> 0]
    /\ answer = [c \in Calls |-> "none"]
    /\ told = [c \in Calls |-> NoCall]
    /\ mem = Absent
    /\ row = Absent
    /\ late = {}
    /\ crashes = 0
    /\ orders = {}
    /\ failed = FALSE
    /\ unfounded = {}

Goto(c, label) == pc' = [pc EXCEPT ![c] = label]
Reply(c, a)    == answer' = [answer EXCEPT ![c] = a]
Tell(c, o)     == told' = [told EXCEPT ![c] = o]
Reservation(c) == [by |-> c, order |-> NoCall, at |-> now]
InProgress(c)  == pc[c] \in Busy

\* The answer without an order_id: "order is being processed".
Acknowledge(c) ==
    /\ Reply(c, "acknowledged")
    /\ unfounded' = IF \E d \in Calls \ {c} : InProgress(d)
                    THEN unfounded ELSE unfounded \cup {c}

-----------------------------------------------------------------------------
(* The statements, as the database executes them *)

\* Mutant: the key is reserved with the id the order is going to have.
InsertedWithOrder(c) == IF row = Absent THEN [Reservation(c) EXCEPT !.order = c] ELSE row

\* INSERT ... ON CONFLICT DO NOTHING
Inserted(c) == IF row = Absent THEN Reservation(c) ELSE row

Updated(c)  == IF row = Absent THEN row ELSE [row EXCEPT !.order = c]

\* The statement each call waits for, if any.
Waiting(c) ==
    CASE pc[c] = "reserve" -> {[verb |-> "insert", by |-> c, at |-> now]}
      [] pc[c] = "commit"  -> {[verb |-> "update", by |-> c, at |-> now]}
      [] pc[c] = "release" -> {[verb |-> "delete", by |-> c, at |-> now]}
      [] OTHER -> {}

\* The call gets no result: the statement is lost, or still to be executed.
Unanswered(c) == late' \in {late, late \cup Waiting(c)}

RunLate(s) ==
    /\ row' = CASE s.verb = "insert" -> Inserted(s.by)
                [] s.verb = "update" -> Updated(s.by)
                [] s.verb = "delete" -> Absent
    /\ late' = late \ {s}
    /\ UNCHANGED <<now, progress, mem, crashes, hist>>

-----------------------------------------------------------------------------
(* Validation and tier 1, under one write lock *)

\* Nothing is reserved for a request that does not parse.
Invalid(c) ==
    /\ pc[c] = "new"
    /\ Goto(c, "done")
    /\ Reply(c, "invalid")
    /\ UNCHANGED <<now, started, told, tiers, crashes, hist>>

\* Without a key a call goes straight to the order manager.
ArriveKeyless(c) ==
    /\ pc[c] = "new"
    /\ c \in Keyless
    /\ Goto(c, "submit")
    /\ started' = [started EXCEPT ![c] = now]
    /\ UNCHANGED <<now, answer, told, tiers, crashes, hist>>

\* An entry of age TTL is not retained.
Remembered == mem # Absent /\ now - mem.at < TTL

HitOrder(c) ==
    /\ Remembered /\ mem.order # NoCall
    /\ Goto(c, "done")
    /\ Reply(c, "order")
    /\ Tell(c, mem.order)
    /\ UNCHANGED <<mem, unfounded>>

HitPlaceholder(c) ==
    /\ Remembered /\ mem.order = NoCall
    /\ Goto(c, "done")
    /\ Acknowledge(c)
    /\ UNCHANGED <<mem, told>>

Miss(c) ==
    /\ ~ Remembered
    /\ Goto(c, "check")
    /\ mem' = Reservation(c)
    /\ UNCHANGED <<answer, told, unfounded>>

Arrive(c) ==
    /\ pc[c] = "new"
    /\ c \notin Keyless
    /\ HitOrder(c) \/ HitPlaceholder(c) \/ Miss(c)
    /\ started' = [started EXCEPT ![c] = now]
    /\ UNCHANGED <<now, row, late, crashes, orders, failed>>

-----------------------------------------------------------------------------
(* Tier 2 *)

\* Mutant: a key found in flight is taken over.
CheckTakesOver(c) ==
    /\ pc[c] = "check"
    /\ IF row.order # NoCall
       THEN Goto(c, "learn") /\ Reply(c, "order") /\ Tell(c, row.order)
       ELSE /\ Goto(c, IF row = Absent THEN "reserve" ELSE "submit")
            /\ UNCHANGED <<answer, told>>
    /\ UNCHANGED <<now, started, tiers, crashes, hist>>

\* check_idempotency_key
Check(c) ==
    /\ pc[c] = "check"
    /\ \/ /\ row.order # NoCall
          /\ Goto(c, "learn")
          /\ Reply(c, "order")
          /\ Tell(c, row.order)
          /\ UNCHANGED <<failed, unfounded>>
       \/ \* in flight: the placeholder stays in memory
          /\ row # Absent /\ row.order = NoCall
          /\ Goto(c, "done")
          /\ Acknowledge(c)
          /\ UNCHANGED <<told, failed>>
       \/ /\ row = Absent
          /\ Goto(c, "reserve")
          /\ UNCHANGED <<answer, told, failed, unfounded>>
       \/ \* the query fails
          /\ Goto(c, "undo")
          /\ Reply(c, "unavailable")
          /\ failed' = TRUE
          /\ UNCHANGED <<told, unfounded>>
    /\ UNCHANGED <<now, started, tiers, crashes, orders>>

Learn(c) ==
    /\ pc[c] = "learn"
    /\ Goto(c, "done")
    /\ mem' = IF mem = Absent THEN mem ELSE [mem EXCEPT !.order = told[c]]
    /\ UNCHANGED <<now, started, answer, told, row, late, crashes, hist>>

\* reserve_idempotency_key
Reserve(c) ==
    /\ pc[c] = "reserve"
    /\ \/ /\ row = Absent
          /\ row' = Inserted(c)
          /\ Goto(c, "submit")
          /\ UNCHANGED <<answer, late, failed, unfounded>>
       \/ /\ row # Absent
          /\ Goto(c, "undo")
          /\ Acknowledge(c)
          /\ UNCHANGED <<row, late, failed>>
       \/ /\ Goto(c, "undo")
          /\ Reply(c, "unavailable")
          /\ Unanswered(c)
          /\ failed' = TRUE
          /\ UNCHANGED <<row, unfounded>>
    /\ UNCHANGED <<now, started, told, mem, crashes, orders>>

\* Mutant: the row is deleted along with the placeholder.
UndoReleases(c) ==
    /\ pc[c] = "undo"
    /\ Goto(c, "done")
    /\ mem' = Absent
    /\ row' = Absent
    /\ UNCHANGED <<now, started, answer, told, late, crashes, hist>>

\* The placeholder is taken out of memory again.
Undo(c) ==
    /\ pc[c] = "undo"
    /\ Goto(c, "done")
    /\ mem' = Absent
    /\ UNCHANGED <<now, started, answer, told, row, late, crashes, hist>>

-----------------------------------------------------------------------------
(* OrderManager::submit_order and what follows it *)

Accept(c) ==
    /\ pc[c] = "submit"
    /\ Reply(c, "order")
    /\ Tell(c, c)
    /\ Goto(c, IF c \in Keyless THEN "done" ELSE "remember")
    /\ orders' = IF c \in Keyless THEN orders ELSE orders \cup {[by |-> c, at |-> row.at]}
    /\ UNCHANGED <<now, started, tiers, crashes, failed, unfounded>>

Refuse(c) ==
    /\ pc[c] = "submit"
    /\ Reply(c, "refused")
    /\ Goto(c, IF c \in Keyless THEN "done" ELSE "forget")
    /\ UNCHANGED <<now, started, told, tiers, crashes, hist>>

\* Mutant: the time of the entry becomes the time it expires.
RememberExtends(c) ==
    /\ pc[c] = "remember"
    /\ Goto(c, "commit")
    /\ mem' = IF mem = Absent THEN mem ELSE [mem EXCEPT !.order = c, !.at = now + TTL]
    /\ UNCHANGED <<now, started, answer, told, row, late, crashes, hist>>

Remember(c) ==
    /\ pc[c] = "remember"
    /\ Goto(c, "commit")
    /\ mem' = IF mem = Absent THEN mem ELSE [mem EXCEPT !.order = c]
    /\ UNCHANGED <<now, started, answer, told, row, late, crashes, hist>>

\* A write whose error is only logged.
Write(c, written) ==
    /\ Goto(c, "done")
    /\ \/ row' = written /\ UNCHANGED <<late, failed>>
       \/ Unanswered(c) /\ failed' = TRUE /\ UNCHANGED row
    /\ UNCHANGED <<now, started, answer, told, mem, crashes, orders, unfounded>>

\* commit_idempotency_key
Commit(c) == pc[c] = "commit" /\ Write(c, Updated(c))

Forget(c) ==
    /\ pc[c] = "forget"
    /\ Goto(c, "release")
    /\ mem' = Absent
    /\ UNCHANGED <<now, started, answer, told, row, late, crashes, hist>>

\* release_idempotency_key
Release(c) == pc[c] = "release" /\ Write(c, Absent)

-----------------------------------------------------------------------------
(* The environment *)

\* The deadline passes or the client goes away: the handler is dropped where
\* it waits.
Drop(c) ==
    /\ InProgress(c)
    /\ Goto(c, "done")
    /\ Reply(c, "dropped")
    /\ Tell(c, NoCall)
    /\ Unanswered(c)
    /\ failed' = TRUE
    /\ UNCHANGED <<now, started, mem, row, crashes, orders, unfounded>>

\* The process dies with its calls and its memory.
Crash ==
    /\ crashes < MaxCrashes
    /\ crashes' = crashes + 1
    /\ pc' = [c \in Calls |-> IF InProgress(c) THEN "done" ELSE pc[c]]
    /\ answer' = [c \in Calls |-> IF InProgress(c) THEN "dropped" ELSE answer[c]]
    /\ told' = [c \in Calls |-> IF InProgress(c) THEN NoCall ELSE told[c]]
    /\ mem' = Absent
    /\ \E sent \in SUBSET UNION {Waiting(c) : c \in Calls} : late' = late \cup sent
    /\ failed' = TRUE
    /\ UNCHANGED <<now, started, row, orders, unfounded>>

\* Mutant: reservations that never got an order are purged at once.
CleanupPurgesInFlight ==
    /\ row # Absent
    /\ row.order = NoCall \/ now - row.at > TTL
    /\ row' = Absent
    /\ UNCHANGED <<now, progress, mem, late, crashes, hist>>

\* cleanup_idempotency_keys, every 30 seconds.
Cleanup ==
    /\ row # Absent
    /\ now - row.at > TTL
    /\ row' = Absent
    /\ UNCHANGED <<now, progress, mem, late, crashes, hist>>

Tick ==
    /\ now < MaxTime
    /\ \A c \in Calls \ Keyless : InProgress(c) => now - started[c] < Deadline
    /\ \A s \in late : now - s.at < Deadline
    /\ now' = now + 1
    /\ UNCHANGED <<progress, tiers, crashes, hist>>

CallStep(c) ==
    \/ Invalid(c) \/ ArriveKeyless(c) \/ Arrive(c)
    \/ Check(c) \/ Learn(c) \/ Reserve(c) \/ Undo(c)
    \/ Accept(c) \/ Refuse(c) \/ Remember(c) \/ Commit(c) \/ Forget(c) \/ Release(c)
    \/ Drop(c)

Next ==
    \/ \E c \in Calls : CallStep(c)
    \/ \E s \in late : RunLate(s)
    \/ Crash
    \/ Cleanup
    \/ Tick

Spec == Init /\ [][Next]_vars

-----------------------------------------------------------------------------
(* Properties *)

TypeOK ==
    /\ now \in Nat
    /\ pc \in [Calls -> CallPC]
    /\ started \in [Calls -> Nat]
    /\ answer \in [Calls -> Answers]
    /\ told \in [Calls -> Ids]
    /\ mem \in Entries /\ mem.at <= now
    /\ row \in Entries /\ row.at <= now
    /\ late \in SUBSET Statements
    /\ crashes \in 0 .. MaxCrashes
    /\ orders \in SUBSET [by : Calls, at : Nat]
    /\ failed \in BOOLEAN
    /\ unfounded \in SUBSET Calls

\* The row is the lease of the call that inserted it; a call that has ended
\* was told an order or none.
Keyed == Calls \ Keyless

Lease == INSTANCE AtMostOnce WITH
    Calls <- Keyed,
    lease <- [by |-> row.by, at |-> row.at],
    told  <- [c \in Keyed |-> IF pc[c] = "done" THEN told[c] ELSE NoCall]

\* The two tiers implement the lease, with crashes, errors of the database,
\* dropped calls and statements that are executed late.
ImplementsLease == Lease!LeaseSpec

\* Two orders for one key were reserved more than TTL apart, however calls,
\* crashes, cleanups and late statements interleave.
OneOrderPerWindow == Lease!OrdersApart

\* A call that is answered with an order id is answered with an order that
\* was accepted for the key.
AnswersAreOrders ==
    \A c \in Keyed : told[c] # NoCall => \E o \in orders : o.by = told[c]

\* A key that has its order is not forgotten or given to another order before
\* the window is over, whatever fails.
CommittedUntilExpiry ==
    [][row.order # NoCall /\ row' # row => now - row.at > TTL]_vars

-----------------------------------------------------------------------------
(* What messages and comments say and the code does not do *)

\* "Duplicate request acknowledged -- order is being processed": unless some
\* call was dropped, a statement failed or the process died before, another
\* call with the key is in progress when that is said.
AcknowledgedIsProcessed == failed \/ unfounded = {}
=============================================================================

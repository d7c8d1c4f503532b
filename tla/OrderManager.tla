---------------------------- MODULE OrderManager ----------------------------
(***************************************************************************)
(* The order pipeline of one wallet: rust-engine/src/order/manager.rs.     *)
(*                                                                         *)
(* Callers submit and cancel orders; the receive loop of the execution     *)
(* worker hands every order of the channel to a task of its own, as long   *)
(* as the semaphore has a permit; a task validates the order, asks the     *)
(* decision engine a second time, executes it through Jito or RPC, and     *)
(* retries or finalises it.  Every await point of that code is a boundary  *)
(* between two actions here.                                               *)
(*                                                                         *)
(* The decision engine is reduced to what the pipeline depends on: it may  *)
(* deny anything, and it allows only within the exposure limit (module     *)
(* DecisionEngine has the rest).  All orders have the same size, so an     *)
(* exposure is a number of orders.                                         *)
(***************************************************************************)
EXTENDS Integers, Sequences, FiniteSets

CONSTANTS
    Orders,       \* ids of the orders callers may submit (one Uuid each)
    NoOrder,      \* what an idle task slot holds
    Slots,        \* permits of the execution semaphore
    MaxPending,   \* config.max_pending_orders
    MaxRetries,   \* config.max_retries
    MaxExposure,  \* config.max_portfolio_exposure_sol, in orders
    MaxCrashes    \* bound: how often the engine process may die

ASSUME ConstantsAssumption ==
    /\ NoOrder \notin Orders
    /\ MaxPending \in Nat
    /\ MaxRetries \in Nat
    /\ MaxExposure \in Nat
    /\ MaxCrashes \in Nat

VARIABLES
    submit,    \* [Orders -> SubmitPC]: progress of the submit_order call
    cancel,    \* [Orders -> CancelPC]: progress of the cancel_order call
    db,        \* [Orders -> RowStatus]: status column of the orders table
    trades,    \* ids with a row in the trades table
    pending,   \* ids in pending_orders
    channel,   \* order_tx/order_rx: the copies waiting for a task
    active,    \* ids in active_orders
    history,   \* [Orders -> Outcome]: order_history
    pc,        \* [Slots -> TaskPC]: where each spawned process_order is
    job,       \* [Slots -> Job]: the order copy each task owns
    outcome,   \* [Slots -> Outcome]: status the task has given its copy
    mev,       \* mev_enabled with a Jito client: fixed for a deployment
    crashes,   \* process deaths so far
    allows,    \* history variable: Allow decisions at the execution gate
    sends,     \* history variable: transactions handed to Jito or an RPC node
    unsaved    \* history variable: ids whose final UPDATE reported an error

callers  == <<submit, cancel>>
tables   == <<db, trades>>
queues   == <<pending, channel>>
tasks    == <<pc, job, outcome>>
approved == <<allows, sends>>
vars == <<callers, tables, queues, active, history, tasks, mev, crashes, approved, unsaved>>

SubmitPC  == {"new", "store", "push", "send", "ok", "refused", "lost"}
CancelPC  == {"no", "active", "done"}
RowStatus == {"none", "Pending", "Cancelled", "Executed", "Failed"}
Outcome   == {"none", "Executed", "Failed"}

Copies == [id : Orders, retry : 0 .. MaxRetries]
Idle   == [id |-> NoOrder, retry |-> 0]

\* Where execution hands transactions out, and where a task still owns the
\* only copy of its order ("drop" comes after the copy went back).
ExecPC == {"simulate", "bundle1", "status1", "bundle2", "status2", "direct", "confirm"}
LivePC == ExecPC \cup {"start", "gate", "resend", "persist", "finish"}
TaskPC == LivePC \cup {"idle", "drop"}

Init ==
    /\ submit  = [o \in Orders |-> "new"]
    /\ cancel  = [o \in Orders |-> "no"]
    /\ db      = [o \in Orders |-> "none"]
    /\ trades  = {}
    /\ pending = {}
    /\ channel = <<>>
    /\ active  = {}
    /\ history = [o \in Orders |-> "none"]
    /\ pc      = [s \in Slots |-> "idle"]
    /\ job     = [s \in Slots |-> Idle]
    /\ outcome = [s \in Slots |-> "none"]
    /\ mev \in BOOLEAN
    /\ crashes = 0
    /\ allows  = [o \in Orders |-> 0]
    /\ sends   = [o \in Orders |-> 0]
    /\ unsaved = {}

-----------------------------------------------------------------------------
(* submit_order *)

\* The first gate.  The exposure is the sum over active_orders.
SubmitEvaluate(o) ==
    /\ submit[o] = "new"
    /\ \/ /\ Cardinality(active) + 1 <= MaxExposure
          /\ submit' = [submit EXCEPT ![o] = "store"]
       \/ submit' = [submit EXCEPT ![o] = "refused"]
    /\ UNCHANGED <<cancel, tables, queues, active, history, tasks, mev, crashes, approved, unsaved>>

\* The INSERT of store_order.  When it reports an error the row may be there
\* or not, and the call returns that error.
StoreOrder(o) ==
    /\ submit[o] = "store"
    /\ \/ /\ submit' = [submit EXCEPT ![o] = "push"]
          /\ db' = [db EXCEPT ![o] = "Pending"]
       \/ /\ submit' = [submit EXCEPT ![o] = "refused"]
          /\ db' \in {db, [db EXCEPT ![o] = "Pending"]}
    /\ UNCHANGED <<cancel, trades, queues, active, history, tasks, mev, crashes, approved, unsaved>>

\* The bounded queue.  QueueFull leaves the stored row behind.
PushPending(o) ==
    /\ submit[o] = "push"
    /\ IF Cardinality(pending) >= MaxPending
       THEN /\ submit' = [submit EXCEPT ![o] = "refused"]
            /\ UNCHANGED pending
       ELSE /\ submit' = [submit EXCEPT ![o] = "send"]
            /\ pending' = pending \cup {o}
    /\ UNCHANGED <<cancel, tables, channel, active, history, tasks, mev, crashes, approved, unsaved>>

SendOrder(o) ==
    /\ submit[o] = "send"
    /\ submit' = [submit EXCEPT ![o] = "ok"]
    /\ channel' = Append(channel, [id |-> o, retry |-> 0])
    /\ UNCHANGED <<cancel, tables, pending, active, history, tasks, mev, crashes, approved, unsaved>>

SubmitStep(o) == SubmitEvaluate(o) \/ StoreOrder(o) \/ PushPending(o) \/ SendOrder(o)

-----------------------------------------------------------------------------
(* cancel_order: any id that a listing of the orders table shows *)

CancelPending(o) ==
    /\ cancel[o] = "no"
    /\ db[o] # "none"
    /\ cancel' = [cancel EXCEPT ![o] = "active"]
    /\ pending' = pending \ {o}
    /\ UNCHANGED <<submit, tables, channel, active, history, tasks, mev, crashes, approved, unsaved>>

\* The write lock of active_orders is held over the UPDATE; the entry is gone
\* even when the UPDATE fails.
CancelActive(o) ==
    /\ cancel[o] = "active"
    /\ cancel' = [cancel EXCEPT ![o] = "done"]
    /\ active' = active \ {o}
    /\ IF o \in active
       THEN db' \in {db, [db EXCEPT ![o] = "Cancelled"]}
       ELSE UNCHANGED db
    /\ UNCHANGED <<submit, trades, queues, history, tasks, mev, crashes, approved, unsaved>>

CancelStep(o) == CancelPending(o) \/ CancelActive(o)

-----------------------------------------------------------------------------
(* execution_worker: one receive loop, one task per order, one permit per    *)
(* task.  An order received while no permit is free is still the channel's   *)
(* head here: nobody can tell the two apart.                                 *)

Dispatch(s) ==
    /\ pc[s] = "idle"
    /\ channel # <<>>
    /\ job' = [job EXCEPT ![s] = Head(channel)]
    /\ pc' = [pc EXCEPT ![s] = "start"]
    /\ channel' = Tail(channel)
    /\ UNCHANGED <<callers, tables, pending, active, history, outcome, mev, crashes, approved, unsaved>>

-----------------------------------------------------------------------------
(* process_order, run by the task in slot s *)

Goto(s, label) == pc' = [pc EXCEPT ![s] = label]

\* A task that ends gives its permit back.
EndTask(s) ==
    /\ Goto(s, "idle")
    /\ job' = [job EXCEPT ![s] = Idle]
    /\ outcome' = [outcome EXCEPT ![s] = "none"]

Conclude(s, result) ==
    /\ Goto(s, "persist")
    /\ outcome' = [outcome EXCEPT ![s] = result]
    /\ UNCHANGED job

\* Mutant: the comparison with max_retries off by one.
ExecutionErrorOffByOne(s, retriable) ==
    IF retriable /\ job[s].retry <= MaxRetries
    THEN /\ Goto(s, "resend")
         /\ job' = [job EXCEPT ![s].retry = @ + 1]
         /\ UNCHANGED outcome
    ELSE Conclude(s, "Failed")

\* An execution error: one more attempt while the budget lasts and the error
\* is retriable, otherwise the order fails.
ExecutionError(s, retriable) ==
    IF retriable /\ job[s].retry < MaxRetries
    THEN /\ Goto(s, "resend")
         /\ job' = [job EXCEPT ![s].retry = @ + 1]
         /\ UNCHANGED outcome
    ELSE Conclude(s, "Failed")

\* Entry in active_orders; an unparsable mint fails the order at once.
Start(s) ==
    /\ pc[s] = "start"
    /\ active' = active \cup {job[s].id}
    /\ \/ Goto(s, "gate") /\ UNCHANGED <<job, outcome>>
       \/ Conclude(s, "Failed")
    /\ UNCHANGED <<callers, tables, queues, history, mev, crashes, approved, unsaved>>

\* The exposure at the gate: the whole sum less this order's own amount,
\* which is subtracted whether or not the sum contains it.
OtherExposure == IF active = {} THEN 0 ELSE Cardinality(active) - 1

\* Mutant: the gate forgets the order's own size.
GateAllowWithoutOwnSize(s) ==
    /\ pc[s] = "gate"
    /\ OtherExposure <= MaxExposure
    /\ Goto(s, IF mev THEN "simulate" ELSE "direct")
    /\ allows' = [allows EXCEPT ![job[s].id] = @ + 1]
    /\ UNCHANGED <<callers, tables, queues, active, history, job, outcome, mev, crashes, sends, unsaved>>

GateAllow(s) ==
    /\ pc[s] = "gate"
    /\ OtherExposure + 1 <= MaxExposure
    /\ Goto(s, IF mev THEN "simulate" ELSE "direct")
    /\ allows' = [allows EXCEPT ![job[s].id] = @ + 1]
    /\ UNCHANGED <<callers, tables, queues, active, history, job, outcome, mev, crashes, sends, unsaved>>

GateDeny(s) ==
    /\ pc[s] = "gate"
    /\ Conclude(s, "Failed")
    /\ UNCHANGED <<callers, tables, queues, active, history, mev, crashes, approved, unsaved>>

Gate(s) == GateAllow(s) \/ GateDeny(s)

\* Steps of the execution change nothing but the task and what was sent.
ExecFrame == UNCHANGED <<callers, tables, queues, active, history, mev, crashes, allows, unsaved>>

Submitted(s) == sends' = [sends EXCEPT ![job[s].id] = @ + 1]

\* The simulation gate (or a deployment that switched it off).  A rejection
\* skips the RPC fallback, but counts as any other error for the retries.
Simulate(s) ==
    /\ pc[s] = "simulate"
    /\ \/ Goto(s, "bundle1") /\ UNCHANGED <<job, outcome>>
       \/ \E retriable \in BOOLEAN : ExecutionError(s, retriable)
    /\ ExecFrame /\ UNCHANGED sends

\* send_bundle: after an error the loop goes on to its second round, and after
\* that to RPC, whether or not the block engine took the bundle.
SendBundle(s) ==
    /\ \/ /\ pc[s] = "bundle1"
          /\ Goto(s, "status1") \/ Goto(s, "bundle2")
       \/ /\ pc[s] = "bundle2"
          /\ Goto(s, "status2") \/ Goto(s, "direct")
    /\ Submitted(s)
    /\ ExecFrame /\ UNCHANGED <<job, outcome>>

\* Up to five polls.  Landed, or still undecided after them: the order counts
\* as executed.  Failed: next round.
BundleStatus(s) ==
    /\ \/ pc[s] \in {"status1", "status2"} /\ Conclude(s, "Executed")
       \/ pc[s] = "status1" /\ Goto(s, "bundle2") /\ UNCHANGED <<job, outcome>>
       \/ pc[s] = "status2" /\ Goto(s, "direct") /\ UNCHANGED <<job, outcome>>
    /\ ExecFrame /\ UNCHANGED sends

\* A transaction for Jito that cannot be built: straight to the RPC fallback.
BuildError(s) ==
    /\ pc[s] \in {"simulate", "bundle1", "bundle2"}
    /\ Goto(s, "direct")
    /\ ExecFrame /\ UNCHANGED <<job, outcome, sends>>

\* execute_direct: nothing is sent when no RPC node or blockhash is to be had.
Direct(s) ==
    /\ pc[s] = "direct"
    /\ \/ /\ Goto(s, "confirm")
          /\ Submitted(s)
          /\ UNCHANGED <<job, outcome>>
       \/ /\ \E retriable \in BOOLEAN : ExecutionError(s, retriable)
          /\ UNCHANGED sends
    /\ ExecFrame

Confirm(s) ==
    /\ pc[s] = "confirm"
    /\ \/ Conclude(s, "Executed")
       \/ \E retriable \in BOOLEAN : ExecutionError(s, retriable)
    /\ ExecFrame /\ UNCHANGED sends

\* Mutant: a timeout is taken for a success, as an undecided bundle is.
TimeoutIsSuccess(s) ==
    /\ pc[s] \in ExecPC
    /\ Conclude(s, "Executed")
    /\ ExecFrame /\ UNCHANGED sends

\* order_timeout runs over the whole execution and abandons it where it is.
Timeout(s) ==
    /\ pc[s] \in ExecPC
    /\ ExecutionError(s, TRUE)
    /\ ExecFrame /\ UNCHANGED sends

Execute(s) ==
    \/ Simulate(s) \/ SendBundle(s) \/ BundleStatus(s) \/ BuildError(s)
    \/ Direct(s) \/ Confirm(s) \/ Timeout(s)

\* Mutant: no return after resending; the task goes on to fail the order.
ResendFallsThrough(s) ==
    /\ pc[s] = "resend"
    /\ channel' = Append(channel, job[s])
    /\ Conclude(s, "Failed")
    /\ UNCHANGED <<callers, tables, pending, active, history, mev, crashes, approved, unsaved>>

\* Mutant: the send to the channel is lost.
ResendLost(s) ==
    /\ pc[s] = "resend"
    /\ Goto(s, "drop")
    /\ UNCHANGED <<callers, tables, queues, active, history, job, outcome, mev, crashes, approved, unsaved>>

\* After the backoff the copy goes back to the channel ...
Resend(s) ==
    /\ pc[s] = "resend"
    /\ channel' = Append(channel, job[s])
    /\ Goto(s, "drop")
    /\ UNCHANGED <<callers, tables, pending, active, history, job, outcome, mev, crashes, approved, unsaved>>

\* Mutant: the retried order is left in active_orders.
DropActiveForgets(s) ==
    /\ pc[s] = "drop"
    /\ EndTask(s)
    /\ UNCHANGED <<callers, tables, queues, active, history, mev, crashes, approved, unsaved>>

\* Mutant: the task does not give its permit back.
DropActiveKeepsPermit(s) ==
    /\ pc[s] = "drop"
    /\ active' = active \ {job[s].id}
    /\ UNCHANGED <<callers, tables, queues, tasks, history, mev, crashes, approved, unsaved>>

\* ... and only then is the order taken out of active_orders.
DropActive(s) ==
    /\ pc[s] = "drop"
    /\ active' = active \ {job[s].id}
    /\ EndTask(s)
    /\ UNCHANGED <<callers, tables, queues, history, mev, crashes, approved, unsaved>>

-----------------------------------------------------------------------------
(* finalize_order *)

\* Mutant: an error of the UPDATE is logged and ignored.
PersistIgnoresErrors(s) ==
    /\ pc[s] = "persist"
    /\ db' \in {db, [db EXCEPT ![job[s].id] = outcome[s]]}
    /\ Goto(s, "finish")
    /\ UNCHANGED <<job, outcome, callers, trades, queues, active, history, mev, crashes, approved, unsaved>>

\* The UPDATE of the row.  An error ends the task, and the entry in
\* active_orders stays.
Persist(s) ==
    /\ pc[s] = "persist"
    /\ LET written == [db EXCEPT ![job[s].id] = outcome[s]] IN
       \/ /\ db' = written
          /\ Goto(s, "finish")
          /\ UNCHANGED <<job, outcome, unsaved>>
       \/ /\ db' \in {db, written}
          /\ unsaved' = unsaved \cup {job[s].id}
          /\ EndTask(s)
    /\ UNCHANGED <<callers, trades, queues, active, history, mev, crashes, approved>>

\* record_trade (an error is only logged), then, under both locks, out of
\* active_orders and into order_history.
Finish(s) ==
    /\ pc[s] = "finish"
    /\ trades' \in IF outcome[s] = "Executed"
                   THEN {trades, trades \cup {job[s].id}}
                   ELSE {trades}
    /\ active' = active \ {job[s].id}
    /\ history' = [history EXCEPT ![job[s].id] = outcome[s]]
    /\ EndTask(s)
    /\ UNCHANGED <<callers, db, queues, mev, crashes, approved, unsaved>>

TaskStep(s) ==
    Start(s) \/ Gate(s) \/ Execute(s) \/ Resend(s) \/ DropActive(s) \/ Persist(s) \/ Finish(s)

-----------------------------------------------------------------------------
\* The engine process dies: its memory is gone, the tables stay, and nothing
\* reads the Pending rows back.
Crash ==
    /\ crashes < MaxCrashes
    /\ crashes' = crashes + 1
    /\ submit' = [o \in Orders |->
                    IF submit[o] \in {"store", "push", "send", "ok"} THEN "lost" ELSE submit[o]]
    /\ cancel' = [o \in Orders |-> IF cancel[o] = "active" THEN "done" ELSE cancel[o]]
    /\ pending' = {}
    /\ channel' = <<>>
    /\ active' = {}
    /\ history' = [o \in Orders |-> "none"]
    /\ pc' = [s \in Slots |-> "idle"]
    /\ job' = [s \in Slots |-> Idle]
    /\ outcome' = [s \in Slots |-> "none"]
    /\ UNCHANGED <<tables, mev, approved, unsaved>>

Next ==
    \/ \E o \in Orders : SubmitStep(o) \/ CancelStep(o)
    \/ \E s \in Slots : Dispatch(s) \/ TaskStep(s)
    \/ Crash

Spec == Init /\ [][Next]_vars

\* Calls under way and spawned tasks run to their end: every await of theirs
\* is a database or network call that returns, or is cut off by order_timeout;
\* a free permit is given to the worker that waits for it.  Nobody is obliged
\* to cancel, and the process need not crash.
Fairness ==
    /\ \A o \in Orders : WF_vars(StoreOrder(o) \/ PushPending(o) \/ SendOrder(o))
    /\ \A o \in Orders : WF_vars(CancelActive(o))
    /\ \A s \in Slots : WF_vars(TaskStep(s))
    /\ WF_vars(\E s \in Slots : Dispatch(s))

FairSpec == Spec /\ Fairness

-----------------------------------------------------------------------------
(* Properties *)

TypeOK ==
    /\ submit \in [Orders -> SubmitPC]
    /\ cancel \in [Orders -> CancelPC]
    /\ db \in [Orders -> RowStatus]
    /\ trades \in SUBSET Orders
    /\ pending \in SUBSET Orders
    /\ channel \in Seq(Copies)
    /\ active \in SUBSET Orders
    /\ history \in [Orders -> Outcome]
    /\ pc \in [Slots -> TaskPC]
    /\ job \in [Slots -> Copies \cup {Idle}]
    /\ outcome \in [Slots -> Outcome]
    /\ mev \in BOOLEAN
    /\ crashes \in 0 .. MaxCrashes
    /\ allows \in [Orders -> Nat]
    /\ sends \in [Orders -> Nat]
    /\ unsaved \in SUBSET Orders

Queued(o) == \E i \in 1 .. Len(channel) : channel[i].id = o
Owned(o)  == \E s \in Slots : pc[s] \in LivePC /\ job[s].id = o

\* However submissions, retries and permits interleave, an order has one live
\* copy: no two tasks execute it at the same time, and none executes it while
\* a retry of it waits in the channel.  The retry path resends the copy while
\* the old task is still running, so this hangs on that task doing no more
\* with it than leaving active_orders.
OneLiveCopy ==
    /\ \A i, j \in 1 .. Len(channel) : channel[i].id = channel[j].id => i = j
    /\ \A s, t \in Slots :
         pc[s] \in LivePC /\ pc[t] \in LivePC /\ job[s].id = job[t].id => s = t
    /\ \A s \in Slots : pc[s] \in LivePC => ~ Queued(job[s].id)

\* "No code may submit an on-chain transaction without first receiving Allow"
\* (decision/mod.rs): per approval at most two bundles and one RPC
\* transaction leave the engine, and an order gets at most max_retries + 1
\* approvals, over every path through Jito, fallback, timeout and retry.
SubmissionsWithinApprovals ==
    \A o \in Orders :
        /\ sends[o] <= 3 * allows[o]
        /\ allows[o] <= MaxRetries + 1

\* An order the engine reports as executed, in the orders table or as a trade,
\* has been handed to the chain.
ExecutedWasSubmitted ==
    \A o \in Orders : db[o] = "Executed" \/ o \in trades => sends[o] > 0

\* A submission that returned an id is not forgotten while the process lives:
\* the order is queued, owned by a task, in the history, or its final UPDATE
\* failed.
NoOrderVanishes ==
    \A o \in Orders :
        submit[o] = "ok" => Queued(o) \/ Owned(o) \/ history[o] # "none" \/ o \in unsaved

\* active_orders, whose sum is the exposure that later orders are gated on,
\* holds nothing but orders some task still has to take out again, and those
\* whose final UPDATE failed.
ActiveIsAccountedFor ==
    \A o \in active :
        \/ o \in unsaved
        \/ \E s \in Slots : pc[s] \notin {"idle", "start"} /\ job[s].id = o

Executing == {o \in active : \E s \in Slots : pc[s] \in ExecPC /\ job[s].id = o}

\* Two tasks that pass the gate together see each other: the orders in
\* execution that active_orders knows of stay within the exposure limit, even
\* though nothing is locked between reading the sum and executing.
ExposureWithinLimit == Cardinality(Executing) <= MaxExposure

\* For an order nobody tried to cancel, the history in memory and the orders
\* table tell the same story.
HistoryMatchesDb ==
    \A o \in Orders : history[o] # "none" /\ cancel[o] = "no" => db[o] = history[o]

\* Every submission that returned an id comes to an end: in the history, with
\* a failed final UPDATE, or with the process.
AcceptedIsSettled ==
    \A o \in Orders :
        submit[o] = "ok" ~> history[o] # "none" \/ o \in unsaved \/ submit[o] = "lost"

-----------------------------------------------------------------------------
(* The abstract life of an order *)

Trying(o)   == \E s \in Slots : pc[s] \in ExecPC /\ job[s].id = o
Settling(o) == \E s \in Slots : pc[s] \in {"persist", "finish"} /\ job[s].id = o

\* Where an order is, as OrderLifecycle tells it.
Life(o) ==
    IF submit[o] # "ok"       THEN IF submit[o] = "lost" THEN "lost" ELSE "new"
    ELSE IF history[o] # "none" THEN history[o]
    ELSE IF o \in unsaved      THEN "unsaved"
    ELSE IF Trying(o)          THEN "trying"
    ELSE IF Settling(o)        THEN "settling"
    ELSE "waiting"

lives == [o \in Orders |-> Life(o)]

Lifecycle == INSTANCE OrderLifecycle
               WITH MaxAttempts <- MaxRetries + 1, SendsPerAttempt <- 3,
                    life <- lives, attempts <- allows, sent <- sends

\* The pipeline implements OrderLifecycle: whatever submissions, retries,
\* timeouts, cancellations, failed UPDATEs and a crash do together, an order is
\* tried by one task at a time and within its budget, and after its result
\* nothing happens to it, which a copy left in the channel or a task that does
\* not return after resending would break.
ImplementsLifecycle == Lifecycle!LifeSpec

-----------------------------------------------------------------------------
(* What comments in the source say and the code does not do *)

\* manager.rs takes the sum over active_orders for the "sum of in-flight order
\* amounts": every order in execution that nobody cancelled is in it.
InFlightIsCounted ==
    \A s \in Slots :
        pc[s] \in ExecPC /\ cancel[job[s].id] = "no" => job[s].id \in active
=============================================================================

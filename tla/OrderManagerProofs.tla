------------------------- MODULE OrderManagerProofs -------------------------
(***************************************************************************)
(* Theorems about OrderManager, for every set of orders and permits and    *)
(* every value of the limits.                                              *)
(***************************************************************************)
EXTENDS OrderManager, FiniteSetTheorems, TLAPS

\* A task that is not idle owns an order.
BusyTasksOwnOrders ==
    \A s \in Slots : pc[s] # "idle" => job[s] \in Copies

\* What every step relies on: the types, and that a task that runs has an order.
TypeInv == TypeOK /\ BusyTasksOwnOrders

\* The types the steps of a task rely on, in the form the provers use.
LEMMA TaskTypes ==
  ASSUME TypeInv, NEW s \in Slots, pc[s] # "idle"
  PROVE  /\ job[s] \in Copies
         /\ job[s].id \in Orders
         /\ job[s].retry \in 0 .. MaxRetries
  BY DEF TypeInv, BusyTasksOwnOrders, Copies

\* The pipeline starts with every channel, map and task empty.
LEMMA InitType == Init => TypeInv
  BY ConstantsAssumption DEF Init, TypeInv, TypeOK, BusyTasksOwnOrders, Idle, Copies,
     SubmitPC, CancelPC, RowStatus, Outcome, TaskPC

\* No step of the routes, the queue or a task leaves the types.
LEMMA StepType == TypeInv /\ [Next]_vars => TypeInv'
<1> SUFFICES ASSUME TypeInv, [Next]_vars PROVE TypeInv'
  OBVIOUS
<1> USE ConstantsAssumption
<1>1. ASSUME NEW o \in Orders, SubmitStep(o) PROVE TypeInv'
  <2>1. CASE SubmitEvaluate(o)
    BY <2>1 DEF SubmitEvaluate, TypeInv, TypeOK, BusyTasksOwnOrders, SubmitPC, callers,
       tables, queues, tasks, approved
  <2>2. CASE StoreOrder(o)
    BY <2>2 DEF StoreOrder, TypeInv, TypeOK, BusyTasksOwnOrders, SubmitPC, RowStatus,
       callers, tables, queues, tasks, approved
  <2>3. CASE PushPending(o)
    BY <2>3 DEF PushPending, TypeInv, TypeOK, BusyTasksOwnOrders, SubmitPC,
       callers, tables, queues, tasks, approved
  <2>4. CASE SendOrder(o)
    <3>1. [id |-> o, retry |-> 0] \in Copies
      BY DEF Copies
    <3> QED
      BY <2>4, <3>1 DEF SendOrder, TypeInv, TypeOK, BusyTasksOwnOrders, SubmitPC,
         callers, tables, queues, tasks, approved
  <2> QED
    BY <1>1, <2>1, <2>2, <2>3, <2>4 DEF SubmitStep
<1>2. ASSUME NEW o \in Orders, CancelStep(o) PROVE TypeInv'
  <2>1. CASE CancelPending(o)
    BY <2>1 DEF CancelPending, TypeInv, TypeOK, BusyTasksOwnOrders, CancelPC,
       callers, tables, queues, tasks, approved
  <2>2. CASE CancelActive(o)
    BY <2>2 DEF CancelActive, TypeInv, TypeOK, BusyTasksOwnOrders, CancelPC, RowStatus,
       callers, tables, queues, tasks, approved
  <2> QED
    BY <1>2, <2>1, <2>2 DEF CancelStep
<1>3. ASSUME NEW s \in Slots, Dispatch(s) PROVE TypeInv'
  <2>1. Head(channel) \in Copies /\ Tail(channel) \in Seq(Copies)
    BY <1>3 DEF Dispatch, TypeInv, TypeOK
  <2> QED
    BY <1>3, <2>1 DEF Dispatch, TypeInv, TypeOK, BusyTasksOwnOrders, TaskPC, LivePC,
       callers, tables, queues, tasks, approved
<1>4. ASSUME NEW s \in Slots, TaskStep(s) PROVE TypeInv'
  \* What the small operators do to the three variables of a task.
  <2> DEFINE TaskTypeOK ==
               /\ pc' \in [Slots -> TaskPC]
               /\ job' \in [Slots -> Copies \cup {Idle}]
               /\ outcome' \in [Slots -> Outcome]
               /\ \A t \in Slots : pc'[t] # "idle" => job'[t] \in Copies
  <2>0. pc[s] # "idle"
    BY <1>4 DEF TaskStep, Start, Gate, GateAllow, GateDeny, Execute, Simulate, SendBundle,
       BundleStatus, BuildError, Direct, Confirm, Timeout, Resend, DropActive, Persist,
       Finish, ExecPC
  <2>1. /\ job[s] \in Copies
        /\ job[s].id \in Orders
        /\ job[s].retry \in 0 .. MaxRetries
    BY <2>0, TaskTypes
  <2>2. ASSUME NEW label \in TaskPC \ {"idle"}, Goto(s, label), UNCHANGED <<job, outcome>>
        PROVE  TaskTypeOK
    BY <2>1, <2>2 DEF Goto, TypeInv, TypeOK, BusyTasksOwnOrders
  <2>3. ASSUME EndTask(s) PROVE TaskTypeOK
    BY <2>3 DEF EndTask, Goto, TypeInv, TypeOK, BusyTasksOwnOrders, TaskPC, Outcome
  <2>4. ASSUME NEW result \in Outcome, Conclude(s, result) PROVE TaskTypeOK
    BY <2>1, <2>4 DEF Conclude, Goto, TypeInv, TypeOK, BusyTasksOwnOrders, TaskPC, LivePC
  <2>5. ASSUME NEW retriable \in BOOLEAN, ExecutionError(s, retriable) PROVE TaskTypeOK
    <3>1. CASE retriable /\ job[s].retry < MaxRetries
      <4>1. [job[s] EXCEPT !.retry = @ + 1] \in Copies
        BY <2>1, <3>1 DEF Copies
      <4>2. /\ pc' = [pc EXCEPT ![s] = "resend"]
            /\ job' = [job EXCEPT ![s].retry = @ + 1]
            /\ UNCHANGED outcome
        BY <2>5, <3>1 DEF ExecutionError, Goto
      <4>3. /\ pc \in [Slots -> TaskPC] /\ outcome \in [Slots -> Outcome]
            /\ job \in [Slots -> Copies \cup {Idle}]
            /\ \A t \in Slots : pc[t] # "idle" => job[t] \in Copies
            /\ "resend" \in TaskPC
        BY DEF TypeInv, TypeOK, BusyTasksOwnOrders, TaskPC, LivePC
      <4>4. /\ job'[s] = [job[s] EXCEPT !.retry = @ + 1]
            /\ \A t \in Slots \ {s} : job'[t] = job[t] /\ pc'[t] = pc[t]
        BY <4>2, <4>3
      <4>5. job' \in [Slots -> Copies \cup {Idle}]
        BY <4>1, <4>2, <4>3, <4>4
      <4>6. \A t \in Slots : pc'[t] # "idle" => job'[t] \in Copies
        BY <4>1, <4>3, <4>4
      <4> QED BY <4>2, <4>3, <4>5, <4>6
    <3>2. CASE ~(retriable /\ job[s].retry < MaxRetries)
      BY <2>4, <2>5, <3>2 DEF ExecutionError, Outcome
    <3> QED
      BY <3>1, <3>2
  <2> HIDE DEF TaskTypeOK
  <2>6. "Failed" \in Outcome /\ "Executed" \in Outcome
    BY DEF Outcome
  <2>7. \A label \in LivePC \cup {"drop"} : label \in TaskPC \ {"idle"}
    BY DEF TaskPC, LivePC, ExecPC
  <2>8. CASE Start(s)
    <3>1. TaskTypeOK
      BY <2>2, <2>4, <2>6, <2>7, <2>8 DEF Start, LivePC
    <3> QED
      BY <2>1, <2>8, <3>1 DEF Start, TaskTypeOK, TypeInv, TypeOK, BusyTasksOwnOrders,
         callers, tables, queues, approved
  <2>9. CASE Gate(s)
    <3>1. TaskTypeOK
      <4>1. CASE GateAllow(s)
        BY <2>2, <2>7, <4>1 DEF GateAllow, LivePC, ExecPC
      <4>2. CASE GateDeny(s)
        BY <2>4, <2>6, <4>2 DEF GateDeny
      <4> QED
        BY <2>9, <4>1, <4>2 DEF Gate
    <3>2. allows' \in [Orders -> Nat] /\ UNCHANGED sends
      BY <2>1, <2>9 DEF Gate, GateAllow, GateDeny, TypeInv, TypeOK, approved
    <3>3. UNCHANGED <<callers, tables, queues, active, history, mev, crashes, unsaved>>
      BY <2>9 DEF Gate, GateAllow, GateDeny
    <3> QED
      BY <3>1, <3>2, <3>3 DEF TaskTypeOK, TypeInv, TypeOK, BusyTasksOwnOrders, callers,
         tables, queues
  <2>10. CASE Execute(s)
    <3>1. TaskTypeOK
      <4>1. CASE Simulate(s)
        BY <2>2, <2>5, <2>7, <4>1 DEF Simulate, LivePC, ExecPC
      <4>2. CASE SendBundle(s)
        BY <2>2, <2>7, <4>2 DEF SendBundle, LivePC, ExecPC
      <4>3. CASE BundleStatus(s)
        BY <2>2, <2>4, <2>6, <2>7, <4>3 DEF BundleStatus, LivePC, ExecPC
      <4>4. CASE BuildError(s)
        BY <2>2, <2>7, <4>4 DEF BuildError, LivePC, ExecPC
      <4>5. CASE Direct(s)
        BY <2>2, <2>5, <2>7, <4>5 DEF Direct, LivePC, ExecPC
      <4>6. CASE Confirm(s)
        BY <2>4, <2>5, <2>6, <4>6 DEF Confirm
      <4>7. CASE Timeout(s)
        BY <2>5, <4>7 DEF Timeout
      <4> QED
        BY <2>10, <4>1, <4>2, <4>3, <4>4, <4>5, <4>6, <4>7 DEF Execute
    <3>2. sends' = sends \/ Submitted(s)
      BY <2>10 DEF Execute, Simulate, SendBundle, BundleStatus, BuildError, Direct, Confirm,
         Timeout
    <3>3. ExecFrame
      BY <2>10 DEF Execute, Simulate, SendBundle, BundleStatus, BuildError, Direct, Confirm,
         Timeout
    <3> QED
      BY <2>1, <3>1, <3>2, <3>3 DEF ExecFrame, Submitted, TaskTypeOK, TypeInv, TypeOK,
         BusyTasksOwnOrders, callers, tables, queues, approved
  <2>11. CASE Resend(s)
    <3>1. TaskTypeOK
      BY <2>2, <2>7, <2>11 DEF Resend
    <3> QED
      BY <2>1, <2>11, <3>1 DEF Resend, TaskTypeOK, TypeInv, TypeOK, BusyTasksOwnOrders,
         callers, tables, queues, approved
  <2>12. CASE DropActive(s)
    <3>1. TaskTypeOK
      BY <2>3, <2>12 DEF DropActive
    <3> QED
      BY <2>1, <2>12, <3>1 DEF DropActive, TaskTypeOK, TypeInv, TypeOK, BusyTasksOwnOrders,
         callers, tables, queues, approved
  <2>13. CASE Persist(s)
    <3>1. TaskTypeOK
      BY <2>2, <2>3, <2>7, <2>13 DEF Persist, LivePC
    <3>2. db' \in [Orders -> RowStatus] /\ unsaved' \in SUBSET Orders
      BY <2>1, <2>13 DEF Persist, TypeInv, TypeOK, Outcome, RowStatus
    <3> QED
      BY <2>13, <3>1, <3>2 DEF Persist, TaskTypeOK, TypeInv, TypeOK, BusyTasksOwnOrders,
         callers, tables, queues, approved
  <2>14. CASE Finish(s)
    <3>1. TaskTypeOK
      BY <2>3, <2>14 DEF Finish
    <3> QED
      BY <2>1, <2>14, <3>1 DEF Finish, TaskTypeOK, TypeInv, TypeOK, BusyTasksOwnOrders,
         callers, tables, queues, approved
  <2> QED
    BY <1>4, <2>8, <2>9, <2>10, <2>11, <2>12, <2>13, <2>14 DEF TaskStep
<1>5. CASE Crash
  BY <1>5 DEF Crash, TypeInv, TypeOK, BusyTasksOwnOrders, SubmitPC, CancelPC, Outcome, TaskPC,
     callers, tables, queues, tasks, approved
<1>6. CASE UNCHANGED vars
  BY <1>6 DEF vars, TypeInv, TypeOK, BusyTasksOwnOrders, callers, tables, queues, tasks,
     approved
<1> QED
  BY <1>1, <1>2, <1>3, <1>4, <1>5, <1>6 DEF Next

\* TypeOK holds in every state of every instance: no retry count beyond
\* max_retries, no slot without an order that is not idle.
THEOREM TypeCorrect == Spec => []TypeOK
<1>1. Spec => []TypeInv
  BY InitType, StepType, PTL DEF Spec
<1>2. TypeInv => TypeOK
  BY DEF TypeInv
<1> QED
  BY <1>1, <1>2, PTL

-----------------------------------------------------------------------------
(* One live copy *)

\* Strengthening: live copies are copies of accepted orders, so that a new
\* submission cannot meet an old copy of its order.
CopiesInv ==
    /\ OneLiveCopy
    /\ \A i \in 1 .. Len(channel) : submit[channel[i].id] = "ok"
    /\ \A s \in Slots : pc[s] \in LivePC => submit[job[s].id] = "ok"

\* What a step of the task in s does to tasks: the others are left alone, and
\* the order it owns stays the same.
OnlyTask(s) ==
    /\ \A t \in Slots \ {s} : pc'[t] = pc[t] /\ job'[t] = job[t] /\ outcome'[t] = outcome[t]
    /\ pc'[s] \in LivePC \cup {"drop"} => job'[s].id = job[s].id

\* A task that goes to its next statement leaves the other tasks alone,
LEMMA GotoOnlyTask ==
  ASSUME TypeInv, NEW s \in Slots, NEW label \in TaskPC, Goto(s, label),
         UNCHANGED <<job, outcome>>
  PROVE  OnlyTask(s) /\ pc'[s] = label
  BY DEF Goto, OnlyTask, TypeInv, TypeOK

\* and so does one that ends,
LEMMA EndTaskOnlyTask ==
  ASSUME TypeInv, NEW s \in Slots, EndTask(s)
  PROVE  OnlyTask(s) /\ pc'[s] = "idle"
  BY DEF EndTask, Goto, OnlyTask, TypeInv, TypeOK, LivePC, ExecPC

\* one that concludes with an outcome,
LEMMA ConcludeOnlyTask ==
  ASSUME TypeInv, NEW s \in Slots, NEW result \in Outcome, Conclude(s, result)
  PROVE  OnlyTask(s) /\ pc'[s] = "persist" /\ outcome'[s] = result
  BY DEF Conclude, Goto, OnlyTask, TypeInv, TypeOK

\* and one whose execution failed: it sends the order again, or concludes.
LEMMA ExecutionErrorOnlyTask ==
  ASSUME TypeInv, NEW s \in Slots, pc[s] # "idle", NEW retriable \in BOOLEAN,
         ExecutionError(s, retriable)
  PROVE  /\ OnlyTask(s)
         /\ \/ pc'[s] = "resend" /\ job'[s].retry = job[s].retry + 1
            \/ pc'[s] = "persist" /\ outcome'[s] = "Failed"
<1>1. job[s] \in Copies
  BY TaskTypes
<1>2. CASE retriable /\ job[s].retry < MaxRetries
  <2>1. job'[s] = [job[s] EXCEPT !.retry = @ + 1]
    BY <1>2 DEF ExecutionError, TypeInv, TypeOK
  <2>2. job'[s].id = job[s].id /\ job'[s].retry = job[s].retry + 1
    BY <1>1, <2>1 DEF Copies
  <2> QED
    BY <1>2, <2>2 DEF ExecutionError, Goto, OnlyTask, TypeInv, TypeOK
<1>3. CASE ~(retriable /\ job[s].retry < MaxRetries)
  BY <1>3, ConcludeOnlyTask DEF ExecutionError, Outcome
<1> QED
  BY <1>2, <1>3

\* The frame of every task step, and where it can lead.
LEMMA TaskStepFrame ==
  ASSUME TypeInv, NEW s \in Slots, TaskStep(s)
  PROVE  /\ pc[s] # "idle"
         /\ OnlyTask(s)
         /\ UNCHANGED <<submit, cancel, pending, mev, crashes>>
         /\ pc'[s] \in LivePC => pc[s] \in LivePC
         /\ \/ UNCHANGED channel
            \/ pc[s] = "resend" /\ pc'[s] = "drop" /\ channel' = Append(channel, job[s])
<1>0. pc[s] # "idle"
  BY DEF TaskStep, Start, Gate, GateAllow, GateDeny, Execute, Simulate, SendBundle,
     BundleStatus, BuildError, Direct, Confirm, Timeout, Resend, DropActive, Persist,
     Finish, ExecPC
<1>1. UNCHANGED <<submit, cancel, pending, mev, crashes>>
  BY DEF TaskStep, Start, Gate, GateAllow, GateDeny, Execute, Simulate, SendBundle,
     BundleStatus, BuildError, Direct, Confirm, Timeout, ExecFrame, Resend, DropActive,
     Persist, Finish, callers, queues
<1>2. \A label \in LivePC \cup {"drop", "idle"} : label \in TaskPC
  BY DEF TaskPC
<1>3. "Failed" \in Outcome /\ "Executed" \in Outcome
  BY DEF Outcome
<1>4. CASE Start(s)
  BY <1>0, <1>1, <1>2, <1>3, <1>4, GotoOnlyTask, ConcludeOnlyTask DEF Start, LivePC, queues
<1>5. CASE Gate(s)
  <2>1. OnlyTask(s) /\ pc[s] = "gate"
    <3>1. CASE GateAllow(s)
      BY <1>2, <3>1, GotoOnlyTask DEF GateAllow, LivePC, ExecPC
    <3>2. CASE GateDeny(s)
      BY <1>3, <3>2, ConcludeOnlyTask DEF GateDeny
    <3> QED
      BY <1>5, <3>1, <3>2 DEF Gate
  <2> QED
    BY <1>0, <1>1, <1>5, <2>1 DEF Gate, GateAllow, GateDeny, LivePC, queues
<1>6. CASE Execute(s)
  <2>1. OnlyTask(s)
    <3>1. CASE Simulate(s)
      BY <1>0, <1>2, <3>1, GotoOnlyTask, ExecutionErrorOnlyTask DEF Simulate, LivePC, ExecPC
    <3>2. CASE SendBundle(s)
      BY <1>2, <3>2, GotoOnlyTask DEF SendBundle, LivePC, ExecPC
    <3>3. CASE BundleStatus(s)
      BY <1>2, <1>3, <3>3, GotoOnlyTask, ConcludeOnlyTask DEF BundleStatus, LivePC, ExecPC
    <3>4. CASE BuildError(s)
      BY <1>2, <3>4, GotoOnlyTask DEF BuildError, LivePC, ExecPC
    <3>5. CASE Direct(s)
      BY <1>0, <1>2, <3>5, GotoOnlyTask, ExecutionErrorOnlyTask DEF Direct, LivePC, ExecPC
    <3>6. CASE Confirm(s)
      BY <1>0, <1>3, <3>6, ConcludeOnlyTask, ExecutionErrorOnlyTask DEF Confirm
    <3>7. CASE Timeout(s)
      BY <1>0, <3>7, ExecutionErrorOnlyTask DEF Timeout
    <3> QED
      BY <1>6, <3>1, <3>2, <3>3, <3>4, <3>5, <3>6, <3>7 DEF Execute
  <2>2. pc[s] \in ExecPC
    BY <1>6 DEF Execute, Simulate, SendBundle, BundleStatus, BuildError, Direct, Confirm,
       Timeout, ExecPC
  <2>3. UNCHANGED channel
    BY <1>6 DEF Execute, Simulate, SendBundle, BundleStatus, BuildError, Direct, Confirm,
       Timeout, ExecFrame, queues
  <2> QED
    BY <1>0, <1>1, <2>1, <2>2, <2>3 DEF LivePC
<1>7. CASE Resend(s)
  BY <1>0, <1>1, <1>2, <1>7, GotoOnlyTask DEF Resend, LivePC
<1>8. CASE DropActive(s)
  BY <1>0, <1>1, <1>8, EndTaskOnlyTask DEF DropActive, LivePC, ExecPC, queues
<1>9. CASE Persist(s)
  BY <1>0, <1>1, <1>2, <1>9, GotoOnlyTask, EndTaskOnlyTask DEF Persist, LivePC, queues
<1>10. CASE Finish(s)
  BY <1>0, <1>1, <1>10, EndTaskOnlyTask DEF Finish, LivePC, ExecPC, queues
<1> QED
  BY <1>4, <1>5, <1>6, <1>7, <1>8, <1>9, <1>10 DEF TaskStep

\* At the start there is no copy of any order.
LEMMA InitCopies == Init => CopiesInv
  BY DEF Init, CopiesInv, OneLiveCopy, LivePC, ExecPC

\* No step makes a second copy of an order that is in the pipeline.
LEMMA StepCopies == TypeInv /\ CopiesInv /\ [Next]_vars => CopiesInv'
<1> SUFFICES ASSUME TypeInv, CopiesInv, [Next]_vars PROVE CopiesInv'
  OBVIOUS
<1>0. channel \in Seq(Copies)
  BY DEF TypeInv, TypeOK
<1>a. /\ Len(channel) \in Nat
      /\ \A i \in 1 .. Len(channel) : channel[i] \in Copies
  BY <1>0
<1>b. \A i \in 1 .. Len(channel) : channel[i].id \in Orders
  BY <1>a DEF Copies
<1>1. ASSUME NEW o \in Orders, SubmitStep(o) PROVE CopiesInv'
  <2>1. CASE SendOrder(o)
    <3> DEFINE copy == [id |-> o, retry |-> 0]
    <3>1. channel' = Append(channel, copy) /\ copy \in Copies
      BY <2>1, ConstantsAssumption DEF SendOrder, Copies
    <3>2. submit[o] # "ok" /\ submit' = [submit EXCEPT ![o] = "ok"] /\ UNCHANGED tasks
      BY <2>1 DEF SendOrder
    <3>3. /\ Len(channel') = Len(channel) + 1
          /\ \A i \in 1 .. Len(channel) : channel'[i] = channel[i]
          /\ channel'[Len(channel) + 1].id = o
      BY <1>0, <3>1
    <3>4. \A i \in 1 .. Len(channel) : channel[i].id # o
      BY <3>2 DEF CopiesInv
    <3>5. \A s \in Slots : pc[s] \in LivePC => job[s].id # o
      BY <3>2 DEF CopiesInv
    <3> HIDE DEF copy
    <3>6. \A p \in Orders : submit[p] = "ok" => submit'[p] = "ok"
      BY <3>2 DEF TypeInv, TypeOK
    <3>7. submit'[o] = "ok"
      BY <3>2 DEF TypeInv, TypeOK
    <3>8. \A s \in Slots : pc[s] \in LivePC => job[s].id \in Orders
      BY TaskTypes DEF LivePC, ExecPC
    <3>9. \A i, j \in 1 .. Len(channel') : channel'[i].id = channel'[j].id => i = j
      BY <1>a, <3>3, <3>4 DEF CopiesInv, OneLiveCopy
    <3>10. \A s \in Slots, i \in 1 .. Len(channel') :
             pc[s] \in LivePC => channel'[i].id # job[s].id
      BY <1>a, <3>3, <3>5 DEF CopiesInv, OneLiveCopy, Queued
    <3>11. OneLiveCopy'
      BY <3>2, <3>9, <3>10 DEF CopiesInv, OneLiveCopy, Queued, tasks
    <3>12. \A i \in 1 .. Len(channel') : submit'[channel'[i].id] = "ok"
      BY <1>a, <1>b, <3>3, <3>6, <3>7 DEF CopiesInv
    <3> QED
      BY <3>2, <3>6, <3>8, <3>11, <3>12 DEF CopiesInv, tasks
  <2>2. CASE ~ SendOrder(o)
    <3>1. UNCHANGED <<channel, pc, job>> /\ \A p \in Orders : submit[p] = "ok" => submit'[p] = "ok"
      BY <1>1, <2>2 DEF SubmitStep, SubmitEvaluate, StoreOrder, PushPending, TypeInv, TypeOK,
         queues, tasks
    <3>2. \A s \in Slots : pc[s] \in LivePC => job[s].id \in Orders
      BY TaskTypes DEF LivePC, ExecPC
    <3> QED
      BY <1>b, <3>1, <3>2 DEF CopiesInv, OneLiveCopy, Queued
  <2> QED
    BY <2>1, <2>2
<1>2. ASSUME NEW o \in Orders, CancelStep(o) PROVE CopiesInv'
  BY <1>2 DEF CancelStep, CancelPending, CancelActive, CopiesInv, OneLiveCopy, Queued, tasks,
     queues
<1>3. ASSUME NEW s \in Slots, Dispatch(s) PROVE CopiesInv'
  <2>1. channel # <<>> /\ channel' = Tail(channel) /\ submit' = submit
    BY <1>3 DEF Dispatch, callers
  <2>2. pc' = [pc EXCEPT ![s] = "start"] /\ job' = [job EXCEPT ![s] = channel[1]]
    BY <1>0, <1>3 DEF Dispatch
  <2>3. /\ Len(channel) \in Nat /\ Len(channel) >= 1
        /\ Len(channel') = Len(channel) - 1
        /\ \A i \in 1 .. Len(channel') : channel'[i] = channel[i + 1]
    BY <1>0, <2>1
  <2>4. /\ pc'[s] = "start" /\ job'[s] = channel[1]
        /\ \A t \in Slots \ {s} : pc'[t] = pc[t] /\ job'[t] = job[t]
    BY <2>2 DEF TypeInv, TypeOK
  <2>5. \A i \in 1 .. Len(channel) : \A t \in Slots \ {s} :
          pc[t] \in LivePC => channel[i].id # job[t].id
    BY DEF CopiesInv, OneLiveCopy, Queued
  <2>6. \A i, j \in 1 .. Len(channel) : channel[i].id = channel[j].id => i = j
    BY DEF CopiesInv, OneLiveCopy
  <2>7. \A i \in 1 .. Len(channel) : submit[channel[i].id] = "ok"
    BY DEF CopiesInv
  <2>8. \A t, u \in Slots :
          pc'[t] \in LivePC /\ pc'[u] \in LivePC /\ job'[t].id = job'[u].id => t = u
    <3> SUFFICES ASSUME NEW t \in Slots, NEW u \in Slots, t # u,
                        pc'[t] \in LivePC, pc'[u] \in LivePC
                 PROVE  job'[t].id # job'[u].id
      OBVIOUS
    <3>1. CASE t = s
      BY <2>3, <2>4, <2>5, <3>1
    <3>2. CASE u = s
      BY <2>3, <2>4, <2>5, <3>2
    <3>3. CASE t # s /\ u # s
      BY <2>4, <3>3 DEF CopiesInv, OneLiveCopy
    <3> QED
      BY <3>1, <3>2, <3>3
  <2>9. \A t \in Slots, i \in 1 .. Len(channel') :
          pc'[t] \in LivePC => channel'[i].id # job'[t].id
    <3> SUFFICES ASSUME NEW t \in Slots, NEW i \in 1 .. Len(channel'), pc'[t] \in LivePC
                 PROVE  channel'[i].id # job'[t].id
      OBVIOUS
    <3>1. i + 1 \in 1 .. Len(channel) /\ 1 \in 1 .. Len(channel) /\ i + 1 # 1
      BY <2>3
    <3> QED
      BY <2>3, <2>4, <2>5, <2>6, <3>1
  <2>10. \A i, j \in 1 .. Len(channel') : channel'[i].id = channel'[j].id => i = j
    <3> SUFFICES ASSUME NEW i \in 1 .. Len(channel'), NEW j \in 1 .. Len(channel'),
                        channel'[i].id = channel'[j].id
                 PROVE  i = j
      OBVIOUS
    <3>1. i + 1 \in 1 .. Len(channel) /\ j + 1 \in 1 .. Len(channel)
      BY <2>3
    <3>2. i + 1 = j + 1
      BY <2>3, <2>6, <3>1
    <3> QED
      BY <2>3, <3>2
  <2>11. OneLiveCopy'
    BY <2>8, <2>9, <2>10 DEF OneLiveCopy, Queued
  <2>12. \A i \in 1 .. Len(channel') : submit'[channel'[i].id] = "ok"
    BY <2>1, <2>3, <2>7
  <2>13. \A t \in Slots : pc'[t] \in LivePC => submit'[job'[t].id] = "ok"
    BY <2>1, <2>3, <2>4, <2>7 DEF CopiesInv
  <2> QED
    BY <2>11, <2>12, <2>13 DEF CopiesInv
<1>4. ASSUME NEW s \in Slots, TaskStep(s) PROVE CopiesInv'
  <2>1. /\ OnlyTask(s) /\ submit' = submit
        /\ pc'[s] \in LivePC => pc[s] \in LivePC
        /\ \/ UNCHANGED channel
           \/ pc[s] = "resend" /\ pc'[s] = "drop" /\ channel' = Append(channel, job[s])
    BY <1>4, TaskStepFrame
  \* Live tasks after the step were live before it, with the same order.
  <2>2. \A t \in Slots : pc'[t] \in LivePC => pc[t] \in LivePC /\ job'[t].id = job[t].id
    BY <2>1 DEF OnlyTask
  <2>3. \A t, u \in Slots :
          pc'[t] \in LivePC /\ pc'[u] \in LivePC /\ job'[t].id = job'[u].id => t = u
    BY <2>2 DEF CopiesInv, OneLiveCopy
  <2>4. \A t \in Slots : pc'[t] \in LivePC => submit'[job'[t].id] = "ok"
    BY <2>1, <2>2 DEF CopiesInv
  <2>5. CASE UNCHANGED channel
    BY <2>1, <2>2, <2>3, <2>4, <2>5 DEF CopiesInv, OneLiveCopy, Queued
  <2>6. CASE pc[s] = "resend" /\ pc'[s] = "drop" /\ channel' = Append(channel, job[s])
    <3>1. job[s] \in Copies /\ pc[s] \in LivePC
      BY <2>6, TaskTypes DEF LivePC
    <3>2. /\ Len(channel) \in Nat
          /\ Len(channel') = Len(channel) + 1
          /\ \A i \in 1 .. Len(channel) : channel'[i] = channel[i]
          /\ channel'[Len(channel) + 1] = job[s]
      BY <1>0, <2>6, <3>1
    <3>3. \A i \in 1 .. Len(channel) : channel[i].id # job[s].id
      BY <3>1 DEF CopiesInv, OneLiveCopy, Queued
    <3>4. \A t \in Slots : pc'[t] \in LivePC => job[t].id # job[s].id
      BY <2>2, <2>6, <3>1 DEF CopiesInv, OneLiveCopy, LivePC, ExecPC
    <3>5. \A i, j \in 1 .. Len(channel') : channel'[i].id = channel'[j].id => i = j
      BY <3>2, <3>3 DEF CopiesInv, OneLiveCopy
    <3>6. \A t \in Slots, i \in 1 .. Len(channel') :
            pc'[t] \in LivePC => channel'[i].id # job'[t].id
      BY <1>a, <2>2, <3>2, <3>4 DEF CopiesInv, OneLiveCopy, Queued
    <3>7. \A i \in 1 .. Len(channel') : submit'[channel'[i].id] = "ok"
      BY <2>1, <3>1, <3>2 DEF CopiesInv
    <3> QED
      BY <2>3, <2>4, <3>5, <3>6, <3>7 DEF CopiesInv, OneLiveCopy, Queued
  <2> QED
    BY <2>1, <2>5, <2>6
<1>5. CASE Crash
  BY <1>5 DEF Crash, CopiesInv, OneLiveCopy, LivePC, ExecPC
<1>6. CASE UNCHANGED vars
  BY <1>6 DEF vars, callers, queues, tasks, CopiesInv, OneLiveCopy, Queued
<1> QED
  BY <1>1, <1>2, <1>3, <1>4, <1>5, <1>6 DEF Next

\* No order is ever executed by two tasks at once, or queued for a retry while
\* a task executes it, for every number of orders, permits and retries.
THEOREM NoConcurrentExecution == Spec => []OneLiveCopy
<1>1. Spec => [](TypeInv /\ CopiesInv)
  BY InitType, StepType, InitCopies, StepCopies, PTL DEF Spec
<1>2. CopiesInv => OneLiveCopy
  BY DEF CopiesInv
<1> QED
  BY <1>1, <1>2, PTL

-----------------------------------------------------------------------------
(* Submissions within approvals *)

\* Transactions an attempt may have sent when it arrives at each point.
SentBy(label) ==
    CASE label \in {"simulate", "bundle1"} -> 0
      [] label \in {"status1", "bundle2"} -> 1
      [] label \in {"status2", "direct"} -> 2
      [] label = "confirm" -> 3

\* Strengthening: the approvals an order has had are bounded by the retry count
\* its live copy carries, and the submissions of the running attempt by where
\* that attempt is.
BudgetInv ==
    /\ SubmissionsWithinApprovals
    /\ \A o \in Orders : submit[o] \in {"new", "store", "push", "send"} => allows[o] = 0
    /\ \A i \in 1 .. Len(channel) : allows[channel[i].id] <= channel[i].retry
    /\ \A s \in Slots :
         pc[s] \in {"start", "gate", "resend"} => allows[job[s].id] <= job[s].retry
    /\ \A s \in Slots :
         pc[s] \in ExecPC =>
            /\ allows[job[s].id] <= job[s].retry + 1
            /\ sends[job[s].id] + 3 <= 3 * allows[job[s].id] + SentBy(pc[s])

\* What BudgetInv says of the task in s and the order it owns.
WithinBudget(s) ==
    /\ pc[s] \in {"start", "gate", "resend"} => allows[job[s].id] <= job[s].retry
    /\ pc[s] \in ExecPC =>
         /\ allows[job[s].id] <= job[s].retry + 1
         /\ sends[job[s].id] + 3 <= 3 * allows[job[s].id] + SentBy(pc[s])

\* A step of the task in s moves the counters of its own order only: one
\* approval, one submission, or neither.
CountersMove(s) ==
    \/ UNCHANGED <<allows, sends>>
    \/ pc[s] = "gate" /\ allows' = [allows EXCEPT ![job[s].id] = @ + 1] /\ UNCHANGED sends
    \/ pc[s] \in {"bundle1", "bundle2", "direct"} /\ sends' = [sends EXCEPT ![job[s].id] = @ + 1]
       /\ UNCHANGED allows

\* How many submissions of an attempt lie behind each of its statements.
LEMMA SentByValues ==
  /\ SentBy("simulate") = 0 /\ SentBy("bundle1") = 0
  /\ SentBy("status1") = 1 /\ SentBy("bundle2") = 1
  /\ SentBy("status2") = 2 /\ SentBy("direct") = 2
  /\ SentBy("confirm") = 3
  BY DEF SentBy

\* At the start nothing was approved and nothing submitted.
LEMMA InitBudget == Init => BudgetInv
  BY ConstantsAssumption DEF Init, BudgetInv, SubmissionsWithinApprovals, ExecPC

\* A step of a task counts one approval or one submission, of its own order, or none.
LEMMA TaskStepCounters ==
  ASSUME NEW s \in Slots, TaskStep(s)
  PROVE  CountersMove(s)
  BY DEF TaskStep, Start, Gate, GateAllow, GateDeny, Execute, Simulate, SendBundle,
     BundleStatus, BuildError, Direct, Confirm, Timeout, ExecFrame, Submitted, Resend,
     DropActive, Persist, Finish, CountersMove, ExecPC, approved

\* Every task step keeps the task within its budget.
LEMMA TaskStepBudget ==
  ASSUME TypeInv, BudgetInv, NEW s \in Slots, TaskStep(s)
  PROVE  WithinBudget(s)'
<1>0. pc[s] # "idle" /\ OnlyTask(s)
  BY TaskStepFrame
<1> DEFINE id == job[s].id
<1>1. /\ id \in Orders /\ job[s].retry \in Nat
      /\ allows[id] \in Nat /\ sends[id] \in Nat
  BY <1>0, TaskTypes, ConstantsAssumption DEF TypeInv, TypeOK
<1>2. WithinBudget(s) /\ sends[id] <= 3 * allows[id]
  BY <1>1 DEF BudgetInv, WithinBudget, SubmissionsWithinApprovals
<1>3. \A label \in LivePC \cup {"drop", "idle"} : label \in TaskPC
  BY DEF TaskPC
<1>4. "Failed" \in Outcome /\ "Executed" \in Outcome
  BY DEF Outcome
<1> HIDE DEF id
<1>5. ASSUME pc'[s] \in {"idle", "drop", "persist", "finish"} PROVE WithinBudget(s)'
  BY <1>5 DEF WithinBudget, ExecPC
<1>6. ASSUME NEW retriable \in BOOLEAN, pc[s] \in ExecPC, ExecutionError(s, retriable),
             UNCHANGED <<allows, sends>>
      PROVE  WithinBudget(s)'
  <2>1. CASE pc'[s] = "resend" /\ job'[s].retry = job[s].retry + 1
    <3>1. job'[s].id = id
      BY <1>0, <2>1 DEF OnlyTask, LivePC, id
    <3> QED
      BY <1>1, <1>2, <1>6, <2>1, <3>1 DEF WithinBudget, ExecPC, id
  <2>2. CASE pc'[s] = "persist"
    BY <1>5, <2>2
  <2> QED
    BY <1>0, <1>6, <2>1, <2>2, ExecutionErrorOnlyTask
<1>7. CASE Start(s)
  <2>1. UNCHANGED <<allows, sends>> /\ pc[s] = "start"
    BY <1>7 DEF Start, approved
  <2>2. CASE Goto(s, "gate") /\ UNCHANGED <<job, outcome>>
    <3>1. pc'[s] = "gate"
      BY <1>3, <2>2, GotoOnlyTask DEF LivePC
    <3> QED
      BY <1>2, <2>1, <2>2, <3>1 DEF WithinBudget, ExecPC
  <2>3. CASE Conclude(s, "Failed")
    BY <1>4, <1>5, <2>3, ConcludeOnlyTask
  <2> QED
    BY <1>7, <2>2, <2>3 DEF Start
<1>8. CASE GateAllow(s)
  <2>1. /\ pc[s] = "gate" /\ UNCHANGED <<job, sends>>
        /\ allows' = [allows EXCEPT ![id] = @ + 1]
        /\ pc'[s] \in {"simulate", "direct"}
    BY <1>3, <1>8, GotoOnlyTask DEF GateAllow, LivePC, ExecPC, id
  <2>2. allows'[id] = allows[id] + 1
    BY <1>1, <2>1 DEF TypeInv, TypeOK
  <2>3. SentBy(pc'[s]) \in Nat
    BY <2>1, SentByValues
  <2> QED
    BY <1>1, <1>2, <2>1, <2>2, <2>3 DEF WithinBudget, ExecPC, id
<1>9. CASE GateDeny(s)
  BY <1>4, <1>5, <1>9, ConcludeOnlyTask DEF GateDeny
<1>10. CASE Simulate(s)
  <2>1. UNCHANGED <<allows, sends>> /\ pc[s] = "simulate"
    BY <1>10 DEF Simulate, ExecFrame
  <2>2. CASE Goto(s, "bundle1") /\ UNCHANGED <<job, outcome>>
    <3>1. pc'[s] = "bundle1"
      BY <1>3, <2>2, GotoOnlyTask DEF LivePC, ExecPC
    <3> QED
      BY <1>2, <2>1, <2>2, <3>1, SentByValues DEF WithinBudget, ExecPC
  <2> QED
    BY <1>6, <1>10, <2>1, <2>2 DEF Simulate, ExecPC
<1>11. CASE SendBundle(s)
  <2>1. /\ UNCHANGED <<allows, job>>
        /\ sends' = [sends EXCEPT ![id] = @ + 1]
        /\ \/ pc[s] = "bundle1" /\ pc'[s] \in {"status1", "bundle2"}
           \/ pc[s] = "bundle2" /\ pc'[s] \in {"status2", "direct"}
    BY <1>3, <1>11, GotoOnlyTask DEF SendBundle, ExecFrame, Submitted, LivePC, ExecPC, id
  <2>2. sends'[id] = sends[id] + 1
    BY <1>1, <2>1 DEF TypeInv, TypeOK
  <2>3. SentBy(pc'[s]) = SentBy(pc[s]) + 1
    BY <2>1, SentByValues
  <2>4. SentBy(pc[s]) \in Nat
    BY <2>1, SentByValues
  <2> QED
    BY <1>1, <1>2, <2>1, <2>2, <2>3, <2>4 DEF WithinBudget, ExecPC, id
<1>12. CASE BundleStatus(s) \/ BuildError(s)
  <2>1. UNCHANGED <<allows, sends>> /\ pc[s] \in ExecPC
    BY <1>12 DEF BundleStatus, BuildError, ExecFrame, ExecPC
  <2>2. CASE Conclude(s, "Executed")
    BY <1>4, <1>5, <2>2, ConcludeOnlyTask
  <2>3. ASSUME NEW label \in ExecPC, Goto(s, label), UNCHANGED <<job, outcome>>,
               SentBy(pc[s]) \in Nat, SentBy(label) \in Nat, SentBy(pc[s]) <= SentBy(label)
        PROVE  WithinBudget(s)'
    <3>1. pc'[s] = label
      BY <1>3, <2>3, GotoOnlyTask DEF LivePC
    <3>2. sends[id] + 3 <= 3 * allows[id] + SentBy(label)
      BY <1>1, <1>2, <2>1, <2>3 DEF WithinBudget, id
    <3> QED
      BY <1>2, <2>1, <2>3, <3>1, <3>2 DEF WithinBudget, ExecPC, id
  <2> QED
    BY <1>12, <2>2, <2>3, SentByValues DEF BundleStatus, BuildError, ExecPC
<1>13. CASE Direct(s)
  <2>1. UNCHANGED allows /\ pc[s] = "direct"
    BY <1>13 DEF Direct, ExecFrame
  <2>2. CASE Goto(s, "confirm") /\ Submitted(s) /\ UNCHANGED <<job, outcome>>
    <3>1. pc'[s] = "confirm"
      BY <1>3, <2>2, GotoOnlyTask DEF LivePC, ExecPC
    <3>2. sends'[id] = sends[id] + 1
      BY <1>1, <2>2 DEF Submitted, TypeInv, TypeOK, id
    <3> QED
      BY <1>1, <1>2, <2>1, <2>2, <3>1, <3>2, SentByValues DEF WithinBudget, ExecPC, id
  <2> QED
    BY <1>6, <1>13, <2>1, <2>2 DEF Direct, ExecPC
<1>14. CASE Confirm(s) \/ Timeout(s)
  <2>1. UNCHANGED <<allows, sends>> /\ pc[s] \in ExecPC
    BY <1>14 DEF Confirm, Timeout, ExecFrame, ExecPC
  <2>2. CASE Conclude(s, "Executed")
    BY <1>4, <1>5, <2>2, ConcludeOnlyTask
  <2> QED
    BY <1>6, <1>14, <2>1, <2>2 DEF Confirm, Timeout
<1>15. CASE Resend(s) \/ DropActive(s) \/ Persist(s) \/ Finish(s)
  BY <1>3, <1>5, <1>15, GotoOnlyTask, EndTaskOnlyTask DEF Resend, DropActive, Persist, Finish,
     LivePC
<1> QED
  BY <1>7, <1>8, <1>9, <1>10, <1>11, <1>12, <1>13, <1>14, <1>15 DEF TaskStep, Gate, Execute

\* No step submits an order more often than the gate approved of it.
LEMMA StepBudget == TypeInv /\ CopiesInv /\ BudgetInv /\ [Next]_vars => BudgetInv'
<1> SUFFICES ASSUME TypeInv, CopiesInv, BudgetInv, [Next]_vars PROVE BudgetInv'
  OBVIOUS
<1>0. channel \in Seq(Copies)
  BY DEF TypeInv, TypeOK
<1>a. /\ Len(channel) \in Nat
      /\ \A i \in 1 .. Len(channel) :
           channel[i] \in Copies /\ channel[i].id \in Orders /\ channel[i].retry \in Nat
  <2>1. Len(channel) \in Nat /\ \A i \in 1 .. Len(channel) : channel[i] \in Copies
    BY <1>0
  <2>2. \A c \in Copies : c.id \in Orders /\ c.retry \in Nat
    BY ConstantsAssumption DEF Copies
  <2> QED
    BY <2>1, <2>2
<1>1. ASSUME NEW o \in Orders, SubmitStep(o) PROVE BudgetInv'
  <2>1. UNCHANGED <<allows, sends, tasks>> /\ submit[o] \in {"new", "store", "push", "send"}
    BY <1>1 DEF SubmitStep, SubmitEvaluate, StoreOrder, PushPending, SendOrder, approved
  <2>2. \A p \in Orders \ {o} : submit'[p] = submit[p]
    BY <1>1 DEF SubmitStep, SubmitEvaluate, StoreOrder, PushPending, SendOrder, TypeInv, TypeOK
  <2>3. allows[o] = 0
    BY <2>1 DEF BudgetInv
  <2>4. \A p \in Orders :
          submit'[p] \in {"new", "store", "push", "send"} => allows'[p] = 0
    BY <2>1, <2>2, <2>3 DEF BudgetInv
  <2>5. \A i \in 1 .. Len(channel') : allows'[channel'[i].id] <= channel'[i].retry
    <3>1. CASE UNCHANGED channel
      BY <2>1, <3>1 DEF BudgetInv
    <3>2. CASE channel' = Append(channel, [id |-> o, retry |-> 0])
      <4>1. [id |-> o, retry |-> 0] \in Copies
        BY ConstantsAssumption DEF Copies
      <4>2. /\ Len(channel') = Len(channel) + 1
            /\ \A i \in 1 .. Len(channel) : channel'[i] = channel[i]
            /\ channel'[Len(channel) + 1] = [id |-> o, retry |-> 0]
        BY <1>0, <3>2, <4>1
      <4> QED
        BY <1>a, <2>1, <2>3, <4>2 DEF BudgetInv
    <3> QED
      BY <1>1, <3>1, <3>2 DEF SubmitStep, SubmitEvaluate, StoreOrder, PushPending, SendOrder,
         queues
  <2> QED
    BY <2>1, <2>4, <2>5 DEF BudgetInv, SubmissionsWithinApprovals, tasks
<1>2. ASSUME NEW o \in Orders, CancelStep(o) PROVE BudgetInv'
  BY <1>2 DEF CancelStep, CancelPending, CancelActive, BudgetInv, SubmissionsWithinApprovals,
     queues, tasks, approved
<1>3. ASSUME NEW s \in Slots, Dispatch(s) PROVE BudgetInv'
  <2>1. /\ channel # <<>> /\ channel' = Tail(channel)
        /\ UNCHANGED <<submit, allows, sends>>
        /\ job' = [job EXCEPT ![s] = Head(channel)]
        /\ pc' = [pc EXCEPT ![s] = "start"]
    BY <1>3 DEF Dispatch, callers, approved
  <2>2. /\ Len(channel) >= 1
        /\ Len(channel') = Len(channel) - 1
        /\ \A i \in 1 .. Len(channel') : channel'[i] = channel[i + 1]
    BY <1>0, <2>1
  <2>3. /\ pc'[s] = "start" /\ job'[s] = channel[1]
        /\ \A t \in Slots \ {s} : pc'[t] = pc[t] /\ job'[t] = job[t]
    BY <2>1 DEF TypeInv, TypeOK
  <2>4. \A i \in 1 .. Len(channel') : allows'[channel'[i].id] <= channel'[i].retry
    BY <1>a, <2>1, <2>2 DEF BudgetInv
  <2>5. allows'[job'[s].id] <= job'[s].retry
    BY <1>a, <2>1, <2>2, <2>3 DEF BudgetInv
  <2> QED
    BY <2>1, <2>3, <2>4, <2>5 DEF BudgetInv, SubmissionsWithinApprovals, ExecPC
<1>4. ASSUME NEW s \in Slots, TaskStep(s) PROVE BudgetInv'
  <2> DEFINE id == job[s].id
  <2>1. /\ pc[s] # "idle" /\ OnlyTask(s) /\ UNCHANGED submit
        /\ pc'[s] \in LivePC => pc[s] \in LivePC
        /\ \/ UNCHANGED channel
           \/ pc[s] = "resend" /\ channel' = Append(channel, job[s])
    BY <1>4, TaskStepFrame
  <2>2. /\ job[s] \in Copies /\ id \in Orders
        /\ job[s].retry \in Nat /\ job[s].retry <= MaxRetries
        /\ allows[id] \in Nat /\ sends[id] \in Nat
    BY <2>1, TaskTypes, ConstantsAssumption DEF TypeInv, TypeOK
  <2>3. CountersMove(s) /\ WithinBudget(s)'
    BY <1>4, TaskStepCounters, TaskStepBudget
  <2>4. /\ \A o \in Orders \ {id} : allows'[o] = allows[o] /\ sends'[o] = sends[o]
        /\ \/ allows'[id] = allows[id] /\ sends'[id] = sends[id]
           \/ /\ pc[s] = "gate"
              /\ allows'[id] = allows[id] + 1 /\ sends'[id] = sends[id]
           \/ /\ pc[s] \in {"bundle1", "bundle2", "direct"}
              /\ allows'[id] = allows[id] /\ sends'[id] = sends[id] + 1
    BY <2>2, <2>3 DEF CountersMove, TypeInv, TypeOK
  <2> HIDE DEF id
  <2>5. SubmissionsWithinApprovals'
    <3>1. \A o \in Orders \ {id} : sends'[o] <= 3 * allows'[o] /\ allows'[o] <= MaxRetries + 1
      BY <2>4 DEF BudgetInv, SubmissionsWithinApprovals
    <3>2. sends[id] <= 3 * allows[id] /\ allows[id] <= MaxRetries + 1
      BY <2>2 DEF BudgetInv, SubmissionsWithinApprovals
    <3>3. pc[s] = "gate" => allows[id] <= job[s].retry
      BY DEF BudgetInv, id
    <3>4. pc[s] \in {"bundle1", "bundle2", "direct"} =>
            sends[id] + 3 <= 3 * allows[id] + SentBy(pc[s])
      BY DEF BudgetInv, ExecPC, id
    <3>5. pc[s] \in {"bundle1", "bundle2", "direct"} => SentBy(pc[s]) \in 0 .. 2
      BY SentByValues
    <3>6. sends'[id] <= 3 * allows'[id] /\ allows'[id] <= MaxRetries + 1
      BY <2>2, <2>4, <3>2, <3>3, <3>4, <3>5, ConstantsAssumption
    <3> QED
      BY <3>1, <3>6 DEF SubmissionsWithinApprovals
  <2>6. \A o \in Orders :
          submit'[o] \in {"new", "store", "push", "send"} => allows'[o] = 0
    <3>1. pc[s] = "gate" => submit[id] = "ok"
      BY DEF CopiesInv, LivePC, id
    <3> QED
      BY <2>1, <2>2, <2>4, <3>1 DEF BudgetInv
  \* Copies that are not the task's own are copies of other orders.
  <2>7. \A i \in 1 .. Len(channel) :
          pc[s] \in LivePC => channel[i].id # id
    BY DEF CopiesInv, OneLiveCopy, Queued, id
  <2>8. \A i \in 1 .. Len(channel) : allows'[channel[i].id] <= channel[i].retry
    <3> SUFFICES ASSUME NEW i \in 1 .. Len(channel)
                 PROVE  allows'[channel[i].id] <= channel[i].retry
      OBVIOUS
    <3>1. allows[channel[i].id] <= channel[i].retry
      BY DEF BudgetInv
    <3>2. allows'[channel[i].id] = allows[channel[i].id]
      BY <1>a, <2>4, <2>7 DEF LivePC, ExecPC
    <3> QED
      BY <3>1, <3>2
  <2>9. \A i \in 1 .. Len(channel') : allows'[channel'[i].id] <= channel'[i].retry
    <3>1. CASE UNCHANGED channel
      BY <2>8, <3>1
    <3>2. CASE pc[s] = "resend" /\ channel' = Append(channel, job[s])
      <4>1. /\ Len(channel') = Len(channel) + 1
            /\ \A i \in 1 .. Len(channel) : channel'[i] = channel[i]
            /\ channel'[Len(channel) + 1] = job[s]
        BY <1>0, <2>2, <3>2
      <4>2. allows'[id] <= job[s].retry
        BY <2>4, <3>2 DEF BudgetInv, id
      <4> QED
        BY <1>a, <2>8, <4>1, <4>2 DEF id
    <3> QED
      BY <2>1, <3>1, <3>2
  <2>10. \A t \in Slots : WithinBudget(t)'
    <3> SUFFICES ASSUME NEW t \in Slots \ {s} PROVE WithinBudget(t)'
      BY <2>3
    <3>1. WithinBudget(t) /\ pc'[t] = pc[t] /\ job'[t] = job[t]
      BY <2>1 DEF BudgetInv, WithinBudget, OnlyTask
    <3>2. CASE pc[t] \in LivePC
      <4>1. job[t].id \in Orders
        BY <3>2, TaskTypes DEF LivePC, ExecPC
      <4>2. pc[s] \in LivePC => job[t].id # id
        BY <3>2 DEF CopiesInv, OneLiveCopy, id
      <4>3. allows'[job[t].id] = allows[job[t].id] /\ sends'[job[t].id] = sends[job[t].id]
        BY <2>4, <4>1, <4>2 DEF LivePC, ExecPC
      <4> QED
        BY <3>1, <4>3 DEF WithinBudget
    <3>3. CASE pc[t] \notin LivePC
      BY <3>1, <3>3 DEF WithinBudget, LivePC
    <3> QED
      BY <3>2, <3>3
  <2> QED
    BY <2>5, <2>6, <2>9, <2>10 DEF BudgetInv, WithinBudget
<1>5. CASE Crash
  <2>1. /\ channel' = <<>> /\ pc' = [s \in Slots |-> "idle"] /\ UNCHANGED <<allows, sends>>
        /\ \A o \in Orders : submit'[o] = "lost" \/ submit'[o] = submit[o]
    BY <1>5 DEF Crash, approved
  <2> QED
    BY <2>1 DEF BudgetInv, SubmissionsWithinApprovals, ExecPC
<1>6. CASE UNCHANGED vars
  BY <1>6 DEF vars, callers, queues, tasks, approved, BudgetInv, SubmissionsWithinApprovals
<1> QED
  BY <1>1, <1>2, <1>3, <1>4, <1>5, <1>6 DEF Next

\* Whatever the interleaving, the outcomes of the submissions and the number of
\* orders, no transaction leaves the engine beyond the approvals of its order,
\* and no order is approved more than max_retries + 1 times.
THEOREM SubmissionsBounded == Spec => []SubmissionsWithinApprovals
<1>1. Spec => [](TypeInv /\ CopiesInv /\ BudgetInv)
  BY InitType, StepType, InitCopies, StepCopies, InitBudget, StepBudget, PTL DEF Spec
<1>2. BudgetInv => SubmissionsWithinApprovals
  BY DEF BudgetInv
<1> QED
  BY <1>1, <1>2, PTL

-----------------------------------------------------------------------------
(* The exposure map *)

\* At the start no order is active.
LEMMA InitAccounted == Init => ActiveIsAccountedFor
  BY DEF Init, ActiveIsAccountedFor

\* No step leaves an order active that nobody works on.
LEMMA StepAccounted == TypeInv /\ ActiveIsAccountedFor /\ [Next]_vars => ActiveIsAccountedFor'
<1> SUFFICES ASSUME TypeInv, ActiveIsAccountedFor, [Next]_vars PROVE ActiveIsAccountedFor'
  OBVIOUS
<1>1. ASSUME NEW o \in Orders, SubmitStep(o) \/ CancelStep(o) PROVE ActiveIsAccountedFor'
  <2>1. UNCHANGED <<tasks, unsaved>> /\ active' \subseteq active
    BY <1>1 DEF SubmitStep, SubmitEvaluate, StoreOrder, PushPending, SendOrder, CancelStep,
       CancelPending, CancelActive
  <2> QED
    BY <2>1 DEF tasks, ActiveIsAccountedFor
<1>2. ASSUME NEW s \in Slots, Dispatch(s) PROVE ActiveIsAccountedFor'
  BY <1>2 DEF Dispatch, ActiveIsAccountedFor, TypeInv, TypeOK
<1>3. ASSUME NEW s \in Slots, TaskStep(s) PROVE ActiveIsAccountedFor'
  <2> DEFINE id == job[s].id
  <2>1. OnlyTask(s)
    BY <1>3, TaskStepFrame
  <2>2. \A label \in LivePC \cup {"drop", "idle"} : label \in TaskPC
    BY DEF TaskPC
  <2>3. "Failed" \in Outcome
    BY DEF Outcome
  \* A task that begins enters the order it keeps; one that ends takes it out,
  \* or leaves it behind as unsaved.
  <2>4. /\ unsaved \subseteq unsaved' /\ active' \subseteq active \cup {id}
        /\ \/ id \notin active' \/ id \in unsaved'
           \/ pc'[s] \in (LivePC \cup {"drop"}) \ {"start"}
           \/ pc[s] = "start" /\ pc'[s] = "start"
    <3>1. CASE Start(s)
      BY <2>2, <2>3, <3>1, GotoOnlyTask, ConcludeOnlyTask DEF Start, LivePC
    <3>2. CASE Gate(s)
      BY <2>2, <2>3, <3>2, GotoOnlyTask, ConcludeOnlyTask DEF Gate, GateAllow, GateDeny, LivePC,
         ExecPC
    <3>3. CASE Execute(s)
      <4>1. UNCHANGED <<active, unsaved>> /\ pc[s] \in ExecPC /\ pc[s] # "idle"
        BY <3>3 DEF Execute, Simulate, SendBundle, BundleStatus, BuildError, Direct, Confirm,
           Timeout, ExecFrame, ExecPC
      <4>2. \/ \E label \in ExecPC : Goto(s, label) /\ UNCHANGED <<job, outcome>>
            \/ \E result \in Outcome : Conclude(s, result)
            \/ \E retriable \in BOOLEAN : ExecutionError(s, retriable)
        BY <3>3 DEF Execute, Simulate, SendBundle, BundleStatus, BuildError, Direct, Confirm,
           Timeout, ExecPC, Outcome
      <4>3. pc'[s] \in (LivePC \cup {"drop"}) \ {"start"}
        BY <2>2, <4>1, <4>2, GotoOnlyTask, ConcludeOnlyTask, ExecutionErrorOnlyTask
           DEF LivePC, ExecPC
      <4> QED
        BY <4>1, <4>3
    <3>4. CASE Resend(s)
      BY <2>2, <3>4, GotoOnlyTask DEF Resend, LivePC
    <3>5. CASE DropActive(s)
      BY <3>5 DEF DropActive
    <3>6. CASE Persist(s)
      BY <2>2, <3>6, GotoOnlyTask DEF Persist, LivePC
    <3>7. CASE Finish(s)
      BY <3>7 DEF Finish
    <3> QED
      BY <1>3, <3>1, <3>2, <3>3, <3>4, <3>5, <3>6, <3>7 DEF TaskStep
  <2>5. pc[s] = "start" => pc'[s] # "start"
    BY <1>3, <2>2, <2>3, GotoOnlyTask, ConcludeOnlyTask DEF TaskStep, Start, Gate, GateAllow,
       GateDeny, Execute, Simulate, SendBundle, BundleStatus, BuildError, Direct, Confirm,
       Timeout, Resend, DropActive, Persist, Finish, ExecPC, LivePC
  <2>6. pc'[s] \in (LivePC \cup {"drop"}) \ {"start"} =>
          pc'[s] \notin {"idle", "start"} /\ job'[s].id = id
    BY <2>1 DEF OnlyTask, LivePC, ExecPC
  <2> HIDE DEF id
  <2> SUFFICES ASSUME NEW o \in active'
               PROVE  \/ o \in unsaved'
                      \/ \E t \in Slots : pc'[t] \notin {"idle", "start"} /\ job'[t].id = o
    BY DEF ActiveIsAccountedFor
  <2>7. CASE o = id
    BY <2>4, <2>5, <2>6, <2>7
  <2>8. CASE o # id
    <3>1. CASE o \in unsaved
      BY <2>4, <3>1
    <3>2. CASE o \notin unsaved
      <4>1. PICK t \in Slots : pc[t] \notin {"idle", "start"} /\ job[t].id = o
        BY <2>4, <2>8, <3>2 DEF ActiveIsAccountedFor
      <4>2. t # s
        BY <2>8, <4>1 DEF id
      <4> QED
        BY <2>1, <4>1, <4>2 DEF OnlyTask
    <3> QED
      BY <3>1, <3>2
  <2> QED
    BY <2>7, <2>8
<1>4. CASE Crash
  BY <1>4 DEF Crash, ActiveIsAccountedFor
<1>5. CASE UNCHANGED vars
  BY <1>5 DEF vars, tasks, ActiveIsAccountedFor
<1> QED
  BY <1>1, <1>2, <1>3, <1>4, <1>5 DEF Next

\* Exposure never leaks but through a failed final UPDATE: whatever else is in
\* active_orders belongs to a task that will take it out.
THEOREM ExposureAccounted == Spec => []ActiveIsAccountedFor
<1>1. Spec => [](TypeInv /\ ActiveIsAccountedFor)
  BY InitType, StepType, InitAccounted, StepAccounted, PTL DEF Spec
<1> QED
  BY <1>1, PTL

-----------------------------------------------------------------------------
(* Nothing is reported executed that was not handed to the chain *)

\* Strengthening: a task that polls, confirms or has recorded a success has
\* sent something.
HasSent(s) ==
    /\ pc[s] \in {"status1", "status2", "confirm"} => sends[job[s].id] > 0
    /\ pc[s] \in {"persist", "finish"} /\ outcome[s] = "Executed" => sends[job[s].id] > 0

\* What is executed was submitted, and a task that waits for the answer has submitted it.
ExecutedInv == ExecutedWasSubmitted /\ \A s \in Slots : HasSent(s)

\* At the start nothing is executed.
LEMMA InitExecuted == Init => ExecutedInv
  BY DEF Init, ExecutedInv, ExecutedWasSubmitted, HasSent

\* The task that moves: what it claims, and what it writes to the tables.
LEMMA TaskStepClaims ==
  ASSUME TypeInv, ExecutedInv, NEW s \in Slots, TaskStep(s)
  PROVE  /\ HasSent(s)'
         /\ \A o \in Orders : db'[o] = "Executed" /\ db[o] # "Executed" => sends'[o] > 0
         /\ \A o \in trades' \ trades : sends'[o] > 0
<1>0. pc[s] # "idle" /\ OnlyTask(s) /\ HasSent(s) /\ CountersMove(s)
  BY TaskStepFrame, TaskStepCounters DEF ExecutedInv
<1> DEFINE id == job[s].id
<1>1. id \in Orders /\ sends[id] \in Nat
  BY <1>0, TaskTypes DEF TypeInv, TypeOK
<1>2. \A label \in LivePC \cup {"drop", "idle"} : label \in TaskPC
  BY DEF TaskPC
<1>3. "Failed" \in Outcome /\ "Executed" \in Outcome /\ "Failed" # "Executed"
  BY DEF Outcome
<1> HIDE DEF id
<1>4. pc'[s] \in {"persist", "finish"} \cup ExecPC => job'[s].id = id
  BY <1>0 DEF OnlyTask, LivePC, id
<1>5. ASSUME pc'[s] \notin {"status1", "status2", "confirm", "persist", "finish"}
      PROVE  HasSent(s)'
  BY <1>5 DEF HasSent
<1>6. ASSUME Conclude(s, "Failed") PROVE HasSent(s)'
  BY <1>3, <1>6, ConcludeOnlyTask DEF HasSent
<1>7. ASSUME NEW retriable \in BOOLEAN, ExecutionError(s, retriable) PROVE HasSent(s)'
  BY <1>0, <1>7, ExecutionErrorOnlyTask DEF HasSent
<1>8. ASSUME NEW label \in {"gate", "simulate", "bundle1", "bundle2", "direct", "drop"}, Goto(s, label),
             UNCHANGED <<job, outcome>>
      PROVE  HasSent(s)'
  <2>1. pc'[s] = label
    BY <1>2, <1>8, GotoOnlyTask DEF LivePC, ExecPC
  <2> QED
    BY <1>5, <1>8, <2>1
<1>9. CASE Start(s) \/ Gate(s) \/ Resend(s)
  <2>1. UNCHANGED tables
    BY <1>9 DEF Start, Gate, GateAllow, GateDeny, Resend
  <2>2. HasSent(s)'
    BY <1>6, <1>8, <1>9 DEF Start, Gate, GateAllow, GateDeny, Resend
  <2> QED
    BY <2>1, <2>2 DEF tables
<1>10. CASE Execute(s)
  <2>1. UNCHANGED tables /\ ExecFrame
    BY <1>10 DEF Execute, Simulate, SendBundle, BundleStatus, BuildError, Direct, Confirm,
       Timeout, ExecFrame
  <2> SUFFICES HasSent(s)'
    BY <2>1 DEF tables
  <2>2. ASSUME NEW label \in {"status1", "status2", "confirm"}, Goto(s, label), Submitted(s),
               UNCHANGED <<job, outcome>>
        PROVE  HasSent(s)'
    <3>1. pc'[s] = label /\ job'[s].id = id
      BY <1>2, <2>2, GotoOnlyTask DEF LivePC, ExecPC, id
    <3>2. sends'[id] > 0
      BY <1>1, <2>2 DEF Submitted, TypeInv, TypeOK, id
    <3> QED
      BY <3>1, <3>2 DEF HasSent
  <2>3. ASSUME pc[s] \in {"status1", "status2", "confirm"}, Conclude(s, "Executed"),
               UNCHANGED sends
        PROVE  HasSent(s)'
    <3>1. job'[s].id = id /\ sends[id] > 0
      BY <1>0, <2>3 DEF HasSent, Conclude, id
    <3> QED
      BY <2>3, <3>1 DEF HasSent
  <2>4. CASE Simulate(s) \/ BuildError(s) \/ Timeout(s)
    BY <1>7, <1>8, <2>4 DEF Simulate, BuildError, Timeout
  <2>5. CASE SendBundle(s)
    BY <1>8, <2>2, <2>5 DEF SendBundle
  <2>6. CASE BundleStatus(s)
    BY <1>8, <2>3, <2>6 DEF BundleStatus
  <2>7. CASE Direct(s)
    BY <1>7, <2>2, <2>7 DEF Direct
  <2>8. CASE Confirm(s)
    BY <1>7, <2>3, <2>8 DEF Confirm
  <2> QED
    BY <1>10, <2>4, <2>5, <2>6, <2>7, <2>8 DEF Execute
<1>11. CASE DropActive(s)
  BY <1>5, <1>11, EndTaskOnlyTask DEF DropActive, tables
<1>12. CASE Persist(s)
  <2>1. \/ Goto(s, "finish") /\ UNCHANGED <<job, outcome>>
        \/ EndTask(s)
    BY <1>12 DEF Persist
  <2>2. UNCHANGED <<sends, trades>> /\ pc[s] = "persist"
    BY <1>12 DEF Persist, approved
  <2>3. HasSent(s)'
    BY <1>0, <1>2, <1>5, <2>1, <2>2, GotoOnlyTask, EndTaskOnlyTask DEF HasSent, LivePC
  <2>4. \A o \in Orders : db'[o] # db[o] => o = id /\ db'[o] = outcome[s]
    BY <1>1, <1>12 DEF Persist, TypeInv, TypeOK, id
  <2>5. outcome[s] = "Executed" => sends[id] > 0
    BY <1>0, <2>2 DEF HasSent, id
  <2> QED
    BY <2>2, <2>3, <2>4, <2>5
<1>13. CASE Finish(s)
  <2>1. pc[s] = "finish" /\ UNCHANGED <<db, sends>>
    BY <1>13 DEF Finish, approved
  <2>2. \A o \in trades' \ trades : o = id /\ outcome[s] = "Executed"
    BY <1>13 DEF Finish, id
  <2>3. outcome[s] = "Executed" => sends[id] > 0
    BY <1>0, <2>1 DEF HasSent, id
  <2>4. HasSent(s)'
    BY <1>5, <1>13, EndTaskOnlyTask DEF Finish
  <2> QED
    BY <2>1, <2>2, <2>3, <2>4
<1> QED
  BY <1>9, <1>10, <1>11, <1>12, <1>13 DEF TaskStep

\* No step records an order as executed that was never submitted.
LEMMA StepExecuted == TypeInv /\ ExecutedInv /\ [Next]_vars => ExecutedInv'
<1> SUFFICES ASSUME TypeInv, ExecutedInv, [Next]_vars PROVE ExecutedInv'
  OBVIOUS
<1>1. ASSUME NEW o \in Orders, SubmitStep(o) \/ CancelStep(o) PROVE ExecutedInv'
  <2>1. UNCHANGED <<tasks, trades, sends>>
    BY <1>1 DEF SubmitStep, SubmitEvaluate, StoreOrder, PushPending, SendOrder, CancelStep,
       CancelPending, CancelActive, tables, approved
  <2>2. \A p \in Orders : db'[p] = "Executed" => db[p] = "Executed"
    BY <1>1 DEF SubmitStep, SubmitEvaluate, StoreOrder, PushPending, SendOrder, CancelStep,
       CancelPending, CancelActive, tables, TypeInv, TypeOK
  <2> QED
    BY <2>1, <2>2 DEF tasks, ExecutedInv, ExecutedWasSubmitted, HasSent
<1>2. ASSUME NEW s \in Slots, Dispatch(s) PROVE ExecutedInv'
  <2>1. /\ UNCHANGED <<tables, approved, outcome>> /\ pc'[s] = "start"
        /\ \A t \in Slots \ {s} : pc'[t] = pc[t] /\ job'[t] = job[t]
    BY <1>2 DEF Dispatch, TypeInv, TypeOK
  <2>2. ExecutedWasSubmitted'
    BY <2>1 DEF ExecutedInv, ExecutedWasSubmitted, tables, approved
  <2>3. ASSUME NEW t \in Slots PROVE HasSent(t)'
    <3>1. CASE t = s
      BY <2>1, <3>1 DEF HasSent
    <3>2. CASE t # s
      <4>1. pc'[t] = pc[t] /\ job'[t] = job[t] /\ outcome' = outcome /\ sends' = sends
        BY <2>1, <3>2 DEF approved
      <4> QED
        BY <4>1 DEF ExecutedInv, HasSent
    <3> QED
      BY <3>1, <3>2
  <2> QED
    BY <2>2, <2>3 DEF ExecutedInv
<1>3. ASSUME NEW s \in Slots, TaskStep(s) PROVE ExecutedInv'
  <2>1. pc[s] # "idle" /\ OnlyTask(s) /\ CountersMove(s)
    BY <1>3, TaskStepFrame, TaskStepCounters
  <2>2. job[s].id \in Orders
    BY <2>1, TaskTypes
  <2>3. \A o \in Orders : sends[o] \in Nat /\ sends'[o] \in Nat /\ sends'[o] >= sends[o]
    <3>1. sends \in [Orders -> Nat]
      BY DEF TypeInv, TypeOK
    <3>2. sends' = sends \/ sends' = [sends EXCEPT ![job[s].id] = @ + 1]
      BY <2>1 DEF CountersMove
    <3> QED
      BY <2>2, <3>1, <3>2
  <2>4. ExecutedWasSubmitted'
    BY <1>3, <2>3, TaskStepClaims DEF ExecutedInv, ExecutedWasSubmitted
  <2>5. ASSUME NEW t \in Slots \ {s} PROVE HasSent(t)'
    <3>1. HasSent(t) /\ pc'[t] = pc[t] /\ job'[t] = job[t] /\ outcome'[t] = outcome[t]
      BY <2>1 DEF OnlyTask, ExecutedInv
    <3>2. pc[t] # "idle" => job[t].id \in Orders
      BY TaskTypes
    <3> QED
      BY <2>3, <3>1, <3>2 DEF HasSent
  <2> QED
    BY <1>3, <2>4, <2>5, TaskStepClaims DEF ExecutedInv
<1>4. CASE Crash
  BY <1>4 DEF Crash, ExecutedInv, ExecutedWasSubmitted, HasSent, tables, approved
<1>5. CASE UNCHANGED vars
  BY <1>5 DEF vars, tables, tasks, approved, ExecutedInv, ExecutedWasSubmitted, HasSent
<1> QED
  BY <1>1, <1>2, <1>3, <1>4, <1>5 DEF Next

\* Nothing becomes a row marked executed, or a trade, without a transaction
\* behind it, over every path and every crash.
THEOREM ExecutedIsBacked == Spec => []ExecutedWasSubmitted
<1>1. Spec => [](TypeInv /\ ExecutedInv)
  BY InitType, StepType, InitExecuted, StepExecuted, PTL DEF Spec
<1>2. ExecutedInv => ExecutedWasSubmitted
  BY DEF ExecutedInv
<1> QED
  BY <1>1, <1>2, PTL

-----------------------------------------------------------------------------
(* Every accepted order has its place *)

\* A task that finalises its order has a result for it.
Decided(s) == pc[s] \in {"persist", "finish"} => outcome[s] \in {"Executed", "Failed"}

\* An order with a result, or whose result could not be saved, is neither in the
\* channel nor with a task.
AtRest(o) == history[o] # "none" \/ (o \in unsaved /\ submit[o] = "ok")

\* Strengthening: who has a result has left the pipeline, so nothing is done to
\* it again, and only accepted orders get one.
PlaceInv ==
    /\ NoOrderVanishes
    /\ \A s \in Slots : Decided(s)
    /\ \A o \in Orders : AtRest(o) => ~ Queued(o) /\ ~ Owned(o)
    /\ \A o \in Orders : history[o] # "none" => submit[o] = "ok"
    /\ \A o \in unsaved : submit[o] \in {"ok", "lost"}

\* The ways a step of the task in s can move its order: from one point of the
\* pipeline to another, back to the channel, nowhere (it has left already), out
\* without a saved result, or into the history.
Moves(s) ==
    \/ /\ pc[s] \in LivePC /\ pc'[s] \in LivePC
       /\ UNCHANGED <<channel, history, unsaved>>
    \/ /\ pc[s] = "resend" /\ pc'[s] = "drop"
       /\ channel' = Append(channel, job[s])
       /\ UNCHANGED <<history, unsaved>>
    \/ /\ pc[s] = "drop" /\ pc'[s] = "idle"
       /\ UNCHANGED <<channel, history, unsaved>>
    \/ /\ pc[s] = "persist" /\ pc'[s] = "idle"
       /\ unsaved' = unsaved \cup {job[s].id}
       /\ UNCHANGED <<channel, history>>
    \/ /\ pc[s] = "finish" /\ pc'[s] = "idle"
       /\ history' = [history EXCEPT ![job[s].id] = outcome[s]]
       /\ UNCHANGED <<channel, unsaved>>

\* A step of a task moves its order on as Moves says.
LEMMA TaskStepMoves ==
  ASSUME TypeInv, NEW s \in Slots, Decided(s), TaskStep(s)
  PROVE  Moves(s) /\ Decided(s)'
<1>0. pc[s] # "idle"
  BY TaskStepFrame
<1>1. \A label \in LivePC \cup {"drop", "idle"} : label \in TaskPC
  BY DEF TaskPC
<1>2. "Failed" \in Outcome /\ "Executed" \in Outcome
  BY DEF Outcome
<1>3. ASSUME NEW label \in LivePC \cup {"drop"}, label \notin {"persist", "finish"},
             Goto(s, label), UNCHANGED <<job, outcome>>
      PROVE  pc'[s] = label /\ Decided(s)'
  BY <1>1, <1>3, GotoOnlyTask DEF Decided
<1>4. ASSUME NEW result \in {"Executed", "Failed"}, Conclude(s, result)
      PROVE  pc'[s] \in LivePC /\ Decided(s)'
  BY <1>2, <1>4, ConcludeOnlyTask DEF Decided, LivePC
<1>5. ASSUME NEW retriable \in BOOLEAN, ExecutionError(s, retriable)
      PROVE  pc'[s] \in LivePC /\ Decided(s)'
  BY <1>0, <1>5, ExecutionErrorOnlyTask DEF Decided, LivePC
<1>6. CASE Start(s)
  BY <1>3, <1>4, <1>6 DEF Start, Moves, LivePC, queues
<1>7. CASE Gate(s)
  <2>1. pc'[s] \in LivePC /\ Decided(s)'
    BY <1>3, <1>4, <1>7 DEF Gate, GateAllow, GateDeny, LivePC, ExecPC
  <2> QED
    BY <1>7, <2>1 DEF Gate, GateAllow, GateDeny, Moves, LivePC, queues
<1>8. CASE Execute(s)
  <2>1. pc'[s] \in LivePC /\ Decided(s)'
    <3>1. CASE Simulate(s) \/ BuildError(s) \/ Timeout(s)
      BY <1>3, <1>5, <3>1 DEF Simulate, BuildError, Timeout, LivePC, ExecPC
    <3>2. CASE SendBundle(s)
      BY <1>3, <3>2 DEF SendBundle, LivePC, ExecPC
    <3>3. CASE BundleStatus(s)
      BY <1>3, <1>4, <3>3 DEF BundleStatus, LivePC, ExecPC
    <3>4. CASE Direct(s) \/ Confirm(s)
      BY <1>3, <1>4, <1>5, <3>4 DEF Direct, Confirm, LivePC, ExecPC
    <3> QED
      BY <1>8, <3>1, <3>2, <3>3, <3>4 DEF Execute
  <2>2. pc[s] \in ExecPC /\ ExecFrame
    BY <1>8 DEF Execute, Simulate, SendBundle, BundleStatus, BuildError, Direct, Confirm,
       Timeout, ExecPC, ExecFrame
  <2> QED
    BY <2>1, <2>2 DEF ExecFrame, Moves, LivePC, queues
<1>9. CASE Resend(s)
  BY <1>3, <1>9 DEF Resend, Moves
<1>10. CASE DropActive(s)
  BY <1>10, EndTaskOnlyTask DEF DropActive, Moves, Decided, queues
<1>11. CASE Persist(s)
  <2>1. CASE Goto(s, "finish") /\ UNCHANGED <<job, outcome, unsaved>>
    <3>1. pc'[s] = "finish"
      BY <1>1, <2>1, GotoOnlyTask DEF LivePC
    <3> QED
      BY <1>11, <2>1, <3>1 DEF Persist, Moves, Decided, LivePC, queues
  <2>2. CASE EndTask(s) /\ unsaved' = unsaved \cup {job[s].id}
    BY <1>11, <2>2, EndTaskOnlyTask DEF Persist, Moves, Decided, queues
  <2> QED
    BY <1>11, <2>1, <2>2 DEF Persist
<1>12. CASE Finish(s)
  BY <1>12, EndTaskOnlyTask DEF Finish, Moves, Decided, queues
<1> QED
  BY <1>6, <1>7, <1>8, <1>9, <1>10, <1>11, <1>12 DEF TaskStep

\* What is in the channel after a copy has been appended, or taken.
LEMMA Appended ==
  ASSUME channel \in Seq(Copies), NEW copy \in Copies, channel' = Append(channel, copy),
         NEW p
  PROVE  Queued(p)' <=> Queued(p) \/ p = copy.id
<1>1. /\ Len(channel) \in Nat /\ Len(channel') = Len(channel) + 1
      /\ \A i \in 1 .. Len(channel) : channel'[i] = channel[i]
      /\ channel'[Len(channel) + 1] = copy
  OBVIOUS
<1>2. 1 .. Len(channel') = (1 .. Len(channel)) \cup {Len(channel) + 1}
  BY <1>1
<1> QED
  BY <1>1, <1>2 DEF Queued

\* Taking the first message of the channel takes its order out, and no other.
LEMMA Taken ==
  ASSUME channel \in Seq(Copies), channel # <<>>, channel' = Tail(channel), NEW p
  PROVE  /\ Queued(p) <=> Queued(p)' \/ p = Head(channel).id
         /\ Head(channel) \in Copies
<1>1. /\ Len(channel) \in Nat \ {0} /\ Len(channel') = Len(channel) - 1
      /\ \A i \in 1 .. Len(channel) - 1 : channel'[i] = channel[i + 1]
      /\ Head(channel) = channel[1] /\ Head(channel) \in Copies
  OBVIOUS
<1>2. ASSUME Queued(p)' PROVE Queued(p)
  <2>1. PICK i \in 1 .. Len(channel') : channel'[i].id = p
    BY <1>2 DEF Queued
  <2>2. i + 1 \in 1 .. Len(channel) /\ channel[i + 1].id = p
    BY <1>1, <2>1
  <2> QED
    BY <2>2 DEF Queued
<1>3. ASSUME Queued(p), p # Head(channel).id PROVE Queued(p)'
  <2>1. PICK i \in 1 .. Len(channel) : channel[i].id = p
    BY <1>3 DEF Queued
  <2>2. i # 1 /\ i - 1 \in 1 .. Len(channel) - 1 /\ channel'[i - 1] = channel[i]
    BY <1>1, <1>3, <2>1
  <2> QED
    BY <1>1, <2>1, <2>2 DEF Queued
<1>4. p = Head(channel).id => Queued(p)
  BY <1>1 DEF Queued
<1> QED
  BY <1>1, <1>2, <1>3, <1>4

\* At the start no order has a place.
LEMMA InitPlaces == Init => PlaceInv
  BY DEF Init, PlaceInv, NoOrderVanishes, Decided, AtRest, Queued, Owned, LivePC, ExecPC

\* No step loses an order, or brings one that has a result back into the pipeline.
LEMMA StepPlaces == TypeInv /\ CopiesInv /\ PlaceInv /\ [Next]_vars => PlaceInv'
<1> SUFFICES ASSUME TypeInv, CopiesInv, PlaceInv, [Next]_vars PROVE PlaceInv'
  OBVIOUS
<1>0. channel \in Seq(Copies)
  BY DEF TypeInv, TypeOK
<1>1. ASSUME NEW o \in Orders, SubmitStep(o) \/ CancelStep(o) PROVE PlaceInv'
  <2>1. UNCHANGED <<history, unsaved, tasks>>
    BY <1>1 DEF SubmitStep, SubmitEvaluate, StoreOrder, PushPending, SendOrder, CancelStep,
       CancelPending, CancelActive
  <2>2. \A p : Owned(p)' <=> Owned(p)
    BY <2>1 DEF Owned, tasks
  <2>3. \A s \in Slots : Decided(s)'
    BY <2>1 DEF PlaceInv, Decided, tasks
  <2>4. CASE SendOrder(o)
    <3>1. /\ submit[o] = "send" /\ submit' = [submit EXCEPT ![o] = "ok"]
          /\ channel' = Append(channel, [id |-> o, retry |-> 0])
      BY <2>4 DEF SendOrder
    <3>2. \A p : Queued(p)' <=> Queued(p) \/ p = o
      <4>1. [id |-> o, retry |-> 0] \in Copies
        BY ConstantsAssumption DEF Copies
      <4> QED
        BY <1>0, <3>1, <4>1, Appended
    <3>3. history[o] = "none" /\ o \notin unsaved
      BY <3>1 DEF PlaceInv
    <3> QED
      BY <2>1, <2>2, <2>3, <3>1, <3>2, <3>3 DEF PlaceInv, NoOrderVanishes, AtRest, TypeInv, TypeOK
  <2>5. CASE ~ SendOrder(o)
    <3>1. /\ UNCHANGED channel
          /\ \/ UNCHANGED submit
             \/ /\ submit[o] \notin {"ok", "lost"}
                /\ \E step \in {"store", "push", "send", "refused"} :
                     submit' = [submit EXCEPT ![o] = step]
      BY <1>1, <2>5 DEF SubmitStep, SubmitEvaluate, StoreOrder, PushPending, CancelStep,
         CancelPending, CancelActive, queues
    <3>2. \A p \in Orders : /\ submit'[p] = "ok" <=> submit[p] = "ok"
                            /\ submit[p] = "lost" => submit'[p] = "lost"
      BY <3>1 DEF TypeInv, TypeOK
    <3>3. \A p : Queued(p)' <=> Queued(p)
      BY <3>1 DEF Queued
    <3>4. unsaved \in SUBSET Orders
      BY DEF TypeInv, TypeOK
    <3> QED
      BY <2>1, <2>2, <2>3, <3>2, <3>3, <3>4 DEF PlaceInv, NoOrderVanishes, AtRest
  <2> QED
    BY <2>4, <2>5
<1>2. ASSUME NEW s \in Slots, Dispatch(s) PROVE PlaceInv'
  <2> DEFINE id == Head(channel).id
  <2>1. /\ pc[s] = "idle" /\ pc'[s] = "start" /\ job'[s].id = id
        /\ \A t \in Slots \ {s} : pc'[t] = pc[t] /\ job'[t] = job[t]
        /\ UNCHANGED <<submit, history, outcome, unsaved>>
    BY <1>2 DEF Dispatch, TypeInv, TypeOK, callers
  <2>2. \A p : Queued(p) <=> Queued(p)' \/ p = id
    BY <1>0, <1>2, Taken DEF Dispatch
  <2> HIDE DEF id
  <2>3. \A p : Owned(p)' <=> Owned(p) \/ p = id
    BY <2>1 DEF Owned, LivePC, ExecPC
  <2>4. \A t \in Slots : Decided(t)'
    BY <2>1 DEF PlaceInv, Decided
  <2> QED
    BY <2>1, <2>2, <2>3, <2>4 DEF PlaceInv, NoOrderVanishes, AtRest
<1>3. ASSUME NEW s \in Slots, TaskStep(s) PROVE PlaceInv'
  <2>1. /\ pc[s] # "idle" /\ OnlyTask(s) /\ UNCHANGED submit
        /\ Moves(s) /\ Decided(s)'
    BY <1>3, TaskStepFrame, TaskStepMoves DEF PlaceInv
  <2>a. PICK id \in Orders : id = job[s].id
    BY <2>1, TaskTypes
  <2>2. job[s] \in Copies /\ id = job[s].id
    BY <2>1, <2>a, TaskTypes
  <2>3. \A t \in Slots : Decided(t)'
    BY <2>1 DEF OnlyTask, PlaceInv, Decided
  <2>4. pc[s] \in LivePC => /\ submit[id] = "ok" /\ Owned(id) /\ ~ Queued(id) /\ ~ AtRest(id)
                            /\ \A t \in Slots \ {s} : pc[t] \in LivePC => job[t].id # id
    BY <2>2 DEF CopiesInv, OneLiveCopy, PlaceInv, Owned
  <2>5. \A p : p # id => (Owned(p)' <=> Owned(p))
    BY <2>1, <2>2 DEF Owned, OnlyTask
  <2>6. pc'[s] \in LivePC => Owned(id)'
    BY <2>1, <2>2 DEF Owned, OnlyTask
  <2>7. pc[s] \in LivePC /\ pc'[s] \notin LivePC => ~ Owned(id)'
    BY <2>1, <2>2, <2>4 DEF Owned, OnlyTask
  <2>8. \A o \in Orders : history[o] \in Outcome
    BY DEF TypeInv, TypeOK
  <2>9. CASE pc[s] \in LivePC /\ pc'[s] \in LivePC /\ UNCHANGED <<channel, history, unsaved>>
    <3>1. \A p : (Queued(p)' <=> Queued(p)) /\ (Owned(p)' <=> Owned(p))
      BY <2>4, <2>5, <2>6, <2>9 DEF Queued
    <3> QED
      BY <2>1, <2>3, <2>9, <3>1 DEF PlaceInv, NoOrderVanishes, AtRest
  <2>10. CASE /\ pc[s] = "resend" /\ pc'[s] = "drop" /\ channel' = Append(channel, job[s])
              /\ UNCHANGED <<history, unsaved>>
    <3>1. \A p : Queued(p)' <=> Queued(p) \/ p = id
      BY <1>0, <2>2, <2>10, Appended
    <3>2. pc[s] \in LivePC /\ pc'[s] \notin LivePC
      BY <2>10 DEF LivePC, ExecPC
    <3> QED
      BY <2>1, <2>3, <2>4, <2>5, <2>7, <2>10, <3>1, <3>2 DEF PlaceInv, NoOrderVanishes, AtRest
  <2>11. CASE /\ pc[s] = "drop" /\ pc'[s] = "idle" /\ UNCHANGED <<channel, history, unsaved>>
    <3>1. pc[s] \notin LivePC /\ pc'[s] \notin LivePC
      BY <2>11 DEF LivePC, ExecPC
    <3>2. \A p : (Queued(p)' <=> Queued(p)) /\ (Owned(p)' <=> Owned(p))
      BY <2>1, <2>11, <3>1 DEF Queued, Owned, OnlyTask
    <3> QED
      BY <2>1, <2>3, <2>11, <3>2 DEF PlaceInv, NoOrderVanishes, AtRest
  <2>12. CASE /\ pc[s] = "persist" /\ pc'[s] = "idle" /\ unsaved' = unsaved \cup {job[s].id}
              /\ UNCHANGED <<channel, history>>
    <3>1. pc[s] \in LivePC /\ pc'[s] \notin LivePC /\ unsaved' = unsaved \cup {id}
      BY <2>2, <2>12 DEF LivePC, ExecPC
    <3>2. \A p : Queued(p)' <=> Queued(p)
      BY <2>12 DEF Queued
    <3> QED
      BY <2>1, <2>3, <2>4, <2>5, <2>7, <2>12, <3>1, <3>2 DEF PlaceInv, NoOrderVanishes, AtRest
  <2>13. CASE /\ pc[s] = "finish" /\ pc'[s] = "idle"
              /\ history' = [history EXCEPT ![job[s].id] = outcome[s]]
              /\ UNCHANGED <<channel, unsaved>>
    <3>1. pc[s] \in LivePC /\ pc'[s] \notin LivePC
      BY <2>13 DEF LivePC, ExecPC
    <3>2. outcome[s] # "none"
      BY <2>13 DEF PlaceInv, Decided
    <3>3. history'[id] = outcome[s] /\ \A p \in Orders : p # id => history'[p] = history[p]
      BY <2>2, <2>13 DEF TypeInv, TypeOK
    <3>4. \A p : Queued(p)' <=> Queued(p)
      BY <2>13 DEF Queued
    <3> QED
      BY <2>1, <2>2, <2>3, <2>4, <2>5, <2>7, <2>13, <3>1, <3>2, <3>3, <3>4
      DEF PlaceInv, NoOrderVanishes, AtRest
  <2> QED
    BY <2>1, <2>9, <2>10, <2>11, <2>12, <2>13 DEF Moves
<1>4. CASE Crash
  <2>1. /\ \A o \in Orders : history'[o] = "none" /\ submit'[o] # "ok"
        /\ \A o \in Orders : submit[o] \in {"ok", "lost"} => submit'[o] = "lost"
        /\ \A s \in Slots : pc'[s] = "idle"
        /\ UNCHANGED unsaved /\ unsaved \in SUBSET Orders
    BY <1>4 DEF Crash, TypeInv, TypeOK
  <2> QED
    BY <2>1 DEF PlaceInv, NoOrderVanishes, Decided, AtRest
<1>5. CASE UNCHANGED vars
  BY <1>5 DEF vars, callers, queues, tasks, PlaceInv, NoOrderVanishes, Decided, AtRest, Queued,
     Owned
<1> QED
  BY <1>1, <1>2, <1>3, <1>4, <1>5 DEF Next

\* A submission that returned an id is not forgotten while the process lives,
\* whatever retries, permits and cancellations do.
THEOREM AcceptedHasPlace == Spec => []NoOrderVanishes
<1>1. Spec => [](TypeInv /\ CopiesInv /\ PlaceInv)
  BY InitType, StepType, InitCopies, StepCopies, InitPlaces, StepPlaces, PTL DEF Spec
<1>2. PlaceInv => NoOrderVanishes
  BY DEF PlaceInv
<1> QED
  BY <1>1, <1>2, PTL

-----------------------------------------------------------------------------
(* The history and the orders table *)

\* Strengthening: the row has been written before the order enters the history.
RowInv ==
    /\ HistoryMatchesDb
    /\ \A s \in Slots :
         pc[s] = "finish" /\ cancel[job[s].id] = "no" => db[job[s].id] = outcome[s]

\* At the start there are no rows.
LEMMA InitRows == Init => RowInv
  BY DEF Init, RowInv, HistoryMatchesDb

\* What a step of the task in s does to the row of its order and to the history.
LEMMA TaskStepRows ==
  ASSUME TypeInv, NEW s \in Slots, Decided(s), TaskStep(s)
  PROVE  \/ pc'[s] # "finish" /\ UNCHANGED <<db, history>>
         \/ /\ pc[s] = "persist"
            /\ UNCHANGED <<outcome, history>>
            /\ db' = [db EXCEPT ![job[s].id] = outcome[s]]
         \/ /\ pc[s] = "persist" /\ pc'[s] = "idle"
            /\ UNCHANGED history
            /\ db' = [db EXCEPT ![job[s].id] = outcome[s]]
         \/ /\ pc[s] = "finish" /\ pc'[s] = "idle"
            /\ UNCHANGED db
            /\ history' = [history EXCEPT ![job[s].id] = outcome[s]]
<1>1. CASE Persist(s)
  BY <1>1, EndTaskOnlyTask DEF Persist
<1>2. CASE Finish(s)
  BY <1>2, EndTaskOnlyTask DEF Finish
<1>3. CASE Start(s) \/ Gate(s) \/ Execute(s) \/ Resend(s) \/ DropActive(s)
  <2>1. UNCHANGED <<db, history>>
    BY <1>3 DEF Start, Gate, GateAllow, GateDeny, Execute, Simulate, SendBundle, BundleStatus,
       BuildError, Direct, Confirm, Timeout, ExecFrame, Resend, DropActive, tables
  <2>2. pc'[s] # "finish"
    <3>1. "Failed" \in Outcome /\ "Executed" \in Outcome
      BY DEF Outcome
    <3>2. \A label \in LivePC \cup {"drop"} : label \in TaskPC
      BY DEF TaskPC
    <3>3. ASSUME NEW retriable \in BOOLEAN, ExecutionError(s, retriable) PROVE pc'[s] # "finish"
      BY <3>3, TaskStepFrame, ExecutionErrorOnlyTask
    <3>4. CASE Start(s) \/ Gate(s) \/ Resend(s) \/ DropActive(s)
      BY <3>1, <3>2, <3>4, GotoOnlyTask, ConcludeOnlyTask, EndTaskOnlyTask
      DEF Start, Gate, GateAllow, GateDeny, Resend, DropActive, LivePC, ExecPC
    <3>a. ASSUME NEW label \in ExecPC, Goto(s, label), UNCHANGED <<job, outcome>>
          PROVE  pc'[s] # "finish"
      BY <3>2, <3>a, GotoOnlyTask DEF LivePC, ExecPC
    <3>5. CASE Simulate(s) \/ BuildError(s) \/ Timeout(s) \/ SendBundle(s)
      <4>1. CASE SendBundle(s)
        BY <3>a, <4>1 DEF SendBundle, ExecPC
      <4>2. CASE Simulate(s) \/ BuildError(s) \/ Timeout(s)
        BY <3>a, <3>3, <4>2 DEF Simulate, BuildError, Timeout, ExecPC
      <4> QED
        BY <3>5, <4>1, <4>2
    <3>6. CASE BundleStatus(s) \/ Direct(s) \/ Confirm(s)
      BY <3>1, <3>2, <3>3, <3>6, GotoOnlyTask, ConcludeOnlyTask
      DEF BundleStatus, Direct, Confirm, LivePC, ExecPC
    <3> QED
      BY <1>3, <3>4, <3>5, <3>6 DEF Execute
  <2> QED
    BY <2>1, <2>2
<1> QED
  BY <1>1, <1>2, <1>3 DEF TaskStep

\* No step gives the history a result that the orders table does not have.
LEMMA StepRows == TypeInv /\ CopiesInv /\ PlaceInv /\ RowInv /\ [Next]_vars => RowInv'
<1> SUFFICES ASSUME TypeInv, CopiesInv, PlaceInv, RowInv, [Next]_vars PROVE RowInv'
  OBVIOUS
<1>0. \A s \in Slots : pc[s] = "finish" => job[s].id \in Orders /\ submit[job[s].id] = "ok"
  BY TaskTypes DEF CopiesInv, LivePC
<1>1. ASSUME NEW o \in Orders, SubmitStep(o) PROVE RowInv'
  <2>1. /\ UNCHANGED <<history, tasks, cancel>> /\ submit[o] # "ok"
        /\ db' \in {db, [db EXCEPT ![o] = "Pending"]}
    BY <1>1 DEF SubmitStep, SubmitEvaluate, StoreOrder, PushPending, SendOrder, tables
  <2>2. \A p \in Orders : submit[p] = "ok" => db'[p] = db[p]
    BY <2>1 DEF TypeInv, TypeOK
  <2> QED
    BY <1>0, <2>1, <2>2 DEF RowInv, HistoryMatchesDb, PlaceInv, tasks
<1>2. ASSUME NEW o \in Orders, CancelStep(o) PROVE RowInv'
  <2>1. UNCHANGED <<history, tasks>>
    BY <1>2 DEF CancelStep, CancelPending, CancelActive
  <2>2. \A p \in Orders : cancel'[p] = "no" => cancel[p] = "no" /\ db'[p] = db[p]
    BY <1>2 DEF CancelStep, CancelPending, CancelActive, tables, TypeInv, TypeOK
  <2> QED
    BY <1>0, <2>1, <2>2 DEF RowInv, HistoryMatchesDb, tasks
<1>3. ASSUME NEW s \in Slots, Dispatch(s) PROVE RowInv'
  <2>1. /\ UNCHANGED <<history, db, cancel, outcome>> /\ pc'[s] = "start"
        /\ \A t \in Slots \ {s} : pc'[t] = pc[t] /\ job'[t] = job[t]
    BY <1>3 DEF Dispatch, callers, tables, TypeInv, TypeOK
  <2> QED
    BY <2>1 DEF RowInv, HistoryMatchesDb
<1>4. ASSUME NEW s \in Slots, TaskStep(s) PROVE RowInv'
  <2>1. /\ pc[s] # "idle" /\ OnlyTask(s) /\ UNCHANGED cancel
    BY <1>4, TaskStepFrame
  <2>a. PICK id \in Orders : id = job[s].id
    BY <2>1, TaskTypes
  <2>2. pc[s] \in {"persist", "finish"} =>
          /\ history[id] = "none"
          /\ \A t \in Slots \ {s} : pc[t] = "finish" => job[t].id # id
    BY <2>a DEF CopiesInv, OneLiveCopy, PlaceInv, AtRest, Owned, LivePC
  <2>3. CASE pc'[s] # "finish" /\ UNCHANGED <<db, history>>
    BY <2>1, <2>3 DEF RowInv, HistoryMatchesDb, OnlyTask
  <2>4. CASE /\ pc[s] = "persist" /\ UNCHANGED history
             /\ db' = [db EXCEPT ![job[s].id] = outcome[s]]
             /\ pc'[s] = "idle" \/ UNCHANGED outcome
    <3>1. db'[id] = outcome[s] /\ \A p \in Orders : p # id => db'[p] = db[p]
      BY <2>a, <2>4 DEF TypeInv, TypeOK
    <3>2. HistoryMatchesDb'
      BY <2>1, <2>2, <2>4, <3>1 DEF RowInv, HistoryMatchesDb
    <3>3. pc'[s] = "finish" => db'[job'[s].id] = outcome'[s]
      <4>1. pc'[s] = "finish" => job'[s].id = id
        BY <2>1, <2>a DEF OnlyTask, LivePC
      <4> QED
        BY <2>4, <3>1, <4>1
    <3>4. ASSUME NEW t \in Slots \ {s}, pc'[t] = "finish", cancel'[job'[t].id] = "no"
          PROVE  db'[job'[t].id] = outcome'[t]
      <4>1. pc[t] = "finish" /\ job'[t] = job[t] /\ outcome'[t] = outcome[t]
        BY <2>1, <3>4 DEF OnlyTask
      <4> QED
        BY <1>0, <2>1, <2>2, <2>4, <3>1, <3>4, <4>1 DEF RowInv
    <3> QED
      BY <3>2, <3>3, <3>4 DEF RowInv
  <2>5. CASE /\ pc[s] = "finish" /\ pc'[s] = "idle" /\ UNCHANGED db
             /\ history' = [history EXCEPT ![job[s].id] = outcome[s]]
    <3>1. history'[id] = outcome[s] /\ \A p \in Orders : p # id => history'[p] = history[p]
      BY <2>a, <2>5 DEF TypeInv, TypeOK
    <3>2. cancel[id] = "no" => db[id] = outcome[s]
      BY <2>a, <2>5 DEF RowInv
    <3>3. HistoryMatchesDb'
      BY <2>1, <2>5, <3>1, <3>2 DEF RowInv, HistoryMatchesDb
    <3> QED
      BY <2>1, <2>5, <3>3 DEF RowInv, OnlyTask
  <2> QED
    BY <1>4, <2>3, <2>4, <2>5, TaskStepRows DEF PlaceInv
<1>5. CASE Crash
  <2>1. \A s \in Slots : pc'[s] = "idle"
    BY <1>5 DEF Crash
  <2>2. \A o \in Orders : history'[o] = "none"
    BY <1>5 DEF Crash
  <2> QED
    BY <2>1, <2>2 DEF RowInv, HistoryMatchesDb
<1>6. CASE UNCHANGED vars
  BY <1>6 DEF vars, callers, tables, tasks, RowInv, HistoryMatchesDb
<1> QED
  BY <1>1, <1>2, <1>3, <1>4, <1>5, <1>6 DEF Next

\* Memory and table tell the same story of an order that nobody cancelled, however
\* the UPDATE, the lock and the other tasks interleave.
THEOREM HistoryIsInDb == Spec => []HistoryMatchesDb
<1>1. Spec => [](TypeInv /\ CopiesInv /\ PlaceInv /\ RowInv)
  BY InitType, StepType, InitCopies, StepCopies, InitPlaces, StepPlaces, InitRows, StepRows,
     PTL DEF Spec
<1>2. RowInv => HistoryMatchesDb
  BY DEF RowInv
<1> QED
  BY <1>1, <1>2, PTL

-----------------------------------------------------------------------------
(* Exposure *)

\* The orders in execution can be counted, and are within the limit.
ExposureInv == IsFiniteSet(active) /\ ExposureWithinLimit

\* A smaller set of orders in execution stays within the limit.
LEMMA ExecutingShrinks ==
  ASSUME ConstantsAssumption, ExposureInv, IsFiniteSet(active'), Executing' \subseteq Executing
  PROVE  ExposureInv'
<1>1. IsFiniteSet(Executing) /\ IsFiniteSet(Executing')
  <2>1. Executing \subseteq active
    BY DEF Executing
  <2> QED
    BY <2>1, FS_Subset DEF ExposureInv
<1>2. Cardinality(Executing') <= Cardinality(Executing)
  BY <1>1, FS_Subset
<1>3. Cardinality(Executing) \in Nat /\ Cardinality(Executing') \in Nat
  BY <1>1, FS_CardinalityType
<1> QED
  BY <1>2, <1>3 DEF ExposureInv, ExposureWithinLimit, ConstantsAssumption

\* How a step of the task in s bears on the exposure: it enters its order, passes
\* the gate, or adds nothing.
LEMMA TaskStepExposure ==
  ASSUME TypeInv, NEW s \in Slots, TaskStep(s)
  PROVE  \/ pc[s] = "start" /\ pc'[s] \notin ExecPC /\ active' = active \cup {job[s].id}
         \/ GateAllow(s)
         \/ active' \subseteq active /\ (pc'[s] \in ExecPC => pc[s] \in ExecPC)
<1>1. "Failed" \in Outcome /\ "Executed" \in Outcome
  BY DEF Outcome
<1>2. \A label \in LivePC \cup {"drop"} : label \in TaskPC
  BY DEF TaskPC
<1>3. CASE Start(s)
  BY <1>1, <1>2, <1>3, GotoOnlyTask, ConcludeOnlyTask DEF Start, LivePC, ExecPC
<1>4. CASE GateDeny(s)
  BY <1>1, <1>4, ConcludeOnlyTask DEF GateDeny, ExecPC
<1>5. CASE Execute(s)
  BY <1>5 DEF Execute, Simulate, SendBundle, BundleStatus, BuildError, Direct, Confirm, Timeout,
     ExecFrame, ExecPC
<1>6. CASE Resend(s)
  BY <1>2, <1>6, GotoOnlyTask DEF Resend, LivePC, ExecPC
<1>7. CASE DropActive(s) \/ Finish(s)
  BY <1>7, EndTaskOnlyTask DEF DropActive, Finish, ExecPC
<1>8. CASE Persist(s)
  BY <1>2, <1>8, GotoOnlyTask, EndTaskOnlyTask DEF Persist, LivePC, ExecPC
<1> QED
  BY <1>3, <1>4, <1>5, <1>6, <1>7, <1>8 DEF TaskStep, Gate

\* At the start nothing is in execution.
LEMMA InitExposure == Init => ExposureInv
<1> SUFFICES ASSUME Init PROVE ExposureInv
  OBVIOUS
<1>1. active = {} /\ Executing = {}
  BY DEF Init, Executing
<1> QED
  BY <1>1, FS_EmptySet, ConstantsAssumption DEF ExposureInv, ExposureWithinLimit

\* No step takes the orders in execution over the limit.
LEMMA StepExposure == TypeInv /\ CopiesInv /\ ExposureInv /\ [Next]_vars => ExposureInv'
<1> SUFFICES ASSUME TypeInv, CopiesInv, ExposureInv, [Next]_vars PROVE ExposureInv'
  OBVIOUS
<1> USE ConstantsAssumption
<1>0. IsFiniteSet(active)
  BY DEF ExposureInv
<1>1. ASSUME active' \subseteq active,
             \A t \in Slots : pc'[t] \in ExecPC => pc[t] \in ExecPC /\ job'[t].id = job[t].id
      PROVE  ExposureInv'
  <2>1. IsFiniteSet(active')
    BY <1>0, <1>1, FS_Subset
  <2>2. Executing' \subseteq Executing
    BY <1>1 DEF Executing
  <2> QED
    BY <2>1, <2>2, ExecutingShrinks
<1>2. ASSUME NEW o \in Orders, SubmitStep(o) \/ CancelStep(o) PROVE ExposureInv'
  <2>1. UNCHANGED tasks /\ active' \subseteq active
    BY <1>2 DEF SubmitStep, SubmitEvaluate, StoreOrder, PushPending, SendOrder, CancelStep,
       CancelPending, CancelActive
  <2> QED
    BY <1>1, <2>1 DEF tasks
<1>3. ASSUME NEW s \in Slots, Dispatch(s) PROVE ExposureInv'
  <2>1. /\ active' = active /\ pc'[s] = "start"
        /\ \A t \in Slots \ {s} : pc'[t] = pc[t] /\ job'[t] = job[t]
    BY <1>3 DEF Dispatch, TypeInv, TypeOK
  <2> QED
    BY <1>1, <2>1 DEF ExecPC
<1>4. ASSUME NEW s \in Slots, TaskStep(s) PROVE ExposureInv'
  <2>1. pc[s] # "idle" /\ OnlyTask(s)
    BY <1>4, TaskStepFrame
  <2>a. PICK id \in Orders : id = job[s].id
    BY <2>1, TaskTypes
  <2>2. CASE active' \subseteq active /\ (pc'[s] \in ExecPC => pc[s] \in ExecPC)
    BY <1>1, <2>1, <2>2 DEF OnlyTask, LivePC
  <2>3. CASE pc[s] = "start" /\ pc'[s] \notin ExecPC /\ active' = active \cup {job[s].id}
    <3>1. IsFiniteSet(active')
      BY <1>0, <2>3, FS_AddElement
    <3>2. \A t \in Slots \ {s} : pc[t] \in ExecPC => job[t].id # id
      BY <2>a, <2>3 DEF CopiesInv, OneLiveCopy, LivePC
    <3>3. Executing' \subseteq Executing
      BY <2>1, <2>a, <2>3, <3>2 DEF Executing, OnlyTask
    <3> QED
      BY <3>1, <3>3, ExecutingShrinks
  <2>4. CASE GateAllow(s)
    <3>1. active' = active /\ OtherExposure + 1 <= MaxExposure /\ UNCHANGED job
      BY <2>4 DEF GateAllow
    <3>2. CASE id \in active
      <4>1. active # {} /\ Cardinality(active) \in Nat
        BY <1>0, <3>2, FS_CardinalityType
      <4>2. Cardinality(active) <= MaxExposure
        BY <3>1, <4>1 DEF OtherExposure, ConstantsAssumption
      <4>3. Executing' \subseteq active
        BY <3>1 DEF Executing
      <4>4. IsFiniteSet(Executing') /\ Cardinality(Executing') <= Cardinality(active)
        BY <1>0, <4>3, FS_Subset
      <4>5. Cardinality(Executing') \in Nat
        BY <4>4, FS_CardinalityType
      <4>6. Cardinality(Executing') <= MaxExposure
        BY <4>1, <4>2, <4>4, <4>5 DEF ConstantsAssumption
      <4> QED
        BY <1>0, <3>1, <4>6 DEF ExposureInv, ExposureWithinLimit
    <3>3. CASE id \notin active
      <4>1. Executing' \subseteq Executing
        BY <2>1, <2>a, <3>1, <3>3 DEF Executing, OnlyTask
      <4> QED
        BY <1>0, <3>1, <4>1, ExecutingShrinks
    <3> QED
      BY <3>2, <3>3
  <2> QED
    BY <1>4, <2>2, <2>3, <2>4, TaskStepExposure
<1>5. CASE Crash
  <2>1. active' = {} /\ \A t \in Slots : pc'[t] = "idle"
    BY <1>5 DEF Crash
  <2> QED
    BY <1>1, <2>1 DEF ExecPC
<1>6. CASE UNCHANGED vars
  BY <1>1, <1>6 DEF vars, tasks
<1> QED
  BY <1>2, <1>3, <1>4, <1>5, <1>6 DEF Next

\* Tasks that pass the gate together see each other: the orders in execution that
\* active_orders knows of stay within the exposure limit, for every number of
\* permits and orders.
THEOREM ExposureLimited == Spec => []ExposureWithinLimit
<1>1. Spec => [](TypeInv /\ CopiesInv /\ ExposureInv)
  BY InitType, StepType, InitCopies, StepCopies, InitExposure, StepExposure, PTL DEF Spec
<1>2. ExposureInv => ExposureWithinLimit
  BY DEF ExposureInv
<1> QED
  BY <1>1, <1>2, PTL

-----------------------------------------------------------------------------
(* The pipeline implements the life of an order *)

\* What the refinement needs of a state.
FullInv == TypeInv /\ CopiesInv /\ BudgetInv /\ ExecutedInv /\ PlaceInv

\* The parts of it hold together, in every state.
LEMMA FullInvHolds == Spec => []FullInv
<1>1. Init => FullInv
  BY InitType, InitCopies, InitBudget, InitExecuted, InitPlaces DEF FullInv
<1>2. FullInv /\ [Next]_vars => FullInv'
  BY StepType, StepCopies, StepBudget, StepExecuted, StepPlaces DEF FullInv
<1> QED
  BY <1>1, <1>2, PTL DEF Spec

\* The stage of an order whose live copy is at a point of the pipeline.
Stage(label) ==
    IF label \in ExecPC THEN "trying"
    ELSE IF label \in {"persist", "finish"} THEN "settling" ELSE "waiting"

\* What Life says of an order with a task, and of one in the channel.
LEMMA LifeWhere ==
  FullInv =>
    /\ \A s \in Slots : pc[s] \in LivePC =>
         submit[job[s].id] = "ok" /\ Life(job[s].id) = Stage(pc[s])
    /\ \A o \in Orders : Queued(o) => Life(o) = "waiting"
<1> SUFFICES ASSUME FullInv
             PROVE  /\ \A s \in Slots : pc[s] \in LivePC =>
                         submit[job[s].id] = "ok" /\ Life(job[s].id) = Stage(pc[s])
                    /\ \A o \in Orders : Queued(o) => Life(o) = "waiting"
  OBVIOUS
<1>1. CopiesInv /\ PlaceInv
  BY DEF FullInv
<1>2. ASSUME NEW s \in Slots, pc[s] \in LivePC
      PROVE  submit[job[s].id] = "ok" /\ Life(job[s].id) = Stage(pc[s])
  <2>1. pc[s] # "idle"
    BY <1>2 DEF LivePC, ExecPC
  <2>2. PICK o \in Orders : o = job[s].id
    BY <2>1, TaskTypes DEF FullInv
  <2>3. submit[o] = "ok" /\ Owned(o)
    BY <1>1, <1>2, <2>2 DEF CopiesInv, Owned
  <2>4. history[o] = "none" /\ o \notin unsaved
    BY <1>1, <2>3 DEF PlaceInv, AtRest
  <2>5. \A t \in Slots : pc[t] \in LivePC /\ job[t].id = o => t = s
    BY <1>1, <1>2, <2>2 DEF CopiesInv, OneLiveCopy
  <2>6. Trying(o) <=> pc[s] \in ExecPC
    BY <2>2, <2>5 DEF Trying, LivePC
  <2>7. Settling(o) <=> pc[s] \in {"persist", "finish"}
    BY <2>2, <2>5 DEF Settling, LivePC
  <2> QED
    BY <2>2, <2>3, <2>4, <2>6, <2>7 DEF Life, Stage
<1>3. ASSUME NEW o \in Orders, Queued(o) PROVE Life(o) = "waiting"
  <2>1. submit[o] = "ok"
    BY <1>1, <1>3 DEF CopiesInv, Queued
  <2>2. history[o] = "none" /\ o \notin unsaved
    BY <1>1, <1>3, <2>1 DEF PlaceInv, AtRest
  <2>3. ~ Trying(o) /\ ~ Settling(o)
    BY <1>1, <1>3 DEF CopiesInv, OneLiveCopy, Trying, Settling, LivePC
  <2> QED
    BY <2>1, <2>2, <2>3 DEF Life
<1> QED
  BY <1>2, <1>3

\* How the point a task is at can move, and what it sends on the way.
LEMMA TaskStepStage ==
  ASSUME TypeInv, NEW s \in Slots, TaskStep(s), pc[s] \in LivePC, pc'[s] \in LivePC
  PROVE  \/ Stage(pc'[s]) = Stage(pc[s]) /\ UNCHANGED <<allows, sends>>
         \/ /\ pc[s] = "gate" /\ Stage(pc'[s]) = "trying" /\ UNCHANGED sends
            /\ allows' = [allows EXCEPT ![job[s].id] = @ + 1]
         \/ /\ pc[s] \in ExecPC /\ pc'[s] \in ExecPC /\ UNCHANGED allows
            /\ sends' = [sends EXCEPT ![job[s].id] = @ + 1]
         \/ pc[s] \in ExecPC /\ pc'[s] = "resend" /\ UNCHANGED <<allows, sends>>
         \/ Stage(pc[s]) # "settling" /\ pc'[s] = "persist" /\ UNCHANGED <<allows, sends>>
<1>1. "Failed" \in Outcome /\ "Executed" \in Outcome
  BY DEF Outcome
<1>2. \A label \in LivePC \cup {"drop"} : label \in TaskPC
  BY DEF TaskPC
<1>3. pc[s] # "idle"
  BY DEF LivePC, ExecPC
<1>4. ASSUME NEW label \in LivePC, Goto(s, label), UNCHANGED <<job, outcome>>
      PROVE  pc'[s] = label
  BY <1>2, <1>4, GotoOnlyTask
<1>5. CASE Start(s)
  BY <1>1, <1>4, <1>5, ConcludeOnlyTask DEF Start, Stage, LivePC, ExecPC, approved
<1>6. CASE GateAllow(s)
  BY <1>4, <1>6 DEF GateAllow, Stage, LivePC, ExecPC
<1>7. CASE GateDeny(s)
  BY <1>1, <1>7, ConcludeOnlyTask DEF GateDeny, Stage, ExecPC, approved
<1>8. CASE Execute(s)
  <2>1. UNCHANGED allows /\ pc[s] \in ExecPC
    BY <1>8 DEF Execute, Simulate, SendBundle, BundleStatus, BuildError, Direct, Confirm,
       Timeout, ExecFrame, ExecPC
  <2>2. ASSUME NEW retriable \in BOOLEAN, ExecutionError(s, retriable)
        PROVE  pc'[s] \in {"resend", "persist"}
    BY <1>3, <2>2, ExecutionErrorOnlyTask
  <2>3. \/ Submitted(s) /\ pc'[s] \in ExecPC
        \/ UNCHANGED sends /\ pc'[s] \in ExecPC \cup {"resend", "persist"}
    <3>1. CASE Simulate(s) \/ BuildError(s) \/ Timeout(s)
      BY <1>4, <2>2, <3>1 DEF Simulate, BuildError, Timeout, LivePC, ExecPC
    <3>2. CASE SendBundle(s)
      BY <1>4, <3>2 DEF SendBundle, LivePC, ExecPC
    <3>3. CASE BundleStatus(s) \/ Confirm(s)
      BY <1>1, <1>4, <2>2, <3>3, ConcludeOnlyTask DEF BundleStatus, Confirm, LivePC, ExecPC
    <3>4. CASE Direct(s)
      BY <1>4, <2>2, <3>4 DEF Direct, LivePC, ExecPC
    <3> QED
      BY <1>8, <3>1, <3>2, <3>3, <3>4 DEF Execute
  <2> QED
    BY <2>1, <2>3 DEF Submitted, Stage
<1>9. CASE Persist(s)
  <2>1. pc[s] = "persist" /\ UNCHANGED <<allows, sends>>
    BY <1>9 DEF Persist, approved
  <2>2. pc'[s] = "finish"
    BY <1>4, <1>9, EndTaskOnlyTask DEF Persist, LivePC, ExecPC
  <2> QED
    BY <2>1, <2>2 DEF Stage, ExecPC
<1>10. CASE Resend(s) \/ DropActive(s) \/ Finish(s)
  BY <1>2, <1>10, GotoOnlyTask, EndTaskOnlyTask DEF Resend, DropActive, Finish, LivePC, ExecPC
<1> QED
  BY <1>5, <1>6, <1>7, <1>8, <1>9, <1>10 DEF TaskStep, Gate

\* The initial state of the pipeline is one of OrderLifecycle.
LEMMA InitLife == Init => Lifecycle!LifeInit
<1> SUFFICES ASSUME Init PROVE Lifecycle!LifeInit
  OBVIOUS
<1>1. \A o \in Orders : Life(o) = "new"
  BY DEF Init, Life
<1> QED
  BY <1>1 DEF Init, Lifecycle!LifeInit, lives

\* Every step of the pipeline is a step of the life of one order, of all at a
\* crash, or of none.
LEMMA StepLife ==
  FullInv /\ FullInv' /\ [Next]_vars => [Lifecycle!LifeNext]_(Lifecycle!lifeVars)
<1> SUFFICES ASSUME FullInv, FullInv', [Next]_vars
             PROVE  Lifecycle!LifeNext \/ UNCHANGED Lifecycle!lifeVars
  OBVIOUS
<1>a. TypeInv /\ CopiesInv /\ BudgetInv /\ ExecutedInv /\ PlaceInv
  BY DEF FullInv
<1>b. TypeInv' /\ BudgetInv'
  BY DEF FullInv
<1>c. /\ \A s \in Slots : pc[s] \in LivePC =>
           submit[job[s].id] = "ok" /\ Life(job[s].id) = Stage(pc[s])
      /\ \A o \in Orders : Queued(o) => Life(o) = "waiting"
  BY LifeWhere
<1>d. (/\ \A s \in Slots : pc[s] \in LivePC =>
            submit[job[s].id] = "ok" /\ Life(job[s].id) = Stage(pc[s])
       /\ \A o \in Orders : Queued(o) => Life(o) = "waiting")'
  <2>1. (FullInv => /\ \A s \in Slots : pc[s] \in LivePC =>
                         submit[job[s].id] = "ok" /\ Life(job[s].id) = Stage(pc[s])
                    /\ \A o \in Orders : Queued(o) => Life(o) = "waiting")'
    BY LifeWhere, PTL
  <2> QED
    BY <2>1
<1>1. ASSUME \A p \in Orders : Life(p)' = Life(p), UNCHANGED <<allows, sends>>
      PROVE  UNCHANGED Lifecycle!lifeVars
  BY <1>1 DEF Lifecycle!lifeVars, lives
<1>2. ASSUME NEW o \in Orders, NEW stage, Life(o)' = stage,
             \A p \in Orders : p # o => Life(p)' = Life(p)
      PROVE  lives' = [lives EXCEPT ![o] = stage] /\ lives[o] = Life(o)
  BY <1>2 DEF lives
<1>3. ASSUME NEW o \in Orders, SubmitStep(o) \/ CancelStep(o)
      PROVE  Lifecycle!LifeNext \/ UNCHANGED Lifecycle!lifeVars
  <2>1. UNCHANGED <<history, unsaved, tasks, allows, sends>>
    BY <1>3 DEF SubmitStep, SubmitEvaluate, StoreOrder, PushPending, SendOrder, CancelStep,
       CancelPending, CancelActive, approved
  <2>2. CASE SendOrder(o)
    <3>1. /\ submit[o] = "send" /\ submit' = [submit EXCEPT ![o] = "ok"]
          /\ channel' = Append(channel, [id |-> o, retry |-> 0])
      BY <2>2 DEF SendOrder
    <3>2. Queued(o)'
      <4>1. [id |-> o, retry |-> 0] \in Copies /\ channel \in Seq(Copies)
        BY <1>a, ConstantsAssumption DEF Copies, TypeInv, TypeOK
      <4> QED
        BY <3>1, <4>1, Appended
    <3>3. Life(o)' = "waiting" /\ Life(o) = "new"
      BY <1>d, <3>1, <3>2 DEF Life
    <3>4. \A p \in Orders : p # o => submit'[p] = submit[p]
      BY <1>a, <3>1 DEF TypeInv, TypeOK
    <3>5. \A p \in Orders : p # o => Life(p)' = Life(p)
      BY <2>1, <3>4 DEF Life, Trying, Settling, tasks
    <3>6. Lifecycle!Accept(o)
      BY <1>2, <2>1, <3>3, <3>5 DEF Lifecycle!Accept, Lifecycle!Becomes
    <3> QED
      BY <3>6 DEF Lifecycle!LifeNext
  <2>3. CASE ~ SendOrder(o)
    <3>1. \/ UNCHANGED submit
          \/ /\ submit[o] \notin {"ok", "lost"}
             /\ \E step \in {"store", "push", "send", "refused"} :
                  submit' = [submit EXCEPT ![o] = step]
      BY <1>3, <2>3 DEF SubmitStep, SubmitEvaluate, StoreOrder, PushPending, CancelStep,
         CancelPending, CancelActive
    <3>2. \A p \in Orders : /\ submit'[p] = "ok" <=> submit[p] = "ok"
                            /\ submit'[p] = "lost" <=> submit[p] = "lost"
      BY <1>a, <3>1 DEF TypeInv, TypeOK
    <3>3. \A p \in Orders : Life(p)' = Life(p)
      BY <2>1, <3>2 DEF Life, Trying, Settling, tasks
    <3> QED
      BY <1>1, <2>1, <3>3
  <2> QED
    BY <2>2, <2>3
<1>4. ASSUME NEW s \in Slots, Dispatch(s)
      PROVE  Lifecycle!LifeNext \/ UNCHANGED Lifecycle!lifeVars
  <2>1. /\ pc[s] = "idle" /\ pc'[s] = "start"
        /\ \A t \in Slots \ {s} : pc'[t] = pc[t] /\ job'[t] = job[t]
        /\ UNCHANGED <<submit, history, unsaved, allows, sends>>
    BY <1>a, <1>4 DEF Dispatch, callers, approved, TypeInv, TypeOK
  <2>2. \A p \in Orders : (Trying(p)' <=> Trying(p)) /\ (Settling(p)' <=> Settling(p))
    BY <2>1 DEF Trying, Settling, ExecPC
  <2>3. \A p \in Orders : Life(p)' = Life(p)
    BY <2>1, <2>2 DEF Life
  <2> QED
    BY <1>1, <2>1, <2>3
<1>5. ASSUME NEW s \in Slots, TaskStep(s)
      PROVE  Lifecycle!LifeNext \/ UNCHANGED Lifecycle!lifeVars
  <2>1. /\ pc[s] # "idle" /\ OnlyTask(s) /\ UNCHANGED submit
        /\ Moves(s) /\ CountersMove(s)
    BY <1>a, <1>5, TaskStepFrame, TaskStepMoves, TaskStepCounters DEF PlaceInv
  <2>a. PICK id \in Orders : id = job[s].id
    BY <1>a, <2>1, TaskTypes
  <2>2. /\ job[s] \in Copies /\ job[s].retry \in 0 .. MaxRetries
        /\ allows[id] \in Nat /\ sends[id] \in Nat /\ history[id] \in Outcome
    BY <1>a, <2>1, TaskTypes DEF TypeInv, TypeOK
  <2>3. \A p \in Orders : p # id => (Trying(p)' <=> Trying(p)) /\ (Settling(p)' <=> Settling(p))
    <3>1. pc'[s] \in ExecPC \cup {"persist", "finish"} => job'[s].id = id
      BY <2>1, <2>a DEF OnlyTask, LivePC
    <3>2. \A t \in Slots : t # s => pc'[t] = pc[t] /\ job'[t] = job[t]
      BY <2>1 DEF OnlyTask
    <3> QED
      BY <2>a, <3>1, <3>2 DEF Trying, Settling
  <2>4. ASSUME UNCHANGED history \/ history' = [history EXCEPT ![id] = outcome[s]],
               UNCHANGED unsaved \/ unsaved' = unsaved \cup {id}
        PROVE  \A p \in Orders : p # id => Life(p)' = Life(p)
    <3>1. \A p \in Orders : p # id => history'[p] = history[p] /\ (p \in unsaved' <=> p \in unsaved)
      BY <1>a, <2>4 DEF TypeInv, TypeOK
    <3> QED
      BY <2>1, <2>3, <3>1 DEF Life
  <2>5. CASE pc[s] \in LivePC /\ pc'[s] \in LivePC /\ UNCHANGED <<channel, history, unsaved>>
    <3>1. Life(id) = Stage(pc[s]) /\ Life(id)' = Stage(pc'[s]) /\ job'[s].id = id
      BY <1>c, <1>d, <2>1, <2>a, <2>5 DEF OnlyTask
    <3>2. \A p \in Orders : p # id => Life(p)' = Life(p)
      BY <2>4, <2>5
    <3>3. lives' = [lives EXCEPT ![id] = Stage(pc'[s])] /\ lives[id] = Stage(pc[s])
      BY <1>2, <3>1, <3>2
    <3>4. CASE Stage(pc'[s]) = Stage(pc[s]) /\ UNCHANGED <<allows, sends>>
      BY <1>1, <3>1, <3>2, <3>4
    <3>5. CASE /\ pc[s] = "gate" /\ Stage(pc'[s]) = "trying" /\ UNCHANGED sends
               /\ allows' = [allows EXCEPT ![job[s].id] = @ + 1]
      <4>1. allows[id] < MaxRetries + 1
        <5>1. allows[id] <= job[s].retry
          BY <1>a, <2>a, <3>5 DEF BudgetInv
        <5> QED
          BY <2>2, <5>1, ConstantsAssumption DEF ConstantsAssumption
      <4>2. lives[id] = "waiting"
        BY <3>3, <3>5 DEF Stage, ExecPC
      <4>3. Lifecycle!BeginAttempt(id)
        BY <2>a, <3>3, <3>5, <4>1, <4>2 DEF Lifecycle!BeginAttempt, Lifecycle!Becomes
      <4> QED
        BY <4>3 DEF Lifecycle!LifeNext
    <3>6. CASE /\ pc[s] \in ExecPC /\ pc'[s] \in ExecPC /\ UNCHANGED allows
               /\ sends' = [sends EXCEPT ![job[s].id] = @ + 1]
      <4>1. sends[id] < 3 * allows[id]
        <5>1. sends'[id] = sends[id] + 1 /\ allows'[id] = allows[id]
          BY <1>a, <2>a, <3>6 DEF TypeInv, TypeOK
        <5>2. sends'[id] <= 3 * allows'[id]
          BY <1>b DEF BudgetInv, SubmissionsWithinApprovals
        <5> QED
          BY <2>2, <5>1, <5>2
      <4>2. lives' = lives /\ lives[id] = "trying"
        BY <3>1, <3>2, <3>3, <3>6 DEF Stage, lives
      <4>3. Lifecycle!Send(id)
        BY <2>a, <3>6, <4>1, <4>2 DEF Lifecycle!Send
      <4> QED
        BY <4>3 DEF Lifecycle!LifeNext
    <3>7. CASE pc[s] \in ExecPC /\ pc'[s] = "resend" /\ UNCHANGED <<allows, sends>>
      <4>1. allows[id] < MaxRetries + 1
        <5>1. allows'[id] <= job'[s].retry
          BY <1>b, <3>1, <3>7 DEF BudgetInv
        <5>2. job'[s].retry \in 0 .. MaxRetries
          <6>1. (pc[s] # "idle" => job[s] \in Copies)'
            BY <1>b DEF TypeInv, BusyTasksOwnOrders
          <6> QED
            BY <3>7, <6>1 DEF Copies
        <5> QED
          BY <2>2, <3>7, <5>1, <5>2, ConstantsAssumption DEF ConstantsAssumption
      <4>2. lives[id] = "trying" /\ Stage(pc'[s]) = "waiting"
        BY <3>3, <3>7 DEF Stage, ExecPC
      <4>3. Lifecycle!Retry(id)
        BY <3>3, <3>7, <4>1, <4>2 DEF Lifecycle!Retry, Lifecycle!Becomes
      <4> QED
        BY <4>3 DEF Lifecycle!LifeNext
    <3>8. CASE Stage(pc[s]) # "settling" /\ pc'[s] = "persist" /\ UNCHANGED <<allows, sends>>
      <4>1. Stage(pc[s]) \in {"waiting", "trying"} /\ Stage(pc'[s]) = "settling"
        BY <3>8 DEF Stage, ExecPC
      <4>2. Lifecycle!Settle(id)
        BY <3>3, <3>8, <4>1 DEF Lifecycle!Settle, Lifecycle!Becomes
      <4> QED
        BY <4>2 DEF Lifecycle!LifeNext
    <3> QED
      BY <1>a, <1>5, <2>5, <3>4, <3>5, <3>6, <3>7, <3>8, TaskStepStage
  <2>6. ASSUME pc[s] \in {"resend", "drop"}, pc'[s] \notin ExecPC \cup {"persist", "finish"},
               UNCHANGED <<history, unsaved>>
        PROVE  UNCHANGED Lifecycle!lifeVars
    <3>1. (Trying(id)' <=> Trying(id)) /\ (Settling(id)' <=> Settling(id))
      BY <2>1, <2>6 DEF Trying, Settling, OnlyTask, ExecPC
    <3>2. Life(id)' = Life(id)
      BY <2>1, <2>6, <3>1 DEF Life
    <3>3. UNCHANGED <<allows, sends>>
      BY <2>1, <2>6 DEF CountersMove
    <3> QED
      BY <1>1, <2>4, <2>6, <3>2, <3>3
  <2>7. ASSUME NEW result \in {"Executed", "Failed", "unsaved"},
               pc[s] \in {"persist", "finish"}, Life(id)' = result,
               result = "Executed" => sends[id] > 0,
               \A p \in Orders : p # id => Life(p)' = Life(p)
        PROVE  Lifecycle!LifeNext
    <3>1. lives' = [lives EXCEPT ![id] = result] /\ lives[id] = "settling"
      <4>1. Life(id) = "settling"
        BY <1>c, <2>a, <2>7 DEF Stage, LivePC, ExecPC
      <4> QED
        BY <1>2, <2>7, <4>1
    <3>2. UNCHANGED <<allows, sends>>
      BY <2>1, <2>7 DEF CountersMove
    <3>3. Lifecycle!Report(id, result)
      BY <2>7, <3>1, <3>2 DEF Lifecycle!Report, Lifecycle!Becomes
    <3> QED
      BY <3>3 DEF Lifecycle!LifeNext, Lifecycle!Results
  <2>8. CASE /\ pc[s] = "persist" /\ pc'[s] = "idle" /\ unsaved' = unsaved \cup {job[s].id}
             /\ UNCHANGED <<channel, history>>
    <3>1. submit[id] = "ok" /\ history[id] = "none"
      BY <1>a, <2>a, <2>8 DEF CopiesInv, PlaceInv, AtRest, Owned, LivePC
    <3>2. Life(id)' = "unsaved"
      BY <2>1, <2>a, <2>8, <3>1 DEF Life
    <3> QED
      BY <2>a, <2>4, <2>7, <2>8, <3>2
  <2>9. CASE /\ pc[s] = "finish" /\ pc'[s] = "idle"
             /\ history' = [history EXCEPT ![job[s].id] = outcome[s]]
             /\ UNCHANGED <<channel, unsaved>>
    <3>1. /\ outcome[s] \in {"Executed", "Failed"}
          /\ outcome[s] = "Executed" => sends[id] > 0
      BY <1>a, <2>a, <2>9 DEF PlaceInv, Decided, ExecutedInv, HasSent
    <3>2. submit[id] = "ok" /\ history'[id] = outcome[s]
      BY <1>a, <1>c, <2>a, <2>9 DEF TypeInv, TypeOK, LivePC
    <3>3. Life(id)' = outcome[s]
      BY <2>1, <3>1, <3>2 DEF Life
    <3> QED
      BY <2>a, <2>4, <2>7, <2>9, <3>1, <3>3
  <2> QED
    BY <2>1, <2>5, <2>6, <2>8, <2>9 DEF Moves, ExecPC
<1>6. CASE Crash
  <2>1. \A p \in Orders :
          /\ Life(p)' \in {"new", "lost"}
          /\ Life(p)' = "new" => Life(p) = "new"
    <3>1. \A p \in Orders : /\ submit'[p] # "ok"
                            /\ submit[p] \in {"ok", "lost"} => submit'[p] = "lost"
      BY <1>6 DEF Crash
    <3> QED
      BY <3>1 DEF Life
  <2>2. UNCHANGED <<allows, sends>>
    BY <1>6 DEF Crash, approved
  <2>3. Lifecycle!Lose
    BY <2>1, <2>2 DEF Lifecycle!Lose, lives
  <2> QED
    BY <2>3 DEF Lifecycle!LifeNext
<1>7. CASE UNCHANGED vars
  <2>1. \A p \in Orders : Life(p)' = Life(p)
    BY <1>7 DEF vars, callers, tasks, Life, Trying, Settling
  <2> QED
    BY <1>1, <1>7, <2>1 DEF vars, approved
<1> QED
  BY <1>3, <1>4, <1>5, <1>6, <1>7 DEF Next

\* The pipeline implements the abstract life of an order, for every number of
\* orders, permits, retries and crashes.
THEOREM LifecycleImplemented == Spec => ImplementsLifecycle
<1> QED
  BY FullInvHolds, InitLife, StepLife, PTL DEF Spec, ImplementsLifecycle, Lifecycle!LifeSpec

\* The order history of the process never changes its mind: no second copy, late task or
\* cancellation gives an order another result, and no order of a process that died is
\* taken up again.
THEOREM ResultsAreFinal == Spec => Lifecycle!ResultsStay
<1> DEFINE Stays == \A o \in Orders :
             lives[o] \in Lifecycle!Results \cup {"lost"} => lives'[o] \in {lives[o], "lost"}
<1>1. [Lifecycle!LifeNext]_(Lifecycle!lifeVars) => [Stays]_(Lifecycle!lifeVars)
  <2> SUFFICES ASSUME Lifecycle!LifeNext, NEW o \in Orders, lives[o] \in Lifecycle!Results \cup {"lost"}
               PROVE  lives'[o] \in {lives[o], "lost"}
    OBVIOUS
  <2>1. \A p, stage : Lifecycle!Becomes(p, stage) => lives'[o] = IF o = p THEN stage ELSE lives[o]
    BY DEF Lifecycle!Becomes, lives
  <2>2. ASSUME NEW p \in Orders,
               \/ Lifecycle!Accept(p) \/ Lifecycle!BeginAttempt(p) \/ Lifecycle!Retry(p) \/ Lifecycle!Settle(p)
               \/ \E result \in Lifecycle!Results : Lifecycle!Report(p, result)
        PROVE  lives'[o] = lives[o]
    <3>1. lives[p] \in {"new", "waiting", "trying", "settling"} /\ \E stage : Lifecycle!Becomes(p, stage)
      BY <2>2 DEF Lifecycle!Accept, Lifecycle!BeginAttempt, Lifecycle!Retry, Lifecycle!Settle, Lifecycle!Report
    <3>2. o # p
      BY <3>1 DEF Lifecycle!Results
    <3> QED BY <2>1, <3>1, <3>2
  <2>3. ASSUME NEW p \in Orders, Lifecycle!Send(p) PROVE lives'[o] = lives[o]
    BY <2>3 DEF Lifecycle!Send
  <2>4. CASE Lifecycle!Lose
    BY <2>4 DEF Lifecycle!Lose, Lifecycle!Results
  <2> QED BY <2>2, <2>3, <2>4 DEF Lifecycle!LifeNext
<1>2. Lifecycle!LifeSpec => [][Lifecycle!LifeNext]_(Lifecycle!lifeVars)
  BY DEF Lifecycle!LifeSpec
<1> QED BY <1>1, <1>2, LifecycleImplemented, PTL DEF ImplementsLifecycle, Lifecycle!ResultsStay
=============================================================================

-------------------------- MODULE IdempotencyProofs --------------------------
\* Type correctness of the two tiers of SubmitOrder, and that they implement
\* the lease of AtMostOnce.
EXTENDS Idempotency, TLAPS

\* Where a call holds the reservation of its key.
Owning == {"submit", "remember", "commit", "forget", "release"}

\* Where a call has not got its order, and where it has.
Without == {"new", "check", "reserve", "learn", "submit", "forget", "release", "undo"}
With    == {"remember", "commit"}

\* The call has made an order.
HasOrder(c) == \E o \in orders : o.by = c

\* A call in progress is within its deadline.
TimeInv ==
    \A c \in Keyed : InProgress(c) => started[c] <= now /\ now - started[c] <= Deadline

\* Between its reservation and its end the row is the call's own.
OwnerInv ==
    \A c \in Keyed :
        /\ pc[c] \in Owning => row.by = c /\ started[c] <= row.at
        /\ pc[c] \in Without => ~ HasOrder(c)
        /\ pc[c] \in With => HasOrder(c)

\* A statement that is still to be executed comes from a call that has ended,
\* or is about to, and finds the row the call left.
LateInv ==
    /\ \A s, t \in late : s.by = t.by => s = t
    /\ \A s \in late :
         /\ s.by \in Keyed
         /\ pc[s.by] \in {"undo", "done"}
         /\ s.at <= now
         /\ now - s.at <= Deadline
         /\ started[s.by] <= s.at
         /\ s.at - started[s.by] <= Deadline
         /\ s.verb # "update" => ~ HasOrder(s.by)
         /\ s.verb = "update" => HasOrder(s.by)
         /\ s.verb # "insert" => row.by = s.by /\ started[s.by] <= row.at

\* Whatever names an order names one that was accepted, and a row that names
\* one names that of its owner.
NamesInv ==
    /\ \A c \in Keyed : told[c] # NoCall => HasOrder(told[c])
    /\ mem.order # NoCall => HasOrder(mem.order)
    /\ row.order # NoCall => row.order = row.by /\ HasOrder(row.order)
    /\ row.by = NoCall => row = Absent
    /\ row.by \in Keyed \cup {NoCall}

\* A call without a key has no part in this.
KeylessInv == \A c \in Keyless : pc[c] \in {"new", "submit", "done"}

\* On the way to its own order a call has not been told one.
ToldInv ==
    \A c \in Keyed :
        pc[c] \in {"new", "check", "reserve", "submit", "forget", "release"} => told[c] = NoCall

\* The inductive invariant.
IInv == TypeOK /\ TimeInv /\ OwnerInv /\ LateInv /\ NamesInv /\ KeylessInv /\ ToldInv
-----------------------------------------------------------------------------
(* Types *)

\* The absent row, as an entry.
LEMMA AbsentIsEntry == Absent \in Entries /\ Absent.at = 0 /\ Absent.order = NoCall /\ Absent.by = NoCall
BY DEF Absent, Entries, Ids

\* What a call waits for.
LEMMA WaitingIs ==
    ASSUME NEW c \in Calls, NEW s \in Waiting(c)
    PROVE  /\ s.by = c /\ s.at = now
           /\ \/ pc[c] = "reserve" /\ s.verb = "insert"
              \/ pc[c] = "commit" /\ s.verb = "update"
              \/ pc[c] = "release" /\ s.verb = "delete"
           /\ s = [verb |-> s.verb, by |-> c, at |-> now]
<1>1. CASE pc[c] = "reserve"
  BY <1>1 DEF Waiting
<1>2. CASE pc[c] = "commit"
  BY <1>2 DEF Waiting
<1>3. CASE pc[c] = "release"
  BY <1>3 DEF Waiting
<1>4. CASE pc[c] \notin {"reserve", "commit", "release"}
  BY <1>4 DEF Waiting
<1> QED
  BY <1>1, <1>2, <1>3, <1>4

\* The statements of a call that the database may still run are statements.
LEMMA WaitingType ==
    ASSUME now \in Nat, NEW c \in Calls
    PROVE  Waiting(c) \subseteq Statements
BY WaitingIs DEF Statements

\* The service starts with no row, no call and an empty cache.
LEMMA InitType == Init => TypeOK
<1> SUFFICES ASSUME Init PROVE TypeOK
  OBVIOUS
<1> USE DEF Init
<1>1. now \in Nat /\ crashes \in 0 .. MaxCrashes
  BY ConstantsAssumption
<1>2. pc \in [Calls -> CallPC] /\ started \in [Calls -> Nat]
  BY DEF CallPC
<1>3. answer \in [Calls -> Answers] /\ told \in [Calls -> Ids]
  BY DEF Answers, Ids
<1>4. mem \in Entries /\ row \in Entries /\ mem.at <= now /\ row.at <= now
  BY AbsentIsEntry
<1>5. failed \in BOOLEAN
  OBVIOUS
<1>6. /\ late \in SUBSET Statements
      /\ orders \in SUBSET [by : Calls, at : Nat]
      /\ unfounded \in SUBSET Calls
  OBVIOUS
<1> QED
  BY <1>1, <1>2, <1>3, <1>4, <1>5, <1>6 DEF TypeOK

\* No step of a call, the clock, the cleanup or a crash leaves the types.
LEMMA StepType == TypeOK /\ [Next]_vars => TypeOK'
<1> SUFFICES ASSUME TypeOK, [Next]_vars
             PROVE  TypeOK'
  OBVIOUS
<1>a. \A c \in Calls : Reservation(c) \in Entries /\ Reservation(c).at = now
  BY DEF TypeOK, Reservation, Entries, Ids
<1> USE ConstantsAssumption, AbsentIsEntry, <1>a DEF TypeOK, CallPC, Busy, Answers, Ids
<1>1. ASSUME NEW c \in Calls, Invalid(c)
      PROVE  TypeOK'
  BY <1>1 DEF Invalid, Goto, Reply, Tell, progress, tiers, hist
<1>2. ASSUME NEW c \in Calls, ArriveKeyless(c)
      PROVE  TypeOK'
  BY <1>2 DEF ArriveKeyless, Goto, Reply, Tell, progress, tiers, hist
<1>3. ASSUME NEW c \in Calls, Arrive(c)
      PROVE  TypeOK'
  BY <1>3 DEF Entries, Arrive, Goto, Reply, Tell, progress, tiers, hist, HitOrder, HitPlaceholder, Miss, Acknowledge
<1>4. ASSUME NEW c \in Calls, Check(c)
      PROVE  TypeOK'
  <2>1. pc' \in [Calls -> CallPC] /\ answer' \in [Calls -> Answers]
    BY <1>4 DEF Check, Goto, Reply, Acknowledge
  <2>2. row.order \in Ids
    BY DEF Entries
  <2>3. told' \in [Calls -> Ids] /\ failed' \in BOOLEAN
    BY <1>4, <2>2 DEF Check, Tell
  <2>4. unfounded' \in SUBSET Calls
    BY <1>4 DEF Check, Acknowledge
  <2> QED
    BY <1>4, <2>1, <2>3, <2>4 DEF Check, tiers
<1>5. ASSUME NEW c \in Calls, Learn(c)
      PROVE  TypeOK'
  BY <1>5 DEF Entries, Learn, Goto, Reply, Tell, progress, tiers, hist
<1>6. ASSUME NEW c \in Calls, Reserve(c)
      PROVE  TypeOK'
  <2>1. late' \in SUBSET Statements
    BY <1>6, WaitingType DEF Reserve, Unanswered
  <2>2. row' \in Entries /\ row'.at <= now
    BY <1>6 DEF Reserve, Inserted
  <2>3. pc' \in [Calls -> CallPC] /\ answer' \in [Calls -> Answers]
    BY <1>6 DEF Reserve, Goto, Reply, Acknowledge
  <2>4. unfounded' \in SUBSET Calls /\ failed' \in BOOLEAN
    BY <1>6 DEF Reserve, Acknowledge
  <2> QED
    BY <1>6, <2>1, <2>2, <2>3, <2>4 DEF Reserve
<1>7. ASSUME NEW c \in Calls, Undo(c)
      PROVE  TypeOK'
  BY <1>7 DEF Undo, Goto, Reply, Tell, progress, tiers, hist
<1>8. ASSUME NEW c \in Calls, Accept(c)
      PROVE  TypeOK'
  BY <1>8 DEF Entries, Accept, Goto, Reply, Tell, progress, tiers, hist
<1>9. ASSUME NEW c \in Calls, Refuse(c)
      PROVE  TypeOK'
  BY <1>9 DEF Refuse, Goto, Reply, Tell, progress, tiers, hist
<1>10. ASSUME NEW c \in Calls, Remember(c)
      PROVE  TypeOK'
  BY <1>10 DEF Entries, Remember, Goto, Reply, Tell, progress, tiers, hist
<1>11. ASSUME NEW c \in Calls, Commit(c)
      PROVE  TypeOK'
  BY <1>11, WaitingType DEF Entries, Commit, Goto, Reply, Tell, progress, tiers, hist, Write, Unanswered, Updated
<1>12. ASSUME NEW c \in Calls, Forget(c)
      PROVE  TypeOK'
  BY <1>12 DEF Forget, Goto, Reply, Tell, progress, tiers, hist
<1>13. ASSUME NEW c \in Calls, Release(c)
      PROVE  TypeOK'
  <2>1. late' \in SUBSET Statements /\ row' \in Entries /\ row'.at <= now
    BY <1>13, WaitingType DEF Release, Write, Unanswered, Entries
  <2> QED
    BY <1>13, <2>1 DEF Release, Write, Goto
<1>14. ASSUME NEW c \in Calls, Drop(c)
      PROVE  TypeOK'
  BY <1>14, WaitingType DEF Drop, Goto, Reply, Tell, progress, tiers, hist, Unanswered, InProgress
<1>15. ASSUME NEW s \in late, RunLate(s)
      PROVE  TypeOK'
  BY <1>15 DEF Entries, RunLate, Inserted, Updated, Statements, progress, hist
<1>16. CASE Crash
  BY <1>16, WaitingType DEF Crash, InProgress, Statements
<1>17. CASE Cleanup
  BY <1>17 DEF Cleanup, progress, hist
<1>18. CASE Tick
  BY <1>18 DEF Entries, Tick, progress, tiers, hist
<1>19. CASE UNCHANGED vars
  BY <1>19 DEF vars, progress, tiers, hist
<1> QED
  BY <1>1, <1>2, <1>3, <1>4, <1>5, <1>6, <1>7, <1>8, <1>9, <1>10, <1>11, <1>12, <1>13, <1>14, <1>15, <1>16, <1>17, <1>18, <1>19 DEF Next, CallStep

\* Every variable of the two tiers keeps its type, and no entry is dated in
\* the future.
THEOREM TypeCorrect == Spec => []TypeOK
BY InitType, StepType, PTL DEF Spec
-----------------------------------------------------------------------------
(* The inductive invariant *)

\* A reservation is its call's own, of now, and has no order yet.
LEMMA ReservationIs ==
    ASSUME NEW c \in Calls
    PROVE  /\ Reservation(c).by = c /\ Reservation(c).at = now /\ Reservation(c).order = NoCall
           /\ Reservation(c) # Absent
BY ConstantsAssumption DEF Reservation, Absent

\* An update keeps the owner and the time of the row, and creates none.
LEMMA UpdatedIs ==
    ASSUME TypeOK, NEW c \in Calls
    PROVE  /\ Updated(c).by = row.by /\ Updated(c).at = row.at
           /\ row = Absent => Updated(c) = Absent
           /\ row # Absent => Updated(c).order = c
BY DEF TypeOK, Entries, Updated

\* A call that owns the row, and a late statement that is about it, are in
\* time: the row has not reached the end of its window.
LEMMA InTime ==
    ASSUME IInv
    PROVE  /\ \A c \in Keyed : pc[c] \in Owning => now - row.at <= TTL
           /\ \A s \in late : s.verb # "insert" => now - row.at <= TTL
<1> USE ConstantsAssumption DEF IInv
<1>1. now \in Nat /\ row.at \in Nat
  BY DEF TypeOK, Entries
<1>2. ASSUME NEW c \in Keyed, pc[c] \in Owning
      PROVE  now - row.at <= TTL
  <2>1. started[c] \in Nat
    BY DEF TypeOK, Keyed
  <2>2. now - started[c] <= Deadline
    BY <1>2 DEF TimeInv, InProgress, Owning, Busy
  <2>3. started[c] <= row.at
    BY <1>2 DEF OwnerInv
  <2> QED
    BY <1>1, <2>1, <2>2, <2>3
<1>3. ASSUME NEW s \in late, s.verb # "insert"
      PROVE  now - row.at <= TTL
  <2>1. s.at \in Nat /\ started[s.by] \in Nat
    BY DEF TypeOK, Statements
  <2>2. now - s.at <= Deadline /\ s.at - started[s.by] <= Deadline /\ started[s.by] <= row.at
    BY <1>3 DEF LateInv
  <2> QED
    BY <1>1, <2>1, <2>2
<1> QED
  BY <1>2, <1>3

\* A row that somebody owns is there, and there is one owner.
LEMMA OwnersRow ==
    ASSUME IInv
    PROVE  /\ \A c \in Keyed : pc[c] \in Owning => row # Absent /\ row.by = c
           /\ \A s \in late : s.verb # "insert" => row # Absent /\ row.by = s.by
           /\ \A c \in Calls : pc[c] \in Busy \ {"submit"} => c \in Keyed
<1> USE ConstantsAssumption, AbsentIsEntry DEF IInv
<1>1. \A c \in Keyed : pc[c] \in Owning => row # Absent /\ row.by = c
  BY DEF OwnerInv, Keyed
<1>2. \A s \in late : s.verb # "insert" => row # Absent /\ row.by = s.by
  BY DEF LateInv, Keyed
<1>3. \A c \in Calls : pc[c] \in Busy \ {"submit"} => c \in Keyed
  BY DEF KeylessInv, Busy, Keyed
<1> QED
  BY <1>1, <1>2, <1>3

\* A late statement by a call is new: the call was waiting for it until now.
LEMMA WaitingIsNew ==
    ASSUME IInv, NEW c \in Calls, NEW s \in Waiting(c)
    PROVE  /\ s.by = c /\ c \in Keyed
           /\ \A t \in late : t.by # c
           /\ s.at = now /\ started[c] <= now /\ now - started[c] <= Deadline
           /\ s.verb # "update" => ~ HasOrder(c)
           /\ s.verb = "update" => HasOrder(c)
           /\ s.verb # "insert" => row.by = c /\ started[c] <= row.at
<1>1. s.by = c /\ s.at = now /\ pc[c] \in Busy \ {"submit"} /\ pc[c] \notin {"undo", "done"}
  BY WaitingIs DEF Busy
<1>2. c \in Keyed
  BY <1>1, OwnersRow
<1>3. \A t \in late : t.by # c
  BY <1>1 DEF IInv, LateInv
<1>4. started[c] <= now /\ now - started[c] <= Deadline
  BY <1>1, <1>2 DEF IInv, TimeInv, InProgress
<1>5. /\ s.verb # "update" => ~ HasOrder(c)
      /\ s.verb = "update" => HasOrder(c)
      /\ s.verb # "insert" => row.by = c /\ started[c] <= row.at
  BY <1>2, WaitingIs DEF IInv, OwnerInv, With, Without, Owning
<1> QED
  BY <1>1, <1>2, <1>3, <1>4, <1>5

\* Calls that end without the result of their statement leave it behind.
LEMMA LateGrows ==
    ASSUME IInv, UNCHANGED <<now, started, orders, row>>,
           late' \subseteq late \cup UNION {Waiting(c) : c \in Calls},
           \A s \in late' : pc'[s.by] \in {"undo", "done"}
    PROVE  LateInv'
<1> USE ConstantsAssumption
<1>0. LateInv /\ now \in Nat /\ Deadline \in Nat
  BY DEF IInv, TypeOK
<1>1. \A s \in late' : s \in late \/ \E c \in Calls : s \in Waiting(c)
  OBVIOUS
<1>2. \A s, t \in late' : s.by = t.by => s = t
  <2> SUFFICES ASSUME NEW s \in late', NEW t \in late', s.by = t.by
               PROVE  s = t
    OBVIOUS
  <2>1. CASE s \in late /\ t \in late
    BY <1>0, <2>1 DEF LateInv
  <2>2. CASE s \in late /\ t \notin late
    BY <1>1, <2>2, WaitingIsNew
  <2>3. CASE s \notin late /\ t \in late
    BY <1>1, <2>3, WaitingIsNew
  <2>4. CASE s \notin late /\ t \notin late
    <3>1. PICK c \in Calls : s \in Waiting(c)
      BY <1>1, <2>4
    <3>2. PICK d \in Calls : t \in Waiting(d)
      BY <1>1, <2>4
    <3>3. c = d
      BY <3>1, <3>2, WaitingIsNew
    <3>4. s.verb = t.verb
      BY <3>1, <3>2, <3>3, WaitingIs
    <3> QED
      BY <3>1, <3>2, <3>3, <3>4, WaitingIs
  <2> QED
    BY <2>1, <2>2, <2>3, <2>4
<1>3. ASSUME NEW s \in late'
      PROVE  /\ s.by \in Keyed
             /\ s.at <= now
             /\ now - s.at <= Deadline
             /\ started[s.by] <= s.at
             /\ s.at - started[s.by] <= Deadline
             /\ s.verb # "update" => ~ HasOrder(s.by)
             /\ s.verb = "update" => HasOrder(s.by)
             /\ s.verb # "insert" => row.by = s.by /\ started[s.by] <= row.at
  <2>1. CASE s \in late
    BY <1>0, <2>1 DEF LateInv
  <2>2. CASE \E c \in Calls : s \in Waiting(c)
    BY <1>0, <2>2, WaitingIsNew
  <2> QED
    BY <1>1, <2>1, <2>2
<1> QED
  BY <1>2, <1>3 DEF LateInv, HasOrder

\* The initial state satisfies the invariant.
LEMMA InitInv == Init => IInv
<1> SUFFICES ASSUME Init PROVE IInv
  OBVIOUS
<1>1. TimeInv /\ OwnerInv /\ KeylessInv /\ ToldInv
  BY ConstantsAssumption DEF Init, ToldInv, TimeInv, OwnerInv, KeylessInv, InProgress, Busy, Owning, With, HasOrder, Keyed
<1>2. LateInv
  BY DEF Init, LateInv
<1>3. NamesInv
  BY AbsentIsEntry DEF Init, NamesInv, Keyed
<1> QED
  BY InitType, <1>1, <1>2, <1>3 DEF IInv

\* No step leaves a call in progress after its deadline.
LEMMA StepTime == IInv /\ TypeOK' /\ [Next]_vars => TimeInv'
<1> SUFFICES ASSUME IInv, TypeOK', [Next]_vars
             PROVE  TimeInv'
  OBVIOUS
<1> USE ConstantsAssumption, AbsentIsEntry DEF IInv, TypeOK, TimeInv, InProgress, Busy, Keyed
<1>1. ASSUME NEW c \in Calls, Invalid(c)
      PROVE  TimeInv'
  BY <1>1 DEF Invalid, Goto, Reply, Tell, progress, tiers, hist
<1>2. ASSUME NEW c \in Calls, ArriveKeyless(c)
      PROVE  TimeInv'
  BY <1>2 DEF ArriveKeyless, Goto, Reply, Tell, progress, tiers, hist
<1>3. ASSUME NEW c \in Calls, Arrive(c)
      PROVE  TimeInv'
  BY <1>3 DEF Arrive, Goto, Reply, Tell, progress, tiers, hist, HitOrder, HitPlaceholder, Miss, Acknowledge, Reservation
<1>4. ASSUME NEW c \in Calls, Check(c)
      PROVE  TimeInv'
  BY <1>4 DEF Check, Goto, Reply, Tell, progress, tiers, hist, Acknowledge
<1>5. ASSUME NEW c \in Calls, Learn(c)
      PROVE  TimeInv'
  BY <1>5 DEF Learn, Goto, Reply, Tell, progress, tiers, hist
<1>6. ASSUME NEW c \in Calls, Reserve(c)
      PROVE  TimeInv'
  BY <1>6, WaitingIs DEF Reserve, Goto, Reply, Tell, progress, tiers, hist, Acknowledge, Inserted, Reservation, Unanswered
<1>7. ASSUME NEW c \in Calls, Undo(c)
      PROVE  TimeInv'
  BY <1>7 DEF Undo, Goto, Reply, Tell, progress, tiers, hist
<1>8. ASSUME NEW c \in Calls, Accept(c)
      PROVE  TimeInv'
  BY <1>8 DEF Accept, Goto, Reply, Tell, progress, tiers, hist
<1>9. ASSUME NEW c \in Calls, Refuse(c)
      PROVE  TimeInv'
  BY <1>9 DEF Refuse, Goto, Reply, Tell, progress, tiers, hist
<1>10. ASSUME NEW c \in Calls, Remember(c)
      PROVE  TimeInv'
  BY <1>10 DEF Remember, Goto, Reply, Tell, progress, tiers, hist
<1>11. ASSUME NEW c \in Calls, Commit(c)
      PROVE  TimeInv'
  BY <1>11, WaitingIs DEF Commit, Goto, Reply, Tell, progress, tiers, hist, Write, Unanswered, Updated
<1>12. ASSUME NEW c \in Calls, Forget(c)
      PROVE  TimeInv'
  BY <1>12 DEF Forget, Goto, Reply, Tell, progress, tiers, hist
<1>13. ASSUME NEW c \in Calls, Release(c)
      PROVE  TimeInv'
  BY <1>13, WaitingIs DEF Release, Goto, Reply, Tell, progress, tiers, hist, Write, Unanswered
<1>14. ASSUME NEW c \in Calls, Drop(c)
      PROVE  TimeInv'
  BY <1>14, WaitingIs DEF Drop, Goto, Reply, Tell, progress, tiers, hist, Unanswered, InProgress
<1>15. ASSUME NEW s \in late, RunLate(s)
      PROVE  TimeInv'
  BY <1>15 DEF RunLate, Inserted, Reservation, Updated, Statements, progress, hist
<1>16. CASE Crash
  BY <1>16, WaitingIs DEF Crash, InProgress
<1>17. CASE Cleanup
  BY <1>17 DEF Cleanup, progress, hist
<1>18. CASE Tick
  BY <1>18 DEF Tick, progress, tiers, hist
<1>19. CASE UNCHANGED vars
  BY <1>19 DEF vars, progress, tiers, hist
<1> QED
  BY <1>1, <1>2, <1>3, <1>4, <1>5, <1>6, <1>7, <1>8, <1>9, <1>10, <1>11, <1>12, <1>13, <1>14, <1>15, <1>16, <1>17, <1>18, <1>19 DEF Next, CallStep

\* No step takes a call without a key through the reservation.
LEMMA StepKeyless == IInv /\ TypeOK' /\ [Next]_vars => KeylessInv'
<1> SUFFICES ASSUME IInv, TypeOK', [Next]_vars
             PROVE  KeylessInv'
  OBVIOUS
<1> USE ConstantsAssumption, AbsentIsEntry DEF IInv, TypeOK, KeylessInv, Busy, Keyed
<1>1. ASSUME NEW c \in Calls, Invalid(c)
      PROVE  KeylessInv'
  BY <1>1 DEF Invalid, Goto, Reply, Tell, progress, tiers, hist
<1>2. ASSUME NEW c \in Calls, ArriveKeyless(c)
      PROVE  KeylessInv'
  BY <1>2 DEF ArriveKeyless, Goto, Reply, Tell, progress, tiers, hist
<1>3. ASSUME NEW c \in Calls, Arrive(c)
      PROVE  KeylessInv'
  BY <1>3 DEF Arrive, Goto, Reply, Tell, progress, tiers, hist, HitOrder, HitPlaceholder, Miss, Acknowledge, Reservation
<1>4. ASSUME NEW c \in Calls, Check(c)
      PROVE  KeylessInv'
  BY <1>4 DEF Check, Goto, Reply, Tell, progress, tiers, hist, Acknowledge
<1>5. ASSUME NEW c \in Calls, Learn(c)
      PROVE  KeylessInv'
  BY <1>5 DEF Learn, Goto, Reply, Tell, progress, tiers, hist
<1>6. ASSUME NEW c \in Calls, Reserve(c)
      PROVE  KeylessInv'
  BY <1>6, WaitingIs DEF Reserve, Goto, Reply, Tell, progress, tiers, hist, Acknowledge, Inserted, Reservation, Unanswered
<1>7. ASSUME NEW c \in Calls, Undo(c)
      PROVE  KeylessInv'
  BY <1>7 DEF Undo, Goto, Reply, Tell, progress, tiers, hist
<1>8. ASSUME NEW c \in Calls, Accept(c)
      PROVE  KeylessInv'
  BY <1>8 DEF Accept, Goto, Reply, Tell, progress, tiers, hist
<1>9. ASSUME NEW c \in Calls, Refuse(c)
      PROVE  KeylessInv'
  BY <1>9 DEF Refuse, Goto, Reply, Tell, progress, tiers, hist
<1>10. ASSUME NEW c \in Calls, Remember(c)
      PROVE  KeylessInv'
  BY <1>10 DEF Remember, Goto, Reply, Tell, progress, tiers, hist
<1>11. ASSUME NEW c \in Calls, Commit(c)
      PROVE  KeylessInv'
  BY <1>11, WaitingIs DEF Commit, Goto, Reply, Tell, progress, tiers, hist, Write, Unanswered, Updated
<1>12. ASSUME NEW c \in Calls, Forget(c)
      PROVE  KeylessInv'
  BY <1>12 DEF Forget, Goto, Reply, Tell, progress, tiers, hist
<1>13. ASSUME NEW c \in Calls, Release(c)
      PROVE  KeylessInv'
  BY <1>13, WaitingIs DEF Release, Goto, Reply, Tell, progress, tiers, hist, Write, Unanswered
<1>14. ASSUME NEW c \in Calls, Drop(c)
      PROVE  KeylessInv'
  BY <1>14, WaitingIs DEF Drop, Goto, Reply, Tell, progress, tiers, hist, Unanswered, InProgress
<1>15. ASSUME NEW s \in late, RunLate(s)
      PROVE  KeylessInv'
  BY <1>15 DEF RunLate, Inserted, Reservation, Updated, Statements, progress, hist
<1>16. CASE Crash
  BY <1>16, WaitingIs DEF Crash, InProgress
<1>17. CASE Cleanup
  BY <1>17 DEF Cleanup, progress, hist
<1>18. CASE Tick
  BY <1>18 DEF Tick, progress, tiers, hist
<1>19. CASE UNCHANGED vars
  BY <1>19 DEF vars, progress, tiers, hist
<1> QED
  BY <1>1, <1>2, <1>3, <1>4, <1>5, <1>6, <1>7, <1>8, <1>9, <1>10, <1>11, <1>12, <1>13, <1>14, <1>15, <1>16, <1>17, <1>18, <1>19 DEF Next, CallStep

\* No step tells a call of an order before it has an answer.
LEMMA StepTold == IInv /\ TypeOK' /\ [Next]_vars => ToldInv'
<1> SUFFICES ASSUME IInv, TypeOK', [Next]_vars
             PROVE  ToldInv'
  OBVIOUS
<1> USE ConstantsAssumption, AbsentIsEntry DEF IInv, TypeOK, ToldInv, Busy, Keyed
<1>1. ASSUME NEW c \in Calls, Invalid(c)
      PROVE  ToldInv'
  BY <1>1 DEF Invalid, Goto, Reply, Tell, progress, tiers, hist
<1>2. ASSUME NEW c \in Calls, ArriveKeyless(c)
      PROVE  ToldInv'
  BY <1>2 DEF ArriveKeyless, Goto, Reply, Tell, progress, tiers, hist
<1>3. ASSUME NEW c \in Calls, Arrive(c)
      PROVE  ToldInv'
  BY <1>3 DEF Arrive, Goto, Reply, Tell, progress, tiers, hist, HitOrder, HitPlaceholder, Miss, Acknowledge, Reservation
<1>4. ASSUME NEW c \in Calls, Check(c)
      PROVE  ToldInv'
  BY <1>4 DEF Check, Goto, Reply, Tell, progress, tiers, hist, Acknowledge
<1>5. ASSUME NEW c \in Calls, Learn(c)
      PROVE  ToldInv'
  BY <1>5 DEF Learn, Goto, Reply, Tell, progress, tiers, hist
<1>6. ASSUME NEW c \in Calls, Reserve(c)
      PROVE  ToldInv'
  BY <1>6, WaitingIs DEF Reserve, Goto, Reply, Tell, progress, tiers, hist, Acknowledge, Inserted, Reservation, Unanswered
<1>7. ASSUME NEW c \in Calls, Undo(c)
      PROVE  ToldInv'
  BY <1>7 DEF Undo, Goto, Reply, Tell, progress, tiers, hist
<1>8. ASSUME NEW c \in Calls, Accept(c)
      PROVE  ToldInv'
  BY <1>8 DEF Accept, Goto, Reply, Tell, progress, tiers, hist
<1>9. ASSUME NEW c \in Calls, Refuse(c)
      PROVE  ToldInv'
  BY <1>9 DEF Refuse, Goto, Reply, Tell, progress, tiers, hist
<1>10. ASSUME NEW c \in Calls, Remember(c)
      PROVE  ToldInv'
  BY <1>10 DEF Remember, Goto, Reply, Tell, progress, tiers, hist
<1>11. ASSUME NEW c \in Calls, Commit(c)
      PROVE  ToldInv'
  BY <1>11, WaitingIs DEF Commit, Goto, Reply, Tell, progress, tiers, hist, Write, Unanswered, Updated
<1>12. ASSUME NEW c \in Calls, Forget(c)
      PROVE  ToldInv'
  BY <1>12 DEF Forget, Goto, Reply, Tell, progress, tiers, hist
<1>13. ASSUME NEW c \in Calls, Release(c)
      PROVE  ToldInv'
  BY <1>13, WaitingIs DEF Release, Goto, Reply, Tell, progress, tiers, hist, Write, Unanswered
<1>14. ASSUME NEW c \in Calls, Drop(c)
      PROVE  ToldInv'
  BY <1>14, WaitingIs DEF Drop, Goto, Reply, Tell, progress, tiers, hist, Unanswered, InProgress
<1>15. ASSUME NEW s \in late, RunLate(s)
      PROVE  ToldInv'
  BY <1>15 DEF RunLate, Inserted, Reservation, Updated, Statements, progress, hist
<1>16. CASE Crash
  BY <1>16, WaitingIs DEF Crash, InProgress
<1>17. CASE Cleanup
  BY <1>17 DEF Cleanup, progress, hist
<1>18. CASE Tick
  BY <1>18 DEF Tick, progress, tiers, hist
<1>19. CASE UNCHANGED vars
  BY <1>19 DEF vars, progress, tiers, hist
<1> QED
  BY <1>1, <1>2, <1>3, <1>4, <1>5, <1>6, <1>7, <1>8, <1>9, <1>10, <1>11, <1>12, <1>13, <1>14, <1>15, <1>16, <1>17, <1>18, <1>19 DEF Next, CallStep

\* No step takes the row from a call that still owns it.
LEMMA StepOwner == IInv /\ TypeOK' /\ [Next]_vars => OwnerInv'
<1> SUFFICES ASSUME IInv, TypeOK', [Next]_vars
             PROVE  OwnerInv'
  OBVIOUS
<1> USE ConstantsAssumption, AbsentIsEntry DEF IInv, TypeOK, OwnerInv, Owning, With, Without, HasOrder, Keyed
<1>1. ASSUME NEW c \in Calls, Invalid(c)
      PROVE  OwnerInv'
  BY <1>1 DEF Invalid, Goto, Reply, Tell, progress, tiers, hist
<1>2. ASSUME NEW c \in Calls, ArriveKeyless(c)
      PROVE  OwnerInv'
  BY <1>2 DEF ArriveKeyless, Goto, Reply, Tell, progress, tiers, hist
<1>3. ASSUME NEW c \in Calls, Arrive(c)
      PROVE  OwnerInv'
  BY <1>3 DEF Arrive, Goto, Reply, Tell, progress, tiers, hist, HitOrder, HitPlaceholder, Miss, Acknowledge, Reservation
<1>4. ASSUME NEW c \in Calls, Check(c)
      PROVE  OwnerInv'
  BY <1>4 DEF Check, Goto, Reply, Tell, progress, tiers, hist, Acknowledge
<1>5. ASSUME NEW c \in Calls, Learn(c)
      PROVE  OwnerInv'
  BY <1>5 DEF Learn, Goto, Reply, Tell, progress, tiers, hist
<1>6. ASSUME NEW c \in Calls, Reserve(c)
      PROVE  OwnerInv'
  <2>1. c \in Keyed /\ started[c] <= now
    BY <1>6, OwnersRow DEF Reserve, Busy, TimeInv, InProgress
  <2>2. CASE row = Absent /\ row' = Inserted(c) /\ Goto(c, "submit")
    <3>1. \A d \in Keyed : pc[d] \notin Owning
      BY <2>2, OwnersRow
    <3>2. row'.by = c /\ row'.at = now
      BY <2>2, ReservationIs DEF Inserted
    <3> QED
      BY <1>6, <2>1, <2>2, <3>1, <3>2 DEF Reserve, Goto
  <2>3. CASE row' = row /\ Goto(c, "undo")
    BY <1>6, <2>1, <2>3 DEF Reserve, Goto
  <2> QED
    BY <1>6, <2>2, <2>3 DEF Reserve
<1>7. ASSUME NEW c \in Calls, Undo(c)
      PROVE  OwnerInv'
  BY <1>7 DEF Undo, Goto, Reply, Tell, progress, tiers, hist
<1>8. ASSUME NEW c \in Calls, Accept(c)
      PROVE  OwnerInv'
  <2>1. CASE c \in Keyless
    BY <1>8, <2>1 DEF Accept, Goto, tiers
  <2>2. CASE c \in Keyed
    <3>1. orders' = orders \cup {[by |-> c, at |-> row.at]} /\ pc' = [pc EXCEPT ![c] = "remember"]
      BY <1>8, <2>2 DEF Accept, Goto
    <3>2. HasOrder(c)'
      BY <3>1
    <3>3. \A d \in Keyed : d # c => (HasOrder(d)' <=> HasOrder(d))
      BY <3>1
    <3>4. row' = row /\ started' = started
      BY <1>8 DEF Accept, tiers
    <3> HIDE DEF HasOrder
    <3> QED
      BY <1>8, <2>2, <3>1, <3>2, <3>3, <3>4 DEF Accept
  <2> QED
    BY <2>1, <2>2
<1>9. ASSUME NEW c \in Calls, Refuse(c)
      PROVE  OwnerInv'
  BY <1>9 DEF Refuse, Goto, Reply, Tell, progress, tiers, hist
<1>10. ASSUME NEW c \in Calls, Remember(c)
      PROVE  OwnerInv'
  BY <1>10 DEF Remember, Goto, Reply, Tell, progress, tiers, hist
<1>11. ASSUME NEW c \in Calls, Commit(c)
      PROVE  OwnerInv'
  <2>1. row'.by = row.by /\ row'.at = row.at
    BY <1>11, UpdatedIs DEF Commit, Write
  <2> QED
    BY <1>11, <2>1 DEF Commit, Write, Goto
<1>12. ASSUME NEW c \in Calls, Forget(c)
      PROVE  OwnerInv'
  BY <1>12 DEF Forget, Goto, Reply, Tell, progress, tiers, hist
<1>13. ASSUME NEW c \in Calls, Release(c)
      PROVE  OwnerInv'
  <2>1. c \in Keyed /\ pc[c] \in Owning
    BY <1>13, OwnersRow DEF Release, Busy
  <2>2. \A d \in Keyed : d # c => pc[d] \notin Owning
    BY <2>1, OwnersRow
  <2> QED
    BY <1>13, <2>1, <2>2 DEF Release, Write, Goto
<1>14. ASSUME NEW c \in Calls, Drop(c)
      PROVE  OwnerInv'
  BY <1>14, WaitingIs DEF Drop, Goto, Reply, Tell, progress, tiers, hist, Unanswered, InProgress
<1>15. ASSUME NEW s \in late, RunLate(s)
      PROVE  OwnerInv'
  <2>0. s.by \in Keyed /\ s.by \in Calls /\ pc[s.by] \in {"undo", "done"}
    BY DEF LateInv, Statements
  <2>1. \A d \in Keyed : pc[d] \in Owning => row'.by = row.by /\ row'.at = row.at
    <3> SUFFICES ASSUME NEW d \in Keyed, pc[d] \in Owning
                 PROVE  row'.by = row.by /\ row'.at = row.at
      OBVIOUS
    <3>1. row # Absent /\ row.by = d /\ d # s.by
      BY <2>0, OwnersRow
    <3>2. CASE s.verb = "insert"
      BY <1>15, <3>1, <3>2 DEF RunLate, Inserted
    <3>3. CASE s.verb = "update"
      BY <1>15, <2>0, <3>3, UpdatedIs DEF RunLate
    <3>4. s.verb # "delete"
      BY <3>1, OwnersRow
    <3> QED
      BY <3>2, <3>3, <3>4 DEF Statements
  <2>2. UNCHANGED <<pc, started, orders>>
    BY <1>15 DEF RunLate, progress, hist
  <2> QED
    BY <2>1, <2>2
<1>16. CASE Crash
  BY <1>16, WaitingIs DEF Crash, InProgress
<1>17. CASE Cleanup
  <2>1. \A d \in Keyed : pc[d] \notin Owning
    BY <1>17, InTime DEF Cleanup, Entries
  <2> QED
    BY <1>17, <2>1 DEF Cleanup, progress, hist
<1>18. CASE Tick
  BY <1>18 DEF Tick, progress, tiers, hist
<1>19. CASE UNCHANGED vars
  BY <1>19 DEF vars, progress, tiers, hist
<1> QED
  BY <1>1, <1>2, <1>3, <1>4, <1>5, <1>6, <1>7, <1>8, <1>9, <1>10, <1>11, <1>12, <1>13, <1>14, <1>15, <1>16, <1>17, <1>18, <1>19 DEF Next, CallStep

\* No step lets a row or an answer name an order that was not accepted.
LEMMA StepNames == IInv /\ TypeOK' /\ [Next]_vars => NamesInv'
<1> SUFFICES ASSUME IInv, TypeOK', [Next]_vars
             PROVE  NamesInv'
  OBVIOUS
<1> USE ConstantsAssumption, AbsentIsEntry DEF IInv, TypeOK, NamesInv, HasOrder, Keyed
<1>1. ASSUME NEW c \in Calls, Invalid(c)
      PROVE  NamesInv'
  BY <1>1 DEF Invalid, Goto, Reply, Tell, progress, tiers, hist
<1>2. ASSUME NEW c \in Calls, ArriveKeyless(c)
      PROVE  NamesInv'
  BY <1>2 DEF ArriveKeyless, Goto, Reply, Tell, progress, tiers, hist
<1>3. ASSUME NEW c \in Calls, Arrive(c)
      PROVE  NamesInv'
  BY <1>3 DEF Arrive, Goto, Reply, Tell, progress, tiers, hist, HitOrder, HitPlaceholder, Miss, Acknowledge, Reservation
<1>4. ASSUME NEW c \in Calls, Check(c)
      PROVE  NamesInv'
  BY <1>4 DEF Check, Goto, Reply, Tell, progress, tiers, hist, Acknowledge
<1>5. ASSUME NEW c \in Calls, Learn(c)
      PROVE  NamesInv'
  <2>1. c \in Keyed
    BY <1>5, OwnersRow DEF Learn, Busy
  <2>2. mem'.order # NoCall => mem.order # NoCall \/ mem'.order = told[c]
    BY <1>5 DEF Learn, Entries
  <2>3. mem'.order # NoCall => HasOrder(mem'.order)
    BY <2>1, <2>2, <1>5 DEF Learn, Entries
  <2> QED
    BY <1>5, <2>3 DEF Learn, hist
<1>6. ASSUME NEW c \in Calls, Reserve(c)
      PROVE  NamesInv'
  <2>0. UNCHANGED <<told, mem, orders>>
    BY <1>6 DEF Reserve
  <2>1. c \in Keyed
    BY <1>6, OwnersRow DEF Reserve, Busy
  <2>2. CASE row' = row
    BY <2>0, <2>2
  <2>3. CASE row' = Inserted(c) /\ row = Absent
    BY <2>0, <2>1, <2>3, ReservationIs DEF Inserted
  <2> QED
    BY <1>6, <2>2, <2>3 DEF Reserve
<1>7. ASSUME NEW c \in Calls, Undo(c)
      PROVE  NamesInv'
  BY <1>7 DEF Undo, Goto, Reply, Tell, progress, tiers, hist
<1>8. ASSUME NEW c \in Calls, Accept(c)
      PROVE  NamesInv'
  <2>1. UNCHANGED <<mem, row>> /\ told' = [told EXCEPT ![c] = c]
    BY <1>8 DEF Accept, tiers, Tell
  <2>2. orders \subseteq orders'
    BY <1>8 DEF Accept
  <2>3. ASSUME c \in Keyed
        PROVE  \E o \in orders' : o.by = c
    <3>1. orders' = orders \cup {[by |-> c, at |-> row.at]}
      BY <1>8, <2>3 DEF Accept
    <3>2. [by |-> c, at |-> row.at] \in orders'
      BY <3>1
    <3>3. [by |-> c, at |-> row.at].by = c
      OBVIOUS
    <3> HIDE DEF IInv
    <3> QED
      BY <3>2, <3>3
  <2>4. ASSUME NEW d \in Keyed, told'[d] # NoCall
        PROVE  \E o \in orders' : o.by = told'[d]
    <3>1. CASE d = c
      BY <2>1, <2>3, <3>1
    <3>2. CASE d # c
      BY <2>1, <2>2, <2>4, <3>2
    <3> QED
      BY <3>1, <3>2
  <2> QED
    BY <2>1, <2>2, <2>4
<1>9. ASSUME NEW c \in Calls, Refuse(c)
      PROVE  NamesInv'
  BY <1>9 DEF Refuse, Goto, Reply, Tell, progress, tiers, hist
<1>10. ASSUME NEW c \in Calls, Remember(c)
      PROVE  NamesInv'
  <2>1. c \in Keyed /\ HasOrder(c)
    BY <1>10, OwnersRow DEF Remember, Busy, OwnerInv, With
  <2>2. mem'.order # NoCall => HasOrder(mem'.order)
    BY <1>10, <2>1 DEF Remember, Entries
  <2> QED
    BY <1>10, <2>2 DEF Remember, hist
<1>11. ASSUME NEW c \in Calls, Commit(c)
      PROVE  NamesInv'
  <2>1. c \in Keyed /\ HasOrder(c) /\ row # Absent /\ row.by = c
    BY <1>11, OwnersRow DEF Commit, Busy, OwnerInv, With, Owning
  <2>2. row'.by = row.by /\ (row' = row \/ row'.order = c)
    BY <1>11, <2>1, UpdatedIs DEF Commit, Write
  <2>3. UNCHANGED <<told, mem, orders>>
    BY <1>11 DEF Commit, Write
  <2>4. row'.order # NoCall => row'.order = row'.by /\ HasOrder(row'.order)
    BY <2>1, <2>2
  <2>5. row'.by # NoCall /\ row'.by \in Keyed
    BY <2>1, <2>2
  <2> QED
    BY <2>3, <2>4, <2>5
<1>12. ASSUME NEW c \in Calls, Forget(c)
      PROVE  NamesInv'
  BY <1>12 DEF Forget, Goto, Reply, Tell, progress, tiers, hist
<1>13. ASSUME NEW c \in Calls, Release(c)
      PROVE  NamesInv'
  BY <1>13, WaitingIs DEF Release, Goto, Reply, Tell, progress, tiers, hist, Write, Unanswered
<1>14. ASSUME NEW c \in Calls, Drop(c)
      PROVE  NamesInv'
  BY <1>14, WaitingIs DEF Drop, Goto, Reply, Tell, progress, tiers, hist, Unanswered, InProgress
<1>15. ASSUME NEW s \in late, RunLate(s)
      PROVE  NamesInv'
  <2>0. s.by \in Keyed /\ s.by \in Calls /\ s.by # NoCall
    BY DEF LateInv, Statements
  <2>1. UNCHANGED <<told, mem, orders>>
    BY <1>15 DEF RunLate, progress, hist
  <2>2. CASE row' = row \/ row' = Absent
    BY <2>1, <2>2
  <2>3. CASE s.verb = "insert" /\ row = Absent
    BY <1>15, <2>0, <2>1, <2>3, ReservationIs DEF RunLate, Inserted
  <2>4. CASE s.verb = "update"
    <3>1. HasOrder(s.by) /\ row # Absent /\ row.by = s.by
      BY <2>4, OwnersRow DEF LateInv
    <3>2. row'.by = s.by /\ row'.order = s.by
      BY <1>15, <2>0, <2>4, <3>1, UpdatedIs DEF RunLate
    <3> QED
      BY <2>0, <2>1, <3>1, <3>2
  <2> QED
    BY <1>15, <2>2, <2>3, <2>4 DEF RunLate, Inserted, Statements
<1>16. CASE Crash
  BY <1>16, WaitingIs DEF Crash, InProgress
<1>17. CASE Cleanup
  BY <1>17 DEF Cleanup, progress, hist
<1>18. CASE Tick
  BY <1>18 DEF Tick, progress, tiers, hist
<1>19. CASE UNCHANGED vars
  BY <1>19 DEF vars, progress, tiers, hist
<1> QED
  BY <1>1, <1>2, <1>3, <1>4, <1>5, <1>6, <1>7, <1>8, <1>9, <1>10, <1>11, <1>12, <1>13, <1>14, <1>15, <1>16, <1>17, <1>18, <1>19 DEF Next, CallStep

\* No late statement of a call that was given up harms a newer row.
LEMMA StepLate == IInv /\ TypeOK' /\ [Next]_vars => LateInv'
<1> SUFFICES ASSUME IInv, TypeOK', [Next]_vars
             PROVE  LateInv'
  OBVIOUS
<1> USE ConstantsAssumption, AbsentIsEntry DEF IInv, TypeOK, LateInv, HasOrder, Keyed
<1>1. ASSUME NEW c \in Calls, Invalid(c)
      PROVE  LateInv'
  BY <1>1 DEF Invalid, Goto, Reply, Tell, progress, tiers, hist
<1>2. ASSUME NEW c \in Calls, ArriveKeyless(c)
      PROVE  LateInv'
  BY <1>2 DEF ArriveKeyless, Goto, Reply, Tell, progress, tiers, hist
<1>3. ASSUME NEW c \in Calls, Arrive(c)
      PROVE  LateInv'
  BY <1>3 DEF Arrive, Goto, Reply, Tell, progress, tiers, hist, HitOrder, HitPlaceholder, Miss, Acknowledge, Reservation
<1>4. ASSUME NEW c \in Calls, Check(c)
      PROVE  LateInv'
  BY <1>4 DEF Check, Goto, Reply, Tell, progress, tiers, hist, Acknowledge
<1>5. ASSUME NEW c \in Calls, Learn(c)
      PROVE  LateInv'
  BY <1>5 DEF Learn, Goto, Reply, Tell, progress, tiers, hist
<1>6. ASSUME NEW c \in Calls, Reserve(c)
      PROVE  LateInv'
  <2>0. pc[c] = "reserve" /\ \A s \in late : s.by # c
    BY <1>6 DEF Reserve
  <2>1. CASE row = Absent /\ late' = late
    <3>1. \A s \in late : s.verb = "insert"
      BY <2>1, OwnersRow
    <3> QED
      BY <1>6, <2>0, <2>1, <3>1 DEF Reserve, Goto
  <2>2. CASE row' = row /\ late' \subseteq late \cup Waiting(c) /\ pc' = [pc EXCEPT ![c] = "undo"]
    <3>1. \A s \in late' : pc'[s.by] \in {"undo", "done"}
      BY <2>0, <2>2, WaitingIsNew DEF Statements
    <3> QED
      BY <1>6, <2>2, <3>1, LateGrows DEF Reserve
  <2> QED
    BY <1>6, <2>1, <2>2 DEF Reserve, Goto, Unanswered
<1>7. ASSUME NEW c \in Calls, Undo(c)
      PROVE  LateInv'
  BY <1>7 DEF Undo, Goto, Reply, Tell, progress, tiers, hist
<1>8. ASSUME NEW c \in Calls, Accept(c)
      PROVE  LateInv'
  BY <1>8 DEF Accept, Goto, Reply, Tell, progress, tiers, hist
<1>9. ASSUME NEW c \in Calls, Refuse(c)
      PROVE  LateInv'
  BY <1>9 DEF Refuse, Goto, Reply, Tell, progress, tiers, hist
<1>10. ASSUME NEW c \in Calls, Remember(c)
      PROVE  LateInv'
  BY <1>10 DEF Remember, Goto, Reply, Tell, progress, tiers, hist
<1>11. ASSUME NEW c \in Calls, Commit(c)
      PROVE  LateInv'
  <2>0. pc[c] = "commit" /\ \A s \in late : s.by # c
    BY <1>11 DEF Commit
  <2>1. CASE late' = late
    <3>1. row'.by = row.by /\ row'.at = row.at
      BY <1>11, UpdatedIs DEF Commit, Write
    <3> QED
      BY <1>11, <2>0, <2>1, <3>1 DEF Commit, Write, Goto
  <2>2. CASE row' = row /\ late' \subseteq late \cup Waiting(c) /\ pc' = [pc EXCEPT ![c] = "done"]
    <3>1. \A s \in late' : pc'[s.by] \in {"undo", "done"}
      BY <2>0, <2>2, WaitingIsNew DEF Statements
    <3> QED
      BY <1>11, <2>2, <3>1, LateGrows DEF Commit, Write
  <2> QED
    BY <1>11, <2>1, <2>2 DEF Commit, Write, Goto, Unanswered
<1>12. ASSUME NEW c \in Calls, Forget(c)
      PROVE  LateInv'
  BY <1>12 DEF Forget, Goto, Reply, Tell, progress, tiers, hist
<1>13. ASSUME NEW c \in Calls, Release(c)
      PROVE  LateInv'
  <2>0. pc[c] = "release" /\ \A s \in late : s.by # c
    BY <1>13 DEF Release
  <2>1. CASE late' = late
    <3>1. \A s \in late : s.verb = "insert"
      BY <1>13, <2>0, OwnersRow DEF Release, Owning, Busy
    <3> QED
      BY <1>13, <2>0, <2>1, <3>1 DEF Release, Write, Goto
  <2>2. CASE row' = row /\ late' \subseteq late \cup Waiting(c) /\ pc' = [pc EXCEPT ![c] = "done"]
    <3>1. \A s \in late' : pc'[s.by] \in {"undo", "done"}
      BY <2>0, <2>2, WaitingIsNew DEF Statements
    <3> QED
      BY <1>13, <2>2, <3>1, LateGrows DEF Release, Write
  <2> QED
    BY <1>13, <2>1, <2>2 DEF Release, Write, Goto, Unanswered
<1>14. ASSUME NEW c \in Calls, Drop(c)
      PROVE  LateInv'
  <2>0. late' \subseteq late \cup Waiting(c) /\ pc' = [pc EXCEPT ![c] = "done"]
    BY <1>14 DEF Drop, Goto, Unanswered
  <2>1. \A s \in late' : pc'[s.by] \in {"undo", "done"}
    BY <2>0, WaitingIsNew DEF Statements
  <2> QED
    BY <1>14, <2>0, <2>1, LateGrows DEF Drop
<1>15. ASSUME NEW s \in late, RunLate(s)
      PROVE  LateInv'
  BY <1>15 DEF RunLate, Inserted, Reservation, Updated, Statements, progress, hist
<1>16. CASE Crash
  <2>0. late' \subseteq late \cup UNION {Waiting(c) : c \in Calls}
    BY <1>16 DEF Crash
  <2>1. ASSUME NEW s \in late'
        PROVE  pc'[s.by] \in {"undo", "done"}
    <3>1. CASE s \in late
      BY <1>16, <3>1 DEF Crash, Statements
    <3>2. CASE \E c \in Calls : s \in Waiting(c)
      BY <1>16, <3>2, WaitingIs DEF Crash, InProgress, Busy
    <3> QED
      BY <2>0, <3>1, <3>2
  <2> QED
    BY <1>16, <2>0, <2>1, LateGrows DEF Crash
<1>17. CASE Cleanup
  <2>1. \A s \in late : s.verb = "insert"
    BY <1>17, InTime DEF Cleanup, Entries
  <2> QED
    BY <1>17, <2>1 DEF Cleanup, progress, hist
<1>18. CASE Tick
  <2>1. \A s \in late : s.at \in Nat /\ now - s.at < Deadline
    BY <1>18 DEF Tick, Statements
  <2>2. \A s \in late : s.at <= now' /\ now' - s.at <= Deadline
    BY <1>18, <2>1 DEF Tick
  <2> QED
    BY <1>18, <2>2 DEF Tick, progress, tiers, hist
<1>19. CASE UNCHANGED vars
  BY <1>19 DEF vars, progress, tiers, hist
<1> QED
  BY <1>1, <1>2, <1>3, <1>4, <1>5, <1>6, <1>7, <1>8, <1>9, <1>10, <1>11, <1>12, <1>13, <1>14, <1>15, <1>16, <1>17, <1>18, <1>19 DEF Next, CallStep

\* So every step keeps the invariant,
LEMMA StepInv == IInv /\ [Next]_vars => IInv'
<1> SUFFICES ASSUME IInv, [Next]_vars
             PROVE  IInv'
  OBVIOUS
<1>1. TypeOK'
  BY StepType DEF IInv
<1> QED
  BY <1>1, StepTime, StepKeyless, StepTold, StepOwner, StepNames, StepLate DEF IInv

\* and it holds in every state.
LEMMA Invariance == Spec => []IInv
BY InitInv, StepInv, PTL DEF Spec

-----------------------------------------------------------------------------
(* What follows from it *)

\* A call that is answered with an order id is answered with an order that
\* was accepted for the key, through either tier and over crashes.
THEOREM AnswersNameOrders == Spec => []AnswersAreOrders
<1>1. IInv => AnswersAreOrders
  BY DEF IInv, NamesInv, HasOrder, AnswersAreOrders
<1> QED
  BY Invariance, <1>1, PTL

\* A row with an order changes only when it has expired.
LEMMA CommittedStays ==
    ASSUME IInv, Next, row.order # NoCall, row' # row
    PROVE  now - row.at > TTL
<1> USE ConstantsAssumption, AbsentIsEntry
<1>1. row # Absent /\ row.order = row.by /\ HasOrder(row.by) /\ row.by \in Keyed
  BY DEF IInv, NamesInv
<1>2. ASSUME NEW c \in Calls, CallStep(c)
      PROVE  row' = row
  <2>1. CASE Reserve(c)
    BY <1>1, <2>1 DEF Reserve
  <2>2. CASE Commit(c)
    <3>1. row.by = c
      BY <2>2, OwnersRow DEF Commit, Busy, Owning
    <3>2. Updated(c) = row
      BY <1>1, <3>1 DEF Updated, IInv, TypeOK, Entries
    <3> QED
      BY <2>2, <3>2 DEF Commit, Write
  <2>3. CASE Release(c)
    <3>1. row.by = c /\ c \in Keyed /\ ~ HasOrder(c)
      BY <2>3, OwnersRow DEF Release, Busy, Owning, Without, IInv, OwnerInv
    <3> QED
      BY <1>1, <3>1
  <2>4. CASE Invalid(c) \/ ArriveKeyless(c) \/ Arrive(c) \/ Check(c) \/ Learn(c) \/ Undo(c)
    BY <2>4 DEF Invalid, ArriveKeyless, Arrive, Check, Learn, Undo, tiers
  <2>5. CASE Accept(c) \/ Refuse(c) \/ Remember(c) \/ Forget(c) \/ Drop(c)
    BY <2>5 DEF Accept, Refuse, Remember, Forget, Drop, tiers
  <2> QED
    BY <1>2, <2>1, <2>2, <2>3, <2>4, <2>5 DEF CallStep
<1>3. ASSUME NEW s \in late, RunLate(s)
      PROVE  row' = row
  <2>1. CASE s.verb = "insert"
    BY <1>1, <1>3, <2>1 DEF RunLate, Inserted
  <2>2. CASE s.verb = "update"
    <3>1. row.by = s.by
      BY <2>2, OwnersRow
    <3>2. Updated(s.by) = row
      BY <1>1, <3>1 DEF Updated, IInv, TypeOK, Entries
    <3> QED
      BY <1>3, <2>2, <3>2 DEF RunLate
  <2>3. CASE s.verb = "delete"
    <3>1. row.by = s.by /\ ~ HasOrder(s.by)
      BY <2>3, OwnersRow DEF IInv, LateInv
    <3> QED
      BY <1>1, <3>1
  <2> QED
    BY <2>1, <2>2, <2>3 DEF IInv, TypeOK, Statements
<1>4. CASE Crash
  BY <1>4 DEF Crash
<1>5. CASE Cleanup
  BY <1>5 DEF Cleanup
<1>6. CASE Tick
  BY <1>6 DEF Tick, tiers
<1> QED
  BY <1>2, <1>3, <1>4, <1>5, <1>6 DEF Next

\* A key that has its order is not forgotten or given to another order within
\* the window, whatever fails.
THEOREM CommittedKeysStay == Spec => CommittedUntilExpiry
<1>1. IInv /\ [Next]_vars => [row.order # NoCall /\ row' # row => now - row.at > TTL]_vars
  BY CommittedStays
<1> QED
  BY Invariance, <1>1, PTL DEF Spec, CommittedUntilExpiry

-----------------------------------------------------------------------------
(* The refinement *)

\* The mapping: the row as a lease, and what ended calls were told.
Held == [by |-> row.by, at |-> row.at]
Told == [c \in Keyed |-> IF pc[c] = "done" THEN told[c] ELSE NoCall]

\* No lease is held when there is no row.
LEMMA HeldIs ==
    ASSUME IInv
    PROVE  Held = Lease!NoLease <=> row = Absent
<1>1. row = Absent => row.by = NoCall /\ row.at = 0
  BY DEF Absent
<1> QED
  BY <1>1 DEF Held, Lease!NoLease, IInv, NamesInv

\* A step that leaves the lease and the orders alone ends at most one call,
\* which is told no order or one that was accepted.
LEMMA AnswerStep ==
    ASSUME IInv, IInv', UNCHANGED <<now, orders, Held>>, NEW c \in Calls,
           pc[c] # "done",
           \A d \in Keyed : d # c => pc'[d] = pc[d] /\ told'[d] = told[d]
    PROVE  [Lease!LeaseNext]_(Lease!leaseVars)
<1>1. \A d \in Keyed : d # c => Told'[d] = Told[d]
  BY DEF Told
<1>2. CASE Told' = Told
  BY <1>2 DEF Lease!leaseVars, Held, Told
<1>3. CASE Told' # Told
  <2>1. c \in Keyed /\ Told'[c] # Told[c]
    BY <1>1, <1>3 DEF Told
  <2>2. Told[c] = NoCall /\ Told'[c] = told'[c] /\ told'[c] # NoCall
    BY <2>1 DEF Told
  <2>3. PICK o \in orders : o.by = told'[c]
    BY <2>1, <2>2 DEF IInv, NamesInv, HasOrder
  <2>4. Told' = [Told EXCEPT ![c] = o.by]
    BY <1>1, <2>1, <2>2, <2>3 DEF Told
  <2>5. Lease!Answer(c)
    BY <2>3, <2>4 DEF Lease!Answer, Held, Told
  <2> QED
    BY <2>1, <2>5 DEF Lease!LeaseNext
<1> QED
  BY <1>2, <1>3

\* A step of a call is a step of the lease, or none,
LEMMA CallStepRefines ==
    ASSUME IInv, IInv', NEW c \in Calls, CallStep(c)
    PROVE  [Lease!LeaseNext]_(Lease!leaseVars)
<1> USE ConstantsAssumption, AbsentIsEntry
<1>1. TypeOK
  BY DEF IInv
<1>2. pc[c] # "done" /\ \A d \in Keyed : d # c => pc'[d] = pc[d] /\ told'[d] = told[d]
  BY <1>1 DEF CallStep, Invalid, ArriveKeyless, Arrive, HitOrder, HitPlaceholder, Miss, Check, Learn,
     Reserve, Undo, Accept, Refuse, Remember, Commit, Forget, Release, Drop, Write, InProgress, Busy,
     Goto, Tell, TypeOK, Keyed
<1>3. CASE UNCHANGED <<now, orders, Held>>
  BY <1>2, <1>3, AnswerStep
<1>4. CASE Reserve(c)
  <2>1. c \in Keyed
    BY <1>4, OwnersRow DEF Reserve, Busy
  <2>2. CASE row = Absent /\ row' = Inserted(c) /\ Goto(c, "submit")
    <3>1. Held = Lease!NoLease /\ Held' = [by |-> c, at |-> now]
      BY <2>2, HeldIs, ReservationIs DEF Held, Inserted
    <3>2. Told' = Told
      BY <1>1, <1>4, <2>2 DEF Told, Reserve, Goto, TypeOK, Keyed
    <3>3. Lease!Acquire(c)
      BY <1>4, <3>1, <3>2 DEF Lease!Acquire, Reserve, Held, Told
    <3> QED
      BY <2>1, <3>3 DEF Lease!LeaseNext
  <2>3. CASE row' = row
    BY <1>3, <1>4, <2>3 DEF Reserve, Held
  <2> QED
    BY <1>4, <2>2, <2>3 DEF Reserve
<1>5. CASE Accept(c)
  <2>1. CASE c \in Keyless
    BY <1>3, <1>5, <2>1 DEF Accept, Held, tiers
  <2>2. CASE c \in Keyed
    <3>1. Held.by = c /\ Held = [by |-> c, at |-> row.at]
      BY <1>5, <2>2 DEF Accept, IInv, OwnerInv, Owning, Held
    <3>2. orders' = orders \cup {Held} /\ Held' = Held
      BY <1>5, <2>2, <3>1 DEF Accept, Keyed, tiers, Held
    <3>3. Told' = Told
      BY <1>1, <1>2, <1>5, <2>2 DEF Told, Accept, Goto, TypeOK, Keyed
    <3>4. Lease!Execute(c)
      BY <1>5, <3>1, <3>2, <3>3 DEF Lease!Execute, Accept, Held, Told
    <3> QED
      BY <2>2, <3>4 DEF Lease!LeaseNext
  <2> QED
    BY <2>1, <2>2 DEF Keyed
<1>6. CASE Commit(c)
  <2>1. row'.by = row.by /\ row'.at = row.at
    BY <1>1, <1>6, UpdatedIs DEF Commit, Write
  <2> QED
    BY <1>3, <1>6, <2>1 DEF Commit, Write, Held
<1>7. CASE Release(c)
  <2>1. c \in Keyed /\ Held.by = c /\ ~ HasOrder(c) /\ told[c] = NoCall
    BY <1>7, OwnersRow DEF Release, Busy, Held, IInv, OwnerInv, Owning, Without, ToldInv
  <2>2. CASE row' = row
    BY <1>3, <1>7, <2>2 DEF Release, Write, Held
  <2>3. CASE row' = Absent
    <3>1. Held' = Lease!NoLease
      BY <2>3 DEF Held, Absent, Lease!NoLease
    <3>2. Told' = Told
      BY <1>1, <1>2, <1>7, <2>1 DEF Told, Release, Write, Goto, TypeOK, Keyed
    <3>3. Held \notin orders
      BY <2>1 DEF HasOrder
    <3>4. Lease!GiveBack(c)
      BY <1>7, <2>1, <3>1, <3>2, <3>3 DEF Lease!GiveBack, Release, Write, Held, Told
    <3> QED
      BY <2>1, <3>4 DEF Lease!LeaseNext
  <2> QED
    BY <1>7, <2>2, <2>3 DEF Release, Write
<1>8. CASE Invalid(c) \/ ArriveKeyless(c) \/ Arrive(c) \/ Check(c) \/ Learn(c) \/ Undo(c)
  BY <1>3, <1>8 DEF Invalid, ArriveKeyless, Arrive, Check, Learn, Undo, tiers, hist, Held
<1>9. CASE Refuse(c) \/ Remember(c) \/ Forget(c) \/ Drop(c)
  BY <1>3, <1>9 DEF Refuse, Remember, Forget, Drop, tiers, hist, Held
<1> QED
  BY <1>4, <1>5, <1>6, <1>7, <1>8, <1>9 DEF CallStep

\* and so is a late statement.
LEMMA LateRefines ==
    ASSUME IInv, NEW s \in late, RunLate(s)
    PROVE  [Lease!LeaseNext]_(Lease!leaseVars)
<1> USE ConstantsAssumption, AbsentIsEntry
<1>1. s.by \in Keyed /\ s.by \in Calls /\ s.verb \in {"insert", "update", "delete"} /\ TypeOK
  BY DEF IInv, TypeOK, LateInv, Statements
<1>2. UNCHANGED <<now, orders, Told>>
  BY DEF RunLate, progress, hist, Told
<1>3. CASE Held' = Held
  BY <1>2, <1>3 DEF Lease!leaseVars, Held, Told
<1>4. CASE s.verb = "insert"
  <2>1. CASE row = Absent
    <3>1. Held = Lease!NoLease /\ Held' = [by |-> s.by, at |-> now]
      BY <1>1, <1>4, <2>1, HeldIs, ReservationIs DEF RunLate, Held, Inserted
    <3>2. Lease!Acquire(s.by)
      BY <1>2, <3>1 DEF Lease!Acquire, Held, Told
    <3> QED
      BY <1>1, <3>2 DEF Lease!LeaseNext
  <2>2. CASE row # Absent
    BY <1>3, <1>4, <2>2 DEF RunLate, Inserted, Held
  <2> QED
    BY <2>1, <2>2
<1>5. CASE s.verb = "update"
  BY <1>1, <1>3, <1>5, UpdatedIs DEF RunLate, Held
<1>6. CASE s.verb = "delete"
  <2>1. Held.by = s.by /\ ~ HasOrder(s.by)
    BY <1>6, OwnersRow DEF Held, IInv, LateInv
  <2>2. Held' = Lease!NoLease
    BY <1>6 DEF RunLate, Held, Absent, Lease!NoLease
  <2>3. Held \notin orders
    BY <2>1 DEF HasOrder
  <2>4. Lease!GiveBack(s.by)
    BY <1>2, <2>1, <2>2, <2>3 DEF Lease!GiveBack, Held, Told
  <2> QED
    BY <1>1, <2>4 DEF Lease!LeaseNext
<1> QED
  BY <1>1, <1>4, <1>5, <1>6

\* Every step of the two tiers is one of the lease, or none.
LEMMA StepRefines == IInv /\ IInv' /\ [Next]_vars => [Lease!LeaseNext]_(Lease!leaseVars)
<1> SUFFICES ASSUME IInv, IInv', [Next]_vars
             PROVE  [Lease!LeaseNext]_(Lease!leaseVars)
  OBVIOUS
<1>1. CASE Crash
  <2>1. UNCHANGED <<now, orders, Held>>
    BY <1>1 DEF Crash, Held
  <2>2. \A c \in Keyed : Told'[c] = Told[c]
    BY <1>1 DEF Crash, Told, IInv, TypeOK, Keyed, InProgress, Busy
  <2>3. Told' = Told
    BY <2>2 DEF Told
  <2> QED
    BY <2>1, <2>3 DEF Lease!leaseVars, Held, Told
<1>2. CASE Cleanup
  <2>1. Held # Lease!NoLease /\ now - Held.at > TTL
    BY <1>2, HeldIs DEF Cleanup, Held
  <2>2. Held' = Lease!NoLease
    BY <1>2 DEF Cleanup, Held, Absent, Lease!NoLease
  <2>3. Lease!Expire
    BY <1>2, <2>1, <2>2 DEF Lease!Expire, Cleanup, progress, hist, Held, Told
  <2> QED
    BY <2>3 DEF Lease!LeaseNext
<1>3. CASE Tick
  BY <1>3 DEF Tick, progress, tiers, hist, Lease!LeaseNext, Lease!Tick
<1>4. CASE UNCHANGED vars
  BY <1>4 DEF vars, progress, tiers, hist, Lease!leaseVars
<1> QED
  BY <1>1, <1>2, <1>3, <1>4, CallStepRefines, LateRefines DEF Next

\* No row is no lease.
LEMMA InitRefines == Init => Lease!LeaseInit
BY DEF Init, Lease!LeaseInit, Lease!NoLease, Absent, Keyed

\* The in-memory cache and the table together implement the lease: every step
\* of the calls, the crash, the cleanup and the late statements is a step of
\* AtMostOnce or none.
THEOREM TiersImplementLease == Spec => ImplementsLease
BY InitRefines, StepRefines, Invariance, PTL DEF Spec, ImplementsLease, Lease!LeaseSpec

\* What is proved of the lease holds of the row.
Facts == INSTANCE AtMostOnceProofs WITH
    Calls <- Keyed,
    lease <- [by |-> row.by, at |-> row.at],
    told  <- [c \in Keyed |-> IF pc[c] = "done" THEN told[c] ELSE NoCall]

\* Two orders for one key were reserved more than TTL apart, for any number of
\* calls, crashes and late statements.
THEOREM OneOrderPerKey == Spec => []OneOrderPerWindow
<1>1. Lease!LeaseSpec => Facts!LeaseSpec
  <2>1. Lease!LeaseInit <=> Facts!LeaseInit
    BY DEF Lease!LeaseInit, Facts!LeaseInit, Lease!NoLease, Facts!NoLease
  <2>2. [Lease!LeaseNext]_(Lease!leaseVars) <=> [Facts!LeaseNext]_(Facts!leaseVars)
    BY DEF Lease!LeaseNext, Facts!LeaseNext, Lease!leaseVars, Facts!leaseVars,
           Lease!NoLease, Facts!NoLease, Lease!Acquire, Facts!Acquire,
           Lease!Execute, Facts!Execute, Lease!GiveBack, Facts!GiveBack,
           Lease!Answer, Facts!Answer, Lease!Expire, Facts!Expire,
           Lease!Tick, Facts!Tick
  <2> QED
    BY <2>1, <2>2, PTL DEF Lease!LeaseSpec, Facts!LeaseSpec
<1>2. NoCall \notin Keyed /\ TTL \in Nat
  BY ConstantsAssumption DEF Keyed
<1>3. Facts!LeaseSpec => []Facts!OrdersApart
  BY <1>2, Facts!LeaseKeepsOrdersApart DEF Facts!LeaseAssumption
<1>4. Facts!OrdersApart <=> OneOrderPerWindow
  BY DEF Facts!OrdersApart, OneOrderPerWindow, Lease!OrdersApart
<1> QED
  BY TiersImplementLease, <1>1, <1>3, <1>4, PTL DEF ImplementsLease
=============================================================================

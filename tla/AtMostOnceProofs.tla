--------------------------- MODULE AtMostOnceProofs ---------------------------
\* That the lease keeps orders apart.
EXTENDS AtMostOnce, TLAPS

\* The types of the lease.
LeaseType ==
    /\ now \in Nat
    /\ lease \in [by : Calls \cup {NoCall}, at : Nat]
    /\ orders \in SUBSET [by : Calls, at : Nat]

\* Every order was made under the lease that is held, or under one that had
\* run out when this one was taken; with no lease held, all have run out.
LeaseInv ==
    /\ LeaseType
    /\ lease.by = NoCall => lease = NoLease
    /\ lease # NoLease =>
         /\ lease.at <= now
         /\ \A o \in orders : o = lease \/ lease.at - o.at > TTL
    /\ lease = NoLease => \A o \in orders : now - o.at > TTL
    /\ OrdersApart

\* At the start nobody holds the lease.
LEMMA InitLease == LeaseAssumption /\ LeaseInit => LeaseInv
BY DEF LeaseAssumption, LeaseInit, LeaseInv, LeaseType, NoLease, OrdersApart

\* Neither an order nor a lease that is taken or runs out breaks LeaseInv.
LEMMA StepLease == LeaseAssumption /\ LeaseInv /\ [LeaseNext]_leaseVars => LeaseInv'
<1> SUFFICES ASSUME LeaseAssumption, LeaseInv, [LeaseNext]_leaseVars
             PROVE  LeaseInv'
  OBVIOUS
<1> USE DEF LeaseAssumption, LeaseInv, LeaseType
<1>1. ASSUME NEW c \in Calls, Acquire(c)
      PROVE  LeaseInv'
  BY <1>1 DEF Acquire, NoLease, OrdersApart
<1>2. ASSUME NEW c \in Calls, Execute(c)
      PROVE  LeaseInv'
  <2>1. lease # NoLease
    BY <1>2 DEF Execute, NoLease
  <2>2. lease \in [by : Calls, at : Nat]
    BY <1>2 DEF Execute
  <2>3. OrdersApart'
    BY <1>2, <2>1, <2>2 DEF Execute, OrdersApart
  <2> QED
    BY <1>2, <2>1, <2>2, <2>3 DEF Execute
<1>3. ASSUME NEW c \in Calls, GiveBack(c)
      PROVE  LeaseInv'
  <2>1. lease # NoLease
    BY <1>3 DEF GiveBack, NoLease
  <2>2. \A o \in orders : now - o.at > TTL
    <3> TAKE o \in orders
    <3>1. lease.at - o.at > TTL /\ lease.at <= now
      BY <1>3, <2>1 DEF GiveBack
    <3> QED
      BY <3>1
  <2> QED
    BY <1>3, <2>2 DEF GiveBack, NoLease, OrdersApart
<1>4. ASSUME NEW c \in Calls, Answer(c)
      PROVE  LeaseInv'
  BY <1>4 DEF Answer, OrdersApart
<1>5. CASE Expire
  <2>1. \A o \in orders : now - o.at > TTL
    BY <1>5 DEF Expire
  <2> QED
    BY <1>5, <2>1 DEF Expire, NoLease, OrdersApart
<1>6. CASE Tick
  BY <1>6 DEF Tick, OrdersApart
<1>7. CASE UNCHANGED leaseVars
  BY <1>7 DEF leaseVars, OrdersApart
<1> QED
  BY <1>1, <1>2, <1>3, <1>4, <1>5, <1>6, <1>7 DEF LeaseNext

\* One order in a window: two orders for one idempotency key come from
\* reservations more than TTL apart.
THEOREM LeaseKeepsOrdersApart ==
    ASSUME LeaseAssumption
    PROVE  LeaseSpec => []OrdersApart
<1>1. LeaseInv => OrdersApart
  BY DEF LeaseInv
<1> QED
  BY InitLease, StepLease, <1>1, PTL DEF LeaseSpec
=============================================================================

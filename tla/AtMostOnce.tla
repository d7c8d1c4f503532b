------------------------------ MODULE AtMostOnce ------------------------------
(***************************************************************************)
(* What the idempotency key of SubmitOrder promises, without the tiers     *)
(* that implement it: calls that carry the key compete for a lease, only   *)
(* the call that holds the lease may turn into an order, the lease is      *)
(* given back only if it did not, and it runs out no sooner than TTL after *)
(* it was taken.  A call that is answered with an order id is answered     *)
(* with one of the orders made.                                            *)
(***************************************************************************)
EXTENDS Integers

CONSTANTS
    Calls,    \* the calls that carry one idempotency key
    NoCall,   \* nobody
    TTL       \* the deduplication window

\* What the constants are assumed to be.
LeaseAssumption == NoCall \notin Calls /\ TTL \in Nat

VARIABLES
    now,      \* the clock
    lease,    \* who holds the lease, and since when
    orders,   \* the orders made: by whom, under the lease of which time
    told      \* [Calls -> Calls \cup {NoCall}]: the order each call is answered with

leaseVars == <<now, lease, orders, told>>

NoLease == [by |-> NoCall, at |-> 0]

LeaseInit ==
    /\ now = 0
    /\ lease = NoLease
    /\ orders = {}
    /\ told = [c \in Calls |-> NoCall]

\* A call, or what is left of one, takes the lease when nobody has it.
Acquire(c) ==
    /\ lease = NoLease
    /\ lease' = [by |-> c, at |-> now]
    /\ UNCHANGED <<now, orders, told>>

Execute(c) ==
    /\ lease.by = c
    /\ orders' = orders \cup {lease}
    /\ UNCHANGED <<now, lease, told>>

GiveBack(c) ==
    /\ lease.by = c
    /\ lease \notin orders
    /\ lease' = NoLease
    /\ UNCHANGED <<now, orders, told>>

Expire ==
    /\ lease # NoLease
    /\ now - lease.at > TTL
    /\ lease' = NoLease
    /\ UNCHANGED <<now, orders, told>>

Answer(c) ==
    /\ \E o \in orders : told' = [told EXCEPT ![c] = o.by]
    /\ UNCHANGED <<now, lease, orders>>

Tick ==
    /\ now' = now + 1
    /\ UNCHANGED <<lease, orders, told>>

LeaseNext ==
    \/ \E c \in Calls : Acquire(c) \/ Execute(c) \/ GiveBack(c) \/ Answer(c)
    \/ Expire
    \/ Tick

LeaseSpec == LeaseInit /\ [][LeaseNext]_leaseVars

-----------------------------------------------------------------------------
\* One order in a window: the leases under which two orders were made were
\* taken more than TTL apart.  This is the deduplication that SubmitOrder's
\* idempotency key is for.
OrdersApart ==
    \A o, p \in orders : o = p \/ o.at - p.at > TTL \/ p.at - o.at > TTL
=============================================================================

-------------------------- MODULE AddressAllocator --------------------------
(***************************************************************************)
(* What the address pool promises, without saying how: addresses are       *)
(* imported once, and an order is given one imported address that no order *)
(* was ever given before.  AddressReservation and OrderLifecycle are shown *)
(* to implement it.                                                        *)
(***************************************************************************)
CONSTANTS
    Addresses,   \* TRON addresses that may be imported
    Orders,      \* orders that need a deposit address
    NoAddress    \* the order has none

VARIABLES
    pool,        \* imported addresses
    assigned     \* the address each order was given

vars == <<pool, assigned>>

Init ==
    /\ pool \subseteq Addresses
    /\ assigned = [o \in Orders |-> NoAddress]

Import(batch) ==
    /\ batch \cap pool = {}
    /\ pool' = pool \cup batch
    /\ UNCHANGED assigned

Allocate(o, a) ==
    /\ assigned[o] = NoAddress
    /\ a \in pool
    /\ \A other \in Orders : assigned[other] # a
    /\ assigned' = [assigned EXCEPT ![o] = a]
    /\ UNCHANGED pool

Next ==
    \/ \E batch \in SUBSET Addresses : Import(batch)
    \/ \E o \in Orders, a \in Addresses : Allocate(o, a)

Spec == Init /\ [][Next]_vars

\* No two orders are given the same address.
AddressesAreExclusive ==
    \A o, other \in Orders :
        assigned[o] = assigned[other] /\ assigned[o] # NoAddress => o = other
=============================================================================

------------------------ MODULE MCAddressReservation ------------------------
(***************************************************************************)
(* Small instances of AddressReservation: addresses are their own          *)
(* derivation indexes, one customer sends the first two requests, and the  *)
(* last two requests generated the same public id.                         *)
(***************************************************************************)
EXTENDS AddressReservation, TLC

CONSTANTS r1, r2, r3, r4, u1, u2, u3, o1, o2, o3

MCRequests == {r1, r2, r3, r4}
MCDerivationIndex == [a \in Addresses |-> a]
MCUserOf == (r1 :> u1) @@ (r2 :> u1) @@ (r3 :> u2) @@ (r4 :> u3)
MCPublicIdOf == (r1 :> o1) @@ (r2 :> o2) @@ (r3 :> o3) @@ (r4 :> o3)
=============================================================================

-------------------------- MODULE MCOrderLifecycle --------------------------
(***************************************************************************)
(* Small instances of OrderLifecycle for TLC: the amounts are an exact and *)
(* a wrong one, and everything but the two kinds of order is symmetric.    *)
(***************************************************************************)
EXTENDS ReplayDryRun, TLC

CONSTANTS exact, wrong

MCAmountUsdt == [o \in SellOrders |-> exact]

Symmetry ==
    UNION {Permutations(S) :
             S \in {SellOrders, BuyOrders, Addresses, TransferIds, PayoutTxIds,
                    Managers, Expirers, Ingesters}}
=============================================================================

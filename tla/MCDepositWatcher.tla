-------------------------- MODULE MCDepositWatcher --------------------------
(***************************************************************************)
(* Small instances of DepositWatcher: addresses are their own derivation   *)
(* indexes, and the cursor starts at block 0 or at block 1.                *)
(***************************************************************************)
EXTENDS DepositWatcher, TLC

CONSTANTS exact, wrong, Depth, BlockRange, StartBlocks

MCAmountUsdt == [o \in SellOrders |-> exact]

MCDerivationIndex == [a \in Addresses |-> a]

MCCursorConfigs ==
    {[lastProcessedBlock |-> b, confirmationDepth |-> Depth,
      maxBlockRange |-> BlockRange] : b \in StartBlocks}

Symmetry ==
    UNION {Permutations(S) : S \in {SellOrders, Managers, Expirers, Ingesters}}
=============================================================================

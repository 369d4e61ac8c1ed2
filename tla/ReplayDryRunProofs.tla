------------------------- MODULE ReplayDryRunProofs -------------------------
(***************************************************************************)
(* Theorems about ReplayDryRun, for any number of orders, addresses,       *)
(* transfers and concurrent transactions: the dry run reports what the     *)
(* ingestion would do, and no order drops out of the lists.                *)
(***************************************************************************)
EXTENDS ReplayDryRun, OrderLifecycleProofs

\* The rows the dry run starts from are those the ingestion accepts.
LEMMA SameRows ==
    ASSUME NEW t \in chain, NEW o \in SellOrders, TypeOK, t.toAddress \in Addresses
    PROVE  /\ t.toAddress \in WatchedByReplay
                <=> addressStatus[t.toAddress] \in OpenAddressStatuses
           /\ o \in OrdersOfAddress(t.toAddress) <=> depositAddress[o] = t.toAddress
           /\ OpenForReplayIngestion = OpenOrderStatuses
BY DEF WatchedByReplay, OrdersOfAddress, OpenForReplayIngestion, OpenAddressStatuses,
   OpenOrderStatuses, Orders

\* The two classifications agree on the rows of one transfer and one order.
LEMMA SameDecision ==
    ASSUME NEW t \in chain, NEW o \in SellOrders, TypeOK
    PROVE  ClassifyReplayTransfer(t, o) =
             IF /\ t.blockTimestamp >= reservedAt[t.toAddress]
                /\ addressStatus[t.toAddress] \in OpenAddressStatuses
                /\ status[o] \in OpenOrderStatuses
             THEN DecideNextOrderStatus(status[o], t.amount, AmountUsdt[o],
                                        t.blockTimestamp, orderExpiresAt[o])
             ELSE "none"
<1>1. t \in Transfer /\ o \in Orders
  BY DEF TypeOK, Orders
<1>2. /\ t.blockTimestamp \in Nat /\ t.toAddress \in Addresses
      /\ reservedAt[t.toAddress] \in Nat /\ orderExpiresAt[o] \in Nat
  BY <1>1 DEF Transfer, TypeOK
<1> QED
  BY <1>2, SameRows
     DEF ClassifyReplayTransfer, DecideNextOrderStatus, OpenOrderStatuses

\* In every reachable state the dry run reports exactly the ingestions that
\* would happen, each with the status its order would get.
THEOREM ReplayAgrees == Spec => []ReplayAgreesWithIngestion
<1>1. IInv => ReplayAgreesWithIngestion
  <2> SUFFICES ASSUME IInv, NEW t \in chain, NEW o \in SellOrders
               PROVE  IF AcceptedOnRead(t, o)
                      THEN [transfer |-> t, order |-> o, nextOrderStatus |->
                              DecideNextOrderStatus(status[o], t.amount, AmountUsdt[o],
                                                    t.blockTimestamp, orderExpiresAt[o])]
                              \in ReplayMatches
                      ELSE \A m \in ReplayMatches :
                              m.transfer = t /\ m.order = o => m.nextOrderStatus = "none"
    BY DEF ReplayAgreesWithIngestion
  <2>1. TypeOK
    BY DEF IInv
  <2>2. t.toAddress \in Addresses
    BY <2>1 DEF TypeOK, Transfer
  <2>3. CASE AcceptedOnRead(t, o)
    <3>1. <<t, o>> \in {p \in chain \X SellOrders :
                          /\ p[1].toAddress \in WatchedByReplay
                          /\ p[2] \in OrdersOfAddress(p[1].toAddress)}
      BY <2>1, <2>2, <2>3, SameRows DEF AcceptedOnRead
    <3>2. [transfer |-> t, order |-> o, nextOrderStatus |-> ClassifyReplayTransfer(t, o)]
            \in ReplayMatches
      BY <3>1 DEF ReplayMatches
    <3> QED
      BY <2>1, <2>3, <3>2, SameDecision DEF AcceptedOnRead
  <2>4. ASSUME ~AcceptedOnRead(t, o), NEW m \in ReplayMatches, m.transfer = t, m.order = o
        PROVE  m.nextOrderStatus = "none"
    <3>1. /\ m.nextOrderStatus = ClassifyReplayTransfer(t, o)
          /\ o \in OrdersOfAddress(t.toAddress)
      BY <2>4 DEF ReplayMatches
    <3>2. depositAddress[o] = t.toAddress
      BY <3>1 DEF OrdersOfAddress
    <3> QED
      BY <2>1, <2>4, <3>1, <3>2, SameDecision DEF AcceptedOnRead
  <2> QED
    BY <2>3, <2>4
<1> QED
  BY <1>1, Inductive, PTL

\* An order never becomes a draft, the one status neither list shows: no
\* service creates one, and managers and ingestion cannot set it.
NoDrafts == \A o \in Orders : status[o] # "draft"

LEMMA NoDraftsKept == TypeOK /\ NoDrafts /\ [Next]_vars => NoDrafts'
<1> SUFFICES ASSUME TypeOK, NoDrafts, [Next]_vars PROVE NoDrafts'
  OBVIOUS
<1>1. CASE UNCHANGED status
  BY <1>1 DEF NoDrafts
<1>2. ASSUME NEW o \in Orders, NEW s, s # "draft", status' = [status EXCEPT ![o] = s]
      PROVE  NoDrafts'
  BY <1>2 DEF NoDrafts, TypeOK
<1>3. CASE Environment
  BY <1>1, <1>3 DEF Environment, Tick, SendTransfer, orderVars
<1>4. CASE Customer
  BY <1>2, <1>4 DEF Customer, CreateSellUsdtOrder, CreateBuyUsdtOrder, Orders
<1>5. ASSUME NEW m \in Managers, Manager(m)
      PROVE  NoDrafts'
  <2>1. CASE ManagerWriteStatus(m)
    <3>1. managerTxn[m] \in StatusTxn
      BY <2>1, TxnKinds DEF ManagerWriteStatus
    <3> QED
      BY <1>2, <2>1, <3>1 DEF ManagerWriteStatus, StatusTxn, ManagerSettable
  <2>2. CASE ManagerWritePayout(m)
    <3>1. managerTxn[m] \in PayoutTxn
      BY <2>2, TxnKinds DEF ManagerWritePayout
    <3> QED
      BY <1>2, <2>2, <3>1 DEF ManagerWritePayout, PayoutTxn, Orders
  <2>3. CASE UNCHANGED status
    BY <1>1, <2>3
  <2> QED
    BY <1>5, <2>1, <2>2, <2>3
       DEF Manager, ManagerReadStatus, ManagerReadPayout, ManagerRollback, orderVars
<1>6. ASSUME NEW x \in Expirers, Expirer(x)
      PROVE  NoDrafts'
  <2>1. CASE ExpireWrite(x)
    BY <2>1 DEF ExpireWrite, NoDrafts
  <2> QED
    BY <1>1, <1>6, <2>1 DEF Expirer, ExpireRead, ExpireRollback, orderVars
<1>7. ASSUME NEW w \in Ingesters, Ingester(w)
      PROVE  NoDrafts'
  <2>1. CASE IngestWrite(w)
    <3> DEFINE txn == ingestTxn[w]
               next == DecideNextOrderStatus(txn.seenOrder, txn.transfer.amount,
                         AmountUsdt[txn.order], txn.transfer.blockTimestamp,
                         orderExpiresAt[txn.order])
    <3>1. txn \in IngestTxn
      BY <2>1, TxnKinds DEF IngestWrite
    <3>2. next # "draft" /\ txn.order \in Orders
      BY <3>1 DEF DecideNextOrderStatus, IngestTxn, OpenOrderStatuses, Orders
    <3>3. status' = [status EXCEPT ![txn.order] = next]
      BY <2>1 DEF IngestWrite
    <3> HIDE DEF next
    <3> QED
      BY <1>2, <3>2, <3>3
  <2> QED
    BY <1>1, <1>7, <2>1 DEF Ingester, IngestRead, IngestRollback, orderVars
<1> QED
  BY <1>1, <1>3, <1>4, <1>5, <1>6, <1>7 DEF Next, vars, orderVars

\* Whatever transactions led to its status, an order that exists is in exactly
\* one of the two lists.
THEOREM ListedOnce == Spec => []EveryOrderIsListedOnce
<1>1. Init => NoDrafts
  BY DEF Init, NoDrafts
<1>2. TypeOK /\ NoDrafts => EveryOrderIsListedOnce
  BY DEF TypeOK, NoDrafts, EveryOrderIsListedOnce, Created, OrderStatus,
     ActiveOrderStatuses, HistoryOrderStatuses
<1> QED
  BY <1>1, <1>2, NoDraftsKept, TypeCorrect, PTL DEF Spec
=============================================================================

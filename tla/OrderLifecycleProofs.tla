------------------------ MODULE OrderLifecycleProofs ------------------------
(***************************************************************************)
(* Theorems about OrderLifecycle, for any number of orders, addresses,     *)
(* transfers, managers, expiration runs and ingestions.                    *)
(***************************************************************************)
EXTENDS OrderLifecycle, TLAPS

(***************************************************************************)
(* The decision of the ingestion: what each of its outcomes implies.       *)
(***************************************************************************)
LEMMA DecisionLemma ==
    ASSUME NEW seen \in OpenOrderStatuses, NEW amount, NEW expected,
           NEW timestamp \in Nat, NEW deadline \in Nat,
           NEW next,
           next = DecideNextOrderStatus(seen, amount, expected, timestamp, deadline)
    PROVE  /\ next \in {"manager_review", "late_payment", "funds_detected"}
           /\ next = "funds_detected" => amount = expected /\ timestamp <= deadline
BY DEF DecideNextOrderStatus, OpenOrderStatuses

-----------------------------------------------------------------------------
(* Type correctness.                                                       *)

\* Transactions in flight of one kind are never taken for another.
LEMMA TxnKinds ==
    ASSUME TypeOK
    PROVE  /\ \A m \in Managers :
                 /\ managerTxn[m].op = "status" => managerTxn[m] \in StatusTxn
                 /\ managerTxn[m].op = "payout" => managerTxn[m] \in PayoutTxn
           /\ \A w \in Ingesters :
                 ingestTxn[w].op = "ingest" => ingestTxn[w] \in IngestTxn
BY DEF TypeOK, StatusTxn, PayoutTxn, IngestTxn, Idle

\* The orders a batch expires are in a waiting status, and were read in it.
LEMMA StillSeenLemma ==
    ASSUME TypeOK, NEW x \in Expirers, NEW o \in StillSeen(x)
    PROVE  /\ o \in Orders
           /\ status[o] \in ExpirableOrderStatuses
           /\ [order |-> o, seen |-> status[o]] \in expiryTxn[x]
BY DEF StillSeen, TypeOK, ExpiryTxn

\* The empty tables have the declared shapes.
THEOREM InitTypeOK == Init => TypeOK
BY TimesAssumption DEF Init, TypeOK, Orders, DepositAddressStatus

\* Every step keeps rows, transactions and the clock in their declared shapes.
THEOREM NextTypeOK == TypeOK /\ [Next]_vars => TypeOK'
<1> SUFFICES ASSUME TypeOK, [Next]_vars PROVE TypeOK'
  OBVIOUS
<1> USE TimesAssumption, TargetsAssumption
<1>1. CASE UNCHANGED vars
  BY <1>1 DEF TypeOK, vars, orderVars, addressVars, txnVars
<1>2. CASE Tick
  BY <1>2 DEF TypeOK, Tick, orderVars, addressVars, txnVars
<1>3. ASSUME NEW id \in TransferIds, NEW a \in Addresses, NEW amount \in Amounts,
             SendTransfer(id, a, amount)
      PROVE  TypeOK'
  BY <1>3 DEF TypeOK, SendTransfer, Transfer, orderVars, addressVars, txnVars
<1>4. ASSUME NEW o \in SellOrders, NEW a \in Addresses, NEW now \in RequestTimes,
             NEW ttl \in OrderTtls, CreateSellUsdtOrder(o, a, now, ttl)
      PROVE  TypeOK'
  BY <1>4 DEF TypeOK, CreateSellUsdtOrder, RequestTimes, txnVars, Orders,
              OrderStatus, DepositAddressStatus
<1>5. ASSUME NEW o \in BuyOrders, NEW now \in RequestTimes,
             NEW ttl \in OrderTtls, CreateBuyUsdtOrder(o, now, ttl)
      PROVE  TypeOK'
  BY <1>5 DEF TypeOK, CreateBuyUsdtOrder, RequestTimes, txnVars, Orders,
              OrderStatus, addressVars
<1>6. ASSUME NEW m \in Managers, Manager(m)
      PROVE  TypeOK'
  <2>1. ASSUME NEW o \in Orders, NEW target \in ManagerTargets,
               ManagerReadStatus(m, o, target)
        PROVE  TypeOK'
    BY <2>1 DEF TypeOK, ManagerReadStatus, Created, StatusTxn, orderVars,
                addressVars
  <2>2. CASE ManagerWriteStatus(m)
    <3>1. managerTxn[m] \in StatusTxn
      BY <2>2, TxnKinds DEF ManagerWriteStatus
    <3> QED
      BY <2>2, <3>1 DEF TypeOK, ManagerWriteStatus, StatusTxn, AuditEntry,
            AuditRow, ManagerSettable, OrderStatus, TerminalOrderStatuses, addressVars
  <2>3. ASSUME NEW o \in BuyOrders, NEW txId \in PayoutTxIds,
               ManagerReadPayout(m, o, txId)
        PROVE  TypeOK'
    BY <2>3 DEF TypeOK, ManagerReadPayout, PayoutTxn, OrderStatus,
                OpenForManualCryptoPayout, orderVars, addressVars
  <2>4. CASE ManagerWritePayout(m)
    <3>1. managerTxn[m] \in PayoutTxn
      BY <2>4, TxnKinds DEF ManagerWritePayout
    <3> QED
      BY <2>4, <3>1 DEF TypeOK, ManagerWritePayout, PayoutTxn, AuditEntry,
            AuditRow, OrderStatus, OpenForManualCryptoPayout, Orders, addressVars
  <2>5. CASE ManagerRollback(m)
    BY <2>5 DEF TypeOK, ManagerRollback, orderVars, addressVars
  <2> QED
    BY <1>6, <2>1, <2>2, <2>3, <2>4, <2>5 DEF Manager
<1>7. ASSUME NEW x \in Expirers, Expirer(x)
      PROVE  TypeOK'
  <2>1. ASSUME NEW batch \in SUBSET DueForExpiration, ExpireRead(x, batch)
        PROVE  TypeOK'
    <3>1. {[order |-> o, seen |-> status[o]] : o \in batch}
            \in SUBSET ExpiryTxn
      BY DEF DueForExpiration, ExpiryTxn
    <3> QED
      BY <2>1, <3>1 DEF TypeOK, ExpireRead, orderVars, addressVars
  <2>2. CASE ExpireWrite(x)
    <3>1. ASSUME NEW o \in StillSeen(x)
          PROVE  o \in Orders /\ status[o] \in OrderStatus
      BY StillSeenLemma DEF ExpirableOrderStatuses, OrderStatus
    <3>2. audit' \subseteq AuditRow
      BY <2>2, <3>1 DEF ExpireWrite, AuditEntry, AuditRow, OrderStatus
    <3> QED
      BY <2>2, <3>2 DEF TypeOK, ExpireWrite, OrderStatus, DepositAddressStatus
  <2>3. CASE ExpireRollback(x)
    BY <2>3 DEF TypeOK, ExpireRollback, orderVars, addressVars
  <2> QED
    BY <1>7, <2>1, <2>2, <2>3 DEF Expirer
<1>8. ASSUME NEW w \in Ingesters, Ingester(w)
      PROVE  TypeOK'
  <2>1. ASSUME NEW t \in chain, NEW o \in SellOrders, IngestRead(w, t, o)
        PROVE  TypeOK'
    <3>1. t \in Transfer /\ o \in Orders
      BY DEF TypeOK, Orders
    <3>2. status[o] \in OpenOrderStatuses /\ addressStatus[t.toAddress] \in OpenAddressStatuses
      BY <2>1, <3>1 DEF IngestRead, AcceptedOnRead
    <3> QED
      BY <2>1, <3>1, <3>2 DEF TypeOK, IngestRead, IngestTxn, orderVars, addressVars
  <2>2. CASE IngestWrite(w)
    <3> DEFINE txn == ingestTxn[w]
               next == DecideNextOrderStatus(txn.seenOrder, txn.transfer.amount,
                         AmountUsdt[txn.order], txn.transfer.blockTimestamp,
                         orderExpiresAt[txn.order])
    <3>1. txn \in IngestTxn
      BY <2>2, TxnKinds DEF IngestWrite
    <3>2. next \in OrderStatus
      BY <3>1 DEF DecideNextOrderStatus, IngestTxn, OpenOrderStatuses, OrderStatus
    <3>3. NextDepositAddressStatus(next) \in DepositAddressStatus
      BY DEF NextDepositAddressStatus, DepositAddressStatus
    <3> HIDE DEF next
    <3>4. /\ status' = [status EXCEPT ![txn.order] = next]
          /\ deposits' = deposits \cup {[transfer |-> txn.transfer, order |-> txn.order]}
          /\ addressStatus' = [addressStatus EXCEPT ![txn.transfer.toAddress] =
                                 NextDepositAddressStatus(next)]
          /\ audit' = {AuditEntry("tron_deposit_detected", txn.order, txn.seenOrder, next)}
          /\ ingestTxn' = [ingestTxn EXCEPT ![w] = Idle]
          /\ UNCHANGED <<clock, chain, orderExpiresAt, depositAddress, payoutTxId,
                         reservedAt, managerTxn, expiryTxn>>
      BY <2>2 DEF IngestWrite, next
    <3>5. audit' \subseteq AuditRow
      BY <3>1, <3>2, <3>4 DEF AuditEntry, AuditRow, IngestTxn, OpenOrderStatuses,
            OrderStatus, Orders
    <3>6. deposits' \subseteq Deposit
      BY <3>1, <3>4 DEF TypeOK, Deposit, IngestTxn
    <3> QED
      BY <3>1, <3>2, <3>3, <3>4, <3>5, <3>6 DEF TypeOK
  <2>3. CASE IngestRollback(w)
    BY <2>3 DEF TypeOK, IngestRollback, orderVars, addressVars
  <2> QED
    BY <1>8, <2>1, <2>2, <2>3 DEF Ingester
<1> QED
  BY <1>1, <1>2, <1>3, <1>4, <1>5, <1>6, <1>7, <1>8
     DEF Next, Environment, Customer

\* Rows, transactions in flight and the clock always have the declared shapes.
THEOREM TypeCorrect == Spec => []TypeOK
BY InitTypeOK, NextTypeOK, PTL DEF Spec

-----------------------------------------------------------------------------
(* The inductive invariant.  One lemma per kind of step; steps that leave  *)
(* every row alone only have to show that what they read exists.           *)

RowsUnchanged ==
    UNCHANGED <<orderVars, addressVars, deposits>> /\ clock' >= clock

\* A step that changes no row, and leaves transactions in flight reading what
\* they may have read, preserves the invariant.
LEMMA RowsUnchangedPreserves ==
    ASSUME IInv, TypeOK', RowsUnchanged, TxnsReadExistingOrders'
    PROVE  IInv'
BY DEF IInv, RowsUnchanged, AddressesHaveOneOrder, SellOrdersAwaitDeposits,
       AwaitingOrderIsUnpaid, FundsDetectedIsJustified, FundedMeansRecorded,
       DepositsBelongToTheirOrder, BuyCompletionIsPaid, DepositsOf, Created,
       orderVars, addressVars

\* Time and transfers on chain invalidate nothing a transaction has read.
LEMMA EnvironmentPreserves ==
    ASSUME IInv, TypeOK', Environment
    PROVE  IInv'
<1>1. RowsUnchanged /\ UNCHANGED txnVars
  BY DEF Environment, Tick, SendTransfer, RowsUnchanged, IInv, TypeOK
<1>2. TxnsReadExistingOrders'
  BY <1>1 DEF IInv, TypeOK, TxnsReadExistingOrders, RowsUnchanged, ExpiryTxn,
     Created, orderVars, addressVars, txnVars
<1> QED
  BY <1>1, <1>2, RowsUnchangedPreserves

\* A new SELL order owns the address it reserved, which nobody paid to before.
LEMMA CreateSellPreserves ==
    ASSUME IInv, TypeOK', NEW o \in SellOrders, NEW a \in Addresses,
           NEW now \in Nat, NEW ttl \in Nat, CreateSellUsdtOrder(o, a, now, ttl)
    PROVE  IInv'
<1> USE NullsAssumption, DirectionsAssumption
<1>1. /\ status[o] = "none" /\ addressStatus[a] = "available"
      /\ status' = [status EXCEPT ![o] = "awaiting_deposit"]
      /\ orderExpiresAt' = [orderExpiresAt EXCEPT ![o] = now + ttl]
      /\ depositAddress' = [depositAddress EXCEPT ![o] = a]
      /\ addressStatus' = [addressStatus EXCEPT ![a] = "reserved"]
      /\ reservedAt' = [reservedAt EXCEPT ![a] = now]
      /\ UNCHANGED <<clock, payoutTxId, deposits, managerTxn, expiryTxn, ingestTxn>>
  BY DEF CreateSellUsdtOrder, Reservable, Created, txnVars
<1>2. depositAddress[o] = NoAddress
  BY <1>1 DEF IInv, AddressesHaveOneOrder, Created, Orders
<1>3. \A p \in Orders : depositAddress[p] # a
  BY <1>1 DEF IInv, TypeOK, AddressesHaveOneOrder
<1>4. \A d \in deposits : d.order # o /\ d.transfer.toAddress # a
  BY <1>2, <1>3 DEF IInv, TypeOK, DepositsBelongToTheirOrder, Deposit, Transfer,
     Orders
<1>5. AddressesHaveOneOrder'
  BY <1>1, <1>2, <1>3 DEF IInv, TypeOK, AddressesHaveOneOrder, Created, Orders
<1>6. SellOrdersAwaitDeposits'
  BY <1>1 DEF IInv, TypeOK, SellOrdersAwaitDeposits, Orders
<1>7. TxnsReadExistingOrders'
  <2>1. \A p \in Orders : Created(p) => Created(p)' /\ orderExpiresAt'[p] = orderExpiresAt[p]
    BY <1>1 DEF IInv, TypeOK, Created, Orders
  <2>2. \A m \in Managers : managerTxn[m] # Idle => managerTxn[m].order \in Orders
    BY DEF IInv, TypeOK, StatusTxn, PayoutTxn, Orders
  <2>3. \A w \in Ingesters : ingestTxn[w] # Idle =>
            ingestTxn[w].order \in Orders /\ ingestTxn[w].transfer.toAddress \in Addresses
    BY DEF IInv, TypeOK, IngestTxn, Transfer, Orders
  <2>4. \A w \in Ingesters : ingestTxn[w] # Idle =>
            ingestTxn[w].order # o /\ ingestTxn[w].transfer.toAddress # a
    BY <2>3, <1>2, <1>3 DEF IInv, TxnsReadExistingOrders
  <2>5. \A x \in Expirers : \A e \in expiryTxn[x] : e.order \in Orders
    BY DEF IInv, TypeOK, ExpiryTxn
  <2> QED
    BY <1>1, <2>1, <2>2, <2>3, <2>4, <2>5 DEF IInv, TypeOK, TxnsReadExistingOrders
<1>8. AwaitingOrderIsUnpaid'
  BY <1>1, <1>3, <1>4 DEF IInv, TypeOK, AwaitingOrderIsUnpaid, DepositsOf, Orders
<1>9. FundsDetectedIsJustified'
  BY <1>1 DEF IInv, TypeOK, FundsDetectedIsJustified, DepositsOf, Orders
<1>10. FundedMeansRecorded'
  BY <1>1, <1>4 DEF IInv, TypeOK, FundedMeansRecorded
<1>11. DepositsBelongToTheirOrder'
  BY <1>1, <1>4 DEF IInv, TypeOK, DepositsBelongToTheirOrder, Deposit, Transfer, Orders
<1>12. BuyCompletionIsPaid'
  BY <1>1 DEF IInv, TypeOK, BuyCompletionIsPaid, Orders
<1> QED
  BY <1>5, <1>6, <1>7, <1>8, <1>9, <1>10, <1>11, <1>12 DEF IInv

\* A new BUY order has no address and no payout.
LEMMA CreateBuyPreserves ==
    ASSUME IInv, TypeOK', NEW o \in BuyOrders,
           NEW now \in Nat, NEW ttl \in Nat, CreateBuyUsdtOrder(o, now, ttl)
    PROVE  IInv'
<1> USE NullsAssumption, DirectionsAssumption
<1>1. /\ status[o] = "none"
      /\ status' = [status EXCEPT ![o] = "awaiting_office_visit"]
      /\ orderExpiresAt' = [orderExpiresAt EXCEPT ![o] = now + ttl]
      /\ UNCHANGED <<clock, depositAddress, payoutTxId, addressStatus, reservedAt,
                     deposits, managerTxn, expiryTxn, ingestTxn>>
  BY DEF CreateBuyUsdtOrder, Created, txnVars, addressVars
<1>2. AddressesHaveOneOrder'
  BY <1>1 DEF IInv, TypeOK, AddressesHaveOneOrder, Created, Orders
<1>3. SellOrdersAwaitDeposits' /\ AwaitingOrderIsUnpaid' /\ FundsDetectedIsJustified'
  BY <1>1 DEF IInv, TypeOK, SellOrdersAwaitDeposits, AwaitingOrderIsUnpaid,
     FundsDetectedIsJustified, DepositsOf, Orders
<1>4. TxnsReadExistingOrders'
  <2>1. \A p \in Orders : Created(p) => Created(p)' /\ orderExpiresAt'[p] = orderExpiresAt[p]
    BY <1>1 DEF IInv, TypeOK, Created, Orders
  <2>2. \A m \in Managers : managerTxn[m] # Idle => managerTxn[m].order \in Orders
    BY DEF IInv, TypeOK, StatusTxn, PayoutTxn, Orders
  <2>3. \A x \in Expirers : \A e \in expiryTxn[x] : e.order \in Orders
    BY DEF IInv, TypeOK, ExpiryTxn
  <2> QED
    BY <1>1, <2>1, <2>2, <2>3 DEF IInv, TypeOK, TxnsReadExistingOrders
<1>5. FundedMeansRecorded' /\ DepositsBelongToTheirOrder'
  BY <1>1 DEF IInv, FundedMeansRecorded, DepositsBelongToTheirOrder
<1>6. BuyCompletionIsPaid'
  BY <1>1 DEF IInv, TypeOK, BuyCompletionIsPaid, Orders
<1> QED
  BY <1>2, <1>3, <1>4, <1>5, <1>6 DEF IInv

\* Managers touch no address and complete no BUY order without a payout, not
\* even with a status update that overwrites a row changed since its read.
LEMMA ManagerPreserves ==
    ASSUME IInv, TypeOK', NEW m \in Managers, Manager(m)
    PROVE  IInv'
<1> USE NullsAssumption, DirectionsAssumption, TargetsAssumption
<1>1. ASSUME NEW o \in Orders, NEW target \in ManagerTargets,
             ManagerReadStatus(m, o, target)
      PROVE  IInv'
  <2>1. RowsUnchanged
    BY <1>1 DEF ManagerReadStatus, RowsUnchanged, IInv, TypeOK
  <2>2. TxnsReadExistingOrders'
    BY <1>1 DEF ManagerReadStatus, IInv, TypeOK, Created, Idle,
       TxnsReadExistingOrders, orderVars, addressVars
  <2> QED
    BY <2>1, <2>2, RowsUnchangedPreserves
<1>2. ASSUME NEW o \in BuyOrders, NEW txId \in PayoutTxIds,
             ManagerReadPayout(m, o, txId)
      PROVE  IInv'
  <2>1. RowsUnchanged
    BY <1>2 DEF ManagerReadPayout, RowsUnchanged, IInv, TypeOK
  <2>2. TxnsReadExistingOrders'
    BY <1>2 DEF ManagerReadPayout, IInv, TypeOK, Created, Idle, Orders,
       OpenForManualCryptoPayout, TxnsReadExistingOrders, orderVars, addressVars
  <2> QED
    BY <2>1, <2>2, RowsUnchangedPreserves
<1>3. CASE ManagerRollback(m)
  <2>1. RowsUnchanged
    BY <1>3 DEF ManagerRollback, RowsUnchanged, IInv, TypeOK
  <2>2. TxnsReadExistingOrders'
    BY <1>3 DEF ManagerRollback, IInv, TypeOK, Created, Idle,
       TxnsReadExistingOrders, orderVars, addressVars
  <2> QED
    BY <2>1, <2>2, RowsUnchangedPreserves
<1>4. CASE ManagerWriteStatus(m)
  <2> DEFINE o == managerTxn[m].order
             target == managerTxn[m].target
  <2>1. /\ managerTxn[m] # Idle /\ managerTxn[m] \in StatusTxn
        /\ status' = [status EXCEPT ![o] = target]
        /\ managerTxn' = [managerTxn EXCEPT ![m] = Idle]
        /\ UNCHANGED <<clock, orderExpiresAt, depositAddress, payoutTxId,
                       addressStatus, reservedAt, deposits, expiryTxn, ingestTxn>>
    BY <1>4, TxnKinds DEF ManagerWriteStatus, IInv, addressVars, Idle
  <2>2. /\ o \in Orders /\ Created(o)
        /\ target \in ManagerSettable
        /\ o \in BuyOrders => target # "completed"
    BY <2>1 DEF IInv, TypeOK, TxnsReadExistingOrders, FitsDirection, StatusTxn
  <2>3. \A p \in Orders : Created(p)' <=> Created(p)
    BY <2>1, <2>2 DEF IInv, TypeOK, Created, ManagerSettable
  <2>4. \A p \in Orders : status'[p] \in {status[p]} \cup ManagerSettable
    BY <2>1, <2>2 DEF IInv, TypeOK
  <2>5. AddressesHaveOneOrder'
    BY <2>1, <2>3 DEF IInv, TypeOK, AddressesHaveOneOrder, Orders
  <2>6. SellOrdersAwaitDeposits' /\ AwaitingOrderIsUnpaid' /\ FundsDetectedIsJustified'
    BY <2>1, <2>4 DEF IInv, TypeOK, SellOrdersAwaitDeposits, AwaitingOrderIsUnpaid,
       FundsDetectedIsJustified, DepositsOf, Orders, ManagerSettable
  <2>7. TxnsReadExistingOrders'
    <3>1. \A n \in Managers : managerTxn[n] # Idle => managerTxn[n].order \in Orders
      BY DEF IInv, TypeOK, StatusTxn, PayoutTxn, Orders
    <3>2. \A x \in Expirers : \A e \in expiryTxn[x] : e.order \in Orders
      BY DEF IInv, TypeOK, ExpiryTxn
    <3> QED
      BY <2>1, <2>3, <3>1, <3>2 DEF IInv, TypeOK, TxnsReadExistingOrders, Idle
  <2>8. FundedMeansRecorded' /\ DepositsBelongToTheirOrder'
    BY <2>1 DEF IInv, FundedMeansRecorded, DepositsBelongToTheirOrder
  <2>9. BuyCompletionIsPaid'
    BY <2>1, <2>2 DEF IInv, TypeOK, BuyCompletionIsPaid, Orders
  <2> QED
    BY <2>5, <2>6, <2>7, <2>8, <2>9 DEF IInv
<1>5. CASE ManagerWritePayout(m)
  <2> DEFINE o == managerTxn[m].order
             txId == managerTxn[m].txId
  <2>1. /\ managerTxn[m] \in PayoutTxn
        /\ PayoutAccepted(o, txId)
        /\ status' = [status EXCEPT ![o] = "completed"]
        /\ payoutTxId' = [payoutTxId EXCEPT ![o] = txId]
        /\ managerTxn' = [managerTxn EXCEPT ![m] = Idle]
        /\ UNCHANGED <<clock, orderExpiresAt, depositAddress,
                       addressStatus, reservedAt, deposits, expiryTxn, ingestTxn>>
    BY <1>5, TxnKinds DEF ManagerWritePayout, IInv, addressVars
  <2>2. o \in BuyOrders /\ o \in Orders /\ txId \in PayoutTxIds /\ Created(o)
    BY <2>1 DEF PayoutTxn, PayoutAccepted, OpenForManualCryptoPayout, Created, Orders
  <2>3. \A p \in Orders : Created(p)' <=> Created(p)
    BY <2>1, <2>2 DEF IInv, TypeOK, Created
  <2>4. AddressesHaveOneOrder'
    BY <2>1, <2>3 DEF IInv, TypeOK, AddressesHaveOneOrder, Orders
  <2>5. SellOrdersAwaitDeposits' /\ AwaitingOrderIsUnpaid' /\ FundsDetectedIsJustified'
    BY <2>1, <2>2 DEF IInv, TypeOK, SellOrdersAwaitDeposits, AwaitingOrderIsUnpaid,
       FundsDetectedIsJustified, DepositsOf, Orders
  <2>6. TxnsReadExistingOrders'
    <3>1. \A n \in Managers : managerTxn[n] # Idle => managerTxn[n].order \in Orders
      BY DEF IInv, TypeOK, StatusTxn, PayoutTxn, Orders
    <3>2. \A x \in Expirers : \A e \in expiryTxn[x] : e.order \in Orders
      BY DEF IInv, TypeOK, ExpiryTxn
    <3> QED
      BY <2>1, <2>3, <3>1, <3>2 DEF IInv, TypeOK, TxnsReadExistingOrders, Idle
  <2>7. FundedMeansRecorded' /\ DepositsBelongToTheirOrder'
    BY <2>1 DEF IInv, FundedMeansRecorded, DepositsBelongToTheirOrder
  <2>8. BuyCompletionIsPaid'
    BY <2>1, <2>2 DEF IInv, TypeOK, BuyCompletionIsPaid, PayoutAccepted, Orders
  <2> QED
    BY <2>4, <2>5, <2>6, <2>7, <2>8 DEF IInv
<1> QED
  BY <1>1, <1>2, <1>3, <1>4, <1>5 DEF Manager

\* A batch expires an order together with its address, both still as reserved.
LEMMA ExpirerPreserves ==
    ASSUME IInv, TypeOK', NEW x \in Expirers, Expirer(x)
    PROVE  IInv'
<1> USE NullsAssumption, DirectionsAssumption
<1>1. ASSUME NEW batch \in SUBSET DueForExpiration, ExpireRead(x, batch)
      PROVE  IInv'
  <2>1. RowsUnchanged
    BY <1>1 DEF ExpireRead, RowsUnchanged, IInv, TypeOK
  <2>2. \A e \in expiryTxn'[x] : Created(e.order) /\ orderExpiresAt[e.order] <= clock
    BY <1>1 DEF ExpireRead, IInv, TypeOK, DueForExpiration, Created,
       ExpirableOrderStatuses
  <2>3. TxnsReadExistingOrders'
    BY <1>1, <2>2 DEF ExpireRead, IInv, TypeOK, Created, TxnsReadExistingOrders,
       orderVars, addressVars
  <2> QED
    BY <2>1, <2>3, RowsUnchangedPreserves
<1>2. CASE ExpireRollback(x)
  <2>1. RowsUnchanged
    BY <1>2 DEF ExpireRollback, RowsUnchanged, IInv, TypeOK
  <2>2. TxnsReadExistingOrders'
    BY <1>2 DEF ExpireRollback, IInv, TypeOK, Created, TxnsReadExistingOrders,
       orderVars, addressVars
  <2> QED
    BY <2>1, <2>2, RowsUnchangedPreserves
<1>3. CASE ExpireWrite(x)
  <2> DEFINE expiring == StillSeen(x)
  <2>1. /\ ~UnreservedAddressIn(expiring)
        /\ status' = [o \in Orders |-> IF o \in expiring THEN "expired" ELSE status[o]]
        /\ addressStatus' = [a \in Addresses |->
             IF \E o \in expiring : depositAddress[o] = a
             THEN "expired" ELSE addressStatus[a]]
        /\ expiryTxn' = [expiryTxn EXCEPT ![x] = {}]
        /\ UNCHANGED <<clock, orderExpiresAt, depositAddress, payoutTxId,
                       reservedAt, deposits, managerTxn, ingestTxn>>
    BY <1>3 DEF ExpireWrite
  <2>2. expiring \subseteq Orders /\ \A o \in expiring : Created(o)
    BY StillSeenLemma DEF IInv, Created, ExpirableOrderStatuses
  <2>3. \A a \in Addresses : addressStatus'[a] # addressStatus[a] =>
            addressStatus[a] = "reserved" /\ addressStatus'[a] = "expired"
    BY <2>1 DEF UnreservedAddressIn
  <2>4. \A p \in Orders : Created(p)' <=> Created(p)
    BY <2>1, <2>2 DEF IInv, TypeOK, Created
  <2>5. \A p \in Orders : p \notin expiring => status'[p] = status[p]
    BY <2>1
  <2>6. \A p \in Orders : p \in expiring => status'[p] = "expired"
    BY <2>1
  <2> HIDE DEF expiring
  <2>7. AddressesHaveOneOrder'
    BY <2>1, <2>3, <2>4 DEF IInv, TypeOK, AddressesHaveOneOrder, Orders
  <2>8. SellOrdersAwaitDeposits' /\ FundsDetectedIsJustified'
    BY <2>1, <2>5, <2>6 DEF IInv, TypeOK, SellOrdersAwaitDeposits,
       FundsDetectedIsJustified, DepositsOf, Orders
  <2>9. AwaitingOrderIsUnpaid'
    <3>1. SUFFICES ASSUME NEW o \in SellOrders, status'[o] = "awaiting_deposit"
                   PROVE  /\ depositAddress'[o] # NoAddress
                          /\ addressStatus'[depositAddress'[o]] = "reserved"
                          /\ DepositsOf(o)' = {}
      BY DEF AwaitingOrderIsUnpaid
    <3>2. o \notin expiring /\ status[o] = "awaiting_deposit" /\ o \in Orders
      BY <3>1, <2>5, <2>6 DEF Orders
    <3>3. /\ depositAddress[o] \in Addresses
          /\ addressStatus[depositAddress[o]] = "reserved"
          /\ DepositsOf(o) = {}
      BY <3>2 DEF IInv, TypeOK, AwaitingOrderIsUnpaid
    <3>4. \A p \in expiring : depositAddress[p] # depositAddress[o]
      BY <3>2, <3>3, <2>2 DEF IInv, AddressesHaveOneOrder
    <3> QED
      BY <2>1, <3>3, <3>4 DEF DepositsOf
  <2>10. TxnsReadExistingOrders'
    <3>1. \A n \in Managers : managerTxn[n] # Idle => managerTxn[n].order \in Orders
      BY DEF IInv, TypeOK, StatusTxn, PayoutTxn, Orders
    <3>2. \A y \in Expirers : \A e \in expiryTxn[y] : e.order \in Orders
      BY DEF IInv, TypeOK, ExpiryTxn
    <3> QED
      BY <2>1, <2>4, <3>1, <3>2 DEF IInv, TypeOK, TxnsReadExistingOrders
  <2>11. FundedMeansRecorded'
    BY <2>1, <2>3 DEF IInv, TypeOK, FundedMeansRecorded
  <2>12. DepositsBelongToTheirOrder'
    BY <2>1 DEF IInv, DepositsBelongToTheirOrder
  <2>13. BuyCompletionIsPaid'
    BY <2>1, <2>5, <2>6 DEF IInv, TypeOK, BuyCompletionIsPaid, Orders
  <2> QED
    BY <2>7, <2>8, <2>9, <2>10, <2>11, <2>12, <2>13 DEF IInv
<1> QED
  BY <1>1, <1>2, <1>3 DEF Expirer

\* An ingestion records its transfer together with both status changes.
LEMMA IngesterPreserves ==
    ASSUME IInv, TypeOK', NEW w \in Ingesters, Ingester(w)
    PROVE  IInv'
<1> USE NullsAssumption, DirectionsAssumption
<1>1. ASSUME NEW t \in chain, NEW o \in SellOrders, IngestRead(w, t, o)
      PROVE  IInv'
  <2>1. RowsUnchanged
    BY <1>1 DEF IngestRead, RowsUnchanged, IInv, TypeOK
  <2>2. TxnsReadExistingOrders'
    BY <1>1 DEF IngestRead, AcceptedOnRead, IInv, TypeOK, Created, Idle,
       TxnsReadExistingOrders, orderVars, addressVars
  <2> QED
    BY <2>1, <2>2, RowsUnchangedPreserves
<1>2. CASE IngestRollback(w)
  <2>1. RowsUnchanged
    BY <1>2 DEF IngestRollback, RowsUnchanged, IInv, TypeOK
  <2>2. TxnsReadExistingOrders'
    BY <1>2 DEF IngestRollback, IInv, TypeOK, Created, Idle,
       TxnsReadExistingOrders, orderVars, addressVars
  <2> QED
    BY <2>1, <2>2, RowsUnchangedPreserves
<1>3. CASE IngestWrite(w)
  <2> DEFINE txn == ingestTxn[w]
             o == txn.order
             t == txn.transfer
             next == DecideNextOrderStatus(txn.seenOrder, t.amount, AmountUsdt[o],
                                           t.blockTimestamp, orderExpiresAt[o])
  <2>1. /\ txn \in IngestTxn /\ txn # Idle
        /\ ~AlreadyRecorded(t.id)
        /\ SeenUnchanged(txn)
        /\ deposits' = deposits \cup {[transfer |-> t, order |-> o]}
        /\ status' = [status EXCEPT ![o] = next]
        /\ addressStatus' = [addressStatus EXCEPT ![t.toAddress] =
                               NextDepositAddressStatus(next)]
        /\ ingestTxn' = [ingestTxn EXCEPT ![w] = Idle]
        /\ UNCHANGED <<clock, orderExpiresAt, depositAddress, payoutTxId,
                       reservedAt, managerTxn, expiryTxn>>
    BY <1>3, TxnKinds DEF IngestWrite, IInv, Idle
  <2>2. /\ o \in SellOrders /\ o \in Orders /\ o \notin BuyOrders
        /\ t \in Transfer /\ t.toAddress \in Addresses /\ t.blockTimestamp \in Nat
        /\ txn.seenOrder \in OpenOrderStatuses
        /\ orderExpiresAt[o] \in Nat
    BY <2>1 DEF IngestTxn, Transfer, Orders, IInv, TypeOK
  <2>3. /\ depositAddress[o] = t.toAddress
        /\ t.blockTimestamp >= reservedAt[t.toAddress]
        /\ Created(o)
    BY <2>1, <2>2 DEF IInv, TypeOK, TxnsReadExistingOrders, SeenUnchanged, Created,
       OpenOrderStatuses
  <2>4. /\ next \in {"manager_review", "late_payment", "funds_detected"}
        /\ next = "funds_detected" =>
              t.amount = AmountUsdt[o] /\ t.blockTimestamp <= orderExpiresAt[o]
    BY <2>2, DecisionLemma
  <2>5. NextDepositAddressStatus(next) \in {"funded", "late_funded"}
    BY DEF NextDepositAddressStatus
  <2> HIDE DEF next
  <2>6. \A p \in Orders : Created(p)' <=> Created(p)
    BY <2>1, <2>2, <2>3, <2>4 DEF IInv, TypeOK, Created
  <2>7. AddressesHaveOneOrder'
    BY <2>1, <2>2, <2>5, <2>6 DEF IInv, TypeOK, AddressesHaveOneOrder, Orders
  <2>8. SellOrdersAwaitDeposits'
    BY <2>1, <2>2, <2>4 DEF IInv, TypeOK, SellOrdersAwaitDeposits, Orders
  <2>9. AwaitingOrderIsUnpaid'
    <3>1. SUFFICES ASSUME NEW p \in SellOrders, status'[p] = "awaiting_deposit"
                   PROVE  /\ depositAddress'[p] # NoAddress
                          /\ addressStatus'[depositAddress'[p]] = "reserved"
                          /\ DepositsOf(p)' = {}
      BY DEF AwaitingOrderIsUnpaid
    <3>2. p # o /\ status[p] = "awaiting_deposit" /\ p \in Orders
      BY <3>1, <2>1, <2>2, <2>4 DEF IInv, TypeOK, Orders
    <3>3. /\ depositAddress[p] # NoAddress
          /\ addressStatus[depositAddress[p]] = "reserved"
          /\ DepositsOf(p) = {}
      BY <3>2 DEF IInv, AwaitingOrderIsUnpaid
    <3>4. depositAddress[p] # t.toAddress
      BY <3>2, <3>3, <2>2, <2>3 DEF IInv, AddressesHaveOneOrder
    <3> QED
      BY <2>1, <2>2, <3>2, <3>3, <3>4 DEF DepositsOf, IInv, TypeOK
  <2>10. TxnsReadExistingOrders'
    <3>1. \A n \in Managers : managerTxn[n] # Idle => managerTxn[n].order \in Orders
      BY DEF IInv, TypeOK, StatusTxn, PayoutTxn, Orders
    <3>2. \A y \in Expirers : \A e \in expiryTxn[y] : e.order \in Orders
      BY DEF IInv, TypeOK, ExpiryTxn
    <3> QED
      BY <2>1, <2>6, <3>1, <3>2 DEF IInv, TypeOK, TxnsReadExistingOrders, Idle
  <2>11. FundsDetectedIsJustified'
    <3>1. SUFFICES ASSUME NEW p \in SellOrders, status'[p] = "funds_detected"
                   PROVE  \E d \in deposits' :
                            /\ d.order = p
                            /\ d.transfer.amount = AmountUsdt[p]
                            /\ d.transfer.blockTimestamp <= orderExpiresAt'[p]
      BY DEF FundsDetectedIsJustified, DepositsOf
    <3>2. CASE p = o
      <4> DEFINE new == [transfer |-> t, order |-> o]
      <4>1. new \in deposits' /\ new.order = p /\ new.transfer = t
        BY <2>1, <3>2
      <4>2. next = "funds_detected"
        BY <2>1, <2>2, <3>1, <3>2 DEF IInv, TypeOK
      <4> QED
        BY <2>1, <2>4, <3>2, <4>1, <4>2
    <3>3. CASE p # o
      BY <2>1, <2>2, <3>1, <3>3 DEF IInv, TypeOK, FundsDetectedIsJustified,
         DepositsOf, Orders
    <3> QED
      BY <3>2, <3>3
  <2>12. FundedMeansRecorded'
    <3>1. SUFFICES ASSUME NEW a \in Addresses
                   PROVE  addressStatus'[a] \in {"funded", "late_funded"}
                            <=> \E d \in deposits' : d.transfer.toAddress = a
      BY DEF FundedMeansRecorded
    <3>2. CASE a = t.toAddress
      <4>1. [transfer |-> t, order |-> o] \in deposits'
        BY <2>1
      <4>2. \E d \in deposits' : d.transfer.toAddress = a
        BY <4>1, <3>2
      <4>3. addressStatus'[a] \in {"funded", "late_funded"}
        BY <2>1, <2>2, <2>5, <3>2 DEF IInv, TypeOK
      <4> QED
        BY <4>2, <4>3
    <3>3. CASE a # t.toAddress
      BY <2>1, <2>2, <3>3 DEF IInv, TypeOK, FundedMeansRecorded
    <3> QED
      BY <3>2, <3>3
  <2>13. DepositsBelongToTheirOrder'
    BY <2>1, <2>2, <2>3 DEF IInv, DepositsBelongToTheirOrder, AlreadyRecorded
  <2>14. BuyCompletionIsPaid'
    BY <2>1, <2>2 DEF IInv, TypeOK, BuyCompletionIsPaid, Orders
  <2> QED
    BY <2>7, <2>8, <2>9, <2>10, <2>11, <2>12, <2>13, <2>14 DEF IInv
<1> QED
  BY <1>1, <1>2, <1>3 DEF Ingester

-----------------------------------------------------------------------------
(* The safety theorems.                                                    *)

\* The invariant holds of the empty tables.
THEOREM InitIInv == Init => IInv
BY InitTypeOK
   DEF Init, IInv, AddressesHaveOneOrder, SellOrdersAwaitDeposits,
       TxnsReadExistingOrders, AwaitingOrderIsUnpaid, FundsDetectedIsJustified,
       FundedMeansRecorded, DepositsBelongToTheirOrder, BuyCompletionIsPaid,
       Created, Orders, Idle

\* Every step of every actor preserves the invariant.
THEOREM NextIInv == IInv /\ [Next]_vars => IInv'
<1> SUFFICES ASSUME IInv, [Next]_vars PROVE IInv'
  OBVIOUS
<1>1. TypeOK'
  BY NextTypeOK DEF IInv
<1>2. CASE UNCHANGED vars
  <2>1. RowsUnchanged
    BY <1>2 DEF vars, RowsUnchanged, IInv, TypeOK
  <2>2. TxnsReadExistingOrders'
    BY <1>2 DEF vars, IInv, TxnsReadExistingOrders, Created, orderVars,
       addressVars, txnVars
  <2> QED
    BY <1>1, <2>1, <2>2, RowsUnchangedPreserves
<1>3. CASE Environment
  BY <1>1, <1>3, EnvironmentPreserves
<1>4. CASE Customer
  <2>1. \A now \in RequestTimes, ttl \in OrderTtls : now \in Nat /\ ttl \in Nat
    BY TimesAssumption DEF RequestTimes
  <2> QED
    BY <1>1, <1>4, <2>1, CreateSellPreserves, CreateBuyPreserves DEF Customer
<1>5. CASE \E m \in Managers : Manager(m)
  BY <1>1, <1>5, ManagerPreserves
<1>6. CASE \E x \in Expirers : Expirer(x)
  BY <1>1, <1>6, ExpirerPreserves
<1>7. CASE \E w \in Ingesters : Ingester(w)
  BY <1>1, <1>7, IngesterPreserves
<1> QED
  BY <1>2, <1>3, <1>4, <1>5, <1>6, <1>7 DEF Next

\* The inductive invariant holds throughout.
THEOREM Inductive == Spec => []IInv
BY InitIInv, NextIInv, PTL DEF Spec

\* An order awaiting its deposit is unpaid and holds a reserved address.
THEOREM AwaitingUnpaid == Spec => []AwaitingOrderIsUnpaid
<1>1. IInv => AwaitingOrderIsUnpaid
  BY DEF IInv
<1> QED
  BY <1>1, Inductive, PTL

\* No expiration batch ever reaches its throw.
THEOREM BatchesNeverThrow == Spec => []ExpirationBatchNeverThrows
<1>1. IInv => ExpirationBatchNeverThrows
  <2>1. SUFFICES ASSUME IInv, NEW x \in Expirers, NEW o \in StillSeen(x),
                        depositAddress[o] # NoAddress,
                        addressStatus[depositAddress[o]] # "reserved"
                 PROVE  FALSE
    BY DEF ExpirationBatchNeverThrows, UnreservedAddressIn
  <2>2. o \in Orders /\ status[o] \in ExpirableOrderStatuses
    BY <2>1, StillSeenLemma DEF IInv
  <2>3. CASE o \in SellOrders
    BY <2>1, <2>2, <2>3 DEF IInv, SellOrdersAwaitDeposits, AwaitingOrderIsUnpaid,
       ExpirableOrderStatuses
  <2>4. CASE o \in BuyOrders
    BY <2>1, <2>4 DEF IInv, AddressesHaveOneOrder
  <2> QED
    BY <2>2, <2>3, <2>4 DEF Orders
<1> QED
  BY <1>1, Inductive, PTL

\* Only an exact transfer mined in time puts an order into funds_detected.
THEOREM FundsDetectedJustified == Spec => []FundsDetectedIsJustified
<1>1. IInv => FundsDetectedIsJustified
  BY DEF IInv
<1> QED
  BY <1>1, Inductive, PTL

\* The funded marks of addresses and the recorded transfers agree.
THEOREM FundedRecorded == Spec => []FundedMeansRecorded
<1>1. IInv => FundedMeansRecorded
  BY DEF IInv
<1> QED
  BY <1>1, Inductive, PTL

\* Every transfer is recorded once, under the order that owned its address.
THEOREM DepositsBelong == Spec => []DepositsBelongToTheirOrder
<1>1. IInv => DepositsBelongToTheirOrder
  BY DEF IInv
<1> QED
  BY <1>1, Inductive, PTL

\* No BUY order is completed without a payout of its own.
THEOREM BuyCompletionPaid == Spec => []BuyCompletionIsPaid
<1>1. IInv => BuyCompletionIsPaid
  BY DEF IInv
<1> QED
  BY <1>1, Inductive, PTL

-----------------------------------------------------------------------------
(* Action properties.                                                      *)

\* A batch read long ago still expires only unpaid orders past their deadline.
THEOREM ExpirationTakesUnpaidDue == Spec => ExpirationTakesUnpaidDueOrders
<1> DEFINE Unpaid(row) ==
             row.action = "order_expired" =>
                /\ status[row.order] \in ExpirableOrderStatuses
                /\ orderExpiresAt[row.order] <= clock
                /\ DepositsOf(row.order) = {}
           A == \A row \in audit' : Unpaid(row)
<1>1. IInv /\ [Next]_vars => [A]_vars
  <2> SUFFICES ASSUME IInv, Next PROVE A
    BY DEF Unpaid
  <2>1. CASE Environment
    BY <2>1 DEF Environment, Tick, SendTransfer
  <2>2. CASE Customer
    BY <2>2 DEF Customer, CreateSellUsdtOrder, CreateBuyUsdtOrder
  <2>3. ASSUME NEW m \in Managers, Manager(m) PROVE A
    BY <2>3 DEF Manager, ManagerReadStatus, ManagerWriteStatus, ManagerReadPayout,
       ManagerWritePayout, ManagerRollback, AuditEntry
  <2>4. ASSUME NEW w \in Ingesters, Ingester(w) PROVE A
    BY <2>4 DEF Ingester, IngestRead, IngestWrite, IngestRollback, AuditEntry
  <2>5. ASSUME NEW x \in Expirers, Expirer(x) PROVE A
    <3>1. CASE ExpireWrite(x)
      <4>1. audit' = {AuditEntry("order_expired", o, status[o], "expired") :
                        o \in StillSeen(x)}
        BY <3>1 DEF ExpireWrite
      <4>2. ASSUME NEW o \in StillSeen(x)
            PROVE  /\ status[o] \in ExpirableOrderStatuses
                   /\ orderExpiresAt[o] <= clock
                   /\ DepositsOf(o) = {}
        <5>1. /\ o \in Orders
              /\ status[o] \in ExpirableOrderStatuses
              /\ [order |-> o, seen |-> status[o]] \in expiryTxn[x]
          BY StillSeenLemma DEF IInv
        <5>2. orderExpiresAt[o] <= clock
          BY <5>1 DEF IInv, TxnsReadExistingOrders
        <5>3. CASE o \in SellOrders
          BY <5>1, <5>2, <5>3 DEF IInv, SellOrdersAwaitDeposits,
             AwaitingOrderIsUnpaid, ExpirableOrderStatuses
        <5>4. CASE o \in BuyOrders
          BY <5>1, <5>2, <5>4, DirectionsAssumption DEF IInv, TypeOK, Deposit,
             DepositsOf
        <5> QED
          BY <5>1, <5>3, <5>4 DEF Orders
      <4> QED
        BY <4>1, <4>2 DEF AuditEntry
    <3>2. CASE ~ExpireWrite(x)
      BY <2>5, <3>2 DEF Expirer, ExpireRead, ExpireRollback
    <3> QED
      BY <3>1, <3>2
  <2> QED
    BY <2>1, <2>2, <2>3, <2>4, <2>5 DEF Next
<1> QED
  BY <1>1, Inductive, PTL DEF Spec, ExpirationTakesUnpaidDueOrders

\* A stale status update may reopen an order that was paid, but a payout is
\* recorded only where none is.
THEOREM PayoutStays == Spec => PayoutIsFinal
<1> DEFINE A == \A o \in BuyOrders : payoutTxId[o] # NoTxId => payoutTxId'[o] = payoutTxId[o]
<1>1. IInv /\ [Next]_vars => [A]_vars
  <2> SUFFICES ASSUME IInv, Next PROVE A
    OBVIOUS
  <2>1. CASE UNCHANGED payoutTxId
    BY <2>1
  <2>2. ASSUME NEW m \in Managers, Manager(m) PROVE A
    <3>1. CASE ManagerWritePayout(m)
      <4>1. /\ payoutTxId' = [payoutTxId EXCEPT ![managerTxn[m].order] = managerTxn[m].txId]
            /\ payoutTxId[managerTxn[m].order] = NoTxId
        BY <3>1 DEF ManagerWritePayout, PayoutAccepted
      <4> QED
        BY <4>1 DEF IInv, TypeOK, Orders
    <3>2. CASE ~ManagerWritePayout(m)
      BY <2>1, <2>2, <3>2 DEF Manager, ManagerReadStatus, ManagerWriteStatus,
         ManagerReadPayout, ManagerRollback, orderVars
    <3> QED
      BY <3>1, <3>2
  <2>3. CASE Environment \/ Customer
    BY <2>1, <2>3 DEF Environment, Tick, SendTransfer, Customer, CreateSellUsdtOrder,
       CreateBuyUsdtOrder, orderVars
  <2>4. ASSUME NEW x \in Expirers, Expirer(x) PROVE A
    BY <2>1, <2>4 DEF Expirer, ExpireRead, ExpireWrite, ExpireRollback, orderVars
  <2>5. ASSUME NEW w \in Ingesters, Ingester(w) PROVE A
    BY <2>1, <2>5 DEF Ingester, IngestRead, IngestWrite, IngestRollback, orderVars
  <2> QED
    BY <2>2, <2>3, <2>4, <2>5 DEF Next
<1> QED
  BY <1>1, Inductive, PTL DEF Spec, PayoutIsFinal

\* Each status change of an existing order comes with an audit row, and every row
\* is true: the conditional updates make the status that was read the one that is
\* replaced, and a manager's row has the status the request read.
THEOREM AuditRecords == Spec => AuditRecordsEveryChange
<1> DEFINE Recorded(o) ==
             Created(o) /\ status'[o] # status[o] => \E row \in audit' : row.order = o
           True(row) ==
             /\ Created(row.order) /\ row.nextStatus = status'[row.order]
             /\ row.previousStatus = status[row.order] \/ StaleManagerRow(row)
           A == (\A o \in Orders : Recorded(o)) /\ (\A row \in audit' : True(row))
<1>1. IInv /\ [Next]_vars => [A]_vars
  <2> SUFFICES ASSUME IInv, Next PROVE A
    OBVIOUS
  <2>0. /\ status \in [Orders -> OrderStatus \cup {"none"}]
        /\ managerTxn \in [Managers -> {Idle} \cup StatusTxn \cup PayoutTxn]
        /\ TxnsReadExistingOrders
    BY DEF IInv, TypeOK
  <2>1. CASE UNCHANGED status /\ audit' = {}
    BY <2>1
  <2>2. CASE Environment
    BY <2>1, <2>2 DEF Environment, Tick, SendTransfer, orderVars
  <2>3. CASE Customer
    BY <2>0, <2>3 DEF Customer, CreateSellUsdtOrder, CreateBuyUsdtOrder, Created
  <2>4. ASSUME NEW m \in Managers, Manager(m) PROVE A
    <3>1. CASE ManagerWriteStatus(m)
      <4> DEFINE row == AuditEntry("manager_order_status_changed", managerTxn[m].order,
                                   managerTxn[m].seen, managerTxn[m].target)
      <4>1. /\ status' = [status EXCEPT ![managerTxn[m].order] = managerTxn[m].target]
            /\ audit' = {row}
            /\ managerTxn' = [managerTxn EXCEPT ![m] = Idle]
            /\ managerTxn[m].op = "status"
        BY <3>1 DEF ManagerWriteStatus
      <4>2. /\ managerTxn[m] # Idle /\ managerTxn'[m] = Idle
            /\ managerTxn[m].order \in Orders /\ Created(managerTxn[m].order)
        BY <2>0, <4>1 DEF Idle, StatusTxn, PayoutTxn, Orders, TxnsReadExistingOrders
      <4>3. /\ row.action = "manager_order_status_changed"
            /\ row.order = managerTxn[m].order
            /\ row.previousStatus = managerTxn[m].seen
            /\ row.nextStatus = managerTxn[m].target
        BY DEF AuditEntry
      <4> HIDE DEF row
      <4>4. True(row)
        BY <2>0, <4>1, <4>2, <4>3 DEF StaleManagerRow
      <4>5. ASSUME NEW o \in Orders PROVE Recorded(o)
        BY <2>0, <4>1, <4>2, <4>3
      <4> QED
        BY <4>1, <4>4, <4>5
    <3>2. CASE ManagerWritePayout(m)
      <4> DEFINE row == AuditEntry("manual_crypto_payout_recorded", managerTxn[m].order,
                                   managerTxn[m].seen, "completed")
      <4>1. /\ status' = [status EXCEPT ![managerTxn[m].order] = "completed"]
            /\ audit' = {row}
            /\ managerTxn' = [managerTxn EXCEPT ![m] = Idle]
            /\ managerTxn[m].op = "payout"
        BY <3>2 DEF ManagerWritePayout
      <4>2. /\ managerTxn[m] # Idle /\ managerTxn'[m] = Idle
            /\ managerTxn[m].order \in Orders /\ Created(managerTxn[m].order)
        BY <2>0, <4>1 DEF Idle, StatusTxn, PayoutTxn, Orders, TxnsReadExistingOrders
      <4>3. /\ row.action = "manual_crypto_payout_recorded"
            /\ row.order = managerTxn[m].order
            /\ row.previousStatus = managerTxn[m].seen
            /\ row.nextStatus = "completed"
        BY DEF AuditEntry
      <4> HIDE DEF row
      <4>4. True(row)
        BY <2>0, <4>1, <4>2, <4>3 DEF StaleManagerRow
      <4>5. ASSUME NEW o \in Orders PROVE Recorded(o)
        BY <2>0, <4>1, <4>2, <4>3
      <4> QED
        BY <4>1, <4>4, <4>5
    <3>3. CASE ~ManagerWriteStatus(m) /\ ~ManagerWritePayout(m)
      BY <2>1, <2>4, <3>3 DEF Manager, ManagerReadStatus, ManagerReadPayout,
         ManagerRollback, orderVars
    <3> QED
      BY <3>1, <3>2, <3>3
  <2>5. ASSUME NEW x \in Expirers, Expirer(x) PROVE A
    <3>1. CASE ExpireWrite(x)
      <4> DEFINE row(o) == AuditEntry("order_expired", o, status[o], "expired")
      <4>1. /\ status' = [o \in Orders |-> IF o \in StillSeen(x) THEN "expired" ELSE status[o]]
            /\ audit' = {row(o) : o \in StillSeen(x)}
        BY <3>1 DEF ExpireWrite
      <4>2. ASSUME NEW o \in Orders
            PROVE  /\ row(o).order = o /\ row(o).nextStatus = "expired"
                   /\ row(o).previousStatus = status[o]
        BY DEF AuditEntry
      <4> HIDE DEF row
      <4>3. ASSUME NEW o \in Orders PROVE Recorded(o)
        BY <4>1, <4>2
      <4>4. ASSUME NEW o \in StillSeen(x) PROVE o \in Orders /\ Created(o)
        BY <2>0 DEF StillSeen, TxnsReadExistingOrders
      <4>5. ASSUME NEW o \in StillSeen(x) PROVE True(row(o))
        BY <4>1, <4>2, <4>4
      <4> HIDE DEF Recorded, True
      <4> QED
        BY <4>1, <4>3, <4>5
    <3>2. CASE ~ExpireWrite(x)
      BY <2>1, <2>5, <3>2 DEF Expirer, ExpireRead, ExpireRollback, orderVars
    <3> QED
      BY <3>1, <3>2
  <2>6. ASSUME NEW w \in Ingesters, Ingester(w) PROVE A
    <3>1. CASE IngestWrite(w)
      <4>1. PICK next :
               /\ status' = [status EXCEPT ![ingestTxn[w].order] = next]
               /\ audit' = {AuditEntry("tron_deposit_detected", ingestTxn[w].order,
                                       ingestTxn[w].seenOrder, next)}
        BY <3>1 DEF IngestWrite
      <4>2. /\ ingestTxn[w].order \in Orders
            /\ status[ingestTxn[w].order] = ingestTxn[w].seenOrder
            /\ ingestTxn[w].seenOrder # "none"
        BY <3>1 DEF IngestWrite, SeenUnchanged, IInv, TypeOK, Idle, IngestTxn, Orders,
           OpenOrderStatuses
      <4> QED
        BY <2>0, <4>1, <4>2 DEF AuditEntry, Created
    <3>2. CASE ~IngestWrite(w)
      BY <2>1, <2>6, <3>2 DEF Ingester, IngestRead, IngestRollback, orderVars
    <3> QED
      BY <3>1, <3>2
  <2> QED
    BY <2>2, <2>3, <2>4, <2>5, <2>6 DEF Next
<1> QED
  BY <1>1, Inductive, PTL DEF Spec, AuditRecordsEveryChange

\* A redelivered transfer changes nothing: whatever an ingestion changes, it
\* changes together with a row that was not there.
THEOREM TransferTakesEffect == Spec => TransferTakesEffectOnce
<1> DEFINE New(row) ==
             row.action = "tron_deposit_detected" =>
                \E d \in deposits' \ deposits : d.order = row.order
           A == \A row \in audit' : New(row)
<1>1. [Next]_vars => [A]_vars
  <2> SUFFICES ASSUME Next PROVE A
    BY DEF New
  <2>1. CASE Environment \/ Customer
    BY <2>1 DEF Environment, Tick, SendTransfer, Customer, CreateSellUsdtOrder,
       CreateBuyUsdtOrder
  <2>2. ASSUME NEW m \in Managers, Manager(m) PROVE A
    BY <2>2 DEF Manager, ManagerReadStatus, ManagerWriteStatus, ManagerReadPayout,
       ManagerWritePayout, ManagerRollback, AuditEntry
  <2>3. ASSUME NEW x \in Expirers, Expirer(x) PROVE A
    BY <2>3 DEF Expirer, ExpireRead, ExpireWrite, ExpireRollback, AuditEntry
  <2>4. ASSUME NEW w \in Ingesters, Ingester(w) PROVE A
    <3>1. CASE IngestWrite(w)
      <4> DEFINE d == [transfer |-> ingestTxn[w].transfer, order |-> ingestTxn[w].order]
      <4>1. PICK next : audit' = {AuditEntry("tron_deposit_detected", ingestTxn[w].order,
                                             ingestTxn[w].seenOrder, next)}
        BY <3>1 DEF IngestWrite
      <4>2. d \in deposits' /\ d \notin deposits
        BY <3>1 DEF IngestWrite, AlreadyRecorded
      <4>3. \A row \in audit' : row.order = d.order
        BY <4>1 DEF AuditEntry
      <4> QED
        BY <4>2, <4>3
    <3>2. CASE ~IngestWrite(w)
      BY <2>4, <3>2 DEF Ingester, IngestRead, IngestRollback
    <3> QED
      BY <3>1, <3>2
  <2> QED
    BY <2>1, <2>2, <2>3, <2>4 DEF Next
<1> QED
  BY <1>1, PTL DEF Spec, TransferTakesEffectOnce

\* An address serves one order: it is reserved once, and a batch marks only
\* addresses that are still reserved.
THEOREM AddressesServeOnce == Spec => AddressesAreNeverReused
<1> DEFINE Keeps(a) ==
             /\ addressStatus[a] # "available" =>
                   addressStatus'[a] \in {addressStatus[a]} \cup
                                         {"expired", "funded", "late_funded"}
             /\ addressStatus[a] \in {"funded", "late_funded"} =>
                   addressStatus'[a] \in {"funded", "late_funded"}
           A == \A a \in Addresses : Keeps(a)
<1>1. IInv /\ [Next]_vars => [A]_vars
  <2> SUFFICES ASSUME IInv, Next PROVE A
    OBVIOUS
  <2>0. addressStatus \in [Addresses -> DepositAddressStatus]
    BY DEF IInv, TypeOK
  <2>1. CASE UNCHANGED addressStatus
    BY <2>1
  <2>2. CASE Environment
    BY <2>1, <2>2 DEF Environment, Tick, SendTransfer, addressVars
  <2>3. CASE Customer
    BY <2>0, <2>3 DEF Customer, CreateSellUsdtOrder, CreateBuyUsdtOrder, Reservable,
       addressVars
  <2>4. ASSUME NEW m \in Managers, Manager(m) PROVE A
    BY <2>1, <2>4 DEF Manager, ManagerReadStatus, ManagerWriteStatus, ManagerReadPayout,
       ManagerWritePayout, ManagerRollback, addressVars
  <2>5. ASSUME NEW x \in Expirers, Expirer(x) PROVE A
    <3>1. CASE ExpireWrite(x)
      <4>1. /\ addressStatus' =
                 [a \in Addresses |-> IF \E o \in StillSeen(x) : depositAddress[o] = a
                                      THEN "expired" ELSE addressStatus[a]]
            /\ ~UnreservedAddressIn(StillSeen(x))
        BY <3>1 DEF ExpireWrite
      <4>2. ASSUME NEW a \in Addresses, NEW o \in StillSeen(x), depositAddress[o] = a
            PROVE  addressStatus[a] = "reserved"
        BY <4>1, <4>2, NullsAssumption DEF UnreservedAddressIn
      <4> QED
        BY <4>1, <4>2
    <3>2. CASE ~ExpireWrite(x)
      BY <2>1, <2>5, <3>2 DEF Expirer, ExpireRead, ExpireRollback, addressVars
    <3> QED
      BY <3>1, <3>2
  <2>6. ASSUME NEW w \in Ingesters, Ingester(w) PROVE A
    <3>1. CASE IngestWrite(w)
      <4>1. PICK next :
               addressStatus' = [addressStatus EXCEPT ![ingestTxn[w].transfer.toAddress] =
                                   NextDepositAddressStatus(next)]
        BY <3>1 DEF IngestWrite
      <4> QED
        BY <2>0, <4>1 DEF NextDepositAddressStatus
    <3>2. CASE ~IngestWrite(w)
      BY <2>1, <2>6, <3>2 DEF Ingester, IngestRead, IngestRollback, addressVars
    <3> QED
      BY <3>1, <3>2
  <2> QED
    BY <2>2, <2>3, <2>4, <2>5, <2>6 DEF Next
<1> QED
  BY <1>1, Inductive, PTL DEF Spec, AddressesAreNeverReused

-----------------------------------------------------------------------------
(* Refinement: creating a SELL order is an allocation, everything else     *)
(* leaves every order's address alone.                                     *)

\* Orders implement the address allocator.
THEOREM Refinement == Spec => ImplementsAllocator
<1> DEFINE assigned == [o \in SellOrders |-> depositAddress[o]]
<1> USE DirectionsAssumption, NullsAssumption
<1>1. Init => Allocator!Init
  BY DEF Init, Allocator!Init, Orders
<1>2. IInv /\ [Next]_vars => [Allocator!Next]_Allocator!vars
  <2> SUFFICES ASSUME IInv, [Next]_vars PROVE [Allocator!Next]_Allocator!vars
    OBVIOUS
  <2>1. ASSUME UNCHANGED depositAddress
        PROVE  UNCHANGED Allocator!vars
    BY <2>1 DEF Allocator!vars
  <2>2. ASSUME NEW o \in SellOrders, NEW a \in Addresses, NEW now, NEW ttl,
               CreateSellUsdtOrder(o, a, now, ttl)
        PROVE  Allocator!Allocate(o, a)
    <3>1. /\ status[o] = "none" /\ addressStatus[a] = "available"
          /\ depositAddress' = [depositAddress EXCEPT ![o] = a]
      BY <2>2 DEF CreateSellUsdtOrder, Created, Reservable
    <3>2. depositAddress[o] = NoAddress
      BY <3>1 DEF IInv, AddressesHaveOneOrder, Created, Orders
    <3>3. \A other \in SellOrders : depositAddress[other] # a
      BY <3>1 DEF IInv, AddressesHaveOneOrder, Orders
    <3>4. assigned' = [assigned EXCEPT ![o] = a]
      BY <3>1 DEF IInv, TypeOK, Orders
    <3> QED
      BY <3>2, <3>3, <3>4 DEF Allocator!Allocate
  <2>3. CASE UNCHANGED vars
    BY <2>1, <2>3 DEF vars, orderVars
  <2>4. CASE Environment
    BY <2>1, <2>4 DEF Environment, Tick, SendTransfer, orderVars
  <2>5. ASSUME NEW m \in Managers, Manager(m) PROVE UNCHANGED depositAddress
    BY <2>5 DEF Manager, ManagerReadStatus, ManagerWriteStatus, ManagerReadPayout,
       ManagerWritePayout, ManagerRollback, orderVars
  <2>6. ASSUME NEW x \in Expirers, Expirer(x) PROVE UNCHANGED depositAddress
    BY <2>6 DEF Expirer, ExpireRead, ExpireWrite, ExpireRollback, orderVars
  <2>7. ASSUME NEW w \in Ingesters, Ingester(w) PROVE UNCHANGED depositAddress
    BY <2>7 DEF Ingester, IngestRead, IngestWrite, IngestRollback, orderVars
  <2>8. CASE Customer
    <3>1. ASSUME NEW o \in BuyOrders, NEW now, NEW ttl, CreateBuyUsdtOrder(o, now, ttl)
          PROVE  UNCHANGED depositAddress
      BY <3>1 DEF CreateBuyUsdtOrder
    <3> QED
      BY <2>1, <2>2, <2>8, <3>1 DEF Customer, Allocator!Next
  <2> QED
    BY <2>1, <2>3, <2>4, <2>5, <2>6, <2>7, <2>8 DEF Next
<1> QED
  BY <1>1, <1>2, Inductive, PTL DEF Spec, ImplementsAllocator, Allocator!Spec
=============================================================================

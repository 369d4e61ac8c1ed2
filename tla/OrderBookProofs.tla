--------------------------- MODULE OrderBookProofs ---------------------------
(***************************************************************************)
(* OrderLifecycle implements OrderBook, for any number of orders, managers,*)
(* expiration runs and ingestions; and what follows for orders, because an *)
(* operation of the order book looks at the rows it changes: which of them *)
(* stay, and in which ways a status may change.                            *)
(***************************************************************************)
EXTENDS OrderLifecycleProofs

-----------------------------------------------------------------------------
(* Refinement: each commit is one operation of the order book, whose       *)
(* precondition holds in the state the commit finds; reads are stutters.   *)

\* An ingestion works on a transfer that is on the chain.
TransfersAreOnChain ==
    \A w \in Ingesters : ingestTxn[w] # Idle => ingestTxn[w].transfer \in chain

\* The chain only grows, and an ingestion starts from a transfer on it.
THEOREM OnChain == Spec => []TransfersAreOnChain
<1>1. Init => TransfersAreOnChain
  BY DEF Init, TransfersAreOnChain
<1>2. TypeOK /\ TransfersAreOnChain /\ [Next]_vars => TransfersAreOnChain'
  <2> SUFFICES ASSUME TypeOK, TransfersAreOnChain, [Next]_vars
               PROVE  TransfersAreOnChain'
    OBVIOUS
  <2> USE DEF TransfersAreOnChain, TypeOK
  <2>1. CASE UNCHANGED <<ingestTxn, chain>>
    BY <2>1
  <2>2. CASE UNCHANGED vars
    BY <2>1, <2>2 DEF vars, txnVars
  <2>3. CASE Environment
    BY <2>3 DEF Environment, Tick, SendTransfer, txnVars
  <2>4. CASE Customer
    BY <2>1, <2>4 DEF Customer, CreateSellUsdtOrder, CreateBuyUsdtOrder, txnVars
  <2>5. ASSUME NEW m \in Managers, Manager(m) PROVE TransfersAreOnChain'
    BY <2>1, <2>5 DEF Manager, ManagerReadStatus, ManagerWriteStatus,
       ManagerReadPayout, ManagerWritePayout, ManagerRollback
  <2>6. ASSUME NEW x \in Expirers, Expirer(x) PROVE TransfersAreOnChain'
    BY <2>1, <2>6 DEF Expirer, ExpireRead, ExpireWrite, ExpireRollback
  <2>7. ASSUME NEW w \in Ingesters, Ingester(w) PROVE TransfersAreOnChain'
    BY <2>7 DEF Ingester, IngestRead, IngestWrite, IngestRollback
  <2> QED
    BY <2>2, <2>3, <2>4, <2>5, <2>6, <2>7 DEF Next
<1> QED
  BY <1>1, <1>2, TypeCorrect, PTL DEF Spec

\* A batch that writes expires orders that are overdue when it writes.
LEMMA StillSeenOverdue ==
    ASSUME IInv, NEW x \in Expirers, NEW o \in StillSeen(x)
    PROVE  o \in Book!Overdue
<1>1. /\ o \in Orders
      /\ status[o] \in ExpirableOrderStatuses
      /\ [order |-> o, seen |-> status[o]] \in expiryTxn[x]
  BY StillSeenLemma DEF IInv
<1>2. orderExpiresAt[o] <= clock
  BY <1>1 DEF IInv, TxnsReadExistingOrders
<1>3. DepositsOf(o) = {}
  BY <1>1, DirectionsAssumption DEF IInv, TypeOK, SellOrdersAwaitDeposits,
     AwaitingOrderIsUnpaid, ExpirableOrderStatuses, Deposit, DepositsOf, Orders
<1> QED
  BY <1>1, <1>2, <1>3 DEF Book!Overdue, Book!Orders, Book!RecordedFor, DepositsOf,
     ExpirableOrderStatuses, Orders

\* The rows an operation of the order book is about.
BookRows == <<clock, chain, status, orderExpiresAt, depositAddress, deposits, payoutTxId>>

\* A transaction that commits does what the order book does in one step.
LEMMA CommitsAreOperations ==
    ASSUME IInv, TransfersAreOnChain, Next
    PROVE  Book!Next \/ UNCHANGED BookRows
<1> USE DEF BookRows
<1>1. CASE Tick
  BY <1>1 DEF Tick, Book!Next, Book!Tick, Book!rows, orderVars
<1>2. ASSUME NEW id \in TransferIds, NEW a \in Addresses, NEW amount \in Amounts,
             SendTransfer(id, a, amount)
      PROVE  Book!Next
  <2>1. Book!Send(id, a, amount)
    BY <1>2 DEF SendTransfer, Book!Send, Book!rows, orderVars
  <2> QED
    BY <2>1 DEF Book!Next
<1>3. ASSUME NEW now \in RequestTimes, NEW ttl \in OrderTtls
      PROVE  now + ttl \in UNION {{n + l : n \in 0..MaxTime} : l \in OrderTtls}
  BY TimesAssumption DEF RequestTimes, IInv, TypeOK
<1>4. ASSUME NEW o \in SellOrders, NEW a \in Addresses, NEW now \in RequestTimes,
             NEW ttl \in OrderTtls, CreateSellUsdtOrder(o, a, now, ttl)
      PROVE  Book!Next
  <2>1. /\ status[o] = "none" /\ addressStatus[a] = "available"
        /\ \A other \in Orders : depositAddress[other] # a
    BY <1>4, NullsAssumption
       DEF CreateSellUsdtOrder, Created, Reservable, IInv, AddressesHaveOneOrder
  <2>2. Book!OpenSell(o, a, now + ttl)
    BY <1>4, <2>1 DEF CreateSellUsdtOrder, Book!OpenSell, Book!Orders, Orders
  <2> QED
    BY <2>2, <1>3 DEF Book!Next
<1>5. ASSUME NEW o \in BuyOrders, NEW now \in RequestTimes,
             NEW ttl \in OrderTtls, CreateBuyUsdtOrder(o, now, ttl)
      PROVE  Book!Next
  <2>1. Book!OpenBuy(o, now + ttl)
    BY <1>5 DEF CreateBuyUsdtOrder, Created, Book!OpenBuy
  <2> QED
    BY <2>1, <1>3 DEF Book!Next
<1>6. ASSUME NEW m \in Managers, ManagerWriteStatus(m)
      PROVE  Book!Next
  <2> DEFINE o == managerTxn[m].order
             target == managerTxn[m].target
  <2>1. managerTxn[m] \in StatusTxn
    BY <1>6, TxnKinds DEF ManagerWriteStatus, IInv
  <2>2. /\ o \in Orders /\ target \in ManagerSettable /\ status[o] # "none"
    BY <2>1 DEF StatusTxn, IInv, TxnsReadExistingOrders, Idle, Created
  <2>3. FitsDirection(o, target)
    BY <1>6 DEF ManagerWriteStatus, IInv, TxnsReadExistingOrders
  <2>4. Book!Decide(o, target)
    BY <1>6, <2>2, <2>3 DEF ManagerWriteStatus, FitsDirection, Book!Decide
  <2> QED
    BY <2>2, <2>4 DEF Book!Next, Book!Orders, Book!ManagerSettable, Orders,
       ManagerSettable
<1>7. ASSUME NEW m \in Managers, ManagerWritePayout(m)
      PROVE  Book!Next
  <2> DEFINE o == managerTxn[m].order
             txId == managerTxn[m].txId
  <2>1. managerTxn[m] \in PayoutTxn
    BY <1>7, TxnKinds DEF ManagerWritePayout, IInv
  <2>2. o \in BuyOrders /\ txId \in PayoutTxIds
    BY <2>1 DEF PayoutTxn
  <2>3. Book!PayOut(o, txId)
    BY <1>7 DEF ManagerWritePayout, PayoutAccepted, OpenForManualCryptoPayout,
       Book!PayOut
  <2> QED
    BY <2>2, <2>3 DEF Book!Next
<1>8. ASSUME NEW x \in Expirers, ExpireWrite(x)
      PROVE  Book!Next
  <2> DEFINE lapsing == StillSeen(x)
  <2>1. lapsing \subseteq Book!Overdue
    BY StillSeenOverdue
  <2>2. Book!Lapse(lapsing)
    BY <1>8, <2>1 DEF ExpireWrite, Book!Lapse, Book!Orders, Orders
  <2> HIDE DEF lapsing
  <2> QED
    BY <2>1, <2>2 DEF Book!Next
<1>9. ASSUME NEW w \in Ingesters, IngestWrite(w)
      PROVE  Book!Next
  <2> DEFINE txn == ingestTxn[w]
             t == txn.transfer
             o == txn.order
             next == DecideNextOrderStatus(txn.seenOrder, t.amount, AmountUsdt[o],
                       t.blockTimestamp, orderExpiresAt[o])
  <2>1. txn \in IngestTxn /\ txn # Idle
    BY <1>9, TxnKinds DEF IngestWrite, IInv, Idle
  <2>2. o \in SellOrders /\ t \in chain /\ txn.seenOrder \in OpenOrderStatuses
    BY <2>1 DEF IngestTxn, TransfersAreOnChain
  <2>3. t.toAddress = depositAddress[o]
    BY <2>1 DEF IInv, TxnsReadExistingOrders
  <2>4. status[o] = txn.seenOrder
    BY <1>9 DEF IngestWrite, SeenUnchanged
  <2>5. \A d \in deposits : d.transfer # t
    BY <1>9 DEF IngestWrite, AlreadyRecorded
  <2>6. next = Book!Outcome(o, t)
    BY <2>2, <2>4 DEF DecideNextOrderStatus, Book!Outcome, OpenOrderStatuses
  <2>7. /\ status' = [status EXCEPT ![o] = next]
        /\ deposits' = deposits \cup {[transfer |-> t, order |-> o]}
        /\ UNCHANGED <<clock, chain, orderExpiresAt, depositAddress, payoutTxId>>
    BY <1>9 DEF IngestWrite
  <2> HIDE DEF next
  <2>8. Book!Credit(o, t)
    BY <2>2, <2>3, <2>4, <2>5, <2>6, <2>7 DEF Book!Credit, OpenOrderStatuses
  <2> QED
    BY <2>2, <2>8 DEF Book!Next
<1>10. ASSUME NEW m \in Managers, Manager(m)
       PROVE  Book!Next \/ UNCHANGED BookRows
  BY <1>6, <1>7, <1>10 DEF Manager, ManagerReadStatus, ManagerReadPayout,
     ManagerRollback, orderVars
<1>11. ASSUME NEW x \in Expirers, Expirer(x)
       PROVE  Book!Next \/ UNCHANGED BookRows
  BY <1>8, <1>11 DEF Expirer, ExpireRead, ExpireRollback, orderVars
<1>12. ASSUME NEW w \in Ingesters, Ingester(w)
       PROVE  Book!Next \/ UNCHANGED BookRows
  BY <1>9, <1>12 DEF Ingester, IngestRead, IngestRollback, orderVars
<1> QED
  BY <1>1, <1>2, <1>4, <1>5, <1>10, <1>11, <1>12 DEF Next, Environment, Customer

\* Whatever its transactions read before, the system behaves like the order
\* book, in which nothing can change between a check and its write.
THEOREM BookRefinement == Spec => ImplementsOrderBook
<1>1. Init => Book!Init
  BY DEF Init, Book!Init, Book!Orders, Orders
<1>2. IInv /\ TransfersAreOnChain /\ [Next]_vars => [Book!Next]_Book!vars
  <2> SUFFICES ASSUME IInv, TransfersAreOnChain, [Next]_vars
               PROVE  Book!Next \/ UNCHANGED Book!vars
    OBVIOUS
  <2>1. UNCHANGED BookRows => UNCHANGED Book!vars
    BY DEF BookRows, Book!vars, Book!rows
  <2>2. CASE UNCHANGED vars
    BY <2>1, <2>2 DEF vars, orderVars, BookRows
  <2> QED
    BY <2>1, <2>2, CommitsAreOperations
<1> QED
  BY <1>1, <1>2, Inductive, OnChain, PTL DEF Spec, ImplementsOrderBook, Book!Spec

-----------------------------------------------------------------------------
(* What an operation of the order book may do to an order.                 *)

\* Each operation of the order book keeps what was agreed and recorded.
LEMMA OperationsKeepTerms ==
    ASSUME TypeOK, Book!Next \/ UNCHANGED BookRows
    PROVE  /\ \A o \in Orders :
                 Created(o) =>
                    /\ Created(o)'
                    /\ orderExpiresAt'[o] = orderExpiresAt[o]
                    /\ depositAddress'[o] = depositAddress[o]
           /\ deposits \subseteq deposits'
<1> USE DEF TypeOK, Created
<1>1. CASE UNCHANGED BookRows
  BY <1>1 DEF BookRows
<1>2. CASE Book!Tick
  BY <1>2 DEF Book!Tick, Book!rows
<1>3. ASSUME NEW id, NEW a, NEW amount, Book!Send(id, a, amount)
      PROVE  UNCHANGED <<status, orderExpiresAt, depositAddress, deposits>>
  BY <1>3 DEF Book!Send, Book!rows
<1>4. ASSUME NEW o \in SellOrders, NEW a, NEW d, Book!OpenSell(o, a, d)
      PROVE  /\ \A p \in Orders : Created(p) =>
                   /\ Created(p)'
                   /\ orderExpiresAt'[p] = orderExpiresAt[p]
                   /\ depositAddress'[p] = depositAddress[p]
             /\ deposits' = deposits
  BY <1>4 DEF Book!OpenSell
<1>5. ASSUME NEW o \in BuyOrders, NEW d, Book!OpenBuy(o, d)
      PROVE  /\ \A p \in Orders : Created(p) =>
                   Created(p)' /\ orderExpiresAt'[p] = orderExpiresAt[p]
             /\ UNCHANGED <<depositAddress, deposits>>
  BY <1>5 DEF Book!OpenBuy
<1>6. ASSUME NEW o \in SellOrders, NEW t \in chain, Book!Credit(o, t)
      PROVE  /\ \A p \in Orders : Created(p) => Created(p)'
             /\ UNCHANGED <<orderExpiresAt, depositAddress>>
             /\ deposits \subseteq deposits'
  <2>1. Book!Outcome(o, t) # "none"
    BY <1>6 DEF Book!Credit, Book!Outcome
  <2> QED
    BY <1>6, <2>1 DEF Book!Credit
<1>7. ASSUME NEW lapsing, Book!Lapse(lapsing)
      PROVE  /\ \A p \in Orders : Created(p) => Created(p)'
             /\ UNCHANGED <<orderExpiresAt, depositAddress, deposits>>
  BY <1>7 DEF Book!Lapse, Book!Orders, Orders
<1>8. ASSUME NEW o, NEW target \in Book!ManagerSettable, Book!Decide(o, target)
      PROVE  /\ \A p \in Orders : Created(p) => Created(p)'
             /\ UNCHANGED <<orderExpiresAt, depositAddress, deposits>>
  BY <1>8 DEF Book!Decide, Book!ManagerSettable
<1>9. ASSUME NEW o, NEW txId, Book!PayOut(o, txId)
      PROVE  /\ \A p \in Orders : Created(p) => Created(p)'
             /\ UNCHANGED <<orderExpiresAt, depositAddress, deposits>>
  BY <1>9 DEF Book!PayOut
<1> QED
  BY <1>1, <1>2, <1>3, <1>4, <1>5, <1>6, <1>7, <1>8, <1>9 DEF Book!Next, Book!rows

\* How each operation of the order book may change the status of an order.
LEMMA OperationsMoveOrders ==
    ASSUME TypeOK, Book!Next \/ UNCHANGED BookRows, NEW o \in Orders,
           status'[o] # status[o]
    PROVE  \/ /\ status[o] = "none"
              /\ status'[o] \in ExpirableOrderStatuses
           \/ /\ status[o] # "none"
              /\ status'[o] \in ManagerSettable
              /\ \E target \in ManagerSettable : Book!Decide(o, target)
           \/ /\ status[o] \in OpenOrderStatuses
              /\ \E t \in chain :
                    /\ Book!Credit(o, t)
                    /\ status'[o] = Book!Outcome(o, t)
              /\ o \in SellOrders
           \/ /\ o \in Book!Overdue
              /\ status'[o] = "expired"
           \/ /\ status[o] \in OpenForManualCryptoPayout
              /\ status'[o] = "completed"
              /\ o \in BuyOrders
<1> USE DEF TypeOK
<1>1. CASE UNCHANGED status
  BY <1>1
<1>2. ASSUME NEW p \in SellOrders, NEW a, NEW d, Book!OpenSell(p, a, d)
      PROVE  status[o] = "none" /\ status'[o] \in ExpirableOrderStatuses
  BY <1>2 DEF Book!OpenSell, ExpirableOrderStatuses
<1>3. ASSUME NEW p \in BuyOrders, NEW d, Book!OpenBuy(p, d)
      PROVE  status[o] = "none" /\ status'[o] \in ExpirableOrderStatuses
  BY <1>3 DEF Book!OpenBuy, ExpirableOrderStatuses
<1>4. ASSUME NEW p \in SellOrders, NEW t \in chain, Book!Credit(p, t)
      PROVE  /\ status[o] \in OpenOrderStatuses
             /\ Book!Credit(o, t)
             /\ status'[o] = Book!Outcome(o, t)
             /\ o \in SellOrders
  <2>1. status' = [status EXCEPT ![p] = Book!Outcome(p, t)]
    BY <1>4 DEF Book!Credit
  <2>2. p = o
    BY <2>1
  <2>3. status'[o] = Book!Outcome(o, t)
    BY <2>1, <2>2
  <2>4. status[o] \in OpenOrderStatuses
    BY <1>4, <2>2 DEF Book!Credit, OpenOrderStatuses
  <2> QED
    BY <1>4, <2>2, <2>3, <2>4
<1>5. ASSUME NEW lapsing \in SUBSET Book!Overdue, Book!Lapse(lapsing)
      PROVE  o \in Book!Overdue /\ status'[o] = "expired"
  BY <1>5 DEF Book!Lapse, Book!Orders, Orders
<1>6. ASSUME NEW p \in Orders, NEW target \in ManagerSettable, Book!Decide(p, target)
      PROVE  /\ status[o] # "none"
             /\ status'[o] \in ManagerSettable
             /\ Book!Decide(o, target)
  <2>1. p = o
    BY <1>6 DEF Book!Decide
  <2> QED
    BY <1>6, <2>1 DEF Book!Decide
<1>7. ASSUME NEW p \in BuyOrders, NEW txId, Book!PayOut(p, txId)
      PROVE  /\ status[o] \in OpenForManualCryptoPayout
             /\ status'[o] = "completed"
             /\ o \in BuyOrders
  BY <1>7 DEF Book!PayOut, OpenForManualCryptoPayout
<1>8. CASE UNCHANGED BookRows \/ Book!Tick
           \/ \E id \in TransferIds, a \in Addresses, amount \in Amounts :
                 Book!Send(id, a, amount)
  BY <1>1, <1>8 DEF BookRows, Book!Tick, Book!Send, Book!rows
<1>9. Book!Orders = Orders /\ Book!ManagerSettable = ManagerSettable
  BY DEF Book!Orders, Orders, Book!ManagerSettable, ManagerSettable
<1> QED
  BY <1>2, <1>3, <1>4, <1>5, <1>6, <1>7, <1>8, <1>9 DEF Book!Next

\* A customer's terms and the record of transfers survive every step.
THEOREM TermsAreKept == Spec => OrdersKeepTheirTerms
<1> DEFINE A == /\ \A o \in Orders :
                      Created(o) =>
                          /\ Created(o)'
                          /\ orderExpiresAt'[o] = orderExpiresAt[o]
                          /\ depositAddress'[o] = depositAddress[o]
                /\ deposits \subseteq deposits'
<1>1. IInv /\ TransfersAreOnChain /\ [Next]_vars => [A]_vars
  <2> SUFFICES ASSUME IInv, TransfersAreOnChain, Next PROVE A
    OBVIOUS
  <2> QED
    BY CommitsAreOperations, OperationsKeepTerms DEF IInv
<1> QED
  BY <1>1, Inductive, OnChain, PTL DEF Spec, OrdersKeepTheirTerms

\* An order enters a waiting status only when it is created.
LEMMA StepWaitsOnce ==
    ASSUME IInv, TransfersAreOnChain, [Next]_vars, NEW o \in Orders,
           status'[o] \in ExpirableOrderStatuses
    PROVE  status[o] \in {"none", status'[o]}
<1>1. CASE status'[o] = status[o]
  BY <1>1
<1>2. CASE Next /\ status'[o] # status[o]
  <2>1. Book!Next \/ UNCHANGED BookRows
    BY <1>2, CommitsAreOperations
  <2>2. \A t \in chain : Book!Credit(o, t) => Book!Outcome(o, t) \notin ExpirableOrderStatuses
    BY DEF Book!Credit, Book!Outcome, ExpirableOrderStatuses
  <2> QED
    BY <1>2, <2>1, <2>2, OperationsMoveOrders
       DEF IInv, ManagerSettable, ExpirableOrderStatuses
<1> QED
  BY <1>1, <1>2 DEF vars, orderVars

\* No stale status update, ingestion or rollback makes an order wait again.
THEOREM WaitingIsOnce == Spec => OrdersWaitOnce
<1> DEFINE Once(o) ==
             status'[o] \in ExpirableOrderStatuses => status[o] \in {"none", status'[o]}
           A == \A o \in Orders : Once(o)
<1>1. IInv /\ TransfersAreOnChain /\ [Next]_vars => [A]_vars
  BY StepWaitsOnce
<1> QED
  BY <1>1, Inductive, OnChain, PTL DEF Spec, OrdersWaitOnce

\* What a batch relies on while it runs: its orders waited when it read them,
\* and one of another status by now has stopped waiting.
BatchesReadWaitingOrders ==
    \A x \in Expirers : \A e \in expiryTxn[x] :
        /\ e.seen \in ExpirableOrderStatuses
        /\ status[e.order] # e.seen => status[e.order] \notin ExpirableOrderStatuses

LEMMA NextBatches ==
    IInv /\ TransfersAreOnChain /\ BatchesReadWaitingOrders /\ [Next]_vars
        => BatchesReadWaitingOrders'
<1> SUFFICES ASSUME IInv, TransfersAreOnChain, BatchesReadWaitingOrders, [Next]_vars,
                    NEW x \in Expirers, NEW e \in expiryTxn'[x]
             PROVE  /\ e.seen \in ExpirableOrderStatuses
                    /\ status'[e.order] # e.seen =>
                          status'[e.order] \notin ExpirableOrderStatuses
  BY DEF BatchesReadWaitingOrders
<1>1. CASE e \in expiryTxn[x]
  <2>1. /\ e.order \in Orders /\ status[e.order] # "none"
        /\ e.seen \in ExpirableOrderStatuses
        /\ status[e.order] # e.seen => status[e.order] \notin ExpirableOrderStatuses
    BY <1>1 DEF IInv, TypeOK, ExpiryTxn, TxnsReadExistingOrders, Created,
       BatchesReadWaitingOrders
  <2> QED
    BY <2>1, StepWaitsOnce
<1>2. CASE e \notin expiryTxn[x]
  <2>1. \E y \in Expirers : \E batch \in SUBSET DueForExpiration : ExpireRead(y, batch)
    <3>1. ~UNCHANGED expiryTxn
      BY <1>2
    <3>2. ASSUME NEW y \in Expirers, ExpireWrite(y) \/ ExpireRollback(y)
          PROVE  FALSE
      <4>1. expiryTxn' = [expiryTxn EXCEPT ![y] = {}]
        BY <3>2 DEF ExpireWrite, ExpireRollback
      <4> QED
        BY <1>2, <4>1 DEF IInv, TypeOK
    <3>3. \E y \in Expirers : Expirer(y)
      <4>1. (Environment \/ Customer \/ UNCHANGED vars) => UNCHANGED expiryTxn
        BY DEF Environment, Tick, SendTransfer, Customer, CreateSellUsdtOrder,
           CreateBuyUsdtOrder, vars, txnVars
      <4>2. ASSUME NEW m \in Managers, Manager(m) PROVE UNCHANGED expiryTxn
        BY <4>2 DEF Manager, ManagerReadStatus, ManagerReadPayout, ManagerWriteStatus,
           ManagerWritePayout, ManagerRollback
      <4>3. ASSUME NEW w \in Ingesters, Ingester(w) PROVE UNCHANGED expiryTxn
        BY <4>3 DEF Ingester, IngestRead, IngestWrite, IngestRollback
      <4> QED
        BY <3>1, <4>1, <4>2, <4>3 DEF Next
    <3> QED
      BY <3>2, <3>3 DEF Expirer
  <2>2. PICK y \in Expirers, batch \in SUBSET DueForExpiration : ExpireRead(y, batch)
    BY <2>1
  <2>3. PICK o \in batch : e = [order |-> o, seen |-> status[o]]
    BY <1>2, <2>2 DEF ExpireRead, IInv, TypeOK
  <2>4. status'[o] = status[o] /\ status[o] \in ExpirableOrderStatuses
    BY <2>2, <2>3 DEF ExpireRead, orderVars, DueForExpiration
  <2> QED
    BY <2>3, <2>4
<1> QED
  BY <1>1, <1>2

\* A batch that commits leaves none of its orders waiting.
THEOREM BatchesEndWaiting == Spec => BatchesAreDoneWith
<1> DEFINE A == \A x \in Expirers :
                   ExpireWrite(x) =>
                      \A e \in expiryTxn[x] :
                          status'[e.order] \notin ExpirableOrderStatuses
<1>1. Init => BatchesReadWaitingOrders
  BY DEF Init, BatchesReadWaitingOrders
<1>2. IInv /\ BatchesReadWaitingOrders /\ [Next]_vars => [A]_vars
  <2> SUFFICES ASSUME IInv, BatchesReadWaitingOrders,
                      NEW x \in Expirers, ExpireWrite(x), NEW e \in expiryTxn[x]
               PROVE  status'[e.order] \notin ExpirableOrderStatuses
    OBVIOUS
  <2>1. e.order \in Orders /\ e = [order |-> e.order, seen |-> e.seen]
    BY DEF IInv, TypeOK, ExpiryTxn
  <2>2. status'[e.order] = IF e.order \in StillSeen(x) THEN "expired" ELSE status[e.order]
    BY <2>1 DEF ExpireWrite
  <2>3. status[e.order] = e.seen => e.order \in StillSeen(x)
    BY <2>1 DEF StillSeen
  <2> QED
    BY <2>2, <2>3 DEF BatchesReadWaitingOrders, ExpirableOrderStatuses
<1> QED
  BY <1>1, <1>2, NextBatches, Inductive, OnChain, PTL DEF Spec, BatchesAreDoneWith

\* A terminal status gives way to a stale status update or to a transfer that
\* reaches an expired order, and to nothing else.
THEOREM TerminalExits == Spec => OnlyStaleUpdatesReopenOrders
<1> DEFINE Stale(m, o) ==
             /\ managerTxn[m].op = "status"
             /\ managerTxn[m].order = o
             /\ managerTxn[m].seen \notin TerminalOrderStatuses
             /\ managerTxn'[m] = Idle
           Paid(o) ==
             /\ status[o] = "expired"
             /\ \E d \in deposits' \ deposits : d.order = o
           Exits(o) ==
             status[o] \in TerminalOrderStatuses /\ status'[o] # status[o] =>
                \/ \E m \in Managers : Stale(m, o)
                \/ Paid(o)
           A == \A o \in Orders : Exits(o)
<1>1. IInv /\ TransfersAreOnChain /\ [Next]_vars => [A]_vars
  <2> SUFFICES ASSUME IInv, TransfersAreOnChain, Next, NEW o \in Orders,
                      status[o] \in TerminalOrderStatuses, status'[o] # status[o]
               PROVE  (\E m \in Managers : Stale(m, o)) \/ Paid(o)
    OBVIOUS
  <2>1. CASE \E m \in Managers : ManagerWriteStatus(m)
    <3>1. PICK m \in Managers : ManagerWriteStatus(m)
      BY <2>1
    <3>2. managerTxn[m] \in StatusTxn
      BY <3>1, TxnKinds DEF ManagerWriteStatus, IInv
    <3>3. managerTxn[m].order = o
      BY <3>1 DEF ManagerWriteStatus, IInv, TypeOK
    <3>4. managerTxn'[m] = Idle
      BY <3>1 DEF ManagerWriteStatus, IInv, TypeOK
    <3> QED
      BY <3>2, <3>3, <3>4 DEF StatusTxn
  <2>2. CASE \E w \in Ingesters : IngestWrite(w)
    <3>1. PICK w \in Ingesters : IngestWrite(w)
      BY <2>2
    <3> DEFINE txn == ingestTxn[w]
               d == [transfer |-> txn.transfer, order |-> txn.order]
    <3>2. txn.order = o
      BY <3>1 DEF IngestWrite, IInv, TypeOK
    <3>3. txn \in IngestTxn /\ txn.seenOrder = status[o]
      BY <3>1, <3>2, TxnKinds DEF IngestWrite, SeenUnchanged, IInv
    <3>4. status[o] = "expired"
      BY <3>3 DEF IngestTxn, OpenOrderStatuses, TerminalOrderStatuses
    <3>5. d \in deposits' /\ d \notin deposits
      BY <3>1 DEF IngestWrite, AlreadyRecorded
    <3> QED
      BY <3>2, <3>4, <3>5
  <2>3. CASE \E x \in Expirers : ExpireWrite(x)
    <3>1. PICK x \in Expirers : ExpireWrite(x)
      BY <2>3
    <3>2. o \in StillSeen(x)
      BY <3>1 DEF ExpireWrite
    <3> QED
      BY <3>2, StillSeenLemma DEF IInv, ExpirableOrderStatuses, TerminalOrderStatuses
  <2>4. CASE \E m \in Managers : ManagerWritePayout(m)
    <3>1. PICK m \in Managers : ManagerWritePayout(m)
      BY <2>4
    <3>2. /\ status' = [status EXCEPT ![managerTxn[m].order] = "completed"]
          /\ status[managerTxn[m].order] \in OpenForManualCryptoPayout
      BY <3>1 DEF ManagerWritePayout, PayoutAccepted
    <3> QED
      BY <3>2 DEF IInv, TypeOK, OpenForManualCryptoPayout, TerminalOrderStatuses
  <2>5. CASE Customer
    BY <2>5 DEF Customer, CreateSellUsdtOrder, CreateBuyUsdtOrder, Created, IInv,
       TypeOK, TerminalOrderStatuses
  <2>6. CASE UNCHANGED status
    BY <2>6
  <2> QED
    BY <2>1, <2>2, <2>3, <2>4, <2>5, <2>6
       DEF Next, Environment, Tick, SendTransfer, Manager, ManagerReadStatus,
           ManagerReadPayout, ManagerRollback, Expirer, ExpireRead, ExpireRollback,
           Ingester, IngestRead, IngestRollback, orderVars
<1> QED
  BY <1>1, Inductive, OnChain, PTL DEF Spec, OnlyStaleUpdatesReopenOrders

\* An operation makes an order late only with a transfer mined after its
\* deadline.
LEMMA OperationsJudgeByDeadline ==
    ASSUME TypeOK, Book!Next \/ UNCHANGED BookRows, NEW o \in Orders,
           status'[o] = "late_payment", status[o] # "late_payment"
    PROVE  \E d \in deposits' :
              /\ d.order = o
              /\ d.transfer.amount = AmountUsdt[o]
              /\ d.transfer.blockTimestamp > orderExpiresAt[o]
<1>1. PICK t \in chain : Book!Credit(o, t) /\ Book!Outcome(o, t) = "late_payment"
  BY OperationsMoveOrders DEF ExpirableOrderStatuses, ManagerSettable
<1> DEFINE d == [transfer |-> t, order |-> o]
<1>2. t.amount = AmountUsdt[o] /\ t.blockTimestamp > orderExpiresAt[o]
  BY <1>1 DEF Book!Outcome, Book!Credit
<1>3. d \in deposits'
  BY <1>1 DEF Book!Credit
<1> QED
  BY <1>2, <1>3

LateStatuses ==
    \A o \in SellOrders :
        status[o] = "late_payment" =>
            \E d \in DepositsOf(o) :
                /\ d.transfer.amount = AmountUsdt[o]
                /\ d.transfer.blockTimestamp > orderExpiresAt[o]

LateAddresses ==
    \A a \in Addresses :
        addressStatus[a] = "late_funded" =>
            \E d \in deposits :
                /\ d.transfer.toAddress = a
                /\ d.transfer.blockTimestamp > orderExpiresAt[d.order]

\* A payment is late for the transfer's block time alone.
THEOREM LateIsLate == Spec => []LatePaymentsAreLate
<1>0. LatePaymentsAreLate <=> LateStatuses /\ LateAddresses
  BY DEF LatePaymentsAreLate, LateStatuses, LateAddresses
<1>1. Init => LatePaymentsAreLate
  BY DEF Init, LatePaymentsAreLate, Orders
<1>2. IInv /\ IInv' /\ TransfersAreOnChain /\ LatePaymentsAreLate /\ [Next]_vars
         => LatePaymentsAreLate'
  <2> SUFFICES ASSUME IInv, IInv', TransfersAreOnChain, LateStatuses, LateAddresses,
                      [Next]_vars
               PROVE  LateStatuses' /\ LateAddresses'
    BY <1>0 DEF LatePaymentsAreLate, LateStatuses, LateAddresses
  <2>1. CASE UNCHANGED vars
    BY <2>1 DEF vars, orderVars, addressVars, LateStatuses, LateAddresses, DepositsOf
  <2>2. CASE Next
    <3>1. Book!Next \/ UNCHANGED BookRows
      BY <2>2, CommitsAreOperations
    <3>2. /\ \A o \in Orders : Created(o) => orderExpiresAt'[o] = orderExpiresAt[o]
          /\ deposits \subseteq deposits'
      BY <3>1, OperationsKeepTerms DEF IInv
    <3>3. LateStatuses'
      <4> SUFFICES ASSUME NEW o \in SellOrders, status'[o] = "late_payment"
                   PROVE  \E d \in deposits' :
                             /\ d.order = o
                             /\ d.transfer.amount = AmountUsdt[o]
                             /\ d.transfer.blockTimestamp > orderExpiresAt'[o]
        BY DEF LateStatuses, DepositsOf
      <4>1. CASE status[o] = "late_payment"
        BY <4>1, <3>2 DEF LateStatuses, DepositsOf, Created, Orders
      <4>2. CASE status[o] # "late_payment"
        <5>1. status[o] # "none"
          BY <3>1, <4>2, OperationsMoveOrders
             DEF IInv, Orders, ExpirableOrderStatuses, OpenOrderStatuses
        <5>2. orderExpiresAt'[o] = orderExpiresAt[o]
          BY <3>2, <5>1 DEF Created, Orders
        <5>3. o \in Orders /\ TypeOK
          BY DEF IInv, Orders
        <5>4. PICK d \in deposits' :
                 /\ d.order = o
                 /\ d.transfer.amount = AmountUsdt[o]
                 /\ d.transfer.blockTimestamp > orderExpiresAt[o]
          BY <3>1, <4>2, <5>3, OperationsJudgeByDeadline
        <5> QED
          BY <5>2, <5>4
      <4> QED
        BY <4>1, <4>2
    <3>4. \A d \in deposits : orderExpiresAt'[d.order] = orderExpiresAt[d.order]
      <4> SUFFICES ASSUME NEW d \in deposits
                   PROVE  d.order \in Orders /\ Created(d.order)
        BY <3>2
      <4>1. /\ d.order \in Orders
            /\ d.transfer.toAddress \in Addresses
            /\ depositAddress[d.order] = d.transfer.toAddress
        BY DEF IInv, TypeOK, DepositsBelongToTheirOrder, Deposit, Transfer, Orders
      <4> QED
        BY <4>1, NullsAssumption DEF IInv, AddressesHaveOneOrder
    <3>5. ASSUME NEW a \in Addresses, addressStatus'[a] = "late_funded"
          PROVE  \E d \in deposits' :
                    /\ d.transfer.toAddress = a
                    /\ d.transfer.blockTimestamp > orderExpiresAt'[d.order]
      <4>1. CASE addressStatus[a] = "late_funded"
        BY <4>1, <3>2, <3>4 DEF LateAddresses
      <4>2. CASE addressStatus[a] # "late_funded"
        <5>1. PICK w \in Ingesters : IngestWrite(w)
          BY <2>2, <3>5, <4>2
             DEF Next, Environment, Tick, SendTransfer, Customer, CreateSellUsdtOrder,
                 CreateBuyUsdtOrder, Manager, ManagerReadStatus, ManagerWriteStatus,
                 ManagerReadPayout, ManagerWritePayout, ManagerRollback, Expirer,
                 ExpireRead, ExpireWrite, ExpireRollback, Ingester, IngestRead,
                 IngestRollback, addressVars, IInv, TypeOK
        <5> DEFINE txn == ingestTxn[w]
                   o == txn.order
        <5>2. PICK next :
                 /\ status' = [status EXCEPT ![o] = next]
                 /\ addressStatus' = [addressStatus EXCEPT ![txn.transfer.toAddress] =
                                        NextDepositAddressStatus(next)]
          BY <5>1 DEF IngestWrite
        <5>3. a = txn.transfer.toAddress /\ next = "late_payment"
          BY <3>5, <4>2, <5>2 DEF IInv, TypeOK, NextDepositAddressStatus
        <5>4. o \in SellOrders /\ depositAddress'[o] = a
          BY <5>1, <5>3, TxnKinds
             DEF IngestWrite, IngestTxn, IInv, TxnsReadExistingOrders, Idle
        <5>5. status'[o] = "late_payment"
          BY <5>2, <5>3, <5>4 DEF IInv, TypeOK, Orders
        <5>6. PICK d \in deposits' :
                 d.order = o /\ d.transfer.blockTimestamp > orderExpiresAt'[o]
          BY <3>3, <5>4, <5>5 DEF LateStatuses, DepositsOf
        <5>7. d.transfer.toAddress = a
          BY <5>4, <5>6 DEF IInv, DepositsBelongToTheirOrder
        <5> QED
          BY <5>6, <5>7
      <4> QED
        BY <4>1, <4>2
    <3> QED
      BY <3>3, <3>5 DEF LateAddresses
  <2> QED
    BY <2>1, <2>2
<1> QED
  BY <1>1, <1>2, Inductive, OnChain, PTL DEF Spec
=============================================================================

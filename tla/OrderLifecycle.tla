--------------------------- MODULE OrderLifecycle ---------------------------
(***************************************************************************)
(* The life of exchange orders in the PostgreSQL database, as driven by    *)
(* four kinds of concurrent actors: customers creating orders, managers    *)
(* changing them, the expiration job, and the deposit ingestion.           *)
(*                                                                         *)
(* Managers, expiration and ingestion work in READ COMMITTED transactions  *)
(* that first read rows and later write them.  Each is two actions here:   *)
(* one that reads and remembers what it saw, and one that performs every   *)
(* write and commits, or rolls everything back.  The write phase is one    *)
(* action because each row lock it takes is held until the commit and each *)
(* conditional update re-evaluates its condition on the committed row.     *)
(* Creating a SELL order is one action: AddressReservation models the      *)
(* races inside it.                                                        *)
(***************************************************************************)
EXTENDS ExchangeDomain, FiniteSets

CONSTANTS
    SellOrders,       \* public ids of SELL_USDT orders that may be created
    BuyOrders,        \* public ids of BUY_USDT orders that may be created
    Addresses,        \* imported TRON deposit addresses
    TransferIds,      \* (txId, logIndex) pairs of USDT transfers on chain
    Amounts,          \* transferred amounts
    AmountUsdt,       \* the amount each SELL order expects
    PayoutTxIds,      \* TRON transaction ids managers may enter as payouts
    Managers,         \* concurrent manager requests
    ManagerTargets,   \* bound: the settable statuses managers ask for
    Expirers,         \* concurrent runs of the expiration job
    Ingesters,        \* concurrent ingestions of one transfer each
    OrderTtls,        \* order lifetimes a request may carry
    MaxRequestDelay,  \* bound: age of a request's `now` when it commits
    ExpirationLimit,  \* most orders one expiration batch takes
    MaxTime,          \* bound: the clock stops here
    NoAddress,        \* null depositAddressId
    NoTxId            \* null payoutTxId

Orders == SellOrders \cup BuyOrders

ASSUME DirectionsAssumption == SellOrders \cap BuyOrders = {}
ASSUME AmountsAssumption == AmountUsdt \in [SellOrders -> Amounts]
ASSUME NullsAssumption == NoAddress \notin Addresses /\ NoTxId \notin PayoutTxIds
ASSUME TimesAssumption ==
    /\ OrderTtls \subseteq Nat \ {0}
    /\ MaxRequestDelay \in Nat
    /\ ExpirationLimit \in Nat \ {0}
    /\ MaxTime \in Nat

ASSUME TargetsAssumption == ManagerTargets \subseteq ManagerSettable

VARIABLES
    clock,           \* wall clock of the servers and of the chain
    chain,           \* confirmed USDT transfers
    status,          \* Order.status, "none" while the row does not exist
    orderExpiresAt,  \* Order.orderExpiresAt
    depositAddress,  \* Order.depositAddressId
    payoutTxId,      \* Order.payoutTxId
    addressStatus,   \* DepositAddress.status
    reservedAt,      \* DepositAddress.reservedAt, 0 until it is reserved
    deposits,        \* BlockchainTransaction rows
    managerTxn,      \* what each manager request's transaction has read
    expiryTxn,       \* the (order, status) pairs an expiration batch has read
    ingestTxn,       \* what each ingestion's transaction has read
    audit            \* AuditLog rows the latest step inserted

orderVars == <<status, orderExpiresAt, depositAddress, payoutTxId>>
addressVars == <<addressStatus, reservedAt>>
txnVars == <<managerTxn, expiryTxn, ingestTxn>>
vars == <<clock, chain, orderVars, addressVars, deposits, txnVars, audit>>

-----------------------------------------------------------------------------
(* The shapes of rows and of transactions in flight.                       *)

Transfer == [id: TransferIds, toAddress: Addresses, amount: Amounts,
             blockTimestamp: Nat]

Deposit == [transfer: Transfer, order: SellOrders]

AuditRow == [action: {"manager_order_status_changed", "order_expired",
                      "manual_crypto_payout_recorded", "tron_deposit_detected"},
             order: Orders, previousStatus: OrderStatus, nextStatus: OrderStatus]

Idle == [op |-> "idle"]

StatusTxn == [op: {"status"}, order: Orders,
              seen: OrderStatus \ TerminalOrderStatuses,
              target: ManagerSettable]

PayoutTxn == [op: {"payout"}, order: BuyOrders,
              seen: OpenForManualCryptoPayout, txId: PayoutTxIds]

ExpiryTxn == [order: Orders, seen: ExpirableOrderStatuses]

IngestTxn == [op: {"ingest"}, transfer: Transfer, order: SellOrders,
              seenOrder: OpenOrderStatuses, seenAddress: OpenAddressStatuses]

Created(o) == status[o] # "none"

\* The AuditLog row a status change of order o writes.
AuditEntry(action, o, previous, next) ==
    [action |-> action, order |-> o, previousStatus |-> previous,
     nextStatus |-> next]

-----------------------------------------------------------------------------
(* Time passes, and anybody may send USDT to any address at any time.      *)

Tick ==
    /\ clock < MaxTime
    /\ clock' = clock + 1
    /\ audit' = {}
    /\ UNCHANGED <<chain, orderVars, addressVars, deposits, txnVars>>

SendTransfer(id, a, amount) ==
    /\ \A t \in chain : t.id # id
    /\ chain' = chain \cup {[id |-> id, toAddress |-> a, amount |-> amount,
                             blockTimestamp |-> clock]}
    /\ audit' = {}
    /\ UNCHANGED <<clock, orderVars, addressVars, deposits, txnVars>>

-----------------------------------------------------------------------------
(* Customers create orders.  `now` was read when the request arrived, so   *)
(* it may be older than the clock when the transaction commits.            *)

RequestTimes == {now \in 0..clock : now + MaxRequestDelay >= clock}

\* Mutated: the address of an expired order is recycled.
ReservableAgain(a) == addressStatus[a] \in {"available", "expired"}

Reservable(a) == addressStatus[a] = "available"

CreateSellUsdtOrder(o, a, now, ttl) ==
    /\ ~Created(o)
    /\ Reservable(a)
    /\ status' = [status EXCEPT ![o] = "awaiting_deposit"]
    /\ orderExpiresAt' = [orderExpiresAt EXCEPT ![o] = now + ttl]
    /\ depositAddress' = [depositAddress EXCEPT ![o] = a]
    /\ addressStatus' = [addressStatus EXCEPT ![a] = "reserved"]
    /\ reservedAt' = [reservedAt EXCEPT ![a] = now]
    /\ audit' = {}
    /\ UNCHANGED <<clock, chain, payoutTxId, deposits, txnVars>>

CreateBuyUsdtOrder(o, now, ttl) ==
    /\ ~Created(o)
    /\ status' = [status EXCEPT ![o] = "awaiting_office_visit"]
    /\ orderExpiresAt' = [orderExpiresAt EXCEPT ![o] = now + ttl]
    /\ audit' = {}
    /\ UNCHANGED <<clock, chain, depositAddress, payoutTxId, addressVars,
                   deposits, txnVars>>

-----------------------------------------------------------------------------
(* Managers.  A status update checks the status it read and then writes    *)
(* unconditionally; a payout repeats its check in the update's condition.  *)

\* Mutated: completion without a payout is not refused.
FitsPayoutDirection(o, target) ==
    /\ o \in BuyOrders => target # "ready_for_cash_payout"
    /\ o \in SellOrders => target # "ready_for_crypto_payout"

FitsDirection(o, target) ==
    /\ o \in BuyOrders => target \notin {"completed", "ready_for_cash_payout"}
    /\ o \in SellOrders => target # "ready_for_crypto_payout"

ManagerReadStatus(m, o, target) ==
    /\ managerTxn[m] = Idle
    /\ Created(o)
    /\ status[o] \notin TerminalOrderStatuses
    /\ FitsDirection(o, target)
    /\ managerTxn' = [managerTxn EXCEPT ![m] =
                        [op |-> "status", order |-> o, seen |-> status[o],
                         target |-> target]]
    /\ audit' = {}
    /\ UNCHANGED <<clock, chain, orderVars, addressVars, deposits, expiryTxn,
                   ingestTxn>>

ManagerWriteStatus(m) ==
    LET txn == managerTxn[m] IN
    /\ txn.op = "status"
    /\ status' = [status EXCEPT ![txn.order] = txn.target]
    /\ audit' = {AuditEntry("manager_order_status_changed", txn.order,
                            txn.seen, txn.target)}
    /\ managerTxn' = [managerTxn EXCEPT ![m] = Idle]
    /\ UNCHANGED <<clock, chain, orderExpiresAt, depositAddress, payoutTxId,
                   addressVars, deposits, expiryTxn, ingestTxn>>

ManagerReadPayout(m, o, txId) ==
    /\ managerTxn[m] = Idle
    /\ status[o] \in OpenForManualCryptoPayout
    /\ managerTxn' = [managerTxn EXCEPT ![m] =
                        [op |-> "payout", order |-> o, seen |-> status[o],
                         txId |-> txId]]
    /\ audit' = {}
    /\ UNCHANGED <<clock, chain, orderVars, addressVars, deposits, expiryTxn,
                   ingestTxn>>

\* Mutated: the update does not require payoutTxId to be null.
PayoutAcceptedAgain(o, txId) ==
    /\ status[o] \in OpenForManualCryptoPayout
    /\ \A other \in BuyOrders : payoutTxId[other] # txId

\* The condition of the update; the last conjunct is the unique index.
PayoutAccepted(o, txId) ==
    /\ payoutTxId[o] = NoTxId
    /\ status[o] \in OpenForManualCryptoPayout
    /\ \A other \in BuyOrders : payoutTxId[other] # txId

ManagerWritePayout(m) ==
    LET txn == managerTxn[m] IN
    /\ txn.op = "payout"
    /\ PayoutAccepted(txn.order, txn.txId)
    /\ status' = [status EXCEPT ![txn.order] = "completed"]
    /\ payoutTxId' = [payoutTxId EXCEPT ![txn.order] = txn.txId]
    /\ audit' = {AuditEntry("manual_crypto_payout_recorded", txn.order,
                            txn.seen, "completed")}
    /\ managerTxn' = [managerTxn EXCEPT ![m] = Idle]
    /\ UNCHANGED <<clock, chain, orderExpiresAt, depositAddress, addressVars,
                   deposits, expiryTxn, ingestTxn>>

\* The transaction ends without effect: a refused payout, or a lost server.
ManagerRollback(m) ==
    /\ managerTxn[m] # Idle
    /\ managerTxn' = [managerTxn EXCEPT ![m] = Idle]
    /\ audit' = {}
    /\ UNCHANGED <<clock, chain, orderVars, addressVars, deposits, expiryTxn,
                   ingestTxn>>

-----------------------------------------------------------------------------
(* The expiration job: one transaction for a whole batch, oldest first.    *)

\* Mutated: the batch is not restricted to the waiting statuses.
DueWhateverStatus == {o \in Orders : Created(o) /\ orderExpiresAt[o] <= clock}

DueForExpiration ==
    {o \in Orders : /\ status[o] \in ExpirableOrderStatuses
                    /\ orderExpiresAt[o] <= clock}

\* The batches `orderBy: orderExpiresAt asc, take: limit` may return.
OldestDueBatch(batch) ==
    /\ \A o \in batch, later \in DueForExpiration \ batch :
          orderExpiresAt[o] <= orderExpiresAt[later]
    /\ \/ Cardinality(batch) = ExpirationLimit
       \/ batch = DueForExpiration /\ Cardinality(batch) < ExpirationLimit

ExpireRead(x, batch) ==
    /\ expiryTxn[x] = {}
    /\ batch # {}
    /\ OldestDueBatch(batch)
    /\ expiryTxn' = [expiryTxn EXCEPT ![x] =
                       {[order |-> o, seen |-> status[o]] : o \in batch}]
    /\ audit' = {}
    /\ UNCHANGED <<clock, chain, orderVars, addressVars, deposits, managerTxn,
                   ingestTxn>>

\* Mutated: the update does not repeat the status the batch read.
StillSeenOrNot(x) == {o \in Orders : \E e \in expiryTxn[x] : e.order = o}

\* Mutated: the first order that changed ends the batch instead of being skipped.
StillSeenTogether(x) ==
    {o \in Orders : /\ \E e \in expiryTxn[x] : e.order = o
                    /\ \A e \in expiryTxn[x] : e.seen = status[e.order]}

\* Orders of the batch whose status is still the one the batch read; the
\* others are skipped.
StillSeen(x) == {o \in Orders : [order |-> o, seen |-> status[o]] \in expiryTxn[x]}

\* Updating one of these addresses matches no row, and the batch throws.
UnreservedAddressIn(os) ==
    \E o \in os : /\ depositAddress[o] # NoAddress
                  /\ addressStatus[depositAddress[o]] # "reserved"

ExpireWrite(x) ==
    LET expiring == StillSeen(x) IN
    /\ expiryTxn[x] # {}
    /\ ~UnreservedAddressIn(expiring)
    /\ status' = [o \in Orders |-> IF o \in expiring THEN "expired" ELSE status[o]]
    /\ addressStatus' =
         [a \in Addresses |-> IF \E o \in expiring : depositAddress[o] = a
                              THEN "expired" ELSE addressStatus[a]]
    /\ audit' = {AuditEntry("order_expired", o, status[o], "expired") :
                   o \in expiring}
    /\ expiryTxn' = [expiryTxn EXCEPT ![x] = {}]
    /\ UNCHANGED <<clock, chain, orderExpiresAt, depositAddress, payoutTxId,
                   reservedAt, deposits, managerTxn, ingestTxn>>

\* The batch throws on an address that is not reserved, or its server is lost.
ExpireRollback(x) ==
    /\ expiryTxn[x] # {}
    /\ expiryTxn' = [expiryTxn EXCEPT ![x] = {}]
    /\ audit' = {}
    /\ UNCHANGED <<clock, chain, orderVars, addressVars, deposits, managerTxn,
                   ingestTxn>>

-----------------------------------------------------------------------------
(* Deposit ingestion: any confirmed transfer may be delivered at any later *)
(* time, any number of times and by several runs at once.                  *)

\* Mutated: transfers mined before the reservation are accepted.
AcceptedBeforeReservation(t, o) ==
    /\ depositAddress[o] = t.toAddress
    /\ addressStatus[t.toAddress] \in OpenAddressStatuses
    /\ status[o] \in OpenOrderStatuses

\* The early returns of ingestUsdtDepositInDb, negated.
AcceptedOnRead(t, o) ==
    /\ depositAddress[o] = t.toAddress
    /\ t.blockTimestamp >= reservedAt[t.toAddress]
    /\ addressStatus[t.toAddress] \in OpenAddressStatuses
    /\ status[o] \in OpenOrderStatuses

IngestRead(w, t, o) ==
    /\ ingestTxn[w] = Idle
    /\ AcceptedOnRead(t, o)
    /\ ingestTxn' = [ingestTxn EXCEPT ![w] =
                       [op |-> "ingest", transfer |-> t, order |-> o,
                        seenOrder |-> status[o],
                        seenAddress |-> addressStatus[t.toAddress]]]
    /\ audit' = {}
    /\ UNCHANGED <<clock, chain, orderVars, addressVars, deposits, managerTxn,
                   expiryTxn>>

\* Mutated: there is no unique index on the transfer.
NeverRecorded(id) == FALSE

AlreadyRecorded(id) == \E d \in deposits : d.transfer.id = id

\* Mutated: the order's update does not repeat the status that was read.
AddressSeenUnchanged(txn) ==
    addressStatus[txn.transfer.toAddress] = txn.seenAddress

\* The two conditional updates: order and address are still as they were read.
SeenUnchanged(txn) ==
    /\ status[txn.order] = txn.seenOrder
    /\ addressStatus[txn.transfer.toAddress] = txn.seenAddress

IngestWrite(w) ==
    LET txn == ingestTxn[w]
        t == txn.transfer
        next == DecideNextOrderStatus(txn.seenOrder, t.amount,
                  AmountUsdt[txn.order], t.blockTimestamp,
                  orderExpiresAt[txn.order])
    IN
    /\ txn.op = "ingest"
    /\ ~AlreadyRecorded(t.id)
    /\ SeenUnchanged(txn)
    /\ deposits' = deposits \cup {[transfer |-> t, order |-> txn.order]}
    /\ status' = [status EXCEPT ![txn.order] = next]
    /\ addressStatus' = [addressStatus EXCEPT ![t.toAddress] =
                           NextDepositAddressStatus(next)]
    /\ audit' = {AuditEntry("tron_deposit_detected", txn.order, txn.seenOrder, next)}
    /\ ingestTxn' = [ingestTxn EXCEPT ![w] = Idle]
    /\ UNCHANGED <<clock, chain, orderExpiresAt, depositAddress, payoutTxId,
                   reservedAt, managerTxn, expiryTxn>>

\* The transfer is a duplicate, a row changed since it was read (the inserted
\* row is rolled back with the rest), or the process is lost.
IngestRollback(w) ==
    /\ ingestTxn[w] # Idle
    /\ ingestTxn' = [ingestTxn EXCEPT ![w] = Idle]
    /\ audit' = {}
    /\ UNCHANGED <<clock, chain, orderVars, addressVars, deposits, managerTxn,
                   expiryTxn>>

-----------------------------------------------------------------------------
Init ==
    /\ clock = 0
    /\ chain = {}
    /\ status = [o \in Orders |-> "none"]
    /\ orderExpiresAt = [o \in Orders |-> 0]
    /\ depositAddress = [o \in Orders |-> NoAddress]
    /\ payoutTxId = [o \in Orders |-> NoTxId]
    /\ addressStatus = [a \in Addresses |-> "available"]
    /\ reservedAt = [a \in Addresses |-> 0]
    /\ deposits = {}
    /\ managerTxn = [m \in Managers |-> Idle]
    /\ expiryTxn = [x \in Expirers |-> {}]
    /\ ingestTxn = [w \in Ingesters |-> Idle]
    /\ audit = {}

Environment ==
    \/ Tick
    \/ \E id \in TransferIds, a \in Addresses, amount \in Amounts :
          SendTransfer(id, a, amount)

Customer ==
    \E now \in RequestTimes, ttl \in OrderTtls :
        \/ \E o \in SellOrders, a \in Addresses : CreateSellUsdtOrder(o, a, now, ttl)
        \/ \E o \in BuyOrders : CreateBuyUsdtOrder(o, now, ttl)

Manager(m) ==
    \/ \E o \in Orders, target \in ManagerTargets : ManagerReadStatus(m, o, target)
    \/ ManagerWriteStatus(m)
    \/ \E o \in BuyOrders, txId \in PayoutTxIds : ManagerReadPayout(m, o, txId)
    \/ ManagerWritePayout(m)
    \/ ManagerRollback(m)

Expirer(x) ==
    \/ \E batch \in SUBSET DueForExpiration : ExpireRead(x, batch)
    \/ ExpireWrite(x)
    \/ ExpireRollback(x)

Ingester(w) ==
    \/ \E t \in chain, o \in SellOrders : IngestRead(w, t, o)
    \/ IngestWrite(w)
    \/ IngestRollback(w)

Next ==
    \/ Environment
    \/ Customer
    \/ \E m \in Managers : Manager(m)
    \/ \E x \in Expirers : Expirer(x)
    \/ \E w \in Ingesters : Ingester(w)

Spec == Init /\ [][Next]_vars

\* The scheduler starts the expiration job every few minutes, so a batch is
\* eventually read while orders are due, and not every run is lost before it
\* commits.  Nobody else is obliged to act.
ExpirationFairness ==
    \A x \in Expirers :
        /\ WF_vars(\E batch \in SUBSET DueForExpiration : ExpireRead(x, batch))
        /\ SF_vars(ExpireWrite(x))

FairSpec == Spec /\ ExpirationFairness
-----------------------------------------------------------------------------
(* Safety properties.                                                      *)

\* Every variable holds rows and transactions of the shapes declared above.
TypeOK ==
    /\ clock \in 0..MaxTime
    /\ chain \subseteq Transfer
    /\ status \in [Orders -> OrderStatus \cup {"none"}]
    /\ orderExpiresAt \in [Orders -> Nat]
    /\ depositAddress \in [Orders -> Addresses \cup {NoAddress}]
    /\ payoutTxId \in [Orders -> PayoutTxIds \cup {NoTxId}]
    /\ addressStatus \in [Addresses -> DepositAddressStatus]
    /\ reservedAt \in [Addresses -> Nat]
    /\ deposits \subseteq Deposit
    /\ managerTxn \in [Managers -> StatusTxn \cup PayoutTxn \cup {Idle}]
    /\ expiryTxn \in [Expirers -> SUBSET ExpiryTxn]
    /\ ingestTxn \in [Ingesters -> IngestTxn \cup {Idle}]
    /\ audit \subseteq AuditRow

DepositsOf(o) == {d \in deposits : d.order = o}

\* A SELL order still awaiting its deposit holds an address that is reserved,
\* and no transfer has been recorded for it, whatever managers, expiration
\* batches and ingestions interleave (orderApplicationService, expireOrders
\* and ingestUsdtDeposit each update order and address in one transaction).
AwaitingOrderIsUnpaid ==
    \A o \in SellOrders :
        status[o] = "awaiting_deposit" =>
            /\ depositAddress[o] # NoAddress
            /\ addressStatus[depositAddress[o]] = "reserved"
            /\ DepositsOf(o) = {}

\* An expiration batch never reaches its "deposit address is no longer
\* reserved" error: one such order would make every batch roll back, and no
\* order would expire again.
ExpirationBatchNeverThrows ==
    \A x \in Expirers : ~UnreservedAddressIn(StillSeen(x))

\* Only a recorded transfer of the exact amount, mined by the deadline, puts
\* an order into funds_detected, the status from which it is paid out
\* (decideNextOrderStatus; managers cannot set the status).
FundsDetectedIsJustified ==
    \A o \in SellOrders :
        status[o] = "funds_detected" =>
            \E d \in DepositsOf(o) :
                /\ d.transfer.amount = AmountUsdt[o]
                /\ d.transfer.blockTimestamp <= orderExpiresAt[o]

\* An address is marked funded or late_funded exactly when a transfer to it
\* has been recorded: neither expiration nor a second ingestion loses the mark.
FundedMeansRecorded ==
    \A a \in Addresses :
        addressStatus[a] \in {"funded", "late_funded"}
            <=> \E d \in deposits : d.transfer.toAddress = a

\* A transfer is recorded under one order only: the one that owns the address
\* it went to, and had reserved it by the time the transfer was mined.
DepositsBelongToTheirOrder ==
    /\ \A d \in deposits :
          /\ depositAddress[d.order] = d.transfer.toAddress
          /\ d.transfer.blockTimestamp >= reservedAt[d.transfer.toAddress]
    /\ \A d, e \in deposits : d.transfer.id = e.transfer.id => d = e

\* A completed BUY order carries the transaction that paid it, and a payout
\* transaction pays one order: no path completes an order without a payout.
BuyCompletionIsPaid ==
    /\ \A o \in BuyOrders : status[o] = "completed" => payoutTxId[o] # NoTxId
    /\ \A o, other \in BuyOrders :
          payoutTxId[o] = payoutTxId[other] /\ payoutTxId[o] # NoTxId => o = other

\* A recorded payout is never replaced, although a stale status update may
\* put an order that was paid back into a status open for payout.
PayoutIsFinal ==
    [][\A o \in BuyOrders : payoutTxId[o] # NoTxId => payoutTxId'[o] = payoutTxId[o]]_vars

\* A manager's row, with the status the request that commits now had read, also
\* when the order has left that status since.
StaleManagerRow(row) ==
    /\ row.action \in {"manager_order_status_changed", "manual_crypto_payout_recorded"}
    /\ \E m \in Managers :
          /\ managerTxn[m] # Idle /\ managerTxn'[m] = Idle
          /\ managerTxn[m].order = row.order
          /\ managerTxn[m].seen = row.previousStatus

\* The AuditLog follows the orders: each change of an existing order's status
\* writes a row, and each row is true.  Its next status is the one the order got,
\* so that an order a batch skipped has no row, and its previous status the one
\* the order had, unless a manager acts on a stale read: an expiration and an
\* ingestion repeat what they read in the conditions of their updates.
AuditRecordsEveryChange ==
    [][/\ \A o \in Orders :
            Created(o) /\ status'[o] # status[o] => \E row \in audit' : row.order = o
       /\ \A row \in audit' :
            /\ Created(row.order) /\ row.nextStatus = status'[row.order]
            /\ row.previousStatus = status[row.order] \/ StaleManagerRow(row)]_vars

\* The expiration job expires an order only after its deadline and only while
\* no transfer is recorded for it, also when its batch was read long before.
ExpirationTakesUnpaidDueOrders ==
    [][\A row \in audit' :
         row.action = "order_expired" =>
            /\ status[row.order] \in ExpirableOrderStatuses
            /\ orderExpiresAt[row.order] <= clock
            /\ DepositsOf(row.order) = {}]_vars

\* A transfer has effect once: each "tron_deposit_detected" comes with a
\* BlockchainTransaction row that was not there before, so a redelivered
\* transfer never changes an order or an address again.
TransferTakesEffectOnce ==
    [][\A row \in audit' :
         row.action = "tron_deposit_detected" =>
            \E d \in deposits' \ deposits : d.order = row.order]_vars

\* An address is used for one order in its life: it never becomes available or
\* reserved again, and once funded it never stops being funded.
AddressesAreNeverReused ==
    [][\A a \in Addresses :
         /\ addressStatus[a] # "available" =>
               addressStatus'[a] \in {addressStatus[a]} \cup
                                     {"expired", "funded", "late_funded"}
         /\ addressStatus[a] \in {"funded", "late_funded"} =>
               addressStatus'[a] \in {"funded", "late_funded"}]_vars

\* Creating orders implements the address allocator, whatever else happens to
\* the addresses: a SELL order gets one address, for good and for itself.
Allocator ==
    INSTANCE AddressAllocator
        WITH Orders <- SellOrders,
             pool <- Addresses,
             assigned <- [o \in SellOrders |-> depositAddress[o]]

ImplementsAllocator == Allocator!Spec

\* Requests and jobs that read rows and write them later implement the order
\* book, in which each of them is one step: what a transaction relies on still
\* holds when it writes, except for a manager's status update.
Book ==
    INSTANCE OrderBook
        WITH deadline <- orderExpiresAt,
             address <- depositAddress,
             recorded <- deposits,
             payout <- payoutTxId,
             Deadlines <- UNION {{now + ttl : now \in 0..MaxTime} : ttl \in OrderTtls}

ImplementsOrderBook == Book!Spec

\* A terminal order changes its status again in two ways only: by a status
\* update that read it before it became terminal (which ManagersLeaveTerminalOrders
\* shows to happen), or, once expired, by a transfer recorded for it.  No
\* expiration batch and no payout reopens or overwrites one.
OnlyStaleUpdatesReopenOrders ==
    [][\A o \in Orders :
         status[o] \in TerminalOrderStatuses /\ status'[o] # status[o] =>
            \/ \E m \in Managers :
                  /\ managerTxn[m].op = "status"
                  /\ managerTxn[m].order = o
                  /\ managerTxn[m].seen \notin TerminalOrderStatuses
                  /\ managerTxn'[m] = Idle
            \/ /\ status[o] = "expired"
               /\ \E d \in deposits' \ deposits : d.order = o]_vars

\* An order waits for its customer once: no stale status update, no ingestion
\* and no batch that rolls back puts it back into a status that expires.
OrdersWaitOnce ==
    [][\A o \in Orders :
         status'[o] \in ExpirableOrderStatuses => status[o] \in {"none", status'[o]}]_vars

\* A batch that commits is done with its orders, for good: those it skipped had
\* stopped waiting while it ran.  Since batches take the oldest orders, nothing
\* that can wait in front of an overdue order stays there.
BatchesAreDoneWith ==
    [][\A x \in Expirers :
         ExpireWrite(x) =>
            \A e \in expiryTxn[x] : status'[e.order] \notin ExpirableOrderStatuses]_vars

\* What a customer was shown stays: an order is never deleted, and keeps its
\* deadline and its deposit address; a recorded transfer stays recorded.
OrdersKeepTheirTerms ==
    [][/\ \A o \in Orders :
            Created(o) =>
                /\ Created(o)'
                /\ orderExpiresAt'[o] = orderExpiresAt[o]
                /\ depositAddress'[o] = depositAddress[o]
       /\ deposits \subseteq deposits']_vars

\* An order counts as paid late, and its address as funded late, only on
\* account of a recorded transfer mined after the order's deadline: neither the
\* time of the ingestion nor the expiration of the order makes a payment late.
LatePaymentsAreLate ==
    /\ \A o \in SellOrders :
          status[o] = "late_payment" =>
              \E d \in DepositsOf(o) :
                  /\ d.transfer.amount = AmountUsdt[o]
                  /\ d.transfer.blockTimestamp > orderExpiresAt[o]
    /\ \A a \in Addresses :
          addressStatus[a] = "late_funded" =>
              \E d \in deposits :
                  /\ d.transfer.toAddress = a
                  /\ d.transfer.blockTimestamp > orderExpiresAt[d.order]

\* The rule the manager service enforces on the row it reads ("terminal orders
\* cannot be changed by manager status update"), as a rule about the order.
ManagersLeaveTerminalOrders ==
    [][\A row \in audit' :
         row.action = "manager_order_status_changed" =>
            status[row.order] \notin TerminalOrderStatuses]_vars

\* An order past its deadline eventually leaves the statuses in which it waits
\* for the customer: no order of its batch, and no older one, blocks it.
OverdueOrderStopsWaiting ==
    \A o \in Orders :
        o \in DueForExpiration ~> status[o] \notin ExpirableOrderStatuses

-----------------------------------------------------------------------------
(* The inductive invariant behind the safety properties: who owns which    *)
(* address, and what a transaction in flight may still rely on although    *)
(* the rows it read have changed since.                                    *)

AddressesHaveOneOrder ==
    /\ \A o \in SellOrders : Created(o) => depositAddress[o] # NoAddress
    /\ \A o \in BuyOrders : depositAddress[o] = NoAddress
    /\ \A o \in Orders :
          depositAddress[o] # NoAddress =>
              Created(o) /\ addressStatus[depositAddress[o]] # "available"
    /\ \A o, other \in Orders :
          depositAddress[o] = depositAddress[other] /\ depositAddress[o] # NoAddress
              => o = other

SellOrdersAwaitDeposits == \A o \in SellOrders : status[o] # "awaiting_office_visit"

TxnsReadExistingOrders ==
    /\ \A m \in Managers :
          managerTxn[m] # Idle => Created(managerTxn[m].order)
    /\ \A m \in Managers :
          managerTxn[m].op = "status"
              => FitsDirection(managerTxn[m].order, managerTxn[m].target)
    /\ \A x \in Expirers : \A e \in expiryTxn[x] :
          Created(e.order) /\ orderExpiresAt[e.order] <= clock
    /\ \A w \in Ingesters :
          ingestTxn[w] # Idle =>
              LET t == ingestTxn[w].transfer IN
              /\ depositAddress[ingestTxn[w].order] = t.toAddress
              /\ t.blockTimestamp >= reservedAt[t.toAddress]

IInv ==
    /\ TypeOK
    /\ AddressesHaveOneOrder
    /\ SellOrdersAwaitDeposits
    /\ TxnsReadExistingOrders
    /\ AwaitingOrderIsUnpaid
    /\ FundsDetectedIsJustified
    /\ FundedMeansRecorded
    /\ DepositsBelongToTheirOrder
    /\ BuyCompletionIsPaid
=============================================================================

------------------------------ MODULE OrderBook ------------------------------
(***************************************************************************)
(* What the exchange promises about an order, without transactions: every  *)
(* operation looks at the rows and changes them in one step, so nothing it *)
(* relies on can change under it.  The address rows and the audit log are  *)
(* left out.  OrderLifecycle, whose requests and jobs read rows long       *)
(* before they write them, is shown to implement it.                       *)
(*                                                                         *)
(* Only the manager's decision has a weak precondition: it may hit an      *)
(* order in any status.  The code checks the status on a row that may have *)
(* changed by the time it writes, so no stronger one can be promised.      *)
(***************************************************************************)
EXTENDS ExchangeDomain

CONSTANTS
    SellOrders, BuyOrders,   \* orders that may be created
    Addresses,               \* deposit addresses
    TransferIds, Amounts,    \* transfers on chain
    AmountUsdt,              \* the amount each SELL order expects
    PayoutTxIds,             \* transactions that pay BUY orders
    Deadlines,               \* deadlines an order may get
    NoAddress, NoTxId        \* none yet

Orders == SellOrders \cup BuyOrders

VARIABLES
    clock,      \* the time
    chain,      \* transfers made so far
    status,     \* the order's status, "none" while there is no order
    deadline,   \* until when the order waits for its customer
    address,    \* where the customer of a SELL order sends the deposit
    recorded,   \* transfers credited to an order
    payout      \* the transaction that paid a BUY order

rows == <<status, deadline, address, recorded, payout>>
vars == <<clock, chain, rows>>

RecordedFor(o) == {d \in recorded : d.order = o}

-----------------------------------------------------------------------------
Init ==
    /\ clock = 0
    /\ chain = {}
    /\ status = [o \in Orders |-> "none"]
    /\ deadline = [o \in Orders |-> 0]
    /\ address = [o \in Orders |-> NoAddress]
    /\ recorded = {}
    /\ payout = [o \in Orders |-> NoTxId]

Tick ==
    /\ clock' = clock + 1
    /\ UNCHANGED <<chain, rows>>

\* Anybody sends USDT anywhere.
Send(id, a, amount) ==
    /\ \A t \in chain : t.id # id
    /\ chain' = chain \cup {[id |-> id, toAddress |-> a, amount |-> amount,
                             blockTimestamp |-> clock]}
    /\ UNCHANGED <<clock, rows>>

\* A SELL order opens with an address no order ever had.
OpenSell(o, a, d) ==
    /\ status[o] = "none"
    /\ \A other \in Orders : address[other] # a
    /\ status' = [status EXCEPT ![o] = "awaiting_deposit"]
    /\ deadline' = [deadline EXCEPT ![o] = d]
    /\ address' = [address EXCEPT ![o] = a]
    /\ UNCHANGED <<clock, chain, recorded, payout>>

OpenBuy(o, d) ==
    /\ status[o] = "none"
    /\ status' = [status EXCEPT ![o] = "awaiting_office_visit"]
    /\ deadline' = [deadline EXCEPT ![o] = d]
    /\ UNCHANGED <<clock, chain, address, recorded, payout>>

\* What a transfer makes of a SELL order: an order a manager already looks at
\* or that was paid late stays where it is.
Outcome(o, t) ==
    CASE status[o] \in {"manager_review", "late_payment"} -> status[o]
      [] status[o] \in {"awaiting_deposit", "expired"} /\ t.amount # AmountUsdt[o]
            -> "manager_review"
      [] status[o] \in {"awaiting_deposit", "expired"} /\ t.amount = AmountUsdt[o]
            -> IF t.blockTimestamp > deadline[o] THEN "late_payment"
               ELSE "funds_detected"

\* A transfer is credited once, to the order whose address it went to, while
\* that order is open for deposits.
Credit(o, t) ==
    /\ status[o] \in {"awaiting_deposit", "expired", "manager_review", "late_payment"}
    /\ t.toAddress = address[o]
    /\ \A d \in recorded : d.transfer # t
    /\ status' = [status EXCEPT ![o] = Outcome(o, t)]
    /\ recorded' = recorded \cup {[transfer |-> t, order |-> o]}
    /\ UNCHANGED <<clock, chain, deadline, address, payout>>

\* Orders whose customers did not come by the deadline, nor pay anything.
Overdue ==
    {o \in Orders : /\ status[o] \in {"awaiting_deposit", "awaiting_office_visit"}
                    /\ deadline[o] <= clock
                    /\ RecordedFor(o) = {}}

Lapse(lapsing) ==
    /\ lapsing \subseteq Overdue
    /\ status' = [o \in Orders |-> IF o \in lapsing THEN "expired" ELSE status[o]]
    /\ UNCHANGED <<clock, chain, deadline, address, recorded, payout>>

\* A manager gives any existing order a settable status of its direction.
Decide(o, target) ==
    /\ status[o] # "none"
    /\ o \in BuyOrders => target \notin {"completed", "ready_for_cash_payout"}
    /\ o \in SellOrders => target # "ready_for_crypto_payout"
    /\ status' = [status EXCEPT ![o] = target]
    /\ UNCHANGED <<clock, chain, deadline, address, recorded, payout>>

\* A BUY order is paid once, by a transaction that paid no other order.
PayOut(o, txId) ==
    /\ status[o] \in {"awaiting_office_visit", "manager_review",
                      "ready_for_crypto_payout"}
    /\ payout[o] = NoTxId
    /\ \A other \in BuyOrders : payout[other] # txId
    /\ status' = [status EXCEPT ![o] = "completed"]
    /\ payout' = [payout EXCEPT ![o] = txId]
    /\ UNCHANGED <<clock, chain, deadline, address, recorded>>

Next ==
    \/ Tick
    \/ \E id \in TransferIds, a \in Addresses, amount \in Amounts : Send(id, a, amount)
    \/ \E o \in SellOrders, a \in Addresses, d \in Deadlines : OpenSell(o, a, d)
    \/ \E o \in BuyOrders, d \in Deadlines : OpenBuy(o, d)
    \/ \E o \in SellOrders, t \in chain : Credit(o, t)
    \/ \E lapsing \in SUBSET Overdue : Lapse(lapsing)
    \/ \E o \in Orders, target \in ManagerSettable : Decide(o, target)
    \/ \E o \in BuyOrders, txId \in PayoutTxIds : PayOut(o, txId)

Spec == Init /\ [][Next]_vars
=============================================================================

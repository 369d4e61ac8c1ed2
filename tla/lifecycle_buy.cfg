\* Two BUY orders, two payout transactions and two concurrent managers.
SPECIFICATION Spec
CONSTANTS
    SellOrders = {}
    BuyOrders = {b1, b2}
    Addresses = {}
    TransferIds = {}
    exact = exact
    wrong = wrong
    Amounts = {}
    AmountUsdt <- MCAmountUsdt
    PayoutTxIds = {p1, p2}
    Managers = {m1, m2}
    ManagerTargets = {"pending_aml", "manager_review", "ready_for_cash_payout", "ready_for_crypto_payout", "completed", "cancelled", "expired", "rejected"}
    Expirers = {x1}
    Ingesters = {}
    OrderTtls = {1}
    MaxRequestDelay = 0
    ExpirationLimit = 1
    MaxTime = 1
    NoAddress = NoAddress
    NoTxId = NoTxId
SYMMETRY Symmetry
CHECK_DEADLOCK FALSE
INVARIANTS
    BuyCompletionIsPaid
PROPERTIES
    PayoutIsFinal
    OnlyStaleUpdatesReopenOrders

\* Two SELL orders and a BUY order expiring in batches of two.
SPECIFICATION Spec
CONSTANTS
    SellOrders = {s1, s2}
    BuyOrders = {b1}
    Addresses = {a1, a2}
    TransferIds = {t1}
    exact = exact
    wrong = wrong
    Amounts = {exact}
    AmountUsdt <- MCAmountUsdt
    PayoutTxIds = {}
    Managers = {m1}
    ManagerTargets = {"manager_review"}
    Expirers = {x1, x2}
    Ingesters = {w1}
    OrderTtls = {1}
    MaxRequestDelay = 1
    ExpirationLimit = 2
    MaxTime = 2
    NoAddress = NoAddress
    NoTxId = NoTxId
SYMMETRY Symmetry
CHECK_DEADLOCK FALSE
INVARIANTS
    ExpirationBatchNeverThrows
PROPERTIES
    ExpirationTakesUnpaidDueOrders
    AddressesAreNeverReused
    ImplementsOrderBook
    BatchesAreDoneWith

\* A SELL and a BUY order expiring in batches of one, under fairness.
SPECIFICATION FairSpec
CONSTANTS
    SellOrders = {s1}
    BuyOrders = {b1}
    Addresses = {a1}
    TransferIds = {t1}
    exact = exact
    wrong = wrong
    Amounts = {wrong, exact}
    AmountUsdt <- MCAmountUsdt
    PayoutTxIds = {}
    Managers = {m1}
    ManagerTargets = {"manager_review", "cancelled"}
    Expirers = {x1}
    Ingesters = {w1}
    OrderTtls = {1}
    MaxRequestDelay = 1
    ExpirationLimit = 1
    MaxTime = 2
    NoAddress = NoAddress
    NoTxId = NoTxId
CHECK_DEADLOCK FALSE
PROPERTIES
    OverdueOrderStopsWaiting

\* One SELL order, two addresses, two transfers ingested concurrently.
SPECIFICATION Spec
CONSTANTS
    SellOrders = {s1}
    BuyOrders = {}
    Addresses = {a1,a2}
    TransferIds = {t1, t2}
    exact = exact
    wrong = wrong
    Amounts = {exact, wrong}
    AmountUsdt <- MCAmountUsdt
    PayoutTxIds = {}
    Managers = {m1}
    ManagerTargets = {"pending_aml", "manager_review", "ready_for_cash_payout", "ready_for_crypto_payout", "completed", "cancelled", "expired", "rejected"}
    Expirers = {x1}
    Ingesters = {w1, w2}
    OrderTtls = {1}
    MaxRequestDelay = 1
    ExpirationLimit = 1
    MaxTime = 2
    NoAddress = NoAddress
    NoTxId = NoTxId
SYMMETRY Symmetry
CHECK_DEADLOCK FALSE
INVARIANTS
    AwaitingOrderIsUnpaid
    FundsDetectedIsJustified
    FundedMeansRecorded
    DepositsBelongToTheirOrder
    ReplayAgreesWithIngestion
    EveryOrderIsListedOnce
PROPERTIES
    AuditRecordsEveryChange
    TransferTakesEffectOnce

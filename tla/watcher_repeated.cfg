\* Two transfers to one order that no manager touches.
SPECIFICATION WatcherSpec
CONSTANTS
    SellOrders = {s1}
    BuyOrders = {}
    Addresses = {0}
    DerivationIndex <- MCDerivationIndex
    TransferIds = {t1, t2}
    exact = exact
    wrong = wrong
    Amounts = {exact, wrong}
    AmountUsdt <- MCAmountUsdt
    PayoutTxIds = {}
    Managers = {}
    ManagerTargets = {}
    Expirers = {x1}
    Ingesters = {w1}
    OrderTtls = {1}
    MaxRequestDelay = 0
    ExpirationLimit = 1
    MaxTime = 3
    AddressBatchSize = 2
    Depth = 1
    BlockRange = 2
    StartBlocks = {0, 1}
    CursorConfigs <- MCCursorConfigs
    Malformed = {}
    EventLag = 1
    NoAddress = NoAddress
    NoTxId = NoTxId
    NoCursor = NoCursor
CHECK_DEADLOCK FALSE
INVARIANTS
    EveryTransferIsRecorded

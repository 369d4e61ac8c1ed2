\* A single pass at a time, under a fair scheduler.
SPECIFICATION FairWatcherSpec
CONSTANTS
    SellOrders = {s1}
    BuyOrders = {}
    Addresses = {0}
    DerivationIndex <- MCDerivationIndex
    TransferIds = {t1, t2}
    exact = exact
    wrong = wrong
    Amounts = {exact, wrong}
    AmountUsdt <- MCAmountUsdt
    PayoutTxIds = {}
    Managers = {m1}
    ManagerTargets = {"manager_review"}
    Expirers = {x1}
    Ingesters = {w1}
    OrderTtls = {1}
    MaxRequestDelay = 0
    ExpirationLimit = 1
    MaxTime = 3
    AddressBatchSize = 2
    Depth = 1
    BlockRange = 1
    StartBlocks = {0}
    CursorConfigs <- MCCursorConfigs
    Malformed = {}
    EventLag = 1
    NoAddress = NoAddress
    NoTxId = NoTxId
    NoCursor = NoCursor
CHECK_DEADLOCK FALSE
PROPERTIES
    TransfersAreEventuallyRecorded

\* One pass over pages of one address, with a malformed event, while orders change.
SPECIFICATION WatcherSpec
CONSTANTS
    SellOrders = {s1, s2}
    BuyOrders = {}
    Addresses = {0, 1}
    DerivationIndex <- MCDerivationIndex
    TransferIds = {t1, t2}
    exact = exact
    wrong = wrong
    Amounts = {exact}
    AmountUsdt <- MCAmountUsdt
    PayoutTxIds = {}
    Managers = {m1}
    ManagerTargets = {"pending_aml"}
    Expirers = {x1}
    Ingesters = {w1}
    OrderTtls = {1}
    MaxRequestDelay = 0
    ExpirationLimit = 1
    MaxTime = 2
    AddressBatchSize = 1
    Depth = 1
    BlockRange = 2
    StartBlocks = {0}
    CursorConfigs <- MCCursorConfigs
    Malformed = {t2}
    EventLag = 1
    NoAddress = NoAddress
    NoTxId = NoTxId
    NoCursor = NoCursor
SYMMETRY Symmetry
CHECK_DEADLOCK FALSE
INVARIANTS
    WatcherIInv
PROPERTIES
    PassesRunOut

\* A SELL order of an earlier visit or none, and two submissions of this one.
SPECIFICATION FairSpec
CONSTANTS
    SellIds = {s1}
    BuyIds = {b1}
    UserIds = {u1, u2}
    Amounts = {1, 8}
    AtomicRates = {2, 7}
    AtomicScale = 5
    MaxAtomic = 1000
    LaterStatuses = {"expired"}
    NoOrder = NoOrder
    NoUser = NoUser
    DevUser = DevUser
    MockUser = MockUser
    DevAuthAllowed = TRUE
    Builds <- MCBuilds
CHECK_DEADLOCK FALSE
INVARIANTS
    FailedAppShowsNoOrder
    CustomerIsOneUser
    OrdersArePricedByTheirRate
PROPERTIES
    OnlyFirstRequestsReplaceCreatedOrder
    SubmissionShowsItsOrder
    NothingSpinsForEver

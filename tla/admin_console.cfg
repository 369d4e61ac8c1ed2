\* Five small instances side by side: logins, operators, revocation, answers.
SPECIFICATION FairSpec
CONSTANTS
    MaxFailedAttempts = 2
    LoginWindow = 2
    SessionTtl = 1
    Roles = {"manager", "owner"}
    l1 = l1
    l2 = l2
    l3 = l3
    d1 = d1
    d2 = d2
    c1 = c1
    c2 = c2
    s1 = s1
    b1 = b1
    p1 = p1
    p2 = p2
    Passwords = {p1, p2}
    Attempts = {l1, l2, l3}
    Commands = {d1, d2}
    SellIds = {s1}
    BuyIds = {b1}
    Slots = {c1, c2}
    Bounds <- MCBounds
    NoAccount = NoAccount
    NotDisabled = NotDisabled
    NoFailures = NoFailures
    Idle = Idle
    NoSession = NoSession
    NoOrder = NoOrder
    NoCall = NoCall
CHECK_DEADLOCK FALSE
INVARIANTS
    ConsoleShowsOrdersOnce
    LimiterBoundsGuesses
    DisabledAtIsNotLate
    RevokedSessionChangesNothing
    ConsoleFitsServer
PROPERTIES
    NothingLoadsForEver

\* Four SELL requests compete for three addresses.
SPECIFICATION Spec
CONSTANTS
    Addresses = {1, 2, 3}
    DerivationIndex <- MCDerivationIndex
    Requests <- MCRequests
    r1 = r1
    r2 = r2
    r3 = r3
    r4 = r4
    Users = {u1, u2, u3}
    u1 = u1
    u2 = u2
    u3 = u3
    UserOf <- MCUserOf
    Orders = {o1, o2, o3}
    o1 = o1
    o2 = o2
    o3 = o3
    PublicIdOf <- MCPublicIdOf
    MaxReservationAttempts = 2
    NoAddress = NoAddress
    NoRequest = NoRequest
INVARIANTS
    ReservedMeansOrdered
    AttemptsAreLostToOrders
    NoCircularWait
PROPERTIES
    RequestsRunOut
    ImplementsAllocator

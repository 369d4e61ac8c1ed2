------------------------- MODULE AddressReservation -------------------------
(***************************************************************************)
(* The transaction that creates a SELL order, statement by statement:      *)
(* concurrent requests read the lowest available deposit address, reserve  *)
(* it with a conditional update, retry when another request was faster,    *)
(* write the customer's profile, insert the order and commit, while an     *)
(* operator imports further addresses.                                     *)
(*                                                                         *)
(* The tables hold committed rows.  A transaction's own writes live in its *)
(* request record and in the locks it holds until it commits or rolls      *)
(* back: on the address it reserved, on its user's row, and on the publicId*)
(* it inserted.  A statement that needs a held lock waits.                 *)
(***************************************************************************)
EXTENDS Naturals, FiniteSets

CONSTANTS
    Addresses,               \* TRON addresses that may be imported
    DerivationIndex,         \* the wallet index of each address
    Requests,                \* concurrent POST /api/orders/sell-usdt requests
    Users,                   \* customers
    UserOf,                  \* the customer of each request
    Orders,                  \* public ids
    PublicIdOf,              \* the public id each request generated
    MaxReservationAttempts,  \* tries before a request gives up (3 in the code)
    NoAddress,               \* null
    NoRequest                \* nobody holds the lock

ASSUME PoolAssumption ==
    /\ NoAddress \notin Addresses
    /\ DerivationIndex \in [Addresses -> Nat]
    /\ \A a, b \in Addresses : DerivationIndex[a] = DerivationIndex[b] => a = b
ASSUME RequestsAssumption ==
    /\ NoRequest \notin Requests
    /\ UserOf \in [Requests -> Users]
    /\ IsFiniteSet(Requests)
    /\ PublicIdOf \in [Requests -> Orders]
    /\ MaxReservationAttempts \in Nat \ {0}

VARIABLES
    addressStatus,  \* DepositAddress.status, "absent" before the import
    orderAddress,   \* Order.depositAddressId, NoAddress while there is no row
    addressLock,    \* who updated an address and has not committed
    userLock,       \* who wrote a user's profile and has not committed
    publicIdLock,   \* who inserted a public id and has not committed
    request         \* stage, attempt and candidate of each request

locks == <<addressLock, userLock, publicIdLock>>
vars == <<addressStatus, orderAddress, locks, request>>

Ended == {"created", "no_address", "exhausted", "duplicate", "lost"}
Stages == {"arrived", "selecting", "reserving", "profile", "creating",
           "committing"} \cup Ended

Request == [stage: Stages, attempt: 0..MaxReservationAttempts - 1,
            candidate: Addresses \cup {NoAddress}]

MoveTo(r, stage) == request' = [request EXCEPT ![r].stage = stage]

-----------------------------------------------------------------------------
(* Locks.  The end of a transaction releases every lock it holds.          *)

Free(lock, x) == lock[x] = NoRequest

WithoutHolder(lock, r) ==
    [x \in DOMAIN lock |-> IF lock[x] = r THEN NoRequest ELSE lock[x]]

ReleaseLocks(r) ==
    /\ addressLock' = WithoutHolder(addressLock, r)
    /\ userLock' = WithoutHolder(userLock, r)
    /\ publicIdLock' = WithoutHolder(publicIdLock, r)

\* Mutated: the address is reserved outside the transaction of the order.
KeepReservation(r) ==
    addressStatus' = [a \in Addresses |-> IF addressLock[a] = r THEN "reserved"
                                          ELSE addressStatus[a]]

UndoReservation(r) == UNCHANGED addressStatus

Rollback(r, stage) ==
    /\ MoveTo(r, stage)
    /\ ReleaseLocks(r)
    /\ UndoReservation(r)
    /\ UNCHANGED orderAddress

-----------------------------------------------------------------------------
(* The operator imports a CSV of addresses: all of its rows or none.       *)

NewRows(batch) == \A a \in batch : addressStatus[a] = "absent"

ImportAddressPool(batch) ==
    /\ batch # {}
    /\ NewRows(batch)
    /\ addressStatus' = [a \in Addresses |-> IF a \in batch THEN "available"
                                             ELSE addressStatus[a]]
    /\ UNCHANGED <<orderAddress, locks, request>>

-----------------------------------------------------------------------------
(* One SELL request.                                                       *)

\* Mutated: the profile is written before an address is looked for.
BeginWithProfile(r) ==
    /\ request[r].stage = "arrived"
    /\ Free(userLock, UserOf[r])
    /\ userLock' = [userLock EXCEPT ![UserOf[r]] = r]
    /\ MoveTo(r, "selecting")
    /\ UNCHANGED <<addressStatus, orderAddress, addressLock, publicIdLock>>

Begin(r) ==
    /\ request[r].stage = "arrived"
    /\ MoveTo(r, "selecting")
    /\ UNCHANGED <<addressStatus, orderAddress, locks>>

\* Mutated: the candidate query does not look at the status.
Imported == {a \in Addresses : addressStatus[a] # "absent"}

\* Rows the candidate query finds: a reservation that is not committed yet is
\* invisible to it.
Available == {a \in Addresses : addressStatus[a] = "available"}

FindCandidate(r) ==
    /\ request[r].stage = "selecting"
    /\ \E a \in Available :
          /\ \A b \in Available : DerivationIndex[a] <= DerivationIndex[b]
          /\ request' = [request EXCEPT ![r].stage = "reserving",
                                        ![r].candidate = a]
    /\ UNCHANGED <<addressStatus, orderAddress, locks>>

FindNoCandidate(r) ==
    /\ request[r].stage = "selecting"
    /\ Available = {}
    /\ Rollback(r, "no_address")

\* Mutated: the update matches the id only.
WhateverStatus(a) == addressStatus[a] # "absent"

\* The condition of the update, evaluated on the committed row once no other
\* transaction holds it.
StillAvailable(a) == addressStatus[a] = "available"

ReserveCandidate(r) ==
    LET a == request[r].candidate IN
    /\ request[r].stage = "reserving"
    /\ Free(addressLock, a)
    /\ StillAvailable(a)
    /\ addressLock' = [addressLock EXCEPT ![a] = r]
    /\ MoveTo(r, "profile")
    /\ UNCHANGED <<addressStatus, orderAddress, userLock, publicIdLock>>

\* Mutated: one attempt too many.
NoAttemptBeyond(attempt) == attempt + 1 > MaxReservationAttempts

NoAttemptLeft(attempt) == attempt + 1 >= MaxReservationAttempts

MissCandidate(r) ==
    LET a == request[r].candidate IN
    /\ request[r].stage = "reserving"
    /\ Free(addressLock, a)
    /\ ~StillAvailable(a)
    /\ ~NoAttemptLeft(request[r].attempt)
    /\ request' = [request EXCEPT ![r].stage = "selecting",
                                  ![r].attempt = @ + 1]
    /\ UNCHANGED <<addressStatus, orderAddress, locks>>

GiveUp(r) ==
    LET a == request[r].candidate IN
    /\ request[r].stage = "reserving"
    /\ Free(addressLock, a)
    /\ ~StillAvailable(a)
    /\ NoAttemptLeft(request[r].attempt)
    /\ Rollback(r, "exhausted")

UpsertProfile(r) ==
    /\ request[r].stage = "profile"
    /\ Free(userLock, UserOf[r])
    /\ userLock' = [userLock EXCEPT ![UserOf[r]] = r]
    /\ MoveTo(r, "creating")
    /\ UNCHANGED <<addressStatus, orderAddress, addressLock, publicIdLock>>

InsertOrder(r) ==
    LET o == PublicIdOf[r] IN
    /\ request[r].stage = "creating"
    /\ Free(publicIdLock, o)
    /\ orderAddress[o] = NoAddress
    /\ publicIdLock' = [publicIdLock EXCEPT ![o] = r]
    /\ MoveTo(r, "committing")
    /\ UNCHANGED <<addressStatus, orderAddress, addressLock, userLock>>

\* The public id is taken: the unique index fails the insert.
RejectDuplicate(r) ==
    LET o == PublicIdOf[r] IN
    /\ request[r].stage = "creating"
    /\ Free(publicIdLock, o)
    /\ orderAddress[o] # NoAddress
    /\ Rollback(r, "duplicate")

Commit(r) ==
    LET a == request[r].candidate IN
    /\ request[r].stage = "committing"
    /\ addressStatus' = [addressStatus EXCEPT ![a] = "reserved"]
    /\ orderAddress' = [orderAddress EXCEPT ![PublicIdOf[r]] = a]
    /\ ReleaseLocks(r)
    /\ MoveTo(r, "created")

\* The server dies, the connection drops or the transaction times out.
Lose(r) ==
    /\ request[r].stage \notin Ended \cup {"arrived"}
    /\ Rollback(r, "lost")

-----------------------------------------------------------------------------
Init ==
    /\ addressStatus = [a \in Addresses |-> "absent"]
    /\ orderAddress = [o \in Orders |-> NoAddress]
    /\ addressLock = [a \in Addresses |-> NoRequest]
    /\ userLock = [u \in Users |-> NoRequest]
    /\ publicIdLock = [o \in Orders |-> NoRequest]
    /\ request = [r \in Requests |-> [stage |-> "arrived", attempt |-> 0,
                                      candidate |-> NoAddress]]

Step(r) ==
    \/ Begin(r)
    \/ FindCandidate(r)
    \/ FindNoCandidate(r)
    \/ ReserveCandidate(r)
    \/ MissCandidate(r)
    \/ GiveUp(r)
    \/ UpsertProfile(r)
    \/ InsertOrder(r)
    \/ RejectDuplicate(r)
    \/ Commit(r)
    \/ Lose(r)

\* Every request was answered, so that only a request waiting for ever is a
\* deadlock.
AllAnswered ==
    /\ \A r \in Requests : request[r].stage \in Ended
    /\ UNCHANGED vars

Next ==
    \/ \E batch \in SUBSET Addresses : ImportAddressPool(batch)
    \/ \E r \in Requests : Step(r)
    \/ AllAnswered

Spec == Init /\ [][Next]_vars
-----------------------------------------------------------------------------
(* Properties.                                                             *)

\* Rows, locks and requests keep their shapes; no request makes more attempts
\* than it may.
TypeOK ==
    /\ addressStatus \in [Addresses -> {"absent", "available", "reserved"}]
    /\ orderAddress \in [Orders -> Addresses \cup {NoAddress}]
    /\ addressLock \in [Addresses -> Requests \cup {NoRequest}]
    /\ userLock \in [Users -> Requests \cup {NoRequest}]
    /\ publicIdLock \in [Orders -> Requests \cup {NoRequest}]
    /\ request \in [Requests -> Request]

\* No address is leaked: whatever fails after the update, an address is
\* reserved exactly when a committed order holds it.
ReservedMeansOrdered ==
    \A a \in Addresses :
        addressStatus[a] = "reserved" <=> \E o \in Orders : orderAddress[o] = a

CreatedRequests == {r \in Requests : request[r].stage = "created"}

\* A request misses its candidate only because another order was created with
\* it, so no request gives up unless MaxReservationAttempts others succeeded.
AttemptsAreLostToOrders ==
    \A r \in Requests :
        /\ request[r].attempt <= Cardinality(CreatedRequests)
        /\ request[r].stage = "exhausted" =>
              MaxReservationAttempts <= Cardinality(CreatedRequests)

\* What a request waits for: the row its next statement writes.
WaitsFor(r, q) ==
    \/ /\ request[r].stage = "reserving"
       /\ addressLock[request[r].candidate] = q
    \/ /\ request[r].stage = "profile"
       /\ userLock[UserOf[r]] = q
    \/ /\ request[r].stage = "creating"
       /\ publicIdLock[PublicIdOf[r]] = q

Precedes(stage, other) ==
    \/ stage = "reserving" /\ other \in {"profile", "creating", "committing"}
    \/ stage = "profile" /\ other \in {"creating", "committing"}
    \/ stage = "creating" /\ other = "committing"

\* Requests never wait for each other in a circle, whoever their customers are
\* and whatever public ids they generated: a request waits only for one that
\* is further in the transaction (createSellUsdtOrderInDb).
NoCircularWait ==
    \A r, q \in Requests :
        WaitsFor(r, q) => Precedes(request[r].stage, request[q].stage)

\* Some unanswered request waits for nobody, so the answers never stop coming
\* because everybody waits.
SomeRequestMoves ==
    (\E r \in Requests : request[r].stage \notin Ended) =>
        \E r \in Requests :
            /\ request[r].stage \notin Ended
            /\ \A q \in Requests : ~WaitsFor(r, q)

\* At most how many statements a request has yet to send: two per attempt
\* left, and those that follow the reservation.
StatementsLeft(r) ==
    LET attemptsLeft == MaxReservationAttempts - 1 - request[r].attempt IN
    CASE request[r].stage \in Ended        -> 0
      [] request[r].stage = "committing"   -> 1
      [] request[r].stage = "creating"     -> 2
      [] request[r].stage = "profile"      -> 3
      [] request[r].stage = "reserving"    -> 4 + 2 * attemptsLeft
      [] request[r].stage = "selecting"    -> 5 + 2 * attemptsLeft
      [] request[r].stage = "arrived"      -> 6 + 2 * attemptsLeft

\* No request loops: whatever the others do between its statements, each step
\* of a request leaves it fewer statements, so it is answered after at most
\* 4 + 2 * MaxReservationAttempts steps (the loop of createSellUsdtOrderInDb).
RequestsRunOut ==
    [][\A r \in Requests :
         request'[r] # request[r] =>
            StatementsLeft(r)' < StatementsLeft(r) /\ StatementsLeft(r)' >= 0]_vars

\* The reservation protocol implements the address allocator.
Allocator ==
    INSTANCE AddressAllocator
        WITH pool <- {a \in Addresses : addressStatus[a] # "absent"},
             assigned <- orderAddress

ImplementsAllocator == Allocator!Spec

-----------------------------------------------------------------------------
(* The inductive invariant: what a request holds at each stage.            *)

Holds(r, a) == addressLock[a] = r

LocksMatchStages ==
    /\ \A r \in Requests : \A a \in Addresses :
          Holds(r, a) =>
              /\ request[r].stage \in {"profile", "creating", "committing"}
              /\ request[r].candidate = a
    /\ \A r \in Requests :
          request[r].stage \in {"profile", "creating", "committing"} =>
              /\ request[r].candidate \in Addresses
              /\ Holds(r, request[r].candidate)
    /\ \A a \in Addresses :
          addressLock[a] # NoRequest => addressStatus[a] = "available"
    /\ \A r \in Requests :
          request[r].stage = "reserving" => request[r].candidate \in Addresses
    /\ \A r \in Requests : \A u \in Users :
          userLock[u] = r => request[r].stage \in {"creating", "committing"}
    /\ \A r \in Requests : \A o \in Orders :
          publicIdLock[o] = r => request[r].stage = "committing"
    /\ \A r \in Requests : request[r].stage = "committing" =>
          /\ publicIdLock[PublicIdOf[r]] = r
          /\ orderAddress[PublicIdOf[r]] = NoAddress

IInv == TypeOK /\ ReservedMeansOrdered /\ LocksMatchStages

\* Created requests that did not take r's candidate.
CreatedElsewhere(r) == {q \in CreatedRequests : request[q].candidate # request[r].candidate}

\* Each attempt was lost to an order, and so is the one in hand if its
\* candidate is gone.
AttemptsAreCounted ==
    /\ \A a \in Addresses :
          addressStatus[a] = "reserved" <=> \E q \in CreatedRequests : request[q].candidate = a
    /\ \A r \in Requests :
          request[r].stage = "reserving" =>
              /\ addressStatus[request[r].candidate] # "absent"
              /\ request[r].attempt <= Cardinality(CreatedElsewhere(r))
    /\ AttemptsAreLostToOrders
=============================================================================

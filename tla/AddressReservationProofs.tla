---------------------- MODULE AddressReservationProofs ----------------------
(***************************************************************************)
(* Theorems about AddressReservation, for any number of requests, users,   *)
(* addresses and attempts: the reservation never leaks an address, no two  *)
(* requests wait for each other, attempts are only lost to orders, and the *)
(* address allocator is implemented.                                       *)
(***************************************************************************)
EXTENDS AddressReservation, FiniteSetTheorems, TLAPS

-----------------------------------------------------------------------------
(* Steps.  Everything but an import and a commit leaves the committed rows *)
(* alone, so what remains to be shown for it is the bookkeeping of locks.  *)

\* A rollback releases the locks of one request and changes no row.
LEMMA RollbackPreserves ==
    ASSUME IInv, NEW r \in Requests, NEW stage \in Ended \ {"created"},
           Rollback(r, stage)
    PROVE  IInv'
<1> USE RequestsAssumption, PoolAssumption
<1>1. /\ request' = [request EXCEPT ![r].stage = stage]
      /\ UNCHANGED <<addressStatus, orderAddress>>
      /\ addressLock' = [a \in DOMAIN addressLock |->
                           IF addressLock[a] = r THEN NoRequest ELSE addressLock[a]]
      /\ userLock' = [u \in DOMAIN userLock |->
                        IF userLock[u] = r THEN NoRequest ELSE userLock[u]]
      /\ publicIdLock' = [o \in DOMAIN publicIdLock |->
                            IF publicIdLock[o] = r THEN NoRequest ELSE publicIdLock[o]]
  BY DEF Rollback, MoveTo, ReleaseLocks, WithoutHolder, UndoReservation
<1>2. TypeOK'
  BY <1>1 DEF IInv, TypeOK, Request, Stages
<1>3. ReservedMeansOrdered'
  BY <1>1 DEF IInv, ReservedMeansOrdered
<1>4. \A q \in Requests : q # r => request'[q] = request[q]
  BY <1>1 DEF IInv, TypeOK
<1>5. request'[r].stage = stage
  BY <1>1 DEF IInv, TypeOK, Request
<1>6. LocksMatchStages'
  BY <1>1, <1>4, <1>5 DEF IInv, TypeOK, LocksMatchStages, Holds, Ended
<1> QED
  BY <1>2, <1>3, <1>6 DEF IInv

\* The statements of one request preserve the invariant.
LEMMA StepPreserves ==
    ASSUME IInv, NEW r \in Requests, Step(r)
    PROVE  IInv'
<1> USE RequestsAssumption, PoolAssumption
<1>1. CASE Begin(r)
  <2>1. TypeOK'
    BY <1>1 DEF Begin, MoveTo, locks, IInv, TypeOK, Request, Stages
  <2>2. ReservedMeansOrdered'
    BY <1>1 DEF Begin, IInv, ReservedMeansOrdered
  <2>3. LocksMatchStages'
    BY <1>1 DEF Begin, MoveTo, locks, IInv, TypeOK, Request, LocksMatchStages, Holds
  <2> QED
    BY <2>1, <2>2, <2>3 DEF IInv
<1>2. CASE FindCandidate(r)
  <2>a. PICK a \in Available :
            request' = [request EXCEPT ![r].stage = "reserving", ![r].candidate = a]
    BY <1>2, Zenon DEF FindCandidate
  <2>b. a \in Addresses
    BY DEF Available
  <2>0. request' = [request EXCEPT ![r] =
                      [request[r] EXCEPT !.stage = "reserving", !.candidate = a]]
    BY <2>a DEF IInv, TypeOK, Request
  <2>1. TypeOK'
    <3> DEFINE moved == [request[r] EXCEPT !.stage = "reserving"]
    <3>1. moved \in Request
      BY DEF IInv, TypeOK, Request, Stages
    <3>2. [moved EXCEPT !.candidate = a] \in Request
      BY <2>b, <3>1 DEF Request
    <3>3. [request[r] EXCEPT !.stage = "reserving", !.candidate = a] \in Request
      BY <3>2
    <3> QED
      BY <1>2, <2>0, <3>3 DEF FindCandidate, locks, IInv, TypeOK
  <2>2. ReservedMeansOrdered'
    BY <1>2 DEF FindCandidate, IInv, ReservedMeansOrdered
  <2>3. LocksMatchStages'
    BY <1>2 DEF FindCandidate, Available, locks, IInv, TypeOK, Request,
       LocksMatchStages, Holds
  <2> QED
    BY <2>1, <2>2, <2>3 DEF IInv
<1>3. CASE FindNoCandidate(r)
  BY <1>3, RollbackPreserves DEF FindNoCandidate, Ended
<1>4. CASE ReserveCandidate(r)
  <2>1. request[r].candidate \in Addresses
    BY <1>4 DEF ReserveCandidate, IInv, LocksMatchStages
  <2>2. TypeOK'
    BY <1>4, <2>1 DEF ReserveCandidate, MoveTo, IInv, TypeOK, Request, Stages
  <2>3. ReservedMeansOrdered'
    BY <1>4 DEF ReserveCandidate, IInv, ReservedMeansOrdered
  <2>4. LocksMatchStages'
    BY <1>4, <2>1 DEF ReserveCandidate, MoveTo, Free, StillAvailable, IInv, TypeOK,
       Request, LocksMatchStages, Holds
  <2> QED
    BY <2>2, <2>3, <2>4 DEF IInv
<1>5. CASE MissCandidate(r)
  <2>1. TypeOK'
    BY <1>5 DEF MissCandidate, NoAttemptLeft, locks, IInv, TypeOK, Request, Stages
  <2>2. ReservedMeansOrdered'
    BY <1>5 DEF MissCandidate, IInv, ReservedMeansOrdered
  <2>3. LocksMatchStages'
    BY <1>5 DEF MissCandidate, locks, IInv, TypeOK, Request, LocksMatchStages, Holds
  <2> QED
    BY <2>1, <2>2, <2>3 DEF IInv
<1>6. CASE GiveUp(r)
  BY <1>6, RollbackPreserves DEF GiveUp, Ended
<1>7. CASE UpsertProfile(r)
  <2>1. TypeOK'
    BY <1>7 DEF UpsertProfile, MoveTo, IInv, TypeOK, Request, Stages
  <2>2. ReservedMeansOrdered'
    BY <1>7 DEF UpsertProfile, IInv, ReservedMeansOrdered
  <2>3. LocksMatchStages'
    BY <1>7 DEF UpsertProfile, MoveTo, IInv, TypeOK, Request, LocksMatchStages, Holds
  <2> QED
    BY <2>1, <2>2, <2>3 DEF IInv
<1>8. CASE InsertOrder(r)
  <2>1. TypeOK'
    BY <1>8 DEF InsertOrder, MoveTo, IInv, TypeOK, Request, Stages
  <2>2. ReservedMeansOrdered'
    BY <1>8 DEF InsertOrder, IInv, ReservedMeansOrdered
  <2>3. LocksMatchStages'
    BY <1>8 DEF InsertOrder, MoveTo, Free, IInv, TypeOK, Request, LocksMatchStages,
       Holds
  <2> QED
    BY <2>1, <2>2, <2>3 DEF IInv
<1>9. CASE RejectDuplicate(r)
  BY <1>9, RollbackPreserves DEF RejectDuplicate, Ended
<1>10. CASE Commit(r)
  <2> DEFINE a == request[r].candidate
             o == PublicIdOf[r]
  <2>1. /\ request[r].stage = "committing"
        /\ addressStatus' = [addressStatus EXCEPT ![a] = "reserved"]
        /\ orderAddress' = [orderAddress EXCEPT ![o] = a]
        /\ request' = [request EXCEPT ![r].stage = "created"]
        /\ addressLock' = [x \in DOMAIN addressLock |->
                             IF addressLock[x] = r THEN NoRequest ELSE addressLock[x]]
        /\ userLock' = [u \in DOMAIN userLock |->
                          IF userLock[u] = r THEN NoRequest ELSE userLock[u]]
        /\ publicIdLock' = [x \in DOMAIN publicIdLock |->
                              IF publicIdLock[x] = r THEN NoRequest ELSE publicIdLock[x]]
    BY <1>10 DEF Commit, MoveTo, ReleaseLocks, WithoutHolder
  <2>2. /\ a \in Addresses /\ addressLock[a] = r /\ addressStatus[a] = "available"
        /\ o \in Orders /\ publicIdLock[o] = r /\ orderAddress[o] = NoAddress
    BY <2>1 DEF IInv, LocksMatchStages, Holds
  <2>3. TypeOK'
    <3>1. request' \in [Requests -> Request]
      BY <2>1 DEF IInv, TypeOK, Request, Stages, Ended
    <3>2. /\ addressStatus' \in [Addresses -> {"absent", "available", "reserved"}]
          /\ orderAddress' \in [Orders -> Addresses \cup {NoAddress}]
      BY <2>1, <2>2 DEF IInv, TypeOK
    <3>3. /\ addressLock' \in [Addresses -> Requests \cup {NoRequest}]
          /\ userLock' \in [Users -> Requests \cup {NoRequest}]
          /\ publicIdLock' \in [Orders -> Requests \cup {NoRequest}]
      BY <2>1 DEF IInv, TypeOK
    <3> QED
      BY <3>1, <3>2, <3>3 DEF TypeOK
  <2>4. \A b \in Addresses : b # a =>
            (\E p \in Orders : orderAddress'[p] = b)
              <=> (\E p \in Orders : orderAddress[p] = b)
    BY <2>1, <2>2 DEF IInv, TypeOK
  <2>5. ReservedMeansOrdered'
    <3>1. orderAddress'[o] = a /\ addressStatus'[a] = "reserved"
      BY <2>1, <2>2 DEF IInv, TypeOK
    <3> QED
      BY <2>1, <2>2, <2>4, <3>1 DEF IInv, TypeOK, ReservedMeansOrdered
  <2>6. \A q \in Requests : q # r => request'[q] = request[q]
    BY <2>1 DEF IInv, TypeOK
  <2>7. request'[r].stage = "created"
    BY <2>1 DEF IInv, TypeOK, Request
  <2>8. LocksMatchStages'
    BY <2>1, <2>2, <2>6, <2>7 DEF IInv, TypeOK, LocksMatchStages, Holds
  <2> QED
    BY <2>3, <2>5, <2>8 DEF IInv
<1>11. CASE Lose(r)
  BY <1>11, RollbackPreserves DEF Lose, Ended
<1> QED
  BY <1>1, <1>2, <1>3, <1>4, <1>5, <1>6, <1>7, <1>8, <1>9, <1>10, <1>11 DEF Step

\* An import adds available rows, which nobody holds.
LEMMA ImportPreserves ==
    ASSUME IInv, NEW batch \in SUBSET Addresses, ImportAddressPool(batch)
    PROVE  IInv'
<1> USE PoolAssumption
<1>1. /\ \A a \in batch : addressStatus[a] = "absent"
      /\ addressStatus' = [a \in Addresses |-> IF a \in batch THEN "available"
                                               ELSE addressStatus[a]]
      /\ UNCHANGED <<orderAddress, addressLock, userLock, publicIdLock, request>>
  BY DEF ImportAddressPool, NewRows, locks
<1>2. TypeOK'
  BY <1>1 DEF IInv, TypeOK
<1>3. ReservedMeansOrdered'
  BY <1>1 DEF IInv, TypeOK, ReservedMeansOrdered
<1>4. LocksMatchStages'
  BY <1>1 DEF IInv, TypeOK, LocksMatchStages, Holds
<1> QED
  BY <1>2, <1>3, <1>4 DEF IInv

-----------------------------------------------------------------------------
(* The safety theorems.                                                    *)

\* The invariant holds before anything is imported.
THEOREM InitIInv == Init => IInv
BY RequestsAssumption, PoolAssumption
   DEF Init, IInv, TypeOK, Request, Stages, ReservedMeansOrdered,
       LocksMatchStages, Holds

\* Every step preserves the invariant.
THEOREM NextIInv == IInv /\ [Next]_vars => IInv'
<1> SUFFICES ASSUME IInv, [Next]_vars PROVE IInv'
  OBVIOUS
<1>1. CASE UNCHANGED vars
  BY <1>1 DEF vars, locks, IInv, TypeOK, ReservedMeansOrdered, LocksMatchStages,
     Holds
<1>2. CASE \E batch \in SUBSET Addresses : ImportAddressPool(batch)
  BY <1>2, ImportPreserves
<1>3. CASE \E r \in Requests : Step(r)
  BY <1>3, StepPreserves
<1>4. CASE AllAnswered
  BY <1>1, <1>4 DEF AllAnswered
<1> QED
  BY <1>1, <1>2, <1>3, <1>4 DEF Next

\* Locks, stages and committed rows agree in every reachable state.
THEOREM Inductive == Spec => []IInv
BY InitIInv, NextIInv, PTL DEF Spec

\* Rows, requests and locks keep their declared shapes: a lock is free or held
\* by a request.
THEOREM TypeCorrect == Spec => []TypeOK
<1>1. IInv => TypeOK
  BY DEF IInv
<1> QED
  BY <1>1, Inductive, PTL

\* No failure between the reservation and the commit leaks an address.
THEOREM NoAddressLeaks == Spec => []ReservedMeansOrdered
<1>1. IInv => ReservedMeansOrdered
  BY DEF IInv
<1> QED
  BY <1>1, Inductive, PTL

\* The locks of one request are only waited for by requests behind it.
THEOREM NoDeadlock == Spec => []NoCircularWait
<1>1. IInv => NoCircularWait
  <2> SUFFICES ASSUME IInv, NEW r \in Requests, NEW q \in Requests, WaitsFor(r, q)
               PROVE  Precedes(request[r].stage, request[q].stage)
    BY DEF NoCircularWait
  <2>1. CASE request[r].stage = "reserving"
    BY <2>1 DEF WaitsFor, Precedes, IInv, LocksMatchStages, Holds
  <2>2. CASE request[r].stage = "profile"
    BY <2>2, RequestsAssumption DEF WaitsFor, Precedes, IInv, LocksMatchStages
  <2>3. CASE request[r].stage = "creating"
    BY <2>3, RequestsAssumption DEF WaitsFor, Precedes, IInv, LocksMatchStages
  <2> QED
    BY <2>1, <2>2, <2>3 DEF WaitsFor
<1> QED
  BY <1>1, Inductive, PTL

-----------------------------------------------------------------------------
(* Answers.  A request that waits, waits for one that is further, and each *)
(* step of a request brings it nearer to its end; so the requests are all  *)
(* answered if the database schedules the one that can move.               *)

\* The unanswered request that is furthest waits for nobody.
THEOREM NobodyStarves == Spec => []SomeRequestMoves
<1>1. NoCircularWait => SomeRequestMoves
  <2> SUFFICES ASSUME NoCircularWait, NEW r \in Requests, request[r].stage \notin Ended
               PROVE  \E p \in Requests : /\ request[p].stage \notin Ended
                                          /\ \A q \in Requests : ~WaitsFor(p, q)
    BY DEF SomeRequestMoves
  <2> DEFINE At(stage) == {p \in Requests : request[p].stage = stage}
  <2>1. CASE At("committing") # {}
    BY <2>1 DEF WaitsFor, Ended
  <2>2. CASE At("committing") = {} /\ At("creating") # {}
    BY <2>2 DEF NoCircularWait, Precedes, Ended
  <2>3. CASE At("committing") = {} /\ At("creating") = {} /\ At("profile") # {}
    BY <2>3 DEF NoCircularWait, Precedes, Ended
  <2>4. CASE At("committing") = {} /\ At("creating") = {} /\ At("profile") = {}
    BY <2>4 DEF NoCircularWait, Precedes
  <2> QED
    BY <2>1, <2>2, <2>3, <2>4
<1> QED
  BY <1>1, NoDeadlock, PTL

\* A request that ends has no statement left, and had one before.
LEMMA EndingRunsOut ==
    ASSUME TypeOK, NEW r \in Requests, NEW stage \in Ended,
           request[r].stage \notin Ended,
           request' = [request EXCEPT ![r].stage = stage]
    PROVE  StatementsLeft(r)' < StatementsLeft(r)
<1>1. request[r].stage \in Stages /\ request[r].attempt \in 0..MaxReservationAttempts - 1
  BY DEF TypeOK, Request
<1>2. StatementsLeft(r) > 0
  BY <1>1, RequestsAssumption DEF StatementsLeft, Stages, Ended
<1>3. request'[r].stage = stage
  BY DEF TypeOK, Request
<1>4. StatementsLeft(r)' = 0
  BY <1>3 DEF StatementsLeft, Ended
<1> QED
  BY <1>2, <1>4

\* A step changes the request it belongs to only, and leaves it less to do.
LEMMA StepRunsOut ==
    ASSUME IInv, NEW r \in Requests, Step(r)
    PROVE  /\ StatementsLeft(r)' < StatementsLeft(r)
           /\ \A q \in Requests : q # r => request'[q] = request[q]
<1> USE RequestsAssumption DEF Ended
<1>0. TypeOK /\ request[r].attempt \in 0..MaxReservationAttempts - 1
  BY DEF IInv, TypeOK, Request
<1> DEFINE Goal == /\ StatementsLeft(r)' < StatementsLeft(r)
                   /\ \A q \in Requests : q # r => request'[q] = request[q]
<1>1. ASSUME NEW stage \in Ended, Rollback(r, stage), request[r].stage \notin Ended
      PROVE  Goal
  BY <1>0, <1>1, EndingRunsOut DEF Rollback, MoveTo, TypeOK
<1>2. CASE Begin(r)
  BY <1>0, <1>2 DEF Begin, MoveTo, TypeOK, Request, StatementsLeft
<1>3. CASE FindCandidate(r)
  <2>1. PICK a \in Available :
           request' = [request EXCEPT ![r].stage = "reserving", ![r].candidate = a]
    BY <1>3, Zenon DEF FindCandidate
  <2>2. request' = [request EXCEPT ![r] =
                      [request[r] EXCEPT !.stage = "reserving", !.candidate = a]]
    BY <2>1, <1>0 DEF TypeOK, Request
  <2>3. request'[r].stage = "reserving" /\ request'[r].attempt = request[r].attempt
    BY <2>2, <1>0 DEF TypeOK, Request
  <2> QED
    BY <1>0, <1>3, <2>2, <2>3 DEF FindCandidate, TypeOK, StatementsLeft
<1>4. CASE FindNoCandidate(r)
  BY <1>1, <1>4 DEF FindNoCandidate
<1>5. CASE ReserveCandidate(r)
  BY <1>0, <1>5 DEF ReserveCandidate, MoveTo, TypeOK, Request, StatementsLeft
<1>6. CASE MissCandidate(r)
  <2>1. request' = [request EXCEPT ![r] =
                      [request[r] EXCEPT !.stage = "selecting", !.attempt = @ + 1]]
    BY <1>6, <1>0 DEF MissCandidate, TypeOK, Request
  <2>2. request'[r].stage = "selecting" /\ request'[r].attempt = request[r].attempt + 1
    BY <2>1, <1>0 DEF TypeOK, Request
  <2> QED
    BY <1>0, <1>6, <2>1, <2>2 DEF MissCandidate, TypeOK, StatementsLeft
<1>7. CASE GiveUp(r)
  BY <1>1, <1>7 DEF GiveUp
<1>8. CASE UpsertProfile(r)
  BY <1>0, <1>8 DEF UpsertProfile, MoveTo, TypeOK, Request, StatementsLeft
<1>9. CASE InsertOrder(r)
  BY <1>0, <1>9 DEF InsertOrder, MoveTo, TypeOK, Request, StatementsLeft
<1>10. CASE RejectDuplicate(r)
  BY <1>1, <1>10 DEF RejectDuplicate
<1>11. CASE Commit(r)
  BY <1>0, <1>11, EndingRunsOut DEF Commit, MoveTo, TypeOK
<1>12. CASE Lose(r)
  BY <1>1, <1>12 DEF Lose
<1> QED
  BY <1>2, <1>3, <1>4, <1>5, <1>6, <1>7, <1>8, <1>9, <1>10, <1>11, <1>12 DEF Step

\* No request loops, whatever the others do between its statements.
THEOREM RequestsEnd == Spec => RequestsRunOut
<1> DEFINE Advances(r) ==
             request'[r] # request[r] =>
                StatementsLeft(r)' < StatementsLeft(r) /\ StatementsLeft(r)' >= 0
           A == \A r \in Requests : Advances(r)
<1>1. IInv /\ [Next]_vars => [A]_vars
  <2> SUFFICES ASSUME IInv, Next, IInv' PROVE A
    BY NextIInv
  <2>1. CASE UNCHANGED request
    BY <2>1
  <2>0. ASSUME NEW r \in Requests PROVE StatementsLeft(r)' >= 0
    <3>1. /\ request'[r].stage \in Stages
          /\ request'[r].attempt \in 0..MaxReservationAttempts - 1
      BY DEF IInv, TypeOK, Request
    <3> QED
      BY <3>1, RequestsAssumption DEF StatementsLeft, Stages, Ended
  <2>2. ASSUME NEW r \in Requests, Step(r) PROVE A
    BY <2>0, <2>2, StepRunsOut
  <2>3. ASSUME NEW batch \in SUBSET Addresses, ImportAddressPool(batch) PROVE A
    BY <2>1, <2>3 DEF ImportAddressPool
  <2>4. CASE AllAnswered
    BY <2>1, <2>4 DEF AllAnswered, vars
  <2> QED
    BY <2>2, <2>3, <2>4 DEF Next
<1> QED
  BY <1>1, Inductive, PTL DEF Spec, RequestsRunOut

-----------------------------------------------------------------------------
(* Attempts.  Only an order that is committed between the candidate query  *)
(* and the conditional update makes a request miss its candidate.          *)

\* Created requests can be counted.
LEMMA CountCreated ==
    ASSUME NEW S \in SUBSET Requests, NEW T \in SUBSET S
    PROVE  /\ Cardinality(S) \in Nat /\ Cardinality(T) \in Nat
           /\ Cardinality(T) <= Cardinality(S)
           /\ T # S => Cardinality(T) < Cardinality(S)
<1>1. IsFiniteSet(S) /\ IsFiniteSet(T)
  BY RequestsAssumption, FS_Subset
<1>2. Cardinality(T) <= Cardinality(S)
  BY <1>1, FS_Subset
<1>3. Cardinality(S) = Cardinality(T) => S = T
  BY <1>1, FS_Subset
<1>4. Cardinality(S) \in Nat /\ Cardinality(T) \in Nat
  BY <1>1, FS_CardinalityType
<1> QED
  BY <1>2, <1>3, <1>4

\* A request that is not created, not given a candidate and not exhausted.
LEMMA QuietMoveCounts ==
    ASSUME IInv, AttemptsAreCounted, NEW r \in Requests,
           NEW stage \in Stages \ {"created", "reserving", "exhausted"},
           request[r].stage # "created",
           request' = [request EXCEPT ![r].stage = stage],
           UNCHANGED addressStatus
    PROVE  AttemptsAreCounted'
<1>1. \A q \in Requests :
         /\ request'[q].candidate = request[q].candidate
         /\ request'[q].attempt = request[q].attempt
         /\ request'[q].stage = IF q = r THEN stage ELSE request[q].stage
  BY DEF IInv, TypeOK, Request
<1>2. CreatedRequests' = CreatedRequests
  BY <1>1 DEF CreatedRequests
<1>3. \A q \in Requests : CreatedElsewhere(q)' = CreatedElsewhere(q)
  BY <1>1, <1>2 DEF CreatedElsewhere, CreatedRequests
<1>4. \A a \in Addresses :
         (\E q \in CreatedRequests' : request'[q].candidate = a)
            <=> (\E q \in CreatedRequests : request[q].candidate = a)
  BY <1>1, <1>2 DEF CreatedRequests
<1> QED
  BY <1>1, <1>2, <1>3, <1>4 DEF AttemptsAreCounted, AttemptsAreLostToOrders

\* A candidate that is gone was taken by an order the request did not count.
LEMMA LostCandidate ==
    ASSUME IInv, AttemptsAreCounted, NEW r \in Requests, request[r].stage = "reserving",
           ~StillAvailable(request[r].candidate)
    PROVE  request[r].attempt + 1 <= Cardinality(CreatedRequests)
<1> DEFINE a == request[r].candidate
<1>1. a \in Addresses
  BY DEF IInv, LocksMatchStages
<1>2. addressStatus[a] = "reserved"
  BY <1>1 DEF IInv, TypeOK, StillAvailable, AttemptsAreCounted
<1>3. PICK q \in CreatedRequests : request[q].candidate = a
  BY <1>1, <1>2 DEF AttemptsAreCounted
<1>4. CreatedElsewhere(r) \subseteq CreatedRequests /\ q \notin CreatedElsewhere(r)
  BY <1>3 DEF CreatedElsewhere
<1>5. CreatedRequests \in SUBSET Requests
  BY DEF CreatedRequests
<1>6. /\ Cardinality(CreatedRequests) \in Nat /\ Cardinality(CreatedElsewhere(r)) \in Nat
      /\ Cardinality(CreatedElsewhere(r)) < Cardinality(CreatedRequests)
  BY <1>3, <1>4, <1>5, CountCreated
<1>7. request[r].attempt <= Cardinality(CreatedElsewhere(r)) /\ request[r].attempt \in Nat
  BY RequestsAssumption DEF AttemptsAreCounted, IInv, TypeOK, Request
<1> QED
  BY <1>6, <1>7

\* The statements of one request keep the count.
LEMMA StepCounts ==
    ASSUME IInv, AttemptsAreCounted, NEW r \in Requests, Step(r)
    PROVE  AttemptsAreCounted'
<1> DEFINE Quiet(stage) == /\ request[r].stage # "created"
                           /\ request' = [request EXCEPT ![r].stage = stage]
                           /\ UNCHANGED addressStatus
<1>1. ASSUME NEW stage \in Stages \ {"created", "reserving", "exhausted"}, Quiet(stage)
      PROVE  AttemptsAreCounted'
  BY <1>1, QuietMoveCounts
<1>2. CASE Begin(r)
  BY <1>1, <1>2 DEF Begin, MoveTo, Stages, Ended
<1>3. CASE FindNoCandidate(r)
  BY <1>1, <1>3 DEF FindNoCandidate, Rollback, UndoReservation, MoveTo, Stages, Ended
<1>4. CASE ReserveCandidate(r)
  BY <1>1, <1>4 DEF ReserveCandidate, MoveTo, Stages, Ended
<1>5. CASE UpsertProfile(r)
  BY <1>1, <1>5 DEF UpsertProfile, MoveTo, Stages, Ended
<1>6. CASE InsertOrder(r)
  BY <1>1, <1>6 DEF InsertOrder, MoveTo, Stages, Ended
<1>7. CASE RejectDuplicate(r)
  BY <1>1, <1>7 DEF RejectDuplicate, Rollback, UndoReservation, MoveTo, Stages, Ended
<1>8. CASE Lose(r)
  BY <1>1, <1>8 DEF Lose, Rollback, UndoReservation, MoveTo, Stages, Ended
<1>9. CASE FindCandidate(r)
  <2>1. PICK a \in Addresses :
           /\ addressStatus[a] = "available"
           /\ request' = [request EXCEPT ![r] =
                            [request[r] EXCEPT !.stage = "reserving", !.candidate = a]]
    BY <1>9 DEF FindCandidate, Available
  <2>2. request[r].stage = "selecting" /\ UNCHANGED addressStatus
    BY <1>9 DEF FindCandidate
  <2>3. /\ request'[r].stage = "reserving" /\ request'[r].candidate = a
        /\ request'[r].attempt = request[r].attempt
        /\ \A q \in Requests : q # r => request'[q] = request[q]
    BY <2>1 DEF IInv, TypeOK, Request
  <2>4. CreatedRequests' = CreatedRequests
    BY <2>2, <2>3 DEF CreatedRequests
  <2>5. \A q \in CreatedRequests : q # r /\ request[q].candidate # a
    BY <2>1, <2>2 DEF AttemptsAreCounted, CreatedRequests
  <2>6. CreatedElsewhere(r)' = CreatedRequests
    BY <2>3, <2>4, <2>5 DEF CreatedElsewhere, CreatedRequests
  <2>7. \A q \in Requests : q # r => CreatedElsewhere(q)' = CreatedElsewhere(q)
    BY <2>3, <2>4, <2>5 DEF CreatedElsewhere, CreatedRequests
  <2>8. \A b \in Addresses : (\E q \in CreatedRequests' : request'[q].candidate = b)
                                <=> (\E q \in CreatedRequests : request[q].candidate = b)
    BY <2>3, <2>4, <2>5 DEF CreatedRequests
  <2>9. \A q \in Requests :
           /\ request'[q].attempt = request[q].attempt
           /\ request'[q].stage = "exhausted" => request[q].stage = "exhausted"
    BY <2>3
  <2>10. AttemptsAreLostToOrders'
    BY <2>4, <2>9 DEF AttemptsAreLostToOrders, AttemptsAreCounted
  <2> QED
    BY <2>1, <2>2, <2>3, <2>6, <2>7, <2>8, <2>10
       DEF AttemptsAreCounted, AttemptsAreLostToOrders
<1>10. CASE MissCandidate(r)
  <2>1. /\ request[r].stage = "reserving" /\ ~StillAvailable(request[r].candidate)
        /\ request' = [request EXCEPT ![r] =
              [request[r] EXCEPT !.stage = "selecting", !.attempt = request[r].attempt + 1]]
        /\ UNCHANGED addressStatus
    BY <1>10 DEF MissCandidate
  <2>2. request[r].attempt + 1 <= Cardinality(CreatedRequests)
    BY <2>1, LostCandidate
  <2>3. /\ request'[r].stage = "selecting" /\ request'[r].candidate = request[r].candidate
        /\ request'[r].attempt = request[r].attempt + 1
        /\ \A q \in Requests : q # r => request'[q] = request[q]
    BY <2>1 DEF IInv, TypeOK, Request
  <2>4. CreatedRequests' = CreatedRequests
    BY <2>1, <2>3 DEF CreatedRequests
  <2>5. \A q \in Requests : CreatedElsewhere(q)' = CreatedElsewhere(q)
    BY <2>3, <2>4 DEF CreatedElsewhere, CreatedRequests
  <2>6. \A b \in Addresses : (\E q \in CreatedRequests' : request'[q].candidate = b)
                                <=> (\E q \in CreatedRequests : request[q].candidate = b)
    BY <2>3, <2>4 DEF CreatedRequests
  <2> QED
    BY <2>1, <2>2, <2>3, <2>4, <2>5, <2>6 DEF AttemptsAreCounted, AttemptsAreLostToOrders
<1>11. CASE GiveUp(r)
  <2>1. /\ request[r].stage = "reserving" /\ ~StillAvailable(request[r].candidate)
        /\ MaxReservationAttempts <= request[r].attempt + 1
        /\ request' = [request EXCEPT ![r].stage = "exhausted"]
        /\ UNCHANGED addressStatus
    BY <1>11, RequestsAssumption
       DEF GiveUp, NoAttemptLeft, Rollback, MoveTo, UndoReservation, IInv, TypeOK, Request
  <2>2. request[r].attempt + 1 <= Cardinality(CreatedRequests)
    BY <2>1, LostCandidate
  <2>3. /\ request'[r].stage = "exhausted" /\ request'[r].candidate = request[r].candidate
        /\ request'[r].attempt = request[r].attempt
        /\ \A q \in Requests : q # r => request'[q] = request[q]
    BY <2>1 DEF IInv, TypeOK, Request
  <2>4. CreatedRequests' = CreatedRequests
    BY <2>1, <2>3 DEF CreatedRequests
  <2>5. \A q \in Requests : CreatedElsewhere(q)' = CreatedElsewhere(q)
    BY <2>3, <2>4 DEF CreatedElsewhere, CreatedRequests
  <2>6. \A b \in Addresses : (\E q \in CreatedRequests' : request'[q].candidate = b)
                                <=> (\E q \in CreatedRequests : request[q].candidate = b)
    BY <2>3, <2>4 DEF CreatedRequests
  <2>7. MaxReservationAttempts <= Cardinality(CreatedRequests)
    <3>1. CreatedRequests \in SUBSET Requests
      BY DEF CreatedRequests
    <3>2. Cardinality(CreatedRequests) \in Nat
      BY <3>1, CountCreated
    <3>3. request[r].attempt \in Nat
      BY RequestsAssumption DEF IInv, TypeOK, Request
    <3> QED
      BY <2>1, <2>2, <3>2, <3>3, RequestsAssumption
  <2> QED
    BY <2>1, <2>3, <2>4, <2>5, <2>6, <2>7 DEF AttemptsAreCounted, AttemptsAreLostToOrders
<1>12. CASE Commit(r)
  <2> DEFINE a == request[r].candidate
  <2>1. /\ request[r].stage = "committing"
        /\ request' = [request EXCEPT ![r].stage = "created"]
        /\ addressStatus' = [addressStatus EXCEPT ![a] = "reserved"]
    BY <1>12 DEF Commit, MoveTo
  <2>2. a \in Addresses
    BY <2>1 DEF IInv, LocksMatchStages
  <2>3. \A q \in Requests :
           /\ request'[q].candidate = request[q].candidate
           /\ request'[q].attempt = request[q].attempt
           /\ request'[q].stage = IF q = r THEN "created" ELSE request[q].stage
    BY <2>1 DEF IInv, TypeOK, Request
  <2>4. CreatedRequests' = CreatedRequests \cup {r}
    BY <2>3 DEF CreatedRequests
  <2>5. /\ CreatedRequests' \in SUBSET Requests
        /\ Cardinality(CreatedRequests) \in Nat /\ Cardinality(CreatedRequests') \in Nat
        /\ Cardinality(CreatedRequests) <= Cardinality(CreatedRequests')
    <3>1. CreatedRequests' \in SUBSET Requests
      BY <2>4 DEF CreatedRequests
    <3> QED
      BY <2>4, <3>1, CountCreated
  <2>6. ASSUME NEW q \in Requests
        PROVE  /\ Cardinality(CreatedElsewhere(q)) \in Nat
               /\ Cardinality(CreatedElsewhere(q)') \in Nat
               /\ Cardinality(CreatedElsewhere(q)) <= Cardinality(CreatedElsewhere(q)')
    <3>1. CreatedElsewhere(q) \subseteq CreatedElsewhere(q)'
      BY <2>3, <2>4 DEF CreatedElsewhere, CreatedRequests
    <3>2. CreatedElsewhere(q)' \in SUBSET Requests
      BY <2>4 DEF CreatedElsewhere, CreatedRequests
    <3> QED
      BY <3>1, <3>2, CountCreated
  <2>7. \A q \in Requests : request[q].attempt \in Nat
    BY RequestsAssumption DEF IInv, TypeOK, Request
  <2>8. \A b \in Addresses :
           addressStatus'[b] = "reserved"
              <=> \E q \in CreatedRequests' : request'[q].candidate = b
    <3>1. \A b \in Addresses :
             (\E q \in CreatedRequests' : request'[q].candidate = b)
                <=> b = a \/ \E q \in CreatedRequests : request[q].candidate = b
      BY <2>3, <2>4 DEF CreatedRequests
    <3> QED
      BY <2>1, <2>2, <3>1 DEF AttemptsAreCounted, IInv, TypeOK
  <2>9. \A q \in Requests :
           request'[q].stage = "reserving" =>
              /\ addressStatus'[request'[q].candidate] # "absent"
              /\ request'[q].attempt <= Cardinality(CreatedElsewhere(q)')
    <3> SUFFICES ASSUME NEW q \in Requests, request'[q].stage = "reserving"
                 PROVE  /\ addressStatus'[request'[q].candidate] # "absent"
                        /\ request'[q].attempt <= Cardinality(CreatedElsewhere(q)')
      OBVIOUS
    <3>1. /\ request[q].stage = "reserving" /\ request[q].candidate \in Addresses
          /\ addressStatus[request[q].candidate] # "absent"
          /\ request[q].attempt <= Cardinality(CreatedElsewhere(q))
      BY <2>3 DEF AttemptsAreCounted, IInv, LocksMatchStages
    <3>2. addressStatus'[request[q].candidate] # "absent"
      BY <2>1, <2>2, <3>1 DEF IInv, TypeOK
    <3>3. request[q].attempt <= Cardinality(CreatedElsewhere(q)')
      BY <2>6, <2>7, <3>1
    <3> QED
      BY <2>3, <3>2, <3>3
  <2>10. AttemptsAreLostToOrders'
    <3>1. \A q \in Requests : request[q].attempt <= Cardinality(CreatedRequests')
      BY <2>5, <2>7 DEF AttemptsAreCounted, AttemptsAreLostToOrders
    <3>2. \A q \in Requests : request'[q].stage = "exhausted" =>
                                MaxReservationAttempts <= Cardinality(CreatedRequests')
      BY <2>3, <2>5, RequestsAssumption DEF AttemptsAreCounted, AttemptsAreLostToOrders
    <3> QED
      BY <2>3, <3>1, <3>2 DEF AttemptsAreLostToOrders
  <2> QED
    BY <2>8, <2>9, <2>10 DEF AttemptsAreCounted
<1> QED
  BY <1>2, <1>3, <1>4, <1>5, <1>6, <1>7, <1>8, <1>9, <1>10, <1>11, <1>12 DEF Step

\* No request loses an attempt, or gives up, but to orders that were created.
THEOREM AttemptsLost == Spec => []AttemptsAreLostToOrders
<1>1. Init => AttemptsAreCounted
  <2> SUFFICES ASSUME Init PROVE AttemptsAreCounted
    OBVIOUS
  <2>1. CreatedRequests = {}
    BY DEF Init, CreatedRequests
  <2> QED
    BY <2>1, FS_EmptySet DEF Init, AttemptsAreCounted, AttemptsAreLostToOrders
<1>2. IInv /\ AttemptsAreCounted /\ [Next]_vars => AttemptsAreCounted'
  <2> SUFFICES ASSUME IInv, AttemptsAreCounted, [Next]_vars PROVE AttemptsAreCounted'
    OBVIOUS
  <2>1. CASE UNCHANGED vars
    BY <2>1 DEF vars, AttemptsAreCounted, AttemptsAreLostToOrders, CreatedRequests,
       CreatedElsewhere
  <2>2. ASSUME NEW batch \in SUBSET Addresses, ImportAddressPool(batch)
        PROVE  AttemptsAreCounted'
    <3>1. /\ \A a \in Addresses : addressStatus'[a] = "reserved" <=> addressStatus[a] = "reserved"
          /\ \A a \in Addresses : addressStatus[a] # "absent" => addressStatus'[a] # "absent"
          /\ UNCHANGED request
      BY <2>2 DEF ImportAddressPool, NewRows
    <3>2. CreatedRequests' = CreatedRequests
      BY <3>1 DEF CreatedRequests
    <3>3. \A r \in Requests : CreatedElsewhere(r)' = CreatedElsewhere(r)
      BY <3>1 DEF CreatedElsewhere, CreatedRequests
    <3> QED
      BY <3>1, <3>2, <3>3
         DEF AttemptsAreCounted, AttemptsAreLostToOrders, IInv, LocksMatchStages
  <2>3. CASE \E r \in Requests : Step(r)
    BY <2>3, StepCounts
  <2>4. CASE AllAnswered
    BY <2>1, <2>4 DEF AllAnswered
  <2> QED
    BY <2>1, <2>2, <2>3, <2>4 DEF Next
<1>3. AttemptsAreCounted => AttemptsAreLostToOrders
  BY DEF AttemptsAreCounted
<1> QED
  BY <1>1, <1>2, <1>3, Inductive, PTL DEF Spec

-----------------------------------------------------------------------------
(* Refinement.  An import is an import, a commit is an allocation, and     *)
(* every other step of a request is invisible.                             *)

\* The reservation protocol implements the address allocator.
THEOREM Refinement == Spec => ImplementsAllocator
<1> USE RequestsAssumption, PoolAssumption
<1>1. Init => Allocator!Init
  BY DEF Init, Allocator!Init
<1>2. IInv /\ [Next]_vars => [Allocator!Next]_Allocator!vars
  <2> SUFFICES ASSUME IInv, [Next]_vars PROVE [Allocator!Next]_Allocator!vars
    OBVIOUS
  <2>1. CASE UNCHANGED vars
    BY <2>1 DEF vars, Allocator!vars
  <2>2. ASSUME NEW batch \in SUBSET Addresses, ImportAddressPool(batch)
        PROVE  Allocator!Import(batch)
    <3>1. batch \cap {a \in Addresses : addressStatus[a] # "absent"} = {}
      BY <2>2 DEF ImportAddressPool, NewRows
    <3>2. {a \in Addresses : addressStatus'[a] # "absent"}
            = {a \in Addresses : addressStatus[a] # "absent"} \cup batch
      BY <2>2 DEF ImportAddressPool, NewRows
    <3> QED
      BY <2>2, <3>1, <3>2 DEF ImportAddressPool, Allocator!Import
  <2>3. ASSUME NEW r \in Requests, Commit(r)
        PROVE  Allocator!Allocate(PublicIdOf[r], request[r].candidate)
               /\ PublicIdOf[r] \in Orders /\ request[r].candidate \in Addresses
    <3> DEFINE a == request[r].candidate
               o == PublicIdOf[r]
    <3>1. /\ a \in Addresses /\ addressStatus[a] = "available"
          /\ o \in Orders /\ orderAddress[o] = NoAddress
      BY <2>3 DEF Commit, IInv, LocksMatchStages, Holds
    <3>2. \A other \in Orders : orderAddress[other] # a
      BY <3>1 DEF IInv, ReservedMeansOrdered
    <3>3. /\ addressStatus' = [addressStatus EXCEPT ![a] = "reserved"]
          /\ orderAddress' = [orderAddress EXCEPT ![o] = a]
      BY <2>3 DEF Commit
    <3>4. \A b \in Addresses : addressStatus'[b] # "absent" <=> addressStatus[b] # "absent"
      BY <3>1, <3>3 DEF IInv, TypeOK
    <3> QED
      BY <3>1, <3>2, <3>3, <3>4 DEF Allocator!Allocate
  <2>4. ASSUME NEW r \in Requests, Step(r), ~Commit(r)
        PROVE  UNCHANGED <<addressStatus, orderAddress>>
    BY <2>4 DEF Step, Begin, FindCandidate, FindNoCandidate, ReserveCandidate,
       MissCandidate, GiveUp, UpsertProfile, InsertOrder, RejectDuplicate, Lose,
       Rollback, UndoReservation
  <2>5. CASE AllAnswered
    BY <2>5 DEF AllAnswered, vars, Allocator!vars
  <2> QED
    BY <2>1, <2>2, <2>3, <2>4, <2>5 DEF Next, Allocator!Next, Allocator!vars
<1> QED
  BY <1>1, <1>2, Inductive, PTL DEF Spec, ImplementsAllocator, Allocator!Spec

\* No two orders show their customers the same address, however many requests
\* pick the same candidate at once: what the allocator promises, promised by
\* the protocol that implements it.
THEOREM AddressesAreNotShared == Spec => []Allocator!AddressesAreExclusive
<1>1. Allocator!Init => Allocator!AddressesAreExclusive
  BY DEF Allocator!Init, Allocator!AddressesAreExclusive
<1>2. Allocator!AddressesAreExclusive /\ [Allocator!Next]_Allocator!vars
         => Allocator!AddressesAreExclusive'
  <2> SUFFICES ASSUME Allocator!AddressesAreExclusive, [Allocator!Next]_Allocator!vars,
                      NEW o \in Orders, NEW other \in Orders,
                      orderAddress'[o] = orderAddress'[other], orderAddress'[o] # NoAddress
               PROVE  o = other
    BY DEF Allocator!AddressesAreExclusive
  <2>1. CASE UNCHANGED orderAddress
    BY <2>1 DEF Allocator!AddressesAreExclusive
  <2>2. ASSUME NEW given \in Orders, NEW a \in Addresses, Allocator!Allocate(given, a)
        PROVE  o = other
    BY <2>2 DEF Allocator!Allocate, Allocator!AddressesAreExclusive
  <2> QED
    BY <2>1, <2>2 DEF Allocator!Next, Allocator!Import, Allocator!vars
<1> QED
  BY <1>1, <1>2, Refinement, PTL DEF ImplementsAllocator, Allocator!Spec
=============================================================================

------------------------- MODULE AdminConsoleProofs -------------------------
(***************************************************************************)
(* Theorems about AdminConsole, for any orders, any number of requests     *)
(* under way, and any instances: the console's steps are steps of          *)
(* AdminAccess, whose invariants it keeps; a revoked session is never      *)
(* authorized; and the console submits only what the server accepts.       *)
(***************************************************************************)
EXTENDS AdminConsole, AdminAccessProofs

-----------------------------------------------------------------------------
(* Refinement: the account, the limiter and the operators are those of     *)
(* AdminAccess, whatever the console does.                                 *)

\* A login at the console is a login, and nothing else it does touches them.
LEMMA StepIsAccessStep == bound \in Bounds /\ [Next]_vars => [AccessNext]_accessVars
<1> SUFFICES ASSUME bound \in Bounds, [Next]_vars PROVE [AccessNext]_accessVars
  OBVIOUS
<1>1. CASE UNCHANGED vars
  BY <1>1 DEF vars
<1>2. CASE Access
  <2>1. /\ bound.attempts \subseteq Attempts /\ bound.passwords \subseteq Passwords
        /\ bound.commands \subseteq Commands /\ bound.roles \subseteq Roles
    BY BoundsAssumption
  <2> QED
    BY <1>2, <2>1 DEF Access, AccessNext
<1>3. CASE \E a \in Attempts : LogIn(a)
  BY <1>3 DEF LogIn, AccessNext
<1>4. ASSUME NEW s \in Slots, Serve(s) \/ CallFails(s)
      PROVE  UNCHANGED accessVars
  BY <1>4 DEF Serve, Authorize, ServeList, ServeOrder, ServeChange, CallFails
<1>5. ASSUME NEW s \in Slots, Arrives(s)
      PROVE  UNCHANGED accessVars
  BY <1>5 DEF Arrives, ListArrives, ListIsLost, OpenArrives, ChangeArrives,
     RequestIsRefused, Arrived
<1>6. CASE Operator
  BY <1>6 DEF Operator, LogOut, ChooseStatus, Reload, Refresh, SubmitStatus,
     SubmitPayout, ChangeMode, OpenOrder, Asks
<1>7. CASE \E row \in orders, status \in bound.later : OrderMoves(row, status)
  BY <1>7 DEF OrderMoves
<1> QED
  BY <1>1, <1>2, <1>3, <1>4, <1>5, <1>6, <1>7 DEF Next

\* The console, with the API that answers it, implements the access control.
THEOREM AccessRefinement == Spec => AccessSpec
<1>1. Init => AccessInit /\ bound \in Bounds
  BY DEF Init
<1>2. bound \in Bounds /\ [Next]_vars => (bound \in Bounds)'
  <2> SUFFICES ASSUME bound \in Bounds, [Next]_vars PROVE bound' = bound
    OBVIOUS
  <2> QED
    BY DEF Next, vars, Access, LogIn, Serve, Authorize, ServeList, ServeOrder,
       ServeChange, CallFails, Arrives, ListArrives, ListIsLost, OpenArrives,
       ChangeArrives, RequestIsRefused, Arrived, OrderMoves, Operator, LogOut,
       ChooseStatus, Reload, Refresh, SubmitStatus, SubmitPayout, ChangeMode,
       OpenOrder, Asks
<1> QED
  BY <1>1, <1>2, StepIsAccessStep, PTL DEF Spec, AccessSpec

\* However logins and restarts interleave, the limiter lets through no more
\* guesses than its limit and the logins that were under way.
THEOREM GuessesAreBounded == Spec => []LimiterBoundsGuesses
<1>1. AccessIInv => LimiterBoundsGuesses
  BY DEF AccessIInv
<1> QED
  BY <1>1, AccessRefinement, AccessInductive, PTL

\* However many operators disable an account at once, disabledAt is no later
\* than the moment the account stopped working.
THEOREM DisabledInTime == Spec => []DisabledAtIsNotLate
<1>1. AccessIInv => DisabledAtIsNotLate
  BY DEF AccessIInv
<1> QED
  BY <1>1, AccessRefinement, AccessInductive, PTL

-----------------------------------------------------------------------------
(* The inductive invariant of the console.  A stale request stays stale:   *)
(* its session is revoked until the account is provisioned again, which    *)
(* ends its staleness.  A draft fits the open order from the moment the    *)
(* order is shown, whichever answer shows it.                              *)

StaleIsRevoked(c) == c.stale => IsRevoked(c.session) /\ c.state \in {"sent", "failed"}

FitsServer(c) ==
    /\ c.kind = "status" => c.status \in ManagerSettable /\ FitsDirection(c.publicId, c.status)
    /\ c.kind = "payout" => c.publicId \in BuyIds

CallsHold ==
    \A s \in Slots : call[s] # NoCall => StaleIsRevoked(call[s]) /\ FitsServer(call[s])

DraftFits ==
    selectedOrder # NoOrder => FitsDirection(selectedOrder.publicId, statusDraft)

ConsoleIInv == TypeOK /\ CallsHold /\ DraftFits

\* The lists the server answers with are rows of the database.
LEMMA ListsAreRows ==
    ASSUME NEW rows, NEW limit
    PROVE  /\ ListAllActiveOrders(rows, limit) \subseteq rows
           /\ ListAllHistoryOrders(rows, limit) \subseteq rows
           /\ \A id : GetAnyOrderByPublicId(rows, id) \subseteq rows
BY DEF ListAllActiveOrders, ListAllHistoryOrders, NewestFirst, GetAnyOrderByPublicId

\* A row put into a list in the place of another keeps it a list of rows.
LEMMA ReplacedAreRows ==
    ASSUME NEW rows \in SUBSET Rows, NEW row \in Rows
    PROVE  Replaced(rows, row) \in SUBSET Rows
BY DEF Replaced

\* What the console offers for an order fits the direction of the order.
LEMMA OptionsFit ==
    ASSUME NEW publicId, NEW status \in GetManagerStatusOptions(publicId) \cup {"pending_aml"}
    PROVE  status \in ManagerSettable /\ FitsDirection(publicId, status)
BY IdsAssumption DEF GetManagerStatusOptions, ManagerSettable, FitsDirection

\* Showing an order drafts a status that fits it.
LEMMA ShowsFits ==
    ASSUME TypeOK, NEW row \in Rows \cup {NoOrder}, Shows(row)
    PROVE  /\ selectedOrder' \in Rows \cup {NoOrder}
           /\ statusDraft' \in ManagerSettable
           /\ DraftFits'
<1>1. row # NoOrder =>
         /\ statusDraft' \in GetManagerStatusOptions(row.publicId) \cup {"pending_aml"}
  BY DEF Shows
<1>2. selectedOrder' = row
  BY DEF Shows
<1>3. CASE row = NoOrder
  BY <1>2, <1>3 DEF Shows, TypeOK, DraftFits
<1>4. CASE row # NoOrder
  BY <1>1, <1>2, <1>4, OptionsFit DEF DraftFits
<1> QED
  BY <1>3, <1>4

\* Steps that leave the requests alone, but may revoke sessions.
LEMMA CallsStayHeld ==
    ASSUME CallsHold, UNCHANGED call,
           \A token \in Sessions : IsRevoked(token) => IsRevoked(token)',
           TypeOK
    PROVE  CallsHold'
<1> SUFFICES ASSUME NEW s \in Slots, call[s] # NoCall
             PROVE  StaleIsRevoked(call[s])' /\ FitsServer(call[s])'
  BY DEF CallsHold
<1>1. call[s].session \in Sessions /\ call'[s] = call[s]
  BY DEF TypeOK, CallRecords
<1> QED
  BY <1>1 DEF CallsHold, StaleIsRevoked, FitsServer, FitsDirection

\* A request that is answered, or fails, is the request that was sent.
LEMMA AnswerHolds ==
    ASSUME TypeOK, CallsHold, NEW s \in Slots, call[s] # NoCall,
           NEW state \in CallStates, NEW rows \in SUBSET Rows,
           call[s].stale => state \in {"sent", "failed"},
           Answer(s, state, rows), UNCHANGED <<clock, account>>
    PROVE  call' \in [Slots -> CallRecords \cup {NoCall}] /\ CallsHold'
<1>1. call[s] \in CallRecords
  BY DEF TypeOK
<1>2. \E c \in CallRecords :
         /\ call' = [call EXCEPT ![s] = c]
         /\ c.kind = call[s].kind /\ c.session = call[s].session
         /\ c.publicId = call[s].publicId /\ c.status = call[s].status
         /\ c.stale = call[s].stale /\ c.state = state
  <2> DEFINE c == [call[s] EXCEPT !.state = state, !.rows = rows]
  <2>1. c \in CallRecords
    BY <1>1 DEF CallRecords
  <2>2. /\ c.kind = call[s].kind /\ c.session = call[s].session
        /\ c.publicId = call[s].publicId /\ c.status = call[s].status
        /\ c.stale = call[s].stale /\ c.state = state
    BY <1>1 DEF CallRecords
  <2>3. call' = [call EXCEPT ![s] = c]
    BY DEF Answer
  <2> HIDE DEF c
  <2> QED
    BY <2>1, <2>2, <2>3
<1>3. PICK c \in CallRecords :
         /\ call' = [call EXCEPT ![s] = c]
         /\ c.kind = call[s].kind /\ c.session = call[s].session
         /\ c.publicId = call[s].publicId /\ c.status = call[s].status
         /\ c.stale = call[s].stale /\ c.state = state
  BY <1>2
<1>4. \A q \in Slots : call'[q] = IF q = s THEN c ELSE call[q]
  BY <1>3 DEF TypeOK
<1>5. call' \in [Slots -> CallRecords \cup {NoCall}]
  BY <1>3 DEF TypeOK
<1>6. CallsHold'
  BY <1>3, <1>4 DEF CallsHold, StaleIsRevoked, FitsServer, FitsDirection, IsRevoked
<1> QED
  BY <1>5, <1>6

\* A request that holds when it is sent, in whatever slot.
LEMMA SentHolds ==
    ASSUME TypeOK, CallsHold, NEW s \in Slots, NEW c \in CallRecords \cup {NoCall},
           c # NoCall => StaleIsRevoked(c) /\ FitsServer(c),
           call' = [call EXCEPT ![s] = c], UNCHANGED <<clock, account>>
    PROVE  call' \in [Slots -> CallRecords \cup {NoCall}] /\ CallsHold'
<1>1. \A q \in Slots : call'[q] = IF q = s THEN c ELSE call[q]
  BY DEF TypeOK
<1>2. CallsHold'
  BY <1>1 DEF CallsHold, StaleIsRevoked, FitsServer, FitsDirection, IsRevoked
<1> QED
  BY <1>2 DEF TypeOK

\* Requests are sent in the state they are in when they are sent.
LEMMA RequestHolds ==
    ASSUME NEW kind \in Kinds, NEW token \in Sessions, NEW mode \in Modes,
           NEW publicId \in PublicIds \cup {NoOrder}, NEW status \in OrderStatus,
           kind = "status" => status \in ManagerSettable /\ FitsDirection(publicId, status),
           kind = "payout" => publicId \in BuyIds
    PROVE  LET c == Request(kind, token, mode, publicId, status)
           IN  c \in CallRecords /\ StaleIsRevoked(c) /\ FitsServer(c)
BY DEF Request, CallRecords, CallStates, StaleIsRevoked, FitsServer, IsRevoked

\* The requests for the queue are among them.
LEMMA ListRequestHolds ==
    ASSUME NEW token \in Sessions, NEW mode \in Modes
    PROVE  LET c == ListRequest(token, mode)
           IN  c \in CallRecords /\ StaleIsRevoked(c) /\ FitsServer(c)
BY DEF ListRequest, Request, CallRecords, CallStates, StaleIsRevoked, FitsServer,
   IsRevoked, Kinds, OrderStatus

\* A request takes a free slot of the instance.
LEMMA SendsHolds ==
    ASSUME TypeOK, CallsHold, NEW c \in CallRecords, StaleIsRevoked(c), FitsServer(c),
           Sends(c), UNCHANGED <<clock, account>>
    PROVE  call' \in [Slots -> CallRecords \cup {NoCall}] /\ CallsHold'
<1> DEFINE s == CHOOSE s \in FreeSlots : TRUE
<1>1. FreeSlots # {} /\ call' = [call EXCEPT ![s] = c]
  BY DEF Sends
<1>2. s \in FreeSlots
  BY <1>1
<1>3. FreeSlots \subseteq Slots
  BY BoundsAssumption DEF FreeSlots, TypeOK
<1>4. s \in Slots
  BY <1>2, <1>3
<1> HIDE DEF s
<1> QED
  BY <1>1, <1>4, SentHolds

-----------------------------------------------------------------------------
(* Every step preserves it.                                                *)

\* What is left to show of a step that keeps the access control's invariant.
ConsoleTypeOK ==
    /\ bound \in Bounds
    /\ orders \subseteq Rows
    /\ session \in Sessions \cup {NoSession}
    /\ orderMode \in Modes
    /\ queue \subseteq Rows
    /\ selectedOrder \in Rows \cup {NoOrder}
    /\ statusDraft \in ManagerSettable
    /\ loading \in BOOLEAN
    /\ call \in [Slots -> CallRecords \cup {NoCall}]

Kept == ConsoleTypeOK' /\ CallsHold' /\ DraftFits'

\* Disabling an account, and time, only revoke sessions.
LEMMA RevocationStays ==
    ASSUME AccessIInv, NEW token \in Sessions, IsRevoked(token),
           \/ UNCHANGED <<clock, account>>
           \/ Tick
           \/ \E d \in Commands : DisableUpdates(d)
    PROVE  IsRevoked(token)'
<1>1. CASE UNCHANGED <<clock, account>>
  BY <1>1 DEF IsRevoked
<1>2. CASE Tick
  BY <1>2 DEF IsRevoked, Tick, AccessIInv, AccessTypeOK, Sessions
<1>3. ASSUME NEW d \in Commands, DisableUpdates(d)
      PROVE  IsRevoked(token)'
  <2>1. account \in Accounts /\ command[d] \in Nat
    BY <1>3 DEF DisableUpdates, AccessIInv, CommandsAreCurrent, AccessTypeOK, Accounts
  <2>2. account'.disabledAt = command[d]
    BY <1>3, <2>1 DEF DisableUpdates, Accounts
  <2> QED
    BY <2>1, <2>2, NullsAssumption DEF IsRevoked
<1> QED
  BY <1>1, <1>2, <1>3

\* Logins, operators, time and restarts.
LEMMA AccessKeeps ==
    ASSUME ConsoleIInv, AccessIInv, Access
    PROVE  Kept
<1>1. TypeOK /\ CallsHold /\ DraftFits
  BY DEF ConsoleIInv
<1>2. ConsoleTypeOK /\ UNCHANGED <<orders, consoleVars, bound>>
  BY <1>1 DEF TypeOK, ConsoleTypeOK, Access
<1>3. DraftFits'
  BY <1>1, <1>2 DEF DraftFits, FitsDirection, consoleVars
<1>4. CASE \/ UNCHANGED <<clock, account, call>>
           \/ Tick /\ UNCHANGED call
           \/ (\E d \in Commands : DisableUpdates(d)) /\ UNCHANGED call
  <2>1. CallsHold'
    BY <1>1, <1>4, CallsStayHeld, RevocationStays
  <2>2. ConsoleTypeOK'
    BY <1>2, <1>4 DEF ConsoleTypeOK, consoleVars
  <2> QED
    BY <1>3, <2>1, <2>2 DEF Kept
<1>5. ASSUME NEW password \in bound.passwords, NEW role \in bound.roles,
             ProvisionAdminUser(password, role),
             call' = [s \in Slots |->
                        IF call[s] = NoCall THEN NoCall
                        ELSE [call[s] EXCEPT !.stale =
                                @ /\ call[s].session.expiresAt <= clock]]
      PROVE  Kept
  <2>1. UNCHANGED clock
    BY <1>5 DEF ProvisionAdminUser
  <2>2. ASSUME NEW s \in Slots, call[s] # NoCall
        PROVE  /\ call'[s] \in CallRecords
               /\ call'[s].kind = call[s].kind /\ call'[s].status = call[s].status
               /\ call'[s].publicId = call[s].publicId
               /\ call'[s].session = call[s].session /\ call'[s].state = call[s].state
               /\ call'[s].stale <=> call[s].stale /\ call[s].session.expiresAt <= clock
    <3> DEFINE b == call[s].stale /\ call[s].session.expiresAt <= clock
    <3>1. call[s] \in CallRecords
      BY <1>1, <2>2 DEF TypeOK
    <3>2. call'[s] = [call[s] EXCEPT !.stale = b]
      BY <1>5, <2>2
    <3>3. b \in BOOLEAN
      BY <3>1 DEF CallRecords
    <3> HIDE DEF b
    <3>4. /\ call'[s] \in CallRecords /\ call'[s].stale = b
          /\ call'[s].kind = call[s].kind /\ call'[s].status = call[s].status
          /\ call'[s].publicId = call[s].publicId
          /\ call'[s].session = call[s].session /\ call'[s].state = call[s].state
      BY <3>1, <3>2, <3>3 DEF CallRecords
    <3> QED
      BY <3>4 DEF b
  <2>3. \A s \in Slots : call[s] = NoCall => call'[s] = NoCall
    BY <1>5
  <2>4. CallsHold'
    <3> SUFFICES ASSUME NEW s \in Slots, call'[s] # NoCall
                 PROVE  StaleIsRevoked(call[s])' /\ FitsServer(call[s])'
      BY DEF CallsHold
    <3>1. call[s] # NoCall
      BY <2>3
    <3> QED
      BY <1>1, <2>1, <2>2, <3>1
         DEF CallsHold, StaleIsRevoked, FitsServer, FitsDirection, IsRevoked
  <2>5. call' \in [Slots -> CallRecords \cup {NoCall}]
    BY <1>5, <2>2, <2>3
  <2>6. ConsoleTypeOK'
    BY <1>2, <2>5 DEF ConsoleTypeOK, consoleVars
  <2> QED
    BY <1>3, <2>4, <2>6 DEF Kept
<1>6. bound.commands \subseteq Commands
  BY <1>1, BoundsAssumption DEF TypeOK
<1>7. CASE UNCHANGED call /\ \E a \in bound.attempts :
               \/ \E password \in bound.passwords : LoginArrives(a, password)
               \/ LoginFails(a) \/ LoginIsLost(a)
  BY <1>4, <1>7 DEF LoginArrives, LoginFails, LoginIsLost
<1>8. CASE UNCHANGED call /\ RestartApi
  BY <1>4, <1>8 DEF RestartApi
<1>9. CASE UNCHANGED call /\ \E d \in bound.commands :
               \/ \E at \in 0..clock : DisableFindsEnabled(d, at)
               \/ DisableIsLost(d)
  BY <1>4, <1>9 DEF DisableFindsEnabled, DisableIsLost
<1>10. CASE UNCHANGED call /\ \E d \in bound.commands : DisableUpdates(d)
  BY <1>4, <1>6, <1>10
<1>11. CASE UNCHANGED call /\ Tick
  BY <1>4, <1>11
<1>12. CASE /\ \E password \in bound.passwords, role \in bound.roles :
                   ProvisionAdminUser(password, role)
            /\ call' = [s \in Slots |->
                          IF call[s] = NoCall THEN NoCall
                          ELSE [call[s] EXCEPT !.stale =
                                  @ /\ call[s].session.expiresAt <= clock]]
  BY <1>5, <1>12
<1> QED
  BY <1>7, <1>8, <1>9, <1>10, <1>11, <1>12 DEF Access

\* A login, at this console or at another browser.
LEMMA LogInKeeps ==
    ASSUME ConsoleIInv, NEW a \in Attempts, LogIn(a)
    PROVE  Kept
<1>1. TypeOK /\ CallsHold /\ DraftFits
  BY DEF ConsoleIInv
<1>2. /\ UNCHANGED <<clock, account, orders, bound>>
      /\ attempt[a] # Idle /\ account # NoAccount
  BY DEF LogIn, LoginSucceeds, Accepts
<1>3. CASE UNCHANGED <<consoleVars, call>>
  <2>1. CallsHold'
    BY <1>1, <1>2, <1>3 DEF CallsHold, StaleIsRevoked, FitsServer, FitsDirection, IsRevoked
  <2>2. DraftFits'
    BY <1>1, <1>3 DEF DraftFits, FitsDirection, consoleVars
  <2> QED
    BY <1>1, <1>2, <1>3, <2>1, <2>2 DEF Kept, ConsoleTypeOK, TypeOK, consoleVars
<1>4. CASE /\ session' = IssuedSession(a)
           /\ Sends(ListRequest(IssuedSession(a), orderMode))
           /\ loading' = TRUE
           /\ UNCHANGED <<orderMode, queue, selectedOrder, statusDraft>>
  <2>1. IssuedSession(a) \in Sessions
    BY <1>1, <1>2, SessionAssumption
       DEF IssuedSession, SignAdminSession, Sessions, TypeOK, AccessTypeOK
  <2>2. call' \in [Slots -> CallRecords \cup {NoCall}] /\ CallsHold'
    BY <1>1, <1>2, <1>4, <2>1, ListRequestHolds, SendsHolds DEF TypeOK
  <2>3. DraftFits'
    BY <1>1, <1>4 DEF DraftFits, FitsDirection
  <2> QED
    BY <1>1, <1>2, <1>4, <2>1, <2>2, <2>3 DEF Kept, ConsoleTypeOK, TypeOK
<1> QED
  BY <1>3, <1>4 DEF LogIn

\* The server authorizes, acts and answers.
LEMMA ServerKeeps ==
    ASSUME ConsoleIInv, NEW s \in Slots, Serve(s) \/ CallFails(s)
    PROVE  Kept
<1>1. TypeOK /\ CallsHold /\ DraftFits
  BY DEF ConsoleIInv
<1>2. /\ UNCHANGED <<clock, account, consoleVars, bound>>
      /\ call[s] # NoCall /\ call[s] \in CallRecords
  BY <1>1 DEF Serve, Authorize, ServeList, ServeOrder, ServeChange, CallFails,
     accessVars, TypeOK
<1>3. ASSUME NEW state \in CallStates, NEW rows \in SUBSET Rows,
             call[s].stale => state \in {"sent", "failed"},
             Answer(s, state, rows), orders' \subseteq Rows
      PROVE  Kept
  <2>1. call' \in [Slots -> CallRecords \cup {NoCall}] /\ CallsHold'
    BY <1>1, <1>2, <1>3, AnswerHolds
  <2>2. DraftFits'
    BY <1>1, <1>2 DEF DraftFits, FitsDirection, consoleVars
  <2> QED
    BY <1>1, <1>2, <1>3, <2>1, <2>2 DEF Kept, ConsoleTypeOK, TypeOK, consoleVars
<1>4. orders \subseteq Rows
  BY <1>1 DEF TypeOK
<1>5. call[s].state \in {"authorized", "changed"} => ~call[s].stale
  BY <1>1, <1>2 DEF CallsHold, StaleIsRevoked
<1>6. CASE Authorize(s)
  <2>1. ~IsRevoked(call[s].session)
    <3>1. call[s].session.expiresAt \in Nat /\ clock \in Nat
      BY <1>1, <1>2 DEF CallRecords, Sessions, TypeOK, AccessTypeOK
    <3> QED
      BY <1>6, <3>1 DEF Authorize, Authorizes, VerifyAdminSession,
         RequireActiveAdminSession, IsRevoked
  <2>2. ~call[s].stale
    BY <1>1, <1>2, <2>1 DEF CallsHold, StaleIsRevoked
  <2> QED
    BY <1>3, <1>4, <1>6, <2>2 DEF Authorize, CallStates
<1>7. CASE ServeList(s)
  BY <1>3, <1>4, <1>5, <1>7, ListsAreRows DEF ServeList, CallStates
<1>8. CASE ServeOrder(s)
  <2> DEFINE rows == GetAnyOrderByPublicId(orders, call[s].publicId)
  <2>1. rows \in SUBSET Rows
    BY <1>4, ListsAreRows
  <2>2. ~call[s].stale /\ Answer(s, "answered", rows) /\ UNCHANGED orders
    BY <1>5, <1>8 DEF ServeOrder
  <2> HIDE DEF rows
  <2> QED
    BY <1>3, <1>4, <2>1, <2>2 DEF CallStates
<1>9. CASE ServeChange(s)
  <2>1. PICK row \in GetAnyOrderByPublicId(orders, call[s].publicId) :
           \/ orders' = Replaced(orders, [row EXCEPT !.status = call[s].status])
           \/ orders' = Replaced(orders, [row EXCEPT !.status = "completed"])
    BY <1>9 DEF ServeChange
  <2>2. row \in Rows
    BY <1>4, <2>1, ListsAreRows
  <2>3. /\ [row EXCEPT !.status = call[s].status] \in Rows
        /\ [row EXCEPT !.status = "completed"] \in Rows
    BY <1>2, <2>2 DEF Rows, CallRecords, OrderStatus
  <2>4. orders' \subseteq Rows
    BY <1>4, <2>1, <2>3, ReplacedAreRows
  <2> QED
    BY <1>3, <1>5, <1>9, <2>4 DEF ServeChange, CallStates
<1>10. CASE CallFails(s)
  BY <1>3, <1>4, <1>10 DEF CallFails, CallStates
<1> QED
  BY <1>6, <1>7, <1>8, <1>9, <1>10 DEF Serve

\* The session ends, and the page is loaded again.
LEMMA PageKeeps ==
    ASSUME ConsoleIInv, LogOut \/ Reload
    PROVE  Kept
<1>1. TypeOK /\ CallsHold /\ DraftFits
  BY DEF ConsoleIInv
<1>2. UNCHANGED <<clock, account, orders, bound>>
  BY DEF LogOut, Reload, accessVars
<1>3. CASE LogOut
  <2>1. CallsHold'
    BY <1>1, <1>2, <1>3
       DEF LogOut, CallsHold, StaleIsRevoked, FitsServer, FitsDirection, IsRevoked
  <2>2. DraftFits'
    BY <1>3 DEF LogOut, ShowsNothing, DraftFits
  <2> QED
    BY <1>1, <1>2, <1>3, <2>1, <2>2
       DEF Kept, ConsoleTypeOK, TypeOK, LogOut, ShowsNothing, Modes
<1>4. CASE Reload
  <2>1. ASSUME NEW s \in Slots, call'[s] # NoCall
        PROVE  /\ session \in Sessions /\ call'[s] = ListRequest(session, "active")
               /\ call'[s] \in CallRecords
               /\ StaleIsRevoked(call[s])' /\ FitsServer(call[s])'
    <3>1. session # NoSession /\ call'[s] = ListRequest(session, "active")
      BY <1>4, <2>1 DEF Reload
    <3>2. session \in Sessions
      BY <1>1, <3>1 DEF TypeOK
    <3> DEFINE c == ListRequest(session, "active")
    <3>3. c \in CallRecords /\ StaleIsRevoked(c) /\ FitsServer(c)
      BY <3>2, ListRequestHolds DEF Modes
    <3>4. call'[s] = c
      BY <3>1
    <3> HIDE DEF c
    <3> QED
      BY <1>2, <3>1, <3>2, <3>3, <3>4
         DEF StaleIsRevoked, FitsServer, FitsDirection, IsRevoked
  <2>2. CallsHold'
    BY <2>1 DEF CallsHold
  <2>3. call' \in [Slots -> CallRecords \cup {NoCall}]
    <3>1. \A s \in Slots : call'[s] \in CallRecords \cup {NoCall}
      BY <2>1
    <3> QED
      BY <1>4, <3>1 DEF Reload
  <2>4. DraftFits'
    BY <1>4 DEF Reload, ShowsNothing, DraftFits
  <2> QED
    BY <1>1, <1>2, <1>4, <2>2, <2>3, <2>4
       DEF Kept, ConsoleTypeOK, TypeOK, Reload, ShowsNothing, Modes, ManagerSettable
<1> QED
  BY <1>3, <1>4

\* The operator drafts a status, and sends requests.
LEMMA OperatorKeeps ==
    ASSUME ConsoleIInv, Operator, ~(LogOut \/ Reload)
    PROVE  Kept
<1>1. TypeOK /\ CallsHold /\ DraftFits
  BY DEF ConsoleIInv
<1>2. ASSUME NEW kind \in Kinds, NEW mode \in Modes, NEW status \in OrderStatus,
             NEW publicId \in PublicIds \cup {NoOrder},
             kind = "status" => status \in ManagerSettable /\ FitsDirection(publicId, status),
             kind = "payout" => publicId \in BuyIds,
             Asks(Request(kind, session, mode, publicId, status)),
             orderMode' \in Modes
      PROVE  Kept
  <2> DEFINE c == Request(kind, session, mode, publicId, status)
  <2>1. session \in Sessions
    BY <1>1, <1>2 DEF Asks, TypeOK
  <2>2. c \in CallRecords /\ StaleIsRevoked(c) /\ FitsServer(c)
    BY <1>2, <2>1, RequestHolds
  <2>3. Sends(c) /\ UNCHANGED <<clock, account>>
    BY <1>2 DEF Asks, accessVars
  <2> HIDE DEF c
  <2>4. call' \in [Slots -> CallRecords \cup {NoCall}] /\ CallsHold'
    BY <1>1, <2>2, <2>3, SendsHolds
  <2>5. DraftFits'
    BY <1>1, <1>2 DEF Asks, DraftFits, FitsDirection
  <2> QED
    BY <1>1, <1>2, <2>4, <2>5 DEF Kept, ConsoleTypeOK, TypeOK, Asks
<1>3. orderMode \in Modes /\ "draft" \in OrderStatus
  BY <1>1 DEF TypeOK, OrderStatus
<1>4. selectedOrder # NoOrder => selectedOrder \in Rows /\ selectedOrder.publicId \in PublicIds
  BY <1>1 DEF TypeOK, Rows
<1>5. statusDraft \in ManagerSettable /\ ManagerSettable \subseteq OrderStatus
  BY <1>1 DEF TypeOK, ManagerSettable, OrderStatus
<1>6. CASE \E status \in bound.drafts : ChooseStatus(status)
  <2>1. PICK status \in bound.drafts : ChooseStatus(status)
    BY <1>6
  <2>2. /\ status \in ManagerSettable /\ FitsDirection(selectedOrder.publicId, status)
    BY <2>1, OptionsFit DEF ChooseStatus
  <2>3. DraftFits'
    BY <2>1, <2>2 DEF ChooseStatus, DraftFits, FitsDirection
  <2>4. CallsHold'
    BY <1>1, <2>1 DEF ChooseStatus, accessVars, CallsHold, StaleIsRevoked, FitsServer,
       FitsDirection, IsRevoked
  <2> QED
    BY <1>1, <2>1, <2>2, <2>3, <2>4 DEF ChooseStatus, Kept, ConsoleTypeOK, TypeOK
<1>7. CASE Refresh
  <2>1. Asks(Request("list", session, orderMode, NoOrder, "draft")) /\ UNCHANGED orderMode
    BY <1>7 DEF Refresh, ListRequest
  <2> QED
    BY <1>2, <1>3, <2>1 DEF Kinds
<1>8. CASE SubmitStatus
  <2>1. /\ Asks(Request("status", session, orderMode, selectedOrder.publicId, statusDraft))
        /\ UNCHANGED orderMode /\ selectedOrder # NoOrder
    BY <1>8 DEF SubmitStatus, IsOpen
  <2>2. FitsDirection(selectedOrder.publicId, statusDraft)
    BY <1>1, <2>1 DEF DraftFits
  <2> QED
    BY <1>2, <1>3, <1>4, <1>5, <2>1, <2>2 DEF Kinds
<1>9. CASE SubmitPayout
  <2>1. /\ Asks(Request("payout", session, orderMode, selectedOrder.publicId, "draft"))
        /\ UNCHANGED orderMode /\ selectedOrder # NoOrder
        /\ selectedOrder.publicId \in BuyIds
    BY <1>9 DEF SubmitPayout, IsOpen, CanRecordManualCryptoPayout
  <2> QED
    BY <1>2, <1>3, <1>4, <2>1 DEF Kinds
<1>10. ASSUME NEW mode \in bound.modes, ChangeMode(mode)
       PROVE  Kept
  <2>1. mode \in Modes
    BY <1>1, BoundsAssumption DEF TypeOK
  <2>2. Asks(Request("list", session, mode, NoOrder, "draft")) /\ orderMode' = mode
    BY <1>10 DEF ChangeMode, ListRequest
  <2> QED
    BY <1>2, <1>3, <2>1, <2>2 DEF Kinds
<1>11. ASSUME NEW row \in queue, OpenOrder(row)
       PROVE  Kept
  <2>1. row.publicId \in PublicIds
    BY <1>1 DEF TypeOK, Rows
  <2>2. Asks(Request("open", session, orderMode, row.publicId, "draft")) /\ UNCHANGED orderMode
    BY <1>11 DEF OpenOrder
  <2> QED
    BY <1>2, <1>3, <2>1, <2>2 DEF Kinds
<1> QED
  BY <1>6, <1>7, <1>8, <1>9, <1>10, <1>11 DEF Operator

\* An answer arrives, or the failure of a request.
LEMMA ArrivalKeeps ==
    ASSUME ConsoleIInv, NEW s \in Slots, Arrives(s)
    PROVE  Kept
<1>1. TypeOK /\ CallsHold /\ DraftFits
  BY DEF ConsoleIInv
<1>2. /\ call[s] # NoCall /\ call[s] \in CallRecords
      /\ UNCHANGED <<clock, account, orders, session, orderMode, bound>>
  BY <1>1 DEF Arrives, ListArrives, ListIsLost, OpenArrives, ChangeArrives,
     RequestIsRefused, Arrived, accessVars, TypeOK
<1>3. call[s].rows \subseteq Rows /\ call[s].session \in Sessions /\ call[s].mode \in Modes
  BY <1>2 DEF CallRecords
<1>4. ASSUME Settles(s), queue' \subseteq Rows, NEW row \in Rows \cup {NoOrder}, Shows(row)
      PROVE  Kept
  <2>1. call' \in [Slots -> CallRecords \cup {NoCall}] /\ CallsHold'
    BY <1>1, <1>2, <1>4, SentHolds DEF Settles
  <2> QED
    BY <1>1, <1>2, <1>4, <2>1, ShowsFits DEF Kept, ConsoleTypeOK, TypeOK, Settles
<1>5. CASE ListArrives(s)
  <2>1. PICK row \in Newest(IF Refreshed(call[s].rows) # {}
                            THEN Refreshed(call[s].rows) ELSE call[s].rows) :
           Shows(row) /\ Settles(s) /\ queue' = call[s].rows
    BY <1>5 DEF ListArrives
  <2>2. row \in Rows \cup {NoOrder}
    BY <1>3, <2>1 DEF Newest, Refreshed
  <2> QED
    BY <1>3, <1>4, <2>1, <2>2
<1>6. CASE ListIsLost(s)
  BY <1>4, <1>6 DEF ListIsLost
<1>7. CASE OpenArrives(s)
  <2>1. PICK row \in call[s].rows :
           Shows(row) /\ queue' = Replaced(queue, row) /\ Settles(s)
    BY <1>7 DEF OpenArrives
  <2>2. row \in Rows /\ queue' \subseteq Rows
    BY <1>1, <1>3, <2>1, ReplacedAreRows DEF TypeOK
  <2> QED
    BY <1>4, <2>1, <2>2
<1>8. CASE ChangeArrives(s)
  <2> DEFINE c == ListRequest(call[s].session, call[s].mode)
  <2>1. PICK row \in call[s].rows :
           /\ Shows(row) /\ UNCHANGED queue /\ loading' = TRUE
           /\ call' = [call EXCEPT ![s] = c]
    BY <1>8 DEF ChangeArrives
  <2>2. c \in CallRecords /\ StaleIsRevoked(c) /\ FitsServer(c)
    BY <1>3, ListRequestHolds
  <2> HIDE DEF c
  <2>3. call' \in [Slots -> CallRecords \cup {NoCall}] /\ CallsHold'
    BY <1>1, <1>2, <2>1, <2>2, SentHolds
  <2>4. row \in Rows
    BY <1>3, <2>1
  <2> QED
    BY <1>1, <1>2, <2>1, <2>3, <2>4, ShowsFits DEF Kept, ConsoleTypeOK, TypeOK
<1>9. CASE RequestIsRefused(s)
  <2>1. call' \in [Slots -> CallRecords \cup {NoCall}] /\ CallsHold'
    BY <1>1, <1>2, <1>9, SentHolds DEF RequestIsRefused, Settles
  <2>2. DraftFits'
    BY <1>1, <1>9 DEF RequestIsRefused, DraftFits, FitsDirection
  <2> QED
    BY <1>1, <1>2, <1>9, <2>1, <2>2
       DEF Kept, ConsoleTypeOK, TypeOK, RequestIsRefused, Settles
<1> QED
  BY <1>5, <1>6, <1>7, <1>8, <1>9 DEF Arrives

\* Every step of anybody preserves the invariant.
LEMMA NextConsoleIInv ==
    ConsoleIInv /\ AccessIInv /\ AccessIInv' /\ [Next]_vars => ConsoleIInv'
<1> SUFFICES ASSUME ConsoleIInv, AccessIInv, AccessIInv', [Next]_vars PROVE ConsoleIInv'
  OBVIOUS
<1>1. TypeOK /\ CallsHold /\ DraftFits
  BY DEF ConsoleIInv
<1>2. Kept => ConsoleIInv'
  BY DEF Kept, ConsoleTypeOK, ConsoleIInv, TypeOK, AccessIInv
<1>3. CASE UNCHANGED vars
  BY <1>3 DEF vars, accessVars, consoleVars, ConsoleIInv, TypeOK, AccessTypeOK,
     CallsHold, DraftFits, StaleIsRevoked, FitsServer, FitsDirection, IsRevoked
<1>4. ASSUME NEW row \in orders, NEW status \in bound.later, OrderMoves(row, status)
      PROVE  Kept
  <2>1. row \in Rows /\ status \in OrderStatus
    BY <1>1, BoundsAssumption DEF TypeOK
  <2>2. [row EXCEPT !.status = status] \in Rows
    BY <2>1 DEF Rows
  <2>3. orders' \subseteq Rows
    BY <1>1, <1>4, <2>2, ReplacedAreRows DEF OrderMoves, TypeOK
  <2>4. UNCHANGED <<clock, account, session, orderMode, queue, selectedOrder,
                    statusDraft, loading, call, bound>>
    BY <1>4 DEF OrderMoves, accessVars, consoleVars
  <2>5. CallsHold' /\ DraftFits'
    BY <1>1, <2>4 DEF CallsHold, DraftFits, StaleIsRevoked, FitsServer, FitsDirection,
       IsRevoked
  <2> QED
    BY <1>1, <2>3, <2>4, <2>5 DEF Kept, ConsoleTypeOK, TypeOK
<1> QED
  BY <1>2, <1>3, <1>4, AccessKeeps, LogInKeeps, ServerKeeps, ArrivalKeeps, PageKeeps,
     OperatorKeeps DEF Next

\* Sessions, requests, drafts and orders agree in every reachable state.
THEOREM ConsoleInductive == Spec => []ConsoleIInv
<1>1. Init => ConsoleIInv
  <2> SUFFICES ASSUME Init PROVE ConsoleIInv
    OBVIOUS
  <2>1. \A s \in Slots : call[s] = NoCall
    BY DEF Init
  <2>2. TypeOK
    BY InitAccessTypeOK, BoundsAssumption DEF Init, TypeOK, Modes, ManagerSettable
  <2> QED
    BY <2>1, <2>2 DEF Init, ConsoleIInv, CallsHold, DraftFits
<1> QED
  BY <1>1, NextConsoleIInv, AccessRefinement, AccessInductive, PTL DEF Spec

\* The account, the console and its requests keep their declared shapes.
THEOREM TypeCorrect == Spec => []TypeOK
<1>1. ConsoleIInv => TypeOK
  BY DEF ConsoleIInv
<1> QED
  BY <1>1, ConsoleInductive, PTL

\* A request that was sent with a revoked session is never authorized, unless
\* the account is provisioned meanwhile.
THEOREM RevocationIsFinal == Spec => []RevokedSessionChangesNothing
<1>1. ConsoleIInv => RevokedSessionChangesNothing
  BY DEF ConsoleIInv, CallsHold, StaleIsRevoked, RevokedSessionChangesNothing
<1> QED
  BY <1>1, ConsoleInductive, PTL

\* Whatever order an answer puts before the operator, what is submitted fits
\* the direction of the order it names.
THEOREM ConsoleFits == Spec => []ConsoleFitsServer
<1>1. ConsoleIInv => ConsoleFitsServer
  BY DEF ConsoleIInv, CallsHold, FitsServer, ConsoleFitsServer
<1> QED
  BY <1>1, ConsoleInductive, PTL

-----------------------------------------------------------------------------
(* What the console shows.  Rows reach it only in answers, which wait      *)
(* beside the screen while the orders move on: what has to be kept is that *)
(* the orders stay the same orders, in the database, in every answer under *)
(* way and on the screen.                                                  *)

\* An order the database has, in this status or another.
IsKnown(row, db) == \E order \in db : SameOrder(row, order)

RowsHold(rows, db) == IdsAreUnique(rows) /\ \A row \in rows : IsKnown(row, db)

ShownIInv ==
    /\ IdsAreUnique(orders)
    /\ RowsHold(queue, orders)
    /\ selectedOrder # NoOrder => IsKnown(selectedOrder, orders)
    /\ \A s \in Slots : call[s] # NoCall => RowsHold(call[s].rows, orders)

\* An order in another status, in the place of the order, is the same order.
LEMMA ReplacedStays ==
    ASSUME NEW rows \in SUBSET Rows, NEW row \in rows, NEW status \in OrderStatus,
           IdsAreUnique(rows)
    PROVE  LET moved == [row EXCEPT !.status = status]
           IN  /\ IdsAreUnique(Replaced(rows, moved))
               /\ \A other : (\E order \in rows : SameOrder(other, order)) =>
                     \E order \in Replaced(rows, moved) : SameOrder(other, order)
<1> DEFINE moved == [row EXCEPT !.status = status]
<1>1. moved.publicId = row.publicId /\ moved.createdAt = row.createdAt
  BY DEF Rows
<1> HIDE DEF moved
<1>2. IdsAreUnique(Replaced(rows, moved))
  BY <1>1 DEF IdsAreUnique, Replaced
<1>3. ASSUME NEW other, NEW order \in rows, SameOrder(other, order)
      PROVE  \E kept \in Replaced(rows, moved) : SameOrder(other, kept)
  <2>1. CASE order.publicId = moved.publicId
    <3>1. order = row
      BY <1>1, <2>1 DEF IdsAreUnique
    <3>2. moved \in Replaced(rows, moved)
      BY <1>1 DEF Replaced
    <3> QED
      BY <1>1, <1>3, <3>1, <3>2 DEF SameOrder
  <2>2. CASE order.publicId # moved.publicId
    BY <1>3, <2>2 DEF Replaced
  <2> QED
    BY <2>1, <2>2
<1> QED
  BY <1>2, <1>3 DEF moved

\* No step adds an order, drops one or makes another order of it.
LEMMA OrdersStay ==
    ASSUME TypeOK, IdsAreUnique(orders), [Next]_vars
    PROVE  /\ IdsAreUnique(orders')
           /\ \A row : IsKnown(row, orders) => IsKnown(row, orders')
<1>1. CASE UNCHANGED orders
  BY <1>1 DEF IsKnown
<1>2. ASSUME NEW row \in orders, NEW status \in OrderStatus,
             orders' = Replaced(orders, [row EXCEPT !.status = status])
      PROVE  /\ IdsAreUnique(orders')
             /\ \A other : IsKnown(other, orders) => IsKnown(other, orders')
  <2>1. orders \in SUBSET Rows
    BY DEF TypeOK
  <2> QED
    BY <1>2, <2>1, ReplacedStays DEF IsKnown
<1>3. ASSUME NEW row \in orders, NEW status \in bound.later, OrderMoves(row, status)
      PROVE  /\ IdsAreUnique(orders')
             /\ \A other : IsKnown(other, orders) => IsKnown(other, orders')
  <2>1. status \in OrderStatus
    BY BoundsAssumption DEF TypeOK
  <2> QED
    BY <1>2, <1>3, <2>1 DEF OrderMoves
<1>4. ASSUME NEW s \in Slots, ServeChange(s)
      PROVE  /\ IdsAreUnique(orders')
             /\ \A other : IsKnown(other, orders) => IsKnown(other, orders')
  <2>1. call[s] \in CallRecords
    BY <1>4 DEF ServeChange, TypeOK
  <2>2. PICK row \in GetAnyOrderByPublicId(orders, call[s].publicId) :
           \/ orders' = Replaced(orders, [row EXCEPT !.status = call[s].status])
           \/ orders' = Replaced(orders, [row EXCEPT !.status = "completed"])
    BY <1>4 DEF ServeChange
  <2>3. row \in orders
    BY <2>2 DEF GetAnyOrderByPublicId
  <2>4. call[s].status \in OrderStatus /\ "completed" \in OrderStatus
    BY <2>1 DEF CallRecords, OrderStatus
  <2> QED
    BY <1>2, <2>2, <2>3, <2>4
<1>5. ASSUME NEW s \in Slots, Serve(s) \/ CallFails(s) \/ Arrives(s), ~ServeChange(s)
      PROVE  UNCHANGED orders
  BY <1>5 DEF Serve, Authorize, ServeList, ServeOrder, CallFails, Arrives, ListArrives,
     ListIsLost, OpenArrives, ChangeArrives, RequestIsRefused, Arrived
<1>6. CASE Access \/ (\E a \in Attempts : LogIn(a)) \/ UNCHANGED vars
  BY <1>1, <1>6 DEF Access, LogIn, vars
<1>7. CASE Operator
  BY <1>1, <1>7 DEF Operator, LogOut, ChooseStatus, Reload, Refresh, SubmitStatus,
     SubmitPayout, ChangeMode, OpenOrder, Asks
<1> QED
  BY <1>1, <1>3, <1>4, <1>5, <1>6, <1>7 DEF Next

\* The rows of a request are none, or of the database, or those it had.
RowsOfCall(s) ==
    call'[s] # NoCall =>
        \/ call'[s].rows \subseteq orders
        \/ call[s] # NoCall /\ call'[s].rows = call[s].rows

\* A request takes a slot without any rows.
LEMMA SentRows ==
    ASSUME TypeOK, NEW c, c.rows = {}, NEW q, call' = [call EXCEPT ![q] = c],
           NEW s \in Slots
    PROVE  RowsOfCall(s)
<1>1. CASE s = q
  BY <1>1 DEF RowsOfCall, TypeOK
<1>2. CASE s # q
  BY <1>2 DEF RowsOfCall, TypeOK
<1> QED
  BY <1>1, <1>2

\* An answer is that of the database, or none.
LEMMA AnsweredRows ==
    ASSUME TypeOK, NEW q \in Slots, call[q] # NoCall, NEW state \in CallStates,
           NEW rows \in SUBSET orders, Answer(q, state, rows), NEW s \in Slots
    PROVE  RowsOfCall(s) /\ call'[q] # NoCall
<1> DEFINE c == [call[q] EXCEPT !.state = state, !.rows = rows]
<1>1. call[q] \in CallRecords
  BY DEF TypeOK
<1>2. orders \subseteq Rows
  BY DEF TypeOK
<1>3. c.rows = rows /\ c \in CallRecords
  BY <1>1, <1>2 DEF CallRecords
<1>4. call'[q] = c
  BY DEF Answer, TypeOK
<1>5. s # q => call'[s] = call[s]
  BY DEF Answer, TypeOK
<1> HIDE DEF c
<1> QED
  BY <1>3, <1>4, <1>5, NoCallAssumption DEF RowsOfCall

\* Only answers of the database bring rows to the requests under way.
LEMMA CallsStep == ASSUME TypeOK, [Next]_vars, NEW s \in Slots PROVE RowsOfCall(s)
<1>1. CASE UNCHANGED call
  BY <1>1 DEF RowsOfCall
<1>2. ASSUME NEW c, c.rows = {}, Sends(c) PROVE RowsOfCall(s)
  BY <1>2, SentRows DEF Sends
<1>3. \A token, mode : ListRequest(token, mode).rows = {}
  BY DEF ListRequest, Request
<1>4. CASE Access
  <2>1. CASE call' = [q \in Slots |->
                        IF call[q] = NoCall THEN NoCall
                        ELSE [call[q] EXCEPT !.stale =
                                @ /\ call[q].session.expiresAt <= clock]]
    BY <2>1 DEF TypeOK, CallRecords, RowsOfCall
  <2> QED
    BY <1>1, <1>4, <2>1 DEF Access
<1>5. ASSUME NEW a \in Attempts, LogIn(a) PROVE RowsOfCall(s)
  BY <1>1, <1>2, <1>3, <1>5 DEF LogIn
<1>6. ASSUME NEW q \in Slots, Serve(q) \/ CallFails(q) PROVE RowsOfCall(s)
  <2>1. call[q] # NoCall
    BY <1>6 DEF Serve, Authorize, ServeList, ServeOrder, ServeChange, CallFails
  <2>2. \E state \in CallStates : \E rows \in SUBSET orders : Answer(q, state, rows)
    BY <1>6, ListsAreRows
       DEF CallStates, Serve, Authorize, ServeList, ServeOrder, ServeChange, CallFails
  <2> QED
    BY <2>1, <2>2, AnsweredRows
<1>7. ASSUME NEW q \in Slots, Arrives(q) PROVE RowsOfCall(s)
  <2>1. CASE Settles(q)
    BY <2>1 DEF Settles, RowsOfCall, TypeOK
  <2>2. CASE ChangeArrives(q)
    BY <1>3, <2>2, SentRows DEF ChangeArrives
  <2> QED
    BY <1>7, <2>1, <2>2 DEF Arrives, ListArrives, ListIsLost, OpenArrives, RequestIsRefused
<1>8. CASE \E row \in orders, status \in bound.later : OrderMoves(row, status)
  BY <1>1, <1>8 DEF OrderMoves
<1>9. CASE Operator
  <2>1. CASE Reload
    BY <1>3, <2>1 DEF Reload, RowsOfCall
  <2>2. CASE LogOut \/ \E status \in bound.drafts : ChooseStatus(status)
    BY <1>1, <2>2 DEF LogOut, ChooseStatus
  <2>3. ASSUME NEW kind, NEW mode, NEW publicId, NEW status,
               Asks(Request(kind, session, mode, publicId, status))
        PROVE  RowsOfCall(s)
    BY <1>2, <2>3 DEF Asks, Request
  <2> QED
    BY <1>9, <2>1, <2>2, <2>3 DEF Operator, Refresh, ListRequest, SubmitStatus,
       SubmitPayout, ChangeMode, OpenOrder
<1> QED
  BY <1>1, <1>4, <1>5, <1>6, <1>7, <1>8, <1>9 DEF Next, vars

\* Only answers bring rows to the screen, whatever it showed when they arrive.
LEMMA ScreenStep ==
    ASSUME [Next]_vars
    PROVE  /\ \/ queue' \in {queue, {}}
              \/ \E s \in Slots :
                    /\ call[s] # NoCall
                    /\ \/ queue' = call[s].rows
                       \/ \E row \in call[s].rows : queue' = Replaced(queue, row)
           /\ \/ selectedOrder' \in {selectedOrder, NoOrder}
              \/ \E s \in Slots : call[s] # NoCall /\ selectedOrder' \in call[s].rows
<1>1. CASE UNCHANGED <<queue, selectedOrder>>
  BY <1>1
<1>2. ASSUME NEW s \in Slots, Arrives(s)
      PROVE  /\ call[s] # NoCall
             /\ \/ queue' \in {queue, {}}
                \/ queue' = call[s].rows
                \/ \E row \in call[s].rows : queue' = Replaced(queue, row)
             /\ selectedOrder' \in {selectedOrder, NoOrder} \cup call[s].rows
  <2>1. CASE ListArrives(s)
    BY <2>1 DEF ListArrives, Arrived, Shows, Newest, Refreshed
  <2>2. CASE ListIsLost(s)
    BY <2>2 DEF ListIsLost, Arrived, Shows
  <2>3. CASE OpenArrives(s)
    BY <2>3 DEF OpenArrives, Arrived, Shows
  <2>4. CASE ChangeArrives(s)
    BY <2>4 DEF ChangeArrives, Arrived, Shows
  <2>5. CASE RequestIsRefused(s)
    BY <2>5 DEF RequestIsRefused, Arrived
  <2> QED
    BY <1>2, <2>1, <2>2, <2>3, <2>4, <2>5 DEF Arrives
<1>3. CASE LogOut \/ Reload
  BY <1>3 DEF LogOut, Reload, ShowsNothing
<1>4. CASE Operator
  BY <1>1, <1>3, <1>4 DEF Operator, ChooseStatus, Refresh, SubmitStatus, SubmitPayout,
     ChangeMode, OpenOrder, Asks
<1>5. CASE Access \/ (\E a \in Attempts : LogIn(a)) \/ UNCHANGED vars
  BY <1>1, <1>5 DEF Access, LogIn, vars, consoleVars
<1>6. CASE \E s \in Slots : Serve(s) \/ CallFails(s)
  BY <1>1, <1>6 DEF Serve, Authorize, ServeList, ServeOrder, ServeChange, CallFails,
     consoleVars
<1>7. CASE \E row \in orders, status \in bound.later : OrderMoves(row, status)
  BY <1>1, <1>7 DEF OrderMoves, consoleVars
<1> QED
  BY <1>1, <1>2, <1>4, <1>5, <1>6, <1>7 DEF Next

\* Lists that hold stay so while the orders move on, also when an order that is
\* known is put into the place of its earlier row.
LEMMA RowsStay ==
    ASSUME TypeOK, IdsAreUnique(orders), [Next]_vars
    PROVE  \A rows : RowsHold(rows, orders) =>
              /\ RowsHold(rows, orders')
              /\ \A row : IsKnown(row, orders') =>
                    RowsHold(Replaced(rows, row), orders')
<1> SUFFICES ASSUME NEW rows, RowsHold(rows, orders)
             PROVE  /\ RowsHold(rows, orders')
                    /\ \A row : IsKnown(row, orders') =>
                          RowsHold(Replaced(rows, row), orders')
  OBVIOUS
<1>1. IdsAreUnique(rows) /\ \A row \in rows : IsKnown(row, orders')
  BY OrdersStay DEF RowsHold
<1>2. ASSUME NEW row, IsKnown(row, orders')
      PROVE  RowsHold(Replaced(rows, row), orders')
  BY <1>1, <1>2 DEF RowsHold, Replaced, IdsAreUnique
<1> QED
  BY <1>1, <1>2 DEF RowsHold

LEMMA NextShownIInv == TypeOK /\ ShownIInv /\ [Next]_vars => ShownIInv'
<1> SUFFICES ASSUME TypeOK, ShownIInv, [Next]_vars PROVE ShownIInv'
  OBVIOUS
<1>1. /\ IdsAreUnique(orders) /\ RowsHold(queue, orders)
      /\ selectedOrder # NoOrder => IsKnown(selectedOrder, orders)
      /\ \A s \in Slots : call[s] # NoCall => RowsHold(call[s].rows, orders)
  BY DEF ShownIInv
<1>2. IdsAreUnique(orders') /\ \A row : IsKnown(row, orders) => IsKnown(row, orders')
  BY <1>1, OrdersStay
<1>3. \A s \in Slots : call[s] # NoCall =>
         /\ RowsHold(call[s].rows, orders)
         /\ \A row \in call[s].rows : IsKnown(row, orders')
  BY <1>1, <1>2 DEF RowsHold
<1>4. ASSUME NEW s \in Slots, call'[s] # NoCall
      PROVE  RowsHold(call'[s].rows, orders')
  <2> DEFINE rows == call'[s].rows
  <2>1. CASE rows \subseteq orders
    <3>1. RowsHold(rows, orders)
      BY <1>1, <2>1 DEF RowsHold, IdsAreUnique, IsKnown, SameOrder
    <3> HIDE DEF rows
    <3>2. RowsHold(rows, orders')
      BY <1>1, <3>1, RowsStay
    <3> QED
      BY <3>2 DEF rows
  <2>2. CASE call[s] # NoCall /\ rows = call[s].rows
    BY <1>1, <2>2, RowsStay
  <2> QED
    BY <1>4, <2>1, <2>2, CallsStep DEF RowsOfCall
<1>5. selectedOrder' # NoOrder => IsKnown(selectedOrder', orders')
  BY <1>1, <1>2, <1>3, ScreenStep
<1>6. RowsHold(queue', orders')
  <2>1. CASE queue' = queue
    BY <1>1, <2>1, RowsStay
  <2>2. CASE queue' = {}
    BY <2>2 DEF RowsHold, IdsAreUnique
  <2>3. ASSUME NEW s \in Slots, call[s] # NoCall, queue' = call[s].rows
        PROVE  RowsHold(queue', orders')
    BY <1>1, <2>3, RowsStay
  <2>4. ASSUME NEW s \in Slots, call[s] # NoCall, NEW row \in call[s].rows,
               queue' = Replaced(queue, row)
        PROVE  RowsHold(queue', orders')
    <3>1. IsKnown(row, orders')
      BY <1>3, <2>4
    <3>2. RowsHold(Replaced(queue, row), orders')
      BY <1>1, <3>1, RowsStay
    <3> QED
      BY <2>4, <3>2
  <2> QED
    BY <2>1, <2>2, <2>3, <2>4, ScreenStep
<1> QED
  BY <1>2, <1>4, <1>5, <1>6 DEF ShownIInv

\* The queue lists an order once, and what is listed or open is an order there
\* is, whatever answers arrive late.
THEOREM QueueListsOnce == Spec => []ConsoleShowsOrdersOnce
<1>1. Init => ShownIInv
  BY BoundsAssumption DEF Init, ShownIInv, RowsHold, IdsAreUnique
<1>2. ShownIInv => ConsoleShowsOrdersOnce
  BY DEF ShownIInv, RowsHold, IsKnown, ConsoleShowsOrdersOnce
<1> QED
  BY <1>1, <1>2, NextShownIInv, TypeCorrect, PTL DEF Spec

-----------------------------------------------------------------------------
(* The label.  This is the safety part of NothingLoadsForEver: under the   *)
(* fairness of RequestsEnd what the label waits for does end.              *)

IsWaiting == \E s \in Slots : call[s] # NoCall

\* A session was issued to a console that can send requests.
LabelIInv == LabelIsOfARequest /\ (session # NoSession => bound.slots # {})

\* What is sent is under way.
LEMMA SendsWaits ==
    ASSUME TypeOK, NEW c \in CallRecords, Sends(c)
    PROVE  IsWaiting' /\ bound.slots # {}
<1> DEFINE s == CHOOSE s \in FreeSlots : TRUE
<1>1. s \in FreeSlots /\ call' = [call EXCEPT ![s] = c]
  BY DEF Sends
<1>2. s \in bound.slots /\ s \in Slots
  BY <1>1, BoundsAssumption DEF FreeSlots, TypeOK
<1> HIDE DEF s
<1>3. call'[s] = c
  BY <1>1, <1>2 DEF TypeOK
<1> QED
  BY <1>2, <1>3, NoCallAssumption DEF IsWaiting

\* Whatever the console asks for is a request.
LEMMA AsksWaits ==
    ASSUME TypeOK, NEW kind \in Kinds, NEW mode \in Modes,
           NEW publicId \in PublicIds \cup {NoOrder}, NEW status \in OrderStatus,
           Asks(Request(kind, session, mode, publicId, status))
    PROVE  IsWaiting' /\ bound.slots # {}
<1> DEFINE c == Request(kind, session, mode, publicId, status)
<1>1. session \in Sessions
  BY DEF Asks, TypeOK
<1>2. c \in CallRecords
  BY <1>1 DEF Request, CallRecords, CallStates, IsRevoked
<1>3. Sends(c)
  BY DEF Asks
<1> HIDE DEF c
<1> QED
  BY <1>2, <1>3, SendsWaits

LEMMA NextLabelIInv == TypeOK /\ LabelIInv /\ [Next]_vars => LabelIInv'
<1> SUFFICES ASSUME TypeOK, LabelIInv, [Next]_vars PROVE LabelIInv'
  OBVIOUS
<1>1. /\ loading => IsWaiting
      /\ session # NoSession => bound.slots # {}
  BY DEF LabelIInv, LabelIsOfARequest, IsWaiting
<1>2. ASSUME loading' => IsWaiting', session' # NoSession => bound.slots # {},
             UNCHANGED bound
      PROVE  LabelIInv'
  BY <1>2 DEF LabelIInv, LabelIsOfARequest, IsWaiting
<1>3. CASE UNCHANGED <<loading, session, call, bound>>
  BY <1>1, <1>2, <1>3 DEF IsWaiting
<1>4. CASE Access
  <2>1. CASE call' = [s \in Slots |->
                        IF call[s] = NoCall THEN NoCall
                        ELSE [call[s] EXCEPT !.stale =
                                @ /\ call[s].session.expiresAt <= clock]]
    <3>1. ASSUME NEW s \in Slots, call[s] # NoCall PROVE call'[s] # NoCall
      <4> DEFINE b == call[s].stale /\ call[s].session.expiresAt <= clock
      <4>1. call[s] \in CallRecords
        BY <3>1 DEF TypeOK
      <4>2. b \in BOOLEAN /\ call'[s] = [call[s] EXCEPT !.stale = b]
        BY <2>1, <3>1, <4>1 DEF CallRecords
      <4> HIDE DEF b
      <4>3. call'[s] \in CallRecords
        BY <4>1, <4>2 DEF CallRecords
      <4> QED
        BY <4>3, NoCallAssumption
    <3> QED
      BY <1>1, <1>2, <1>4, <3>1 DEF IsWaiting, Access, consoleVars
  <2> QED
    BY <1>3, <1>4, <2>1 DEF Access, consoleVars
<1>5. ASSUME NEW a \in Attempts, LogIn(a) PROVE LabelIInv'
  <2>1. CASE UNCHANGED <<consoleVars, call>>
    BY <1>3, <1>5, <2>1 DEF LogIn, consoleVars
  <2>2. CASE Sends(ListRequest(IssuedSession(a), orderMode))
    <3>1. IssuedSession(a) \in Sessions
      BY <1>5, SessionAssumption DEF LogIn, LoginSucceeds, Accepts, IssuedSession,
         SignAdminSession, Sessions, TypeOK, AccessTypeOK
    <3>2. IsWaiting' /\ bound.slots # {}
      BY <2>2, <3>1, ListRequestHolds, SendsWaits DEF TypeOK
    <3> QED
      BY <1>2, <1>5, <3>2 DEF LogIn
  <2> QED
    BY <1>5, <2>1, <2>2 DEF LogIn
<1>6. ASSUME NEW s \in Slots, Serve(s) \/ CallFails(s) PROVE LabelIInv'
  <2>1. /\ call[s] # NoCall /\ UNCHANGED <<loading, session, bound>>
        /\ \E state \in CallStates : \E rows \in SUBSET orders : Answer(s, state, rows)
    BY <1>6, ListsAreRows DEF CallStates, Serve, Authorize, ServeList, ServeOrder,
       ServeChange, CallFails, consoleVars
  <2>2. call'[s] # NoCall
    BY <2>1, AnsweredRows
  <2> QED
    BY <1>1, <1>2, <2>1, <2>2 DEF IsWaiting
<1>7. ASSUME NEW s \in Slots, Arrives(s) PROVE LabelIInv'
  <2>1. call[s] # NoCall /\ UNCHANGED <<session, bound>>
    BY <1>7 DEF Arrives, ListArrives, ListIsLost, OpenArrives, ChangeArrives,
       RequestIsRefused, Arrived
  <2>2. CASE Settles(s)
    BY <1>1, <1>2, <2>1, <2>2 DEF Settles
  <2>3. CASE ChangeArrives(s)
    <3>1. call[s] \in CallRecords
      BY <2>1 DEF TypeOK
    <3>2. ListRequest(call[s].session, call[s].mode) \in CallRecords
      BY <3>1, ListRequestHolds DEF CallRecords
    <3>3. call'[s] # NoCall
      BY <2>3, <3>2, NoCallAssumption DEF ChangeArrives, TypeOK
    <3> QED
      BY <1>1, <1>2, <2>1, <3>3 DEF IsWaiting
  <2> QED
    BY <1>7, <2>2, <2>3 DEF Arrives, ListArrives, ListIsLost, OpenArrives, RequestIsRefused
<1>8. CASE \E row \in orders, status \in bound.later : OrderMoves(row, status)
  BY <1>3, <1>8 DEF OrderMoves, consoleVars
<1>9. CASE LogOut
  BY <1>1, <1>2, <1>9 DEF LogOut, IsWaiting
<1>10. CASE Reload
  <2>1. CASE session = NoSession
    BY <1>2, <1>10, <2>1 DEF Reload
  <2>2. CASE session # NoSession
    <3> DEFINE s == CHOOSE first \in bound.slots : TRUE
    <3>1. s \in bound.slots /\ s \in Slots
      BY <1>1, <2>2, BoundsAssumption DEF TypeOK
    <3>2. call'[s] = ListRequest(session, "active")
      BY <1>10, <2>2, <3>1 DEF Reload
    <3>3. ListRequest(session, "active") \in CallRecords
      BY <2>2, ListRequestHolds DEF TypeOK, Modes
    <3>4. IsWaiting'
      BY <3>1, <3>2, <3>3, NoCallAssumption DEF IsWaiting
    <3> QED
      BY <1>1, <1>2, <1>10, <3>4 DEF Reload
  <2> QED
    BY <2>1, <2>2
<1>11. CASE Operator /\ ~LogOut /\ ~Reload
  <2>1. CASE \E status \in bound.drafts : ChooseStatus(status)
    BY <1>3, <2>1 DEF ChooseStatus
  <2>2. CASE IsWaiting' /\ bound.slots # {} /\ UNCHANGED bound
    BY <1>2, <2>2
  <2>3. /\ orderMode \in Modes /\ statusDraft \in OrderStatus /\ "draft" \in OrderStatus
        /\ \A mode \in bound.modes : mode \in Modes
        /\ \A row \in queue : row.publicId \in PublicIds
        /\ selectedOrder # NoOrder => selectedOrder.publicId \in PublicIds
    BY BoundsAssumption DEF TypeOK, Rows, ManagerSettable, OrderStatus
  <2>4. CASE Refresh
    BY <2>2, <2>3, <2>4, AsksWaits DEF Refresh, ListRequest, Asks, Kinds
  <2>5. CASE SubmitStatus
    BY <2>2, <2>3, <2>5, AsksWaits DEF SubmitStatus, IsOpen, Asks, Kinds
  <2>6. CASE SubmitPayout
    BY <2>2, <2>3, <2>6, AsksWaits DEF SubmitPayout, IsOpen, Asks, Kinds
  <2>7. ASSUME NEW mode \in bound.modes, ChangeMode(mode) PROVE LabelIInv'
    BY <2>2, <2>3, <2>7, AsksWaits DEF ChangeMode, ListRequest, Asks, Kinds
  <2>8. ASSUME NEW row \in queue, OpenOrder(row) PROVE LabelIInv'
    BY <2>2, <2>3, <2>8, AsksWaits DEF OpenOrder, Asks, Kinds
  <2> QED
    BY <1>11, <2>1, <2>4, <2>5, <2>6, <2>7, <2>8 DEF Operator
<1> QED
  BY <1>3, <1>4, <1>5, <1>6, <1>7, <1>8, <1>9, <1>10, <1>11 DEF Next, vars, consoleVars

\* The label is shown only while a request is under way, however requests end
\* and whatever is sent or loaded meanwhile.
THEOREM LabelWaits == Spec => []LabelIsOfARequest
<1>1. Init => LabelIInv
  BY DEF Init, LabelIInv, LabelIsOfARequest
<1>2. LabelIInv => LabelIsOfARequest
  BY DEF LabelIInv
<1> QED
  BY <1>1, <1>2, NextLabelIInv, TypeCorrect, PTL DEF Spec
=============================================================================

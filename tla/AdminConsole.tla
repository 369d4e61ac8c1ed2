---------------------------- MODULE AdminConsole ----------------------------
(***************************************************************************)
(* The manager's console in one browser, with the part of the API that     *)
(* answers it: the session, the queue and the open order with the drafted  *)
(* status, and the requests in flight.                                     *)
(*                                                                         *)
(* Several requests are under way at once, each with the session and the   *)
(* queue that were current when it was sent, and every answer takes effect *)
(* when it arrives, whatever was opened, switched or logged out meanwhile. *)
(* On the server a request is authorized first and acts later, when the    *)
(* session may have expired and the account may be disabled.  An order is  *)
(* changed in one step: how two changes of it race is OrderLifecycle's.    *)
(* The search filters, comments and the import of addresses, which leave   *)
(* the orders alone, are left out.                                         *)
(***************************************************************************)
EXTENDS AdminAccess, OrderQueries

CONSTANTS
    SellIds,        \* public ids of SELL_USDT orders
    BuyIds,         \* public ids of BUY_USDT orders
    Slots,          \* requests of the console that are under way together
    NoSession, NoOrder,
    NoCall,
    Bounds          \* bound: the instances explored

PublicIds == SellIds \cup BuyIds

ASSUME IdsAssumption == SellIds \cap BuyIds = {}

VARIABLES
    orders,         \* Order rows
    session,        \* the session, also in the browser's storage
    orderMode,      \* which queue the console shows
    queue,          \* orders
    selectedOrder,
    statusDraft,
    loading,        \* loadingLabel is shown
    call,           \* the requests of the console
    bound           \* bound: the instance explored

consoleVars == <<session, orderMode, queue, selectedOrder, statusDraft, loading>>
vars == <<accessVars, orders, consoleVars, call, bound>>

-----------------------------------------------------------------------------
(* Rows and requests.                                                      *)

Rows == [publicId: PublicIds, createdAt: Nat, status: OrderStatus]

\* publicId @unique
IdsAreUnique(rows) == \A row, other \in rows : row.publicId = other.publicId => row = other

Modes == {"active", "history"}
Kinds == {"list", "open", "status", "payout"}
CallStates == {"sent", "authorized", "changed", "answered", "failed"}

ASSUME BoundsAssumption ==
    \A b \in Bounds :
        /\ b.attempts \subseteq Attempts /\ b.passwords \subseteq Passwords
        /\ b.commands \subseteq Commands /\ b.roles \subseteq Roles
        /\ b.slots \subseteq Slots /\ b.time \in Nat
        /\ b.orders \subseteq Rows /\ IdsAreUnique(b.orders)
        /\ b.modes \subseteq Modes
        /\ b.drafts \subseteq OrderStatus  \* statuses managers choose
        /\ b.later \subseteq OrderStatus   \* statuses deposits and jobs lead to

\* A request, and what it was answered.  stale (history): its session was
\* revoked when it was sent, and the account was not provisioned since.
CallRecords ==
    [kind: Kinds, state: CallStates, session: Sessions, mode: Modes,
     publicId: PublicIds \cup {NoOrder}, status: OrderStatus,
     rows: SUBSET Rows, stale: BOOLEAN]

ASSUME NoCallAssumption == NoCall \notin CallRecords

\* Nobody who is disabled, or was given another role, or whose session expired,
\* is to be let in.
IsRevoked(token) ==
    \/ account = NoAccount
    \/ account.disabledAt # NotDisabled \/ account.role # token.role
    \/ token.expiresAt <= clock

Request(kind, token, mode, publicId, status) ==
    [kind |-> kind, state |-> "sent", session |-> token, mode |-> mode,
     publicId |-> publicId, status |-> status, rows |-> {},
     stale |-> IsRevoked(token)]

ListRequest(token, mode) == Request("list", token, mode, NoOrder, "draft")

\* limit: 50
QueueLimit == 50

-----------------------------------------------------------------------------
(* What the console offers, and what the server accepts.                   *)

GetManagerStatusOptions(publicId) ==
    IF publicId \in BuyIds
    THEN {"pending_aml", "manager_review", "ready_for_crypto_payout",
          "cancelled", "expired", "rejected"}
    ELSE {"pending_aml", "manager_review", "ready_for_cash_payout",
          "completed", "cancelled", "expired", "rejected"}

IsTerminalAdminOrder(row) ==
    row.status \in {"completed", "cancelled", "expired", "rejected"}

\* An order is completed in the same step as its payout is recorded, and a BUY
\* order always has a payout address.
CanRecordManualCryptoPayout(row) ==
    /\ row.publicId \in BuyIds
    /\ row.status \in {"awaiting_office_visit", "ready_for_crypto_payout",
                       "manager_review"}

FitsDirection(publicId, target) ==
    /\ publicId \in BuyIds => target \notin {"completed", "ready_for_cash_payout"}
    /\ publicId \in SellIds => target # "ready_for_crypto_payout"

AcceptsStatus(row, target) ==
    /\ target \in ManagerSettable
    /\ row.status \notin TerminalOrderStatuses
    /\ FitsDirection(row.publicId, target)

AcceptsPayout(row) ==
    row.publicId \in BuyIds /\ row.status \in OpenForManualCryptoPayout

-----------------------------------------------------------------------------
(* The server.                                                             *)

Answer(s, state, rows) ==
    call' = [call EXCEPT ![s] = [@ EXCEPT !.state = state, !.rows = rows]]

\* The session is verified when the request arrives and the account read right
\* after that, which is one step here; what the request asks for comes later.
Authorize(s) ==
    /\ call[s] # NoCall /\ call[s].state = "sent"
    /\ Authorizes(call[s].session)
    /\ Answer(s, "authorized", {})
    /\ UNCHANGED <<accessVars, orders, consoleVars, bound>>

ServeList(s) ==
    /\ call[s] # NoCall /\ call[s].kind = "list" /\ call[s].state = "authorized"
    /\ Answer(s, "answered", IF call[s].mode = "history"
                             THEN ListAllHistoryOrders(orders, QueueLimit)
                             ELSE ListAllActiveOrders(orders, QueueLimit))
    /\ UNCHANGED <<accessVars, orders, consoleVars, bound>>

\* A changed order is read again before it is answered.
ServeOrder(s) ==
    /\ call[s] # NoCall
    /\ \/ call[s].kind = "open" /\ call[s].state = "authorized"
       \/ call[s].state = "changed"
    /\ Answer(s, "answered", GetAnyOrderByPublicId(orders, call[s].publicId))
    /\ UNCHANGED <<accessVars, orders, consoleVars, bound>>

Replaced(rows, row) ==
    {IF other.publicId = row.publicId THEN row ELSE other : other \in rows}

ServeChange(s) ==
    /\ call[s] # NoCall /\ call[s].state = "authorized"
    /\ \E row \in GetAnyOrderByPublicId(orders, call[s].publicId) :
          \/ /\ call[s].kind = "status" /\ AcceptsStatus(row, call[s].status)
             /\ orders' = Replaced(orders, [row EXCEPT !.status = call[s].status])
          \/ /\ call[s].kind = "payout" /\ AcceptsPayout(row)
             /\ orders' = Replaced(orders, [row EXCEPT !.status = "completed"])
    /\ Answer(s, "changed", {})
    /\ UNCHANGED <<accessVars, consoleVars, bound>>

\* Unauthorized, refused, or lost, before it acted or after that.
CallFails(s) ==
    /\ call[s] # NoCall /\ call[s].state # "failed"
    /\ Answer(s, "failed", {})
    /\ UNCHANGED <<accessVars, orders, consoleVars, bound>>

\* Deposits, jobs and other managers move orders meanwhile.  Bound: one order,
\* once.
OrderMoves(row, status) ==
    /\ \A moved \in orders : moved.status \notin bound.later
    /\ row.status \in {"awaiting_deposit", "awaiting_office_visit"}
    /\ orders' = Replaced(orders, [row EXCEPT !.status = status])
    /\ UNCHANGED <<accessVars, consoleVars, call, bound>>

-----------------------------------------------------------------------------
(* The console: the session.                                               *)

FreeSlots == {s \in bound.slots : call[s] = NoCall}

\* Which slot a request takes makes no difference.
Sends(request) ==
    /\ FreeSlots # {}
    /\ call' = [call EXCEPT ![CHOOSE s \in FreeSlots : TRUE] = request]

\* Nothing is open in a console that was just loaded or logged out of.
ShowsNothing ==
    /\ queue' = {} /\ selectedOrder' = NoOrder /\ orderMode' = "active"

\* The session of a login arrives at this console and its queue is loaded, or
\* it arrives at another browser.
LogIn(a) ==
    /\ LoginSucceeds(a)
    /\ \/ /\ session = NoSession
          /\ session' = IssuedSession(a)
          /\ Sends(ListRequest(IssuedSession(a), orderMode))
          /\ loading' = TRUE
          /\ UNCHANGED <<orderMode, queue, selectedOrder, statusDraft>>
       \/ UNCHANGED <<consoleVars, call>>
    /\ UNCHANGED <<orders, bound>>

LogOut ==
    /\ session # NoSession
    /\ session' = NoSession
    /\ ShowsNothing
    /\ UNCHANGED <<accessVars, orders, statusDraft, loading, call, bound>>

\* The page is loaded again: the session is read from the storage, and nobody
\* waits for the requests under way.  The server may still act on one of them,
\* which is like acting on it before the page is loaded.
Reload ==
    /\ ShowsNothing
    /\ statusDraft' = "manager_review"
    /\ loading' = (session # NoSession)
    /\ call' = [s \in Slots |->
                  IF session # NoSession /\ s = CHOOSE first \in bound.slots : TRUE
                  THEN ListRequest(session, "active") ELSE NoCall]
    /\ UNCHANGED <<accessVars, orders, session, bound>>

-----------------------------------------------------------------------------
(* The console: the queue and the open order.                              *)

\* What the operator sends; nothing is sent without a session.
Asks(request) ==
    /\ session # NoSession
    /\ Sends(request)
    /\ loading' = TRUE
    /\ UNCHANGED <<accessVars, orders, session, queue, selectedOrder,
                   statusDraft, bound>>

Refresh == Asks(ListRequest(session, orderMode)) /\ UNCHANGED orderMode

ChangeMode(mode) ==
    /\ mode # orderMode
    /\ orderMode' = mode
    /\ Asks(ListRequest(session, mode))

OpenOrder(row) ==
    /\ row \in queue
    /\ Asks(Request("open", session, orderMode, row.publicId, "draft"))
    /\ UNCHANGED orderMode

IsOpen(row) == row # NoOrder /\ ~IsTerminalAdminOrder(row)

ChooseStatus(status) ==
    /\ session # NoSession /\ IsOpen(selectedOrder)
    /\ status \in GetManagerStatusOptions(selectedOrder.publicId)
    /\ statusDraft' = status
    /\ UNCHANGED <<accessVars, orders, session, orderMode, queue, selectedOrder,
                   loading, call, bound>>

SubmitStatus ==
    /\ IsOpen(selectedOrder)
    /\ Asks(Request("status", session, orderMode, selectedOrder.publicId, statusDraft))
    /\ UNCHANGED orderMode

SubmitPayout ==
    /\ IsOpen(selectedOrder) /\ CanRecordManualCryptoPayout(selectedOrder)
    /\ Asks(Request("payout", session, orderMode, selectedOrder.publicId, "draft"))
    /\ UNCHANGED orderMode

-----------------------------------------------------------------------------
(* The console: the answers.                                               *)

\* Mutated: the draft is kept when another order is opened.
KeepsDraft(row) ==
    /\ selectedOrder' = row
    /\ statusDraft' = statusDraft

\* The effect of an order that was opened, again or for the first time.
Shows(row) ==
    /\ selectedOrder' = row
    /\ statusDraft' = IF row = NoOrder THEN statusDraft
                      ELSE IF row.status \in GetManagerStatusOptions(row.publicId)
                      THEN row.status
                      ELSE "pending_aml"

\* The first of a list, one of the newest, or null.
Newest(rows) ==
    IF rows = {} THEN {NoOrder}
    ELSE {row \in rows : \A other \in rows : other.createdAt <= row.createdAt}

Refreshed(rows) ==
    {row \in rows : selectedOrder # NoOrder /\ row.publicId = selectedOrder.publicId}

Arrived(s, kinds, state) ==
    /\ call[s] # NoCall /\ call[s].kind \in kinds /\ call[s].state = state
    /\ UNCHANGED <<accessVars, orders, session, orderMode, bound>>

Settles(s) == loading' = FALSE /\ call' = [call EXCEPT ![s] = NoCall]

ListArrives(s) ==
    /\ Arrived(s, {"list"}, "answered")
    /\ queue' = call[s].rows
    /\ \E row \in Newest(IF Refreshed(call[s].rows) # {}
                        THEN Refreshed(call[s].rows) ELSE call[s].rows) : Shows(row)
    /\ Settles(s)

ListIsLost(s) ==
    /\ Arrived(s, {"list"}, "failed")
    /\ queue' = {}
    /\ Shows(NoOrder)
    /\ Settles(s)

\* Mutated: an opened order is added to the list that shows it already.
AddsOpenedOrder(s) ==
    /\ Arrived(s, {"open"}, "answered")
    /\ \E row \in call[s].rows : Shows(row) /\ queue' = queue \cup {row}
    /\ Settles(s)

OpenArrives(s) ==
    /\ Arrived(s, {"open"}, "answered")
    /\ \E row \in call[s].rows : Shows(row) /\ queue' = Replaced(queue, row)
    /\ Settles(s)

\* The queue is loaded again, by the session and the mode of the submission.
ChangeArrives(s) ==
    /\ Arrived(s, {"status", "payout"}, "answered")
    /\ \E row \in call[s].rows : Shows(row)
    /\ call' = [call EXCEPT ![s] = ListRequest(@.session, @.mode)]
    /\ loading' = TRUE
    /\ UNCHANGED queue

\* Mutated: the label of a refused request is left.
LeavesLabel(s) ==
    /\ Arrived(s, {"open", "status", "payout"}, "failed")
    /\ call' = [call EXCEPT ![s] = NoCall]
    /\ UNCHANGED <<queue, selectedOrder, statusDraft, loading>>

RequestIsRefused(s) ==
    /\ Arrived(s, {"open", "status", "payout"}, "failed")
    /\ Settles(s)
    /\ UNCHANGED <<queue, selectedOrder, statusDraft>>

-----------------------------------------------------------------------------
\* Bound: the orders of an instance, with an active and a history list.
Init ==
    /\ AccessInit
    /\ bound \in Bounds
    /\ orders = bound.orders
    /\ session = NoSession /\ orderMode = "active"
    /\ queue = {} /\ selectedOrder = NoOrder
    /\ statusDraft = "manager_review" /\ loading = FALSE
    /\ call = [s \in Slots |-> NoCall]

\* The account, the limiter and the operators, the console aside.  A session
\* that did not authorize may do so once the account is provisioned.
Access ==
    /\ UNCHANGED <<orders, consoleVars, bound>>
    /\ \/ /\ UNCHANGED call
          /\ \/ \E a \in bound.attempts :
                   \/ \E password \in bound.passwords : LoginArrives(a, password)
                   \/ LoginFails(a) \/ LoginIsLost(a)
             \/ RestartApi
             \/ \E d \in bound.commands :
                   \/ \E at \in 0..clock : DisableFindsEnabled(d, at)
                   \/ DisableUpdates(d) \/ DisableIsLost(d)
             \/ clock < bound.time /\ Tick
       \/ /\ bound.commands # {} \/ account = NoAccount
          /\ \E password \in bound.passwords, role \in bound.roles :
                ProvisionAdminUser(password, role)
          /\ call' = [s \in Slots |->
                        IF call[s] = NoCall THEN NoCall
                        ELSE [call[s] EXCEPT !.stale =
                                @ /\ call[s].session.expiresAt <= clock]]

Serve(s) == Authorize(s) \/ ServeList(s) \/ ServeOrder(s) \/ ServeChange(s)

Arrives(s) ==
    ListArrives(s) \/ ListIsLost(s) \/ OpenArrives(s) \/ ChangeArrives(s)
        \/ RequestIsRefused(s)

Operator ==
    \/ LogOut
    \/ \E status \in bound.drafts : ChooseStatus(status)
    \/ Reload \/ Refresh \/ SubmitStatus \/ SubmitPayout
    \/ \E mode \in bound.modes : ChangeMode(mode)
    \/ \E row \in queue : OpenOrder(row)

Next ==
    \/ Access
    \/ \E a \in Attempts : LogIn(a)
    \/ \E s \in Slots : Serve(s) \/ CallFails(s) \/ Arrives(s)
    \/ \E row \in orders, status \in bound.later : OrderMoves(row, status)
    \/ Operator

Spec == Init /\ [][Next]_vars

\* A browser's request ends, and the console handles what has ended.
RequestsEnd ==
    \A s \in Slots : WF_vars(Serve(s) \/ CallFails(s)) /\ WF_vars(Arrives(s))

FairSpec == Spec /\ RequestsEnd

-----------------------------------------------------------------------------
(* Properties.                                                             *)

TypeOK ==
    /\ AccessTypeOK
    /\ bound \in Bounds
    /\ orders \subseteq Rows
    /\ session \in Sessions \cup {NoSession}
    /\ orderMode \in Modes
    /\ queue \subseteq Rows
    /\ selectedOrder \in Rows \cup {NoOrder}
    /\ statusDraft \in ManagerSettable
    /\ loading \in BOOLEAN
    /\ call \in [Slots -> CallRecords \cup {NoCall}]

\* Disabling an administrator, or changing the role, ends what the console can
\* do: a request it sends after that is never authorized, unless the account is
\* provisioned again, although the console keeps its session, also over reloads
\* and logins.  (A request that was authorized before that still acts.)
RevokedSessionChangesNothing ==
    \A s \in Slots :
        call[s] # NoCall /\ call[s].stale => call[s].state \in {"sent", "failed"}

SameOrder(row, order) ==
    row.publicId = order.publicId /\ row.createdAt = order.createdAt

\* However answers replace the open order under the operator's hands, the
\* console submits only what the server accepts for the direction of the order
\* the submission names: a status of the other direction, or the completion of a
\* BUY order without its payout, is never asked for.
ConsoleFitsServer ==
    \A s \in Slots :
        call[s] # NoCall =>
            /\ call[s].kind = "status" =>
                  /\ call[s].status \in ManagerSettable
                  /\ FitsDirection(call[s].publicId, call[s].status)
            /\ call[s].kind = "payout" => call[s].publicId \in BuyIds

\* Whatever answers arrive, of requests sent before other orders were opened,
\* another list was chosen or the page was loaded: the queue lists an order once,
\* and what is listed or open is an order there is, in a status it may have left.
ConsoleShowsOrdersOnce ==
    /\ IdsAreUnique(queue)
    /\ \A row \in queue \cup ({selectedOrder} \ {NoOrder}) :
          \E order \in orders : SameOrder(row, order)

\* The label is shown only while a request is under way: whatever a request ends
\* in takes it back, and nothing else of the console sets it.
LabelIsOfARequest == loading => \E s \in Slots : call[s] # NoCall

\* The label of a request under way goes away again and again, whatever fails
\* and whatever else is sent: no answer is handled without taking it back.  Only
\* loading the page again and again, before anything arrives, keeps it.
NothingLoadsForEver == []<>~loading \/ []<><<Reload>>_vars
=============================================================================

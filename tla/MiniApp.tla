------------------------------ MODULE MiniApp ------------------------------
(***************************************************************************)
(* The Telegram Mini App of one customer, with the part of the API that    *)
(* answers it: the screens and what they show, the requests in flight, and *)
(* the rows of the customer in the database.                               *)
(*                                                                         *)
(* When it starts, the app loads its lists and its profile by requests     *)
(* that are sent together and answered in any order; submitting a form     *)
(* posts an order and then loads them again.  Nothing stops the customer   *)
(* from moving between screens meanwhile, and an answer takes effect       *)
(* whatever the screen.  A request is served at one moment and its answer  *)
(* arrives later, or never.                                                *)
(*                                                                         *)
(* An order is shown as it was when it was read.  What a form contains is  *)
(* chosen when it is submitted.  The screens "about" and "profile", which   *)
(* show no order, and the requests for the profile and the rates, whose    *)
(* answers fill in names and prices, are left out: like the two list       *)
(* requests they are sent together with, these can fail, and fail the      *)
(* others with them.                                                       *)
(***************************************************************************)
EXTENDS OrderQueries, RateQuote

CONSTANTS
    SellIds,          \* public ids the server may give to SELL_USDT orders
    BuyIds,           \* public ids the server may give to BUY_USDT orders
    UserIds,          \* ids the database may give to User rows
    Amounts,          \* amounts customers enter
    AtomicRates,      \* rates the servers may be configured with
    LaterStatuses,    \* bound: statuses managers and jobs move orders to
    NoOrder,          \* null selectedOrder
    NoUser,           \* no TelegramProfile row
    DevUser,          \* the user id of a local build's configuration
    MockUser,         \* the user id of the mock API
    DevAuthAllowed,   \* MINIAPP_DEV_AUTH_ENABLED of the server
    Builds            \* bound: the environments the app is built and opened in

Directions == {"BUY_USDT", "SELL_USDT"}
PublicIds == SellIds \cup BuyIds
DirectionOf(id) == IF id \in SellIds THEN "SELL_USDT" ELSE "BUY_USDT"

ASSUME IdsAssumption ==
    /\ SellIds \cap BuyIds = {}
    /\ UserIds # {} /\ NoUser \notin UserIds \cup {DevUser, MockUser}
    /\ DevUser \notin UserIds /\ MockUser \notin UserIds \cup {DevUser}
ASSUME PricesAssumption ==
    /\ \A amount \in Amounts : PositiveDecimal(amount)
    /\ \A rate \in AtomicRates : PositiveDecimal(rate)
ASSUME LaterStatusesAssumption == LaterStatuses \subseteq OrderStatus
ASSUME DevAuthAssumption == DevAuthAllowed \in BOOLEAN

VARIABLES
    orders,          \* Order rows of the customer
    users,           \* User rows
    profile,         \* the User of the customer's TelegramProfile row
    runtime,         \* the app's runtime configuration
    screen,          \* activeScreenId
    activeOrders, historyOrders, selectedOrder,
    submissionError, isSubmitting,
    bootstrap,       \* "loading" until the first requests have settled
    bootstrapError,  \* the screen is replaced by an error message
    call,            \* state of each request
    listed,          \* the lists that answers carry
    createInput,     \* the order being submitted
    createReply      \* the order the server answered with

serverVars == <<orders, users, profile>>
listVars == <<activeOrders, historyOrders, selectedOrder>>
callVars == <<call, listed, createInput, createReply>>
bootstrapVars == <<bootstrap, bootstrapError>>
appVars == <<runtime, screen, listVars, submissionError, isSubmitting,
             bootstrapVars>>
vars == <<serverVars, appVars, callVars>>

-----------------------------------------------------------------------------
(* The shapes of rows, screens and requests.                               *)

Rows == [publicId: PublicIds, userId: UserIds \cup {DevUser, MockUser},
         createdAt: Nat, status: OrderStatus, amountRub: Nat, amountUsdt: Nat,
         rateSnapshot: AtomicRates]

\* null is no row.
ASSUME NoOrderAssumption == NoOrder \notin Rows

Screens ==
    {"home", "buy", "buy-confirm", "buy-created", "sell",
     "sell-confirm", "sell-created", "order-detail", "history"}

CreatedScreens == {"buy-created", "sell-created"}

FormScreen(direction) == IF direction = "BUY_USDT" THEN "buy" ELSE "sell"
ConfirmScreen(direction) ==
    IF direction = "BUY_USDT" THEN "buy-confirm" ELSE "sell-confirm"
CreatedScreen(direction) ==
    IF direction = "BUY_USDT" THEN "buy-created" ELSE "sell-created"

NoInput == [direction |-> "none", amount |-> 0]
Inputs == [direction: Directions, amount: Amounts]

BootstrapCalls == {"bootstrapActive", "bootstrapHistory"}
RefreshCalls == {"refreshActive", "refreshHistory"}
Calls == BootstrapCalls \cup RefreshCalls \cup {"create"}
ActiveListCalls == {"bootstrapActive", "refreshActive"}
ListCalls == BootstrapCalls \cup RefreshCalls

CallStates == {"idle", "sent", "inserting", "resolved", "answered", "failed"}
InFlight(c) == call[c] \in {"sent", "inserting", "resolved"}

\* limit: 5 and limit: 10
ActiveListLimit == 5
HistoryListLimit == 10

-----------------------------------------------------------------------------
(* The runtime configuration.  initData is what Telegram passed to the app;*)
(* a protected build is one for production or staging.                     *)

Environments ==
    [protected: BOOLEAN, mode: {"unset", "mock", "api", "other"},
     baseUrl: BOOLEAN, devUserId: BOOLEAN, initData: BOOLEAN]

ApiMode(env) ==
    IF env.mode = "unset" THEN (IF env.baseUrl THEN "api" ELSE "mock") ELSE env.mode

ValidProtectedRuntime(env) ==
    env.protected =>
        ApiMode(env) = "api" /\ env.baseUrl /\ ~env.devUserId /\ env.initData

ConfigAccepted(env) ==
    /\ ApiMode(env) \in {"mock", "api"}
    /\ ApiMode(env) = "api" => env.baseUrl
    /\ ValidProtectedRuntime(env)

\* initData takes precedence over the configured user.
RuntimeConfig(env) ==
    [mode |-> IF ConfigAccepted(env) THEN ApiMode(env) ELSE "none",
     identity |-> IF ConfigAccepted(env) /\ env.initData THEN "telegram"
                  ELSE IF ConfigAccepted(env) /\ env.devUserId THEN "dev"
                  ELSE "nobody",
     protected |-> env.protected]

RuntimeConfigs == {RuntimeConfig(env) : env \in Builds}

ASSUME BuildsAssumption == Builds \subseteq Environments

-----------------------------------------------------------------------------
(* The server: whom a request acts for.  The first authorized request of a *)
(* Telegram user creates its TelegramProfile and User rows by an upsert.   *)
(* The upsert creates rows of two tables, so the database client runs it   *)
(* as a read followed by an insert, and the unique index on telegramUserId *)
(* refuses the insert of whoever comes second.                             *)

\* A telegram request is authorized when it arrives; later steps of it are not
\* stopped by initData growing old.
ActsFor(c, user) ==
    \/ runtime.mode = "mock" /\ call[c] = "sent" /\ user = MockUser
    \/ /\ runtime.mode = "api" /\ runtime.identity = "telegram"
       /\ user = profile /\ profile # NoUser
       /\ call[c] \in {"sent", "resolved"}
    \/ /\ runtime.mode = "api" /\ runtime.identity = "dev"
       /\ call[c] = "sent" /\ DevAuthAllowed /\ user = DevUser

UpsertFindsNoProfile(c) ==
    /\ runtime.mode = "api" /\ runtime.identity = "telegram"
    /\ call[c] = "sent"
    /\ profile = NoUser
    /\ call' = [call EXCEPT ![c] = "inserting"]
    /\ UNCHANGED <<serverVars, appVars, listed, createInput, createReply>>

\* Which id the database generates makes no difference.
NewUserId == CHOOSE user \in UserIds : user \notin users

\* Mutated: the index on telegramUserId is not unique.
InsertsAgain(c) ==
    /\ call[c] = "inserting"
    /\ profile' = NewUserId
    /\ users' = users \cup {NewUserId}
    /\ call' = [call EXCEPT ![c] = "resolved"]
    /\ UNCHANGED <<orders, appVars, listed, createInput, createReply>>

UpsertInserts(c) ==
    /\ call[c] = "inserting"
    /\ profile = NoUser
    /\ profile' = NewUserId
    /\ users' = users \cup {NewUserId}
    /\ call' = [call EXCEPT ![c] = "resolved"]
    /\ UNCHANGED <<orders, appVars, listed, createInput, createReply>>

\* An answer nobody waits for any more is dropped: a Promise.all settles with
\* the first failure, and the effect that created it ignores the others.
Finished(c, state) ==
    IF c \in BootstrapCalls /\ bootstrap # "loading" THEN "idle" ELSE state

Awaited(c) == Finished(c, "answered") = "answered"

\* Unauthorized, refused, lost on the way, or lost after it was served; the
\* insert of whoever comes second can only fail.  The mock never fails.  A
\* request that is given up is served before that or not at all.
CallFails(c) ==
    /\ runtime.mode = "api"
    /\ InFlight(c) \/ call[c] = "answered"
    /\ call' = [call EXCEPT ![c] = Finished(c, "failed")]
    /\ listed' = [d \in ListCalls |-> IF d = c THEN {} ELSE listed[d]]
    /\ UNCHANGED <<serverVars, appVars, createInput>>
    /\ createReply' = IF c = "create" THEN NoOrder ELSE createReply

-----------------------------------------------------------------------------
(* The server: what a request does.                                        *)

\* The mock answers with every order it created; none is ever closed.
ActiveListFor(user) ==
    IF user = MockUser THEN orders
    ELSE ListActiveOrders(orders, user, ActiveListLimit)

HistoryListFor(user) ==
    IF user = MockUser THEN {} ELSE ListHistoryOrders(orders, user, HistoryListLimit)

ServeList(c, user) ==
    /\ ActsFor(c, user)
    /\ call' = [call EXCEPT ![c] = Finished(c, "answered")]
    /\ listed' = [listed EXCEPT ![c] =
                    IF ~Awaited(c) THEN {}
                    ELSE IF c \in ActiveListCalls THEN ActiveListFor(user)
                    ELSE HistoryListFor(user)]
    /\ UNCHANGED <<serverVars, appVars,
                   createInput, createReply>>

\* The mock quotes too, but has no order service to refuse a zero amount.
AcceptsQuote(user, quote) ==
    QuoteFits(quote) /\ (user # MockUser => QuoteIsPositive(quote))

NewOrder(id, user, quote, now) ==
    [publicId |-> id, userId |-> user, createdAt |-> now,
     status |-> IF id \in SellIds THEN "awaiting_deposit" ELSE "awaiting_office_visit",
     amountRub |-> quote.amountRub, amountUsdt |-> quote.amountUsdt,
     rateSnapshot |-> quote.rateSnapshot]

\* The public ids not taken yet.
FreeIds(direction) ==
    {id \in PublicIds : DirectionOf(id) = direction
                          /\ \A row \in orders : row.publicId # id}

\* The new order is read again for the answer, in the same step here.  A SELL
\* order also takes an address of the pool: AddressReservation.
ServeCreate(id, user, rates) ==
    LET quote == Quote(createInput.direction, createInput.amount, rates)
        order == NewOrder(id, user, quote, Cardinality(orders) + 1)
    IN
    /\ ActsFor("create", user)
    /\ id \in FreeIds(createInput.direction)
    /\ AcceptsQuote(user, quote)
    /\ orders' = orders \cup {order}
    /\ users' = users \cup ({user} \ {MockUser})
    /\ createReply' = order
    /\ call' = [call EXCEPT !["create"] = "answered"]
    /\ UNCHANGED <<profile, appVars, listed, createInput>>

Serve(c) ==
    \E user \in UserIds \cup {DevUser, MockUser} :
        \/ c \in ListCalls /\ ServeList(c, user)
        \/ /\ c = "create"
           /\ \E id \in PublicIds, rates \in UsdtRubRates(AtomicRates) :
                 ServeCreate(id, user, rates)

\* Managers, the expiration job and the ingestion change orders meanwhile.
\* Bound: one order, once.
OrderMoves(row, status) ==
    /\ runtime.mode = "api"
    /\ row.status \in ActiveOrderStatuses
    /\ \A moved \in orders : moved.status \in {"awaiting_deposit", "awaiting_office_visit"}
    /\ orders' = (orders \ {row}) \cup {[row EXCEPT !.status = status]}
    /\ UNCHANGED <<users, profile, appVars, callVars>>

-----------------------------------------------------------------------------
(* The client: the first requests.                                         *)

\* The first of a list, one of the newest, or null.
Newest(rows) ==
    IF rows = {} THEN {NoOrder}
    ELSE {row \in rows : \A other \in rows : other.createdAt <= row.createdAt}

Answered(cs) == \A c \in cs : call[c] = "answered"
SomeFailed(cs) == \E c \in cs : call[c] = "failed"

BootstrapSucceeds ==
    /\ bootstrap = "loading"
    /\ Answered(BootstrapCalls)
    /\ activeOrders' = listed["bootstrapActive"]
    /\ historyOrders' = listed["bootstrapHistory"]
    /\ selectedOrder' \in Newest(listed["bootstrapActive"])
    /\ bootstrap' = "done"
    /\ call' = [c \in Calls |-> IF c \in BootstrapCalls THEN "idle" ELSE call[c]]
    /\ listed' = [c \in ListCalls |->
                    IF c \in BootstrapCalls THEN {} ELSE listed[c]]
    /\ UNCHANGED <<serverVars, runtime, screen, submissionError,
                   isSubmitting, bootstrapError, createInput, createReply>>

\* Mutated: the application stays usable, as it does with the mock.
FailureLeavesAppUsable ==
    /\ bootstrap = "loading"
    /\ SomeFailed(BootstrapCalls)
    /\ activeOrders' = {} /\ historyOrders' = {} /\ selectedOrder' = NoOrder
    /\ bootstrap' = "failed"
    /\ call' = [c \in Calls |-> IF c \in BootstrapCalls /\ ~InFlight(c)
                               THEN "idle" ELSE call[c]]
    /\ listed' = [c \in ListCalls |->
                    IF c \in BootstrapCalls THEN {} ELSE listed[c]]
    /\ UNCHANGED <<serverVars, runtime, screen, submissionError,
                   isSubmitting, bootstrapError, createInput, createReply>>

BootstrapFails ==
    /\ bootstrap = "loading"
    /\ SomeFailed(BootstrapCalls)
    /\ activeOrders' = {} /\ historyOrders' = {} /\ selectedOrder' = NoOrder
    /\ bootstrap' = "failed"
    /\ bootstrapError' = TRUE
    /\ call' = [c \in Calls |-> IF c \in BootstrapCalls /\ ~InFlight(c)
                               THEN "idle" ELSE call[c]]
    /\ listed' = [c \in ListCalls |->
                    IF c \in BootstrapCalls THEN {} ELSE listed[c]]
    /\ UNCHANGED <<serverVars, runtime, screen, submissionError,
                   isSubmitting, createInput, createReply>>

-----------------------------------------------------------------------------
(* The client: the customer moves between the screens.  The bottom bar and *)
(* the header stay when the screen is replaced by an error; what they and  *)
(* the screens offer is never disabled by a submission, except the buttons *)
(* that submit.                                                            *)

Goes(next) ==
    /\ screen' = next
    /\ UNCHANGED <<serverVars, runtime, isSubmitting, bootstrapVars,
                   callVars>>

Navigate(next) ==
    /\ next \in {"home", "history"}
    /\ Goes(next)
    /\ UNCHANGED <<listVars, submissionError>>

\* Mutated: an order's details lead back to the created screen they may have been
\* opened from.
BackToCreatedScreen ==
    /\ screen # "home"
    /\ Goes(CASE screen = "buy-confirm" -> "buy"
              [] screen = "sell-confirm" -> "sell"
              [] screen = "order-detail" /\ selectedOrder # NoOrder ->
                    CreatedScreen(DirectionOf(selectedOrder.publicId))
              [] OTHER -> "home")
    /\ submissionError' = FALSE
    /\ UNCHANGED listVars

HandleBack ==
    /\ screen # "home"
    /\ Goes(CASE screen = "buy-confirm" -> "buy"
              [] screen = "sell-confirm" -> "sell"
              [] OTHER -> "home")
    /\ submissionError' = FALSE
    /\ UNCHANGED listVars

OpenForm(direction) ==
    /\ ~bootstrapError /\ screen = "home"
    /\ Goes(FormScreen(direction))
    /\ UNCHANGED <<listVars, submissionError>>

\* The cards of the home screen and of the history.
Cards ==
    IF bootstrapError THEN {}
    ELSE CASE screen = "home" -> activeOrders
           [] screen = "history" -> historyOrders
           [] OTHER -> {}

OpenOrder(row) ==
    /\ row \in Cards
    /\ Goes("order-detail")
    /\ selectedOrder' = row
    /\ UNCHANGED <<activeOrders, historyOrders, submissionError>>

OpenDetail ==
    /\ ~bootstrapError
    /\ screen \in CreatedScreens /\ selectedOrder # NoOrder
    /\ Goes("order-detail")
    /\ UNCHANGED <<listVars, submissionError>>

\* "На главный" of a created screen and of an order's details.
HandleHome ==
    /\ ~bootstrapError
    /\ screen \in CreatedScreens \cup {"order-detail"}
    /\ Goes("home")
    /\ submissionError' = FALSE
    /\ UNCHANGED listVars

-----------------------------------------------------------------------------
(* The client: filling in a form and submitting the order.                 *)

\* The button of a form is disabled until every field passes, and the fields
\* stay as they are until the form is shown again.
CanContinue(direction) == screen = FormScreen(direction) /\ ~isSubmitting

Continue(direction) ==
    /\ ~bootstrapError /\ CanContinue(direction)
    /\ Goes(ConfirmScreen(direction))
    /\ submissionError' = FALSE
    /\ UNCHANGED listVars

\* "Изменить"
ChangeOrder(direction) ==
    /\ ~bootstrapError /\ screen = ConfirmScreen(direction)
    /\ Goes(FormScreen(direction))
    /\ UNCHANGED <<listVars, submissionError>>

BuildOrderInput(direction, amount) == [direction |-> direction, amount |-> amount]

CanCreate(direction) == screen = ConfirmScreen(direction) /\ ~isSubmitting

\* Bound: one order for each public id.
HandleCreate(direction, amount) ==
    /\ FreeIds(direction) # {}
    /\ ~bootstrapError /\ CanCreate(direction)
    /\ submissionError' = FALSE
    /\ isSubmitting' = TRUE
    /\ createInput' = BuildOrderInput(direction, amount)
    /\ call' = [call EXCEPT !["create"] = "sent"]
    /\ UNCHANGED <<serverVars, runtime, screen, listVars, bootstrapVars, listed, createReply>>

\* The order exists by now: its lists are loaded before it is shown.
CreateAnswered ==
    /\ call["create"] = "answered"
    /\ call' = [c \in Calls |-> CASE c = "create" -> "idle"
                                  [] c \in RefreshCalls -> "sent"
                                  [] OTHER -> call[c]]
    /\ UNCHANGED <<serverVars, appVars, listed,
                   createInput, createReply>>

\* The end of submitOrder, in its error handler or without one.
Settled(calls) ==
    /\ isSubmitting' = FALSE
    /\ createInput' = NoInput
    /\ createReply' = NoOrder
    /\ call' = [c \in Calls |-> IF c \in calls THEN "idle" ELSE call[c]]
    /\ listed' = [c \in ListCalls |-> IF c \in calls THEN {} ELSE listed[c]]

\* Mutated: the failure of the refresh is not caught.
OnlyCreateFails ==
    /\ call["create"] = "failed"
    /\ Settled({"create"} \cup RefreshCalls)
    /\ submissionError' = TRUE
    /\ UNCHANGED <<serverVars, runtime, screen, listVars, bootstrapVars>>

SubmissionFails ==
    /\ call["create"] = "failed" \/ SomeFailed(RefreshCalls)
    /\ Settled({"create"} \cup RefreshCalls)
    /\ submissionError' = TRUE
    /\ UNCHANGED <<serverVars, runtime, screen, listVars, bootstrapVars>>

\* Mutated: the newest active order is selected, as it is at the start.
SelectsNewestOrder ==
    /\ Answered(RefreshCalls)
    /\ activeOrders' = listed["refreshActive"]
    /\ historyOrders' = listed["refreshHistory"]
    /\ selectedOrder' \in Newest(listed["refreshActive"])
    /\ screen' = CreatedScreen(createInput.direction)
    /\ Settled(RefreshCalls)
    /\ UNCHANGED <<serverVars, runtime, submissionError, bootstrapVars>>

SubmissionSucceeds ==
    /\ Answered(RefreshCalls)
    /\ activeOrders' = listed["refreshActive"]
    /\ historyOrders' = listed["refreshHistory"]
    /\ selectedOrder' = createReply
    /\ screen' = CreatedScreen(createInput.direction)
    /\ Settled(RefreshCalls)
    /\ UNCHANGED <<serverVars, runtime, submissionError, bootstrapVars>>

-----------------------------------------------------------------------------
\* An order an earlier visit left behind.
OldOrders(user) ==
    {NewOrder(id, user, Quote("SELL_USDT", amount, rates), 0) :
       id \in SellIds, amount \in Amounts, rates \in UsdtRubRates(AtomicRates)}

\* A customer comes for the first time, or has a profile and maybe an order.
\* An app whose configuration is refused shows the reason and sends nothing.
Init ==
    /\ runtime \in RuntimeConfigs
    /\ profile \in {NoUser, CHOOSE user \in UserIds : TRUE}
    /\ users = {profile} \ {NoUser}
    /\ runtime.identity # "telegram" => profile = NoUser
    /\ \/ orders = {}
       \/ /\ profile # NoUser
          /\ \E row \in OldOrders(profile) :
                AcceptsQuote(profile, row) /\ orders = {row}
    /\ screen = "home"
    /\ activeOrders = {} /\ historyOrders = {} /\ selectedOrder = NoOrder
    /\ submissionError = FALSE /\ isSubmitting = FALSE
    /\ bootstrap = IF runtime.mode = "none" THEN "failed" ELSE "loading"
    /\ bootstrapError = (runtime.mode = "none")
    /\ call = [c \in Calls |->
                 IF c \in BootstrapCalls /\ runtime.mode # "none" THEN "sent" ELSE "idle"]
    /\ listed = [c \in ListCalls |-> {}]
    /\ createInput = NoInput /\ createReply = NoOrder

Server ==
    \/ \E c \in Calls :
          \/ UpsertFindsNoProfile(c)
          \/ UpsertInserts(c)
          \/ Serve(c)
          \/ CallFails(c)
    \/ \E row \in orders, status \in LaterStatuses : OrderMoves(row, status)

Customer ==
    \/ \E next \in Screens : Navigate(next)
    \/ HandleBack \/ HandleHome \/ OpenDetail
    \/ \E row \in Cards : OpenOrder(row)
    \/ \E direction \in Directions :
          \/ OpenForm(direction)
          \/ Continue(direction)
          \/ ChangeOrder(direction)
          \/ \E amount \in Amounts : HandleCreate(direction, amount)

BootstrapArrives == BootstrapSucceeds \/ BootstrapFails

SubmissionArrives == CreateAnswered \/ SubmissionFails \/ SubmissionSucceeds

Next == Server \/ Customer \/ BootstrapArrives \/ SubmissionArrives

Spec == Init /\ [][Next]_vars

\* A browser's request ends: with an answer, or with an error once its
\* connection is lost.  The app handles what has ended.
RequestsEnd ==
    /\ \A c \in Calls : WF_vars(Serve(c) \/ CallFails(c))
    /\ WF_vars(BootstrapArrives)
    /\ WF_vars(SubmissionArrives)

FairSpec == Spec /\ RequestsEnd

-----------------------------------------------------------------------------
(* Properties.                                                             *)

TypeOK ==
    /\ orders \subseteq Rows
    /\ users \subseteq UserIds \cup {DevUser}
    /\ profile \in UserIds \cup {NoUser}
    /\ runtime \in RuntimeConfigs
    /\ screen \in Screens
    /\ activeOrders \subseteq Rows /\ historyOrders \subseteq Rows
    /\ selectedOrder \in Rows \cup {NoOrder}
    /\ submissionError \in BOOLEAN /\ isSubmitting \in BOOLEAN
    /\ bootstrap \in {"loading", "done", "failed"}
    /\ bootstrapError \in BOOLEAN
    /\ call \in [Calls -> CallStates]
    /\ listed \in [ListCalls -> SUBSET Rows]
    /\ createInput \in Inputs \cup {NoInput}
    /\ createReply \in Rows \cup {NoOrder}

\* What the screen shows of which orders: an address to pay to, or the
\* payments made.
ShownOrders ==
    IF ~bootstrapError /\ screen \in CreatedScreens \cup {"order-detail"}
    THEN {selectedOrder} \ {NoOrder}
    ELSE Cards

\* "Payment details and QR codes are not shown without a successful
\* authorization": an app whose first requests failed, or whose configuration
\* was refused, never shows an order again, also when an order it submitted
\* before the failure is created after it.
FailedAppShowsNoOrder == bootstrap = "failed" => ShownOrders = {}

\* However its first requests, its submission and its retries interleave, one
\* Telegram customer is one user: an app for production creates orders only
\* for the User of the customer's profile, no other User row comes into being,
\* and every order the app shows is among that user's rows (resolveTelegram-
\* UserInDb, the unique telegramUserId, and the refusal of configured users).
CustomerIsOneUser ==
    runtime.protected /\ runtime.mode # "none" =>
        /\ users = {profile} \ {NoUser}
        /\ \A row \in orders : row.userId = profile
        /\ \A shown \in ShownOrders : \E row \in orders : row.publicId = shown.publicId

\* A created screen is entered with the order just created, and with no order the
\* customer opened otherwise, and goes on showing it until the customer leaves;
\* only the answer of the first requests, when it is later than the order,
\* replaces the order under the customer's eyes.
OnlyFirstRequestsReplaceCreatedOrder ==
    [][screen' \in CreatedScreens =>
         \/ screen # screen' /\ selectedOrder' = createReply
         \/ screen = screen' /\ selectedOrder' \in {selectedOrder, createReply}
         \/ bootstrap = "loading" /\ bootstrap' # "loading"]_vars

\* The order is what the input asks for, in direction and in the amount the
\* customer pays in.
IsOrderFor(order, input) ==
    /\ order # NoOrder
    /\ DirectionOf(order.publicId) = input.direction
    /\ input.amount = IF input.direction = "BUY_USDT" THEN order.amountRub
                      ELSE order.amountUsdt

\* A submission ends with an error, or on the screen of the order that was
\* submitted: whatever the customer looked at meanwhile, and whatever orders
\* came or went, it is not another order's deposit address that is shown.
SubmissionShowsItsOrder ==
    [][isSubmitting /\ ~isSubmitting' =>
         \/ submissionError'
         \/ /\ IsOrderFor(selectedOrder', createInput)
            /\ screen' = CreatedScreen(createInput.direction)]_vars

\* What the screen waits for has been asked for and not yet been handled: the
\* first requests, then one creation or the refresh that follows it.  Without
\* a submission nothing of one is left over for the next.
WaitsForAnswers ==
    /\ bootstrap = "loading" => \A c \in BootstrapCalls : call[c] # "idle"
    /\ \A c \in RefreshCalls :
          IF isSubmitting THEN call[c] = "idle" <=> call["create"] # "idle"
          ELSE call[c] = "idle" /\ call["create"] = "idle"
    /\ IF isSubmitting THEN createInput \in Inputs /\ ~submissionError
       ELSE createInput = NoInput /\ createReply = NoOrder
    /\ IF call["create"] = "answered" \/ \E c \in RefreshCalls : call[c] # "idle"
       THEN IsOrderFor(createReply, createInput)
       ELSE createReply = NoOrder

\* Rounding is never for the customer: no order pays out more than what is
\* paid in is worth at the order's rate, nor a whole unit less, and none is
\* created for nothing.
OrdersArePricedByTheirRate ==
    \A row \in orders :
        row.userId # MockUser =>
            /\ row.amountRub > 0 /\ row.amountUsdt > 0
            /\ IF DirectionOf(row.publicId) = "BUY_USDT"
               THEN /\ row.amountUsdt * row.rateSnapshot <= row.amountRub * AtomicScale
                    /\ row.amountRub * AtomicScale < (row.amountUsdt + 1) * row.rateSnapshot
               ELSE /\ row.amountRub * AtomicScale <= row.amountUsdt * row.rateSnapshot
                    /\ row.amountUsdt * row.rateSnapshot < (row.amountRub + 1) * AtomicScale

\* The customer never waits for ever: the first requests settle, and after
\* every submission, refused, lost or refreshed in vain, the customer may
\* submit again.
NothingSpinsForEver ==
    []<>(bootstrap # "loading" /\ ~isSubmitting)
=============================================================================

--------------------------- MODULE MiniAppProofs ---------------------------
(***************************************************************************)
(* Theorems about MiniApp, for any amounts, rates, builds and public ids:  *)
(* what a failed app shows, whose the orders are, how they are priced, and *)
(* which order the screen of a created order shows.                        *)
(***************************************************************************)
EXTENDS MiniApp, FiniteSetTheorems, TLAPS

-----------------------------------------------------------------------------
(* Prices.                                                                 *)

\* The quotient of two naturals, multiplied back, is less than one divisor short.
LEMMA Quotient ==
    ASSUME NEW a \in Nat, NEW b \in Nat \ {0}
    PROVE  a \div b \in Nat /\ (a \div b) * b <= a /\ a < (a \div b + 1) * b
OBVIOUS

\* Products of naturals keep the order of their factors.
LEMMA ProductGrows ==
    ASSUME NEW a \in Nat, NEW b \in Nat, NEW c \in Nat, a <= b
    PROVE  a * c <= b * c
<1>1. PICK d \in Nat : b = a + d
  <2>1. b - a \in Nat /\ b = a + (b - a)
    OBVIOUS
  <2> QED
    BY <2>1
<1>2. b * c = a * c + d * c
  BY <1>1
<1>3. d * c \in Nat /\ a * c \in Nat
  OBVIOUS
<1> QED
  BY <1>2, <1>3

LEMMA ProductGrowsStrictly ==
    ASSUME NEW a \in Nat, NEW b \in Nat, NEW c \in Nat \ {0}, a < b
    PROVE  a * c < b * c
<1>1. (a + 1) * c <= b * c
  BY ProductGrows
<1>2. (a + 1) * c = a * c + c
  OBVIOUS
<1>3. a * c \in Nat /\ b * c \in Nat
  OBVIOUS
<1> QED
  BY <1>1, <1>2, <1>3

\* A server's spread is positive, so nobody gains by buying and selling back, or
\* by selling and buying back, whatever is rounded on the way.
THEOREM SpreadCoversRounding ==
    ASSUME NEW atomicRates \in SUBSET (Nat \ {0}), NEW rates \in UsdtRubRates(atomicRates),
           NEW amount \in Nat
    PROVE  RoundTripsLose(rates, amount)
<1> DEFINE buy == rates.buyRate
           sell == rates.sellRate
<1>1. /\ buy \in Nat \ {0} /\ sell \in Nat \ {0} /\ sell < buy
      /\ AtomicScale \in Nat \ {0}
  BY QuoteAssumption DEF UsdtRubRates
<1> HIDE DEF buy, sell
<1>2. ASSUME NEW usdt \in Nat, usdt = BuyUsdtAmount(amount, buy), usdt > 0
      PROVE  SellRubAmount(usdt, sell) < amount
  <2> DEFINE back == SellRubAmount(usdt, sell)
  <2>1. amount * AtomicScale \in Nat /\ usdt * sell \in Nat /\ usdt * buy \in Nat
    BY <1>1
  <2>2. usdt * buy <= amount * AtomicScale
    BY <1>1, <1>2, <2>1, Quotient DEF BuyUsdtAmount
  <2>3. back \in Nat /\ back * AtomicScale <= usdt * sell
    BY <1>1, <2>1, Quotient DEF SellRubAmount
  <2>4. sell * usdt < buy * usdt
    BY <1>1, <1>2, ProductGrowsStrictly
  <2>5. sell * usdt = usdt * sell /\ buy * usdt = usdt * buy
    BY <1>1
  <2> HIDE DEF back
  <2>6. back * AtomicScale \in Nat
    BY <1>1, <2>3
  <2>7. back * AtomicScale < amount * AtomicScale
    BY <2>1, <2>2, <2>3, <2>4, <2>5, <2>6
  <2>8. ~(amount <= back)
    <3> SUFFICES ASSUME amount <= back PROVE FALSE
      OBVIOUS
    <3>1. amount * AtomicScale <= back * AtomicScale
      BY <1>1, <2>3, ProductGrows
    <3> QED
      BY <2>1, <2>6, <2>7, <3>1
  <2> QED
    BY <2>3, <2>8 DEF back
<1>3. ASSUME NEW rub \in Nat, rub = SellRubAmount(amount, sell), rub > 0
      PROVE  BuyUsdtAmount(rub, buy) < amount
  <2> DEFINE back == BuyUsdtAmount(rub, buy)
  <2>1. rub * AtomicScale \in Nat /\ amount * sell \in Nat /\ amount * buy \in Nat
    BY <1>1
  <2>2. rub * AtomicScale <= amount * sell
    BY <1>1, <1>3, <2>1, Quotient DEF SellRubAmount
  <2>3. back \in Nat /\ back * buy <= rub * AtomicScale
    BY <1>1, <2>1, Quotient DEF BuyUsdtAmount
  <2>4. amount # 0
    <3> SUFFICES ASSUME amount = 0 PROVE FALSE
      OBVIOUS
    <3>1. amount * sell = 0
      BY <1>1
    <3>2. 1 * AtomicScale <= rub * AtomicScale
      BY <1>1, <1>3, ProductGrows
    <3> QED
      BY <1>1, <2>2, <3>1, <3>2
  <2>5. sell * amount < buy * amount
    BY <1>1, <2>4, ProductGrowsStrictly
  <2>6. sell * amount = amount * sell /\ buy * amount = amount * buy
    BY <1>1
  <2> HIDE DEF back
  <2>7. back * buy \in Nat
    BY <1>1, <2>3
  <2>8. back * buy < amount * buy
    BY <2>1, <2>2, <2>3, <2>5, <2>6, <2>7
  <2>9. ~(amount <= back)
    <3> SUFFICES ASSUME amount <= back PROVE FALSE
      OBVIOUS
    <3>1. amount * buy <= back * buy
      BY <1>1, <2>3, ProductGrows
    <3> QED
      BY <2>1, <2>7, <2>8, <3>1
  <2> QED
    BY <2>3, <2>9 DEF back
<1>4. BuyUsdtAmount(amount, buy) \in Nat /\ SellRubAmount(amount, sell) \in Nat
  <2>1. amount * AtomicScale \in Nat /\ amount * sell \in Nat
    BY <1>1
  <2> QED
    BY <1>1, <2>1, Quotient DEF BuyUsdtAmount, SellRubAmount
<1> QED
  BY <1>2, <1>3, <1>4 DEF RoundTripsLose, buy, sell

\* What is paid out is what is paid in at the quote's rate, rounded down.
RoundedDown(direction, quote) ==
    IF direction = "BUY_USDT"
    THEN /\ quote.amountUsdt * quote.rateSnapshot <= quote.amountRub * AtomicScale
         /\ quote.amountRub * AtomicScale < (quote.amountUsdt + 1) * quote.rateSnapshot
    ELSE /\ quote.amountRub * AtomicScale <= quote.amountUsdt * quote.rateSnapshot
         /\ quote.amountUsdt * quote.rateSnapshot < (quote.amountRub + 1) * AtomicScale

\* Every quote consists of naturals and is rounded down.
LEMMA QuoteRoundsDown ==
    ASSUME NEW direction \in Directions, NEW amount \in Amounts,
           NEW rates \in UsdtRubRates(AtomicRates)
    PROVE  LET quote == Quote(direction, amount, rates)
           IN  /\ quote.amountRub \in Nat /\ quote.amountUsdt \in Nat
               /\ quote.rateSnapshot \in AtomicRates
               /\ RoundedDown(direction, quote)
<1>1. amount \in Nat /\ rates.buyRate \in AtomicRates /\ rates.sellRate \in AtomicRates
  BY PricesAssumption DEF PositiveDecimal, UsdtRubRates
<1>2. rates.buyRate \in Nat \ {0} /\ rates.sellRate \in Nat /\ AtomicScale \in Nat \ {0}
  BY <1>1, PricesAssumption, QuoteAssumption DEF PositiveDecimal
<1>3. amount * AtomicScale \in Nat /\ amount * rates.sellRate \in Nat
  BY <1>1, <1>2
<1>4. CASE direction = "BUY_USDT"
  <2> DEFINE usdt == BuyUsdtAmount(amount, rates.buyRate)
  <2>1. /\ usdt \in Nat /\ usdt * rates.buyRate <= amount * AtomicScale
        /\ amount * AtomicScale < (usdt + 1) * rates.buyRate
    BY <1>2, <1>3, Quotient DEF BuyUsdtAmount
  <2>2. Quote(direction, amount, rates) =
          [amountRub |-> amount, amountUsdt |-> usdt, rateSnapshot |-> rates.buyRate]
    BY <1>4 DEF Quote
  <2> HIDE DEF usdt
  <2> QED
    BY <1>1, <1>4, <2>1, <2>2 DEF RoundedDown
<1>5. CASE direction = "SELL_USDT"
  <2> DEFINE rub == SellRubAmount(amount, rates.sellRate)
  <2>1. /\ rub \in Nat /\ rub * AtomicScale <= amount * rates.sellRate
        /\ amount * rates.sellRate < (rub + 1) * AtomicScale
    BY <1>2, <1>3, Quotient DEF SellRubAmount
  <2>2. Quote(direction, amount, rates) =
          [amountRub |-> rub, amountUsdt |-> amount, rateSnapshot |-> rates.sellRate]
    BY <1>5 DEF Quote
  <2> HIDE DEF rub
  <2> QED
    BY <1>1, <1>5, <2>1, <2>2 DEF RoundedDown
<1> QED
  BY <1>4, <1>5 DEF Directions

\* What the price of a row says.
Priced(row) ==
    row.userId # MockUser =>
        row.amountRub > 0 /\ row.amountUsdt > 0 /\ RoundedDown(DirectionOf(row.publicId), row)

-----------------------------------------------------------------------------
(* The inductive invariant.                                                *)

\* Each row an app or an answer holds was read from an order that still exists.
Known(rows) == \A row \in rows : \E order \in orders : order.publicId = row.publicId

ShownRowsAreKnown ==
    /\ Known(activeOrders) /\ Known(historyOrders)
    /\ Known({selectedOrder} \ {NoOrder}) /\ Known({createReply} \ {NoOrder})
    /\ \A c \in ListCalls : Known(listed[c])

FailureIsShown == bootstrap = "failed" => bootstrapError

\* Only a Telegram customer without a profile inserts one, and has no user yet.
ProfilesAreInsertedOnce ==
    /\ \A c \in Calls :
          call[c] = "inserting" =>
              runtime.mode = "api" /\ runtime.identity = "telegram"
    /\ runtime.identity = "telegram" /\ profile = NoUser => users = {}

RowsAreTheCustomers ==
    runtime.protected /\ runtime.mode # "none" =>
        /\ users = {profile} \ {NoUser}
        /\ \A row \in orders : row.userId = profile

IInv ==
    /\ TypeOK
    /\ IsFiniteSet(orders)
    /\ FailureIsShown
    /\ ProfilesAreInsertedOnce
    /\ RowsAreTheCustomers
    /\ ShownRowsAreKnown
    /\ \A row \in orders : Priced(row)

\* A protected build that starts uses the API with Telegram's identity.
LEMMA ProtectedIsTelegram ==
    ASSUME runtime \in RuntimeConfigs, runtime.protected, runtime.mode # "none"
    PROVE  runtime.mode = "api" /\ runtime.identity = "telegram"
<1>1. PICK env \in Builds : runtime = RuntimeConfig(env)
  BY DEF RuntimeConfigs
<1>2. ConfigAccepted(env) /\ env.protected
  BY <1>1 DEF RuntimeConfig
<1>3. ApiMode(env) = "api" /\ env.initData
  BY <1>2 DEF ConfigAccepted, ValidProtectedRuntime
<1> QED
  BY <1>1, <1>2, <1>3 DEF RuntimeConfig

-----------------------------------------------------------------------------
(* Every step preserves it.                                                *)

\* Steps that leave the rows and the configuration alone.
LEMMA QuietStep ==
    ASSUME IInv, UNCHANGED <<serverVars, runtime>>, TypeOK',
           FailureIsShown', ShownRowsAreKnown',
           \A c \in Calls : call'[c] = "inserting" =>
              call[c] = "inserting" \/ (runtime.mode = "api" /\ runtime.identity = "telegram")
    PROVE  IInv'
<1>1. UNCHANGED <<orders, users, profile, runtime>>
  BY DEF serverVars
<1>2. IsFiniteSet(orders')
  BY <1>1 DEF IInv
<1>3. ProfilesAreInsertedOnce' /\ RowsAreTheCustomers'
  BY <1>1 DEF IInv, ProfilesAreInsertedOnce, RowsAreTheCustomers
<1>4. \A row \in orders' : Priced(row)'
  BY <1>1 DEF IInv, Priced, RoundedDown
<1> QED
  BY <1>2, <1>3, <1>4 DEF IInv

\* What the server answers a list request with are rows of the customer.
LEMMA ListsAreRows ==
    ASSUME NEW user
    PROVE  ActiveListFor(user) \subseteq orders /\ HistoryListFor(user) \subseteq orders
BY DEF ActiveListFor, HistoryListFor, ListActiveOrders, ListHistoryOrders,
   ListAllActiveOrders, ListAllHistoryOrders, NewestFirst, OfUser

\* A request is served with a list, starts to insert a profile, or fails.
LEMMA AnswersKeep ==
    ASSUME IInv, NEW c \in Calls,
           \/ UpsertFindsNoProfile(c)
           \/ CallFails(c)
           \/ c \in ListCalls /\ \E user \in UserIds \cup {DevUser, MockUser} : ServeList(c, user)
    PROVE  IInv'
<1>1. /\ UNCHANGED <<serverVars, appVars>>
      /\ TypeOK /\ FailureIsShown /\ ShownRowsAreKnown
  BY DEF IInv, UpsertFindsNoProfile, CallFails, ServeList
<1>2. /\ UNCHANGED <<orders, users, profile, runtime, screen, activeOrders, historyOrders,
                     selectedOrder, submissionError, isSubmitting, bootstrap,
                     bootstrapError>>
  BY <1>1 DEF serverVars, appVars, listVars, bootstrapVars
<1>3. FailureIsShown'
  BY <1>1, <1>2 DEF FailureIsShown
<1>4. CASE UpsertFindsNoProfile(c)
  <2>1. UNCHANGED <<listed, createInput, createReply>> /\ call' = [call EXCEPT ![c] = "inserting"]
    BY <1>4 DEF UpsertFindsNoProfile
  <2>2. TypeOK'
    BY <1>1, <1>2, <2>1 DEF TypeOK, CallStates
  <2>3. ShownRowsAreKnown'
    BY <1>1, <1>2, <2>1 DEF ShownRowsAreKnown, Known
  <2>4. runtime.mode = "api" /\ runtime.identity = "telegram"
    BY <1>4 DEF UpsertFindsNoProfile
  <2> QED
    BY <1>1, <1>2, <1>3, <2>2, <2>3, <2>4, QuietStep
<1>5. CASE CallFails(c)
  <2> DEFINE state == Finished(c, "failed")
  <2>1. /\ call' = [call EXCEPT ![c] = state]
        /\ listed' = [d \in ListCalls |-> IF d = c THEN {} ELSE listed[d]]
        /\ UNCHANGED createInput
        /\ createReply' = IF c = "create" THEN NoOrder ELSE createReply
    BY <1>5 DEF CallFails
  <2>2. state \in {"idle", "failed"}
    BY DEF Finished
  <2> HIDE DEF state
  <2>3. TypeOK'
    BY <1>1, <1>2, <2>1, <2>2 DEF TypeOK, CallStates
  <2>4. ShownRowsAreKnown'
    BY <1>1, <1>2, <2>1 DEF ShownRowsAreKnown, Known
  <2>5. \A d \in Calls : call'[d] = "inserting" =>
           call[d] = "inserting" \/ (runtime.mode = "api" /\ runtime.identity = "telegram")
    <3>1. call \in [Calls -> CallStates]
      BY <1>1 DEF TypeOK
    <3>2. \A d \in Calls : call'[d] = IF d = c THEN state ELSE call[d]
      BY <2>1, <3>1
    <3> QED
      BY <2>2, <3>2
  <2> QED
    BY <1>1, <1>2, <1>3, <2>3, <2>4, <2>5, QuietStep
<1>6. ASSUME c \in ListCalls, NEW user \in UserIds \cup {DevUser, MockUser}, ServeList(c, user)
      PROVE  IInv'
  <2> DEFINE state == Finished(c, "answered")
             rows == IF ~Awaited(c) THEN {}
                     ELSE IF c \in ActiveListCalls THEN ActiveListFor(user)
                     ELSE HistoryListFor(user)
  <2>1. /\ call' = [call EXCEPT ![c] = state] /\ listed' = [listed EXCEPT ![c] = rows]
        /\ UNCHANGED <<createInput, createReply>>
    BY <1>6 DEF ServeList
  <2>2. state \in {"idle", "answered"} /\ rows \subseteq orders
    BY ListsAreRows DEF Finished
  <2> HIDE DEF state, rows
  <2>3. TypeOK'
    BY <1>1, <1>2, <2>1, <2>2 DEF TypeOK, CallStates
  <2>4. ShownRowsAreKnown'
    <3>1. \A d \in ListCalls : listed'[d] = IF d = c THEN rows ELSE listed[d]
      BY <1>1, <2>1 DEF TypeOK
    <3> QED
      BY <1>1, <1>2, <2>1, <2>2, <3>1 DEF ShownRowsAreKnown, Known
  <2>5. \A d \in Calls : call'[d] = "inserting" =>
           call[d] = "inserting" \/ (runtime.mode = "api" /\ runtime.identity = "telegram")
    <3>1. call \in [Calls -> CallStates]
      BY <1>1 DEF TypeOK
    <3>2. \A d \in Calls : call'[d] = IF d = c THEN state ELSE call[d]
      BY <2>1, <3>1
    <3> QED
      BY <2>2, <3>2
  <2> QED
    BY <1>1, <1>2, <1>3, <2>3, <2>4, <2>5, QuietStep
<1> QED
  BY <1>4, <1>5, <1>6

\* The first request of a Telegram customer inserts the profile and its user.
LEMMA InsertKeeps ==
    ASSUME IInv, NEW c \in Calls, UpsertInserts(c)
    PROVE  IInv'
<1>1. /\ TypeOK /\ FailureIsShown /\ ShownRowsAreKnown
      /\ ProfilesAreInsertedOnce /\ RowsAreTheCustomers
  BY DEF IInv
<1>2. /\ call[c] = "inserting" /\ profile = NoUser
      /\ profile' = NewUserId /\ users' = users \cup {NewUserId}
      /\ call' = [call EXCEPT ![c] = "resolved"]
      /\ UNCHANGED <<orders, appVars, listed, createInput, createReply>>
  BY DEF UpsertInserts
<1>3. UNCHANGED <<runtime, screen, activeOrders, historyOrders, selectedOrder,
                  submissionError, isSubmitting, bootstrap, bootstrapError>>
  BY <1>2 DEF appVars, listVars, bootstrapVars
<1>4. users = {}
  BY <1>1, <1>2 DEF ProfilesAreInsertedOnce
<1>5. NewUserId \in UserIds
  BY <1>4, IdsAssumption DEF NewUserId
<1>6. NewUserId # NoUser
  BY <1>5, IdsAssumption
<1>7. TypeOK'
  BY <1>1, <1>2, <1>3, <1>5 DEF TypeOK, CallStates
<1>8. ProfilesAreInsertedOnce'
  BY <1>1, <1>2, <1>3, <1>6 DEF ProfilesAreInsertedOnce, TypeOK
<1>9. RowsAreTheCustomers'
  <2>1. runtime.protected /\ runtime.mode # "none" => orders = {}
    BY <1>1, <1>2, IdsAssumption DEF RowsAreTheCustomers, TypeOK, Rows
  <2> QED
    BY <1>2, <1>3, <1>4, <1>6, <2>1 DEF RowsAreTheCustomers
<1>10. FailureIsShown' /\ ShownRowsAreKnown'
  BY <1>1, <1>2, <1>3 DEF FailureIsShown, ShownRowsAreKnown, Known
<1>11. IsFiniteSet(orders') /\ \A row \in orders' : Priced(row)'
  BY <1>2 DEF IInv, Priced, RoundedDown
<1> QED
  BY <1>7, <1>8, <1>9, <1>10, <1>11 DEF IInv

\* An order is created for the user of the request, at the server's rate.
LEMMA CreateKeeps ==
    ASSUME IInv, NEW id \in PublicIds, NEW user \in UserIds \cup {DevUser, MockUser},
           NEW rates \in UsdtRubRates(AtomicRates), ServeCreate(id, user, rates)
    PROVE  IInv'
<1> DEFINE quote == Quote(createInput.direction, createInput.amount, rates)
           order == NewOrder(id, user, quote, Cardinality(orders) + 1)
<1>1. /\ TypeOK /\ FailureIsShown /\ ShownRowsAreKnown /\ IsFiniteSet(orders)
      /\ ProfilesAreInsertedOnce /\ RowsAreTheCustomers
      /\ \A row \in orders : Priced(row)
  BY DEF IInv
<1>2. /\ ActsFor("create", user) /\ id \in FreeIds(createInput.direction)
      /\ AcceptsQuote(user, quote)
      /\ orders' = orders \cup {order}
      /\ users' = users \cup ({user} \ {MockUser})
      /\ createReply' = order
      /\ call' = [call EXCEPT !["create"] = "answered"]
      /\ UNCHANGED <<profile, appVars, listed, createInput>>
  BY DEF ServeCreate
<1>3. UNCHANGED <<runtime, screen, activeOrders, historyOrders, selectedOrder,
                  submissionError, isSubmitting, bootstrap, bootstrapError>>
  BY <1>2 DEF appVars, listVars, bootstrapVars
<1>4. /\ createInput.direction = DirectionOf(id)
      /\ createInput.direction \in Directions
  BY <1>2 DEF FreeIds, DirectionOf, Directions
<1>5. createInput.amount \in Amounts
  BY <1>1, <1>4 DEF TypeOK, Inputs, NoInput, Directions
<1>6. /\ quote.amountRub \in Nat /\ quote.amountUsdt \in Nat
      /\ quote.rateSnapshot \in AtomicRates
      /\ RoundedDown(createInput.direction, quote)
  BY <1>4, <1>5, QuoteRoundsDown
<1>7. Cardinality(orders) + 1 \in Nat
  BY <1>1, FS_CardinalityType
<1>8. /\ order.publicId = id /\ order.userId = user
      /\ order.amountRub = quote.amountRub /\ order.amountUsdt = quote.amountUsdt
      /\ order.rateSnapshot = quote.rateSnapshot
  BY DEF NewOrder
<1>9. order \in Rows
  BY <1>6, <1>7 DEF NewOrder, Rows, OrderStatus
<1>10. Priced(order)
  <2>1. user # MockUser => quote.amountRub > 0 /\ quote.amountUsdt > 0
    BY <1>2, <1>6, QuoteAssumption DEF AcceptsQuote, QuoteIsPositive, PositiveDecimal
  <2> HIDE DEF quote, order
  <2> QED
    BY <1>4, <1>6, <1>8, <2>1 DEF Priced, RoundedDown
<1> HIDE DEF quote, order
<1>11. user \in UserIds \cup {DevUser, MockUser}
  OBVIOUS
<1>12. TypeOK'
  BY <1>1, <1>2, <1>3, <1>9 DEF TypeOK, CallStates
<1>13. IsFiniteSet(orders')
  BY <1>1, <1>2, FS_AddElement
<1>14. ProfilesAreInsertedOnce'
  <2>1. \A c \in Calls : call'[c] = "inserting" => call[c] = "inserting"
    BY <1>1, <1>2 DEF TypeOK
  <2>2. runtime.identity = "telegram" /\ profile = NoUser => user = MockUser
    BY <1>2 DEF ActsFor
  <2> QED
    BY <1>1, <1>2, <1>3, <2>1, <2>2 DEF ProfilesAreInsertedOnce
<1>15. RowsAreTheCustomers'
  <2>1. CASE runtime.protected /\ runtime.mode # "none"
    <3>1. runtime.mode = "api" /\ runtime.identity = "telegram"
      BY <1>1, <2>1, ProtectedIsTelegram DEF TypeOK
    <3>2. user = profile /\ profile # NoUser
      BY <1>2, <3>1 DEF ActsFor
    <3> QED
      BY <1>1, <1>2, <1>3, <1>8, <2>1, <3>2 DEF RowsAreTheCustomers
  <2> QED
    BY <1>3, <2>1 DEF RowsAreTheCustomers
<1>16. ShownRowsAreKnown'
  <2>1. \A rows : Known(rows) => Known(rows)'
    BY <1>2 DEF Known
  <2>2. Known({createReply} \ {NoOrder})'
    BY <1>2 DEF Known
  <2> QED
    BY <1>1, <1>2, <1>3, <2>1, <2>2 DEF ShownRowsAreKnown, Known
<1>17. FailureIsShown' /\ \A row \in orders' : Priced(row)'
  BY <1>1, <1>2, <1>3, <1>10 DEF FailureIsShown, Priced, RoundedDown
<1> QED
  BY <1>12, <1>13, <1>14, <1>15, <1>16, <1>17 DEF IInv

\* Others move an order on: it keeps its id, its user and its price.
LEMMA MovesKeep ==
    ASSUME IInv, NEW row \in orders, NEW status \in LaterStatuses, OrderMoves(row, status)
    PROVE  IInv'
<1> DEFINE moved == [row EXCEPT !.status = status]
<1>1. /\ TypeOK /\ FailureIsShown /\ ShownRowsAreKnown /\ IsFiniteSet(orders)
      /\ ProfilesAreInsertedOnce /\ RowsAreTheCustomers
      /\ \A other \in orders : Priced(other)
  BY DEF IInv
<1>2. orders' = (orders \ {row}) \cup {moved} /\ UNCHANGED <<users, profile, appVars, callVars>>
  BY DEF OrderMoves
<1>3. UNCHANGED <<runtime, screen, activeOrders, historyOrders, selectedOrder, users,
                  profile, submissionError, isSubmitting, bootstrap, bootstrapError,
                  call, listed, createInput, createReply>>
  BY <1>2 DEF appVars, listVars, bootstrapVars, callVars
<1>4. row \in Rows
  BY <1>1 DEF TypeOK
<1>5. /\ moved \in Rows
      /\ moved.publicId = row.publicId /\ moved.userId = row.userId
      /\ moved.amountRub = row.amountRub /\ moved.amountUsdt = row.amountUsdt
      /\ moved.rateSnapshot = row.rateSnapshot
  BY <1>4, LaterStatusesAssumption DEF Rows
<1> HIDE DEF moved
<1>6. TypeOK'
  BY <1>1, <1>2, <1>3, <1>5 DEF TypeOK
<1>7. IsFiniteSet(orders')
  <2>1. IsFiniteSet(orders \ {row})
    BY <1>1, FS_Subset
  <2> QED
    BY <1>2, <2>1, FS_AddElement
<1>8. ProfilesAreInsertedOnce' /\ RowsAreTheCustomers' /\ FailureIsShown'
  BY <1>1, <1>2, <1>3, <1>5 DEF ProfilesAreInsertedOnce, RowsAreTheCustomers, FailureIsShown
<1>9. ShownRowsAreKnown'
  <2>1. \A rows : Known(rows) => \A r \in rows : \E order \in orders' : order.publicId = r.publicId
    BY <1>2, <1>5 DEF Known
  <2> QED
    BY <1>1, <1>3, <2>1 DEF ShownRowsAreKnown, Known
<1>10. \A other \in orders' : Priced(other)'
  BY <1>1, <1>2, <1>5 DEF Priced, RoundedDown
<1> QED
  BY <1>6, <1>7, <1>8, <1>9, <1>10 DEF IInv

\* The first requests settle.
LEMMA BootstrapKeeps ==
    ASSUME IInv, BootstrapArrives
    PROVE  IInv'
<1>1. /\ UNCHANGED <<serverVars, runtime>>
      /\ TypeOK /\ ShownRowsAreKnown
  BY DEF IInv, BootstrapArrives, BootstrapSucceeds, BootstrapFails
<1>2. UNCHANGED <<orders, users, profile, runtime>>
  BY <1>1 DEF serverVars
<1>3. CASE BootstrapSucceeds
  <2>1. selectedOrder' \in Newest(listed["bootstrapActive"])
    BY <1>3 DEF BootstrapSucceeds
  <2>2. selectedOrder' \in listed["bootstrapActive"] \cup {NoOrder}
    BY <2>1 DEF Newest
  <2>3. {"bootstrapActive", "bootstrapHistory"} \subseteq ListCalls
    BY DEF ListCalls, BootstrapCalls
  <2>4. TypeOK'
    BY <1>1, <1>2, <1>3, <2>2, <2>3 DEF TypeOK, BootstrapSucceeds, CallStates
  <2>5. ShownRowsAreKnown'
    BY <1>1, <1>2, <1>3, <2>2, <2>3 DEF ShownRowsAreKnown, Known, BootstrapSucceeds
  <2>6. \A c \in Calls : call'[c] = "inserting" =>
           call[c] = "inserting" \/ (runtime.mode = "api" /\ runtime.identity = "telegram")
    BY <1>3 DEF BootstrapSucceeds
  <2>7. FailureIsShown'
    BY <1>3 DEF BootstrapSucceeds, FailureIsShown
  <2> QED
    BY <1>1, <2>4, <2>5, <2>6, <2>7, QuietStep
<1>4. CASE BootstrapFails
  <2>1. TypeOK'
    BY <1>1, <1>2, <1>4 DEF TypeOK, BootstrapFails, CallStates
  <2>2. ShownRowsAreKnown'
    BY <1>1, <1>2, <1>4 DEF ShownRowsAreKnown, Known, BootstrapFails
  <2>3. \A c \in Calls : call'[c] = "inserting" =>
           call[c] = "inserting" \/ (runtime.mode = "api" /\ runtime.identity = "telegram")
    BY <1>4 DEF BootstrapFails
  <2>4. FailureIsShown'
    BY <1>4 DEF BootstrapFails, FailureIsShown
  <2> QED
    BY <1>1, <2>1, <2>2, <2>3, <2>4, QuietStep
<1> QED
  BY <1>3, <1>4 DEF BootstrapArrives

\* The customer moves between the screens, and submits.
LEMMA CustomerKeeps ==
    ASSUME IInv, Customer
    PROVE  IInv'
<1>1. TypeOK /\ FailureIsShown /\ ShownRowsAreKnown
  BY DEF IInv
<1>2. ASSUME NEW next \in Screens, Goes(next), UNCHANGED <<activeOrders, historyOrders>>,
             selectedOrder' \in {selectedOrder} \cup activeOrders \cup historyOrders,
             submissionError' \in BOOLEAN
      PROVE  IInv'
  <2>1. UNCHANGED <<orders, users, profile, runtime, isSubmitting, bootstrap,
                    bootstrapError, call, listed, createInput, createReply, serverVars>>
    BY <1>2 DEF Goes, serverVars, bootstrapVars, callVars
  <2>2. TypeOK'
    BY <1>1, <1>2, <2>1 DEF TypeOK, Goes
  <2>3. FailureIsShown' /\ ShownRowsAreKnown'
    BY <1>1, <1>2, <2>1 DEF FailureIsShown, ShownRowsAreKnown, Known
  <2>4. \A c \in Calls : call'[c] = "inserting" =>
           call[c] = "inserting" \/ (runtime.mode = "api" /\ runtime.identity = "telegram")
    BY <2>1
  <2> QED
    BY <2>1, <2>2, <2>3, <2>4, QuietStep
<1>3. submissionError \in BOOLEAN
  BY <1>1 DEF TypeOK
<1>4. ASSUME NEW next \in Screens, Navigate(next)
      PROVE  IInv'
  BY <1>2, <1>3, <1>4 DEF Navigate, listVars
<1>5. CASE HandleBack
  <2>1. PICK next \in {"home", "buy", "sell"} : Goes(next)
    BY <1>5 DEF HandleBack
  <2> QED
    BY <1>2, <1>5, <2>1 DEF HandleBack, listVars, Screens
<1>6. CASE HandleHome
  BY <1>2, <1>6 DEF HandleHome, listVars, Screens
<1>7. CASE OpenDetail
  BY <1>2, <1>3, <1>7 DEF OpenDetail, listVars, Screens
<1>8. ASSUME NEW row \in Cards, OpenOrder(row)
      PROVE  IInv'
  <2>1. row \in activeOrders \cup historyOrders
    BY DEF Cards
  <2> QED
    BY <1>2, <1>3, <1>8, <2>1 DEF OpenOrder, Screens
<1>9. ASSUME NEW direction \in Directions,
             OpenForm(direction) \/ Continue(direction) \/ ChangeOrder(direction)
      PROVE  IInv'
  <2>1. FormScreen(direction) \in Screens /\ ConfirmScreen(direction) \in Screens
    BY DEF FormScreen, ConfirmScreen, Screens
  <2> QED
    BY <1>2, <1>3, <1>9, <2>1 DEF OpenForm, Continue, ChangeOrder, listVars
<1>10. ASSUME NEW direction \in Directions, NEW amount \in Amounts,
              HandleCreate(direction, amount)
       PROVE  IInv'
  <2>1. /\ UNCHANGED <<serverVars, runtime, screen, listVars, bootstrapVars, listed,
                       createReply>>
        /\ submissionError' = FALSE /\ isSubmitting' = TRUE
        /\ createInput' = [direction |-> direction, amount |-> amount]
        /\ call' = [call EXCEPT !["create"] = "sent"]
    BY <1>10 DEF HandleCreate, BuildOrderInput
  <2>2. UNCHANGED <<orders, users, profile, activeOrders, historyOrders, selectedOrder,
                    bootstrap, bootstrapError>>
    BY <2>1 DEF serverVars, listVars, bootstrapVars
  <2>3. TypeOK'
    BY <1>1, <2>1, <2>2 DEF TypeOK, CallStates, Inputs
  <2>4. FailureIsShown' /\ ShownRowsAreKnown'
    BY <1>1, <2>1, <2>2 DEF FailureIsShown, ShownRowsAreKnown, Known
  <2>5. \A c \in Calls : call'[c] = "inserting" =>
           call[c] = "inserting" \/ (runtime.mode = "api" /\ runtime.identity = "telegram")
    BY <1>1, <2>1 DEF TypeOK
  <2> QED
    BY <2>1, <2>3, <2>4, <2>5, QuietStep
<1> QED
  BY <1>4, <1>5, <1>6, <1>7, <1>8, <1>9, <1>10 DEF Customer

\* A submission goes on, and settles.
LEMMA SubmissionKeeps ==
    ASSUME IInv, SubmissionArrives
    PROVE  IInv'
<1>1. TypeOK /\ FailureIsShown /\ ShownRowsAreKnown
  BY DEF IInv
<1>2. UNCHANGED <<serverVars, runtime, bootstrapVars>>
  BY DEF SubmissionArrives, CreateAnswered, SubmissionFails, SubmissionSucceeds, appVars
<1>3. UNCHANGED <<orders, users, profile, bootstrap, bootstrapError>>
  BY <1>2 DEF serverVars, bootstrapVars
<1>4. FailureIsShown'
  BY <1>1, <1>3 DEF FailureIsShown
<1>5. CASE CreateAnswered
  <2>1. UNCHANGED <<screen, activeOrders, historyOrders, selectedOrder, submissionError,
                    isSubmitting, listed, createInput, createReply>>
    BY <1>5 DEF CreateAnswered, appVars, listVars
  <2>2. call' \in [Calls -> CallStates]
    BY <1>1, <1>5 DEF CreateAnswered, TypeOK, CallStates
  <2>3. TypeOK'
    BY <1>1, <1>2, <1>3, <2>1, <2>2 DEF TypeOK
  <2>4. ShownRowsAreKnown'
    BY <1>1, <1>3, <2>1 DEF ShownRowsAreKnown, Known
  <2>5. \A c \in Calls : call'[c] = "inserting" =>
           call[c] = "inserting" \/ (runtime.mode = "api" /\ runtime.identity = "telegram")
    BY <1>5 DEF CreateAnswered
  <2> QED
    BY <1>2, <1>4, <2>3, <2>4, <2>5, QuietStep
<1>6. ASSUME NEW calls \in SUBSET Calls, Settled(calls), submissionError' \in BOOLEAN,
             screen' \in Screens,
             \/ UNCHANGED listVars
             \/ /\ activeOrders' = listed["refreshActive"]
                /\ historyOrders' = listed["refreshHistory"]
                /\ selectedOrder' = createReply
      PROVE  IInv'
  <2>1. {"refreshActive", "refreshHistory"} \subseteq ListCalls
    BY DEF ListCalls, RefreshCalls
  <2>2. /\ isSubmitting' = FALSE /\ createInput' = NoInput /\ createReply' = NoOrder
        /\ call' = [c \in Calls |-> IF c \in calls THEN "idle" ELSE call[c]]
        /\ listed' = [c \in ListCalls |-> IF c \in calls THEN {} ELSE listed[c]]
    BY <1>6 DEF Settled
  <2>3. /\ activeOrders' \subseteq Rows /\ historyOrders' \subseteq Rows
        /\ selectedOrder' \in Rows \cup {NoOrder}
    BY <1>1, <1>6, <2>1 DEF TypeOK, listVars
  <2>4. TypeOK'
    BY <1>1, <1>2, <1>3, <1>6, <2>2, <2>3 DEF TypeOK, CallStates
  <2>5. ShownRowsAreKnown'
    <3>1. /\ Known(activeOrders)' /\ Known(historyOrders)'
          /\ Known({selectedOrder} \ {NoOrder})'
      BY <1>1, <1>3, <1>6, <2>1 DEF ShownRowsAreKnown, Known, listVars
    <3>2. Known({createReply} \ {NoOrder})' /\ \A c \in ListCalls : Known(listed[c])'
      BY <1>1, <1>3, <2>2 DEF ShownRowsAreKnown, Known
    <3> QED
      BY <3>1, <3>2 DEF ShownRowsAreKnown, Known
  <2>6. \A c \in Calls : call'[c] = "inserting" =>
           call[c] = "inserting" \/ (runtime.mode = "api" /\ runtime.identity = "telegram")
    BY <2>2
  <2> QED
    BY <1>2, <1>4, <2>4, <2>5, <2>6, QuietStep
<1>7. RefreshCalls \subseteq Calls /\ "create" \in Calls
  BY DEF Calls
<1>8. CASE SubmissionFails
  <2>1. screen' \in Screens
    BY <1>1, <1>8 DEF SubmissionFails, TypeOK
  <2> QED
    BY <1>6, <1>7, <1>8, <2>1 DEF SubmissionFails
<1>9. CASE SubmissionSucceeds
  <2>1. screen' \in Screens
    BY <1>9 DEF SubmissionSucceeds, CreatedScreen, Screens
  <2>2. submissionError' \in BOOLEAN
    BY <1>1, <1>9 DEF SubmissionSucceeds, TypeOK
  <2> QED
    BY <1>6, <1>7, <1>9, <2>1, <2>2 DEF SubmissionSucceeds
<1> QED
  BY <1>5, <1>8, <1>9 DEF SubmissionArrives

\* The app is loaded, by a customer with or without an order of an earlier visit.
LEMMA InitIInv == Init => IInv
<1> SUFFICES ASSUME Init PROVE IInv
  OBVIOUS
<1>1. (CHOOSE user \in UserIds : TRUE) \in UserIds
  BY IdsAssumption
<1>2. profile \in UserIds \cup {NoUser}
  BY <1>1 DEF Init
<1>3. ASSUME NEW row \in orders
      PROVE  /\ profile # NoUser /\ orders = {row} /\ row \in Rows /\ Priced(row)
             /\ row.userId = profile
  <2>1. PICK old \in OldOrders(profile) :
           AcceptsQuote(profile, old) /\ orders = {old} /\ profile # NoUser
    BY <1>3 DEF Init
  <2>2. row = old
    BY <2>1
  <2>3. PICK id \in SellIds, amount \in Amounts, rates \in UsdtRubRates(AtomicRates) :
           old = NewOrder(id, profile, Quote("SELL_USDT", amount, rates), 0)
    BY DEF OldOrders
  <2> DEFINE quote == Quote("SELL_USDT", amount, rates)
  <2>4. /\ quote.amountRub \in Nat /\ quote.amountUsdt \in Nat
        /\ quote.rateSnapshot \in AtomicRates /\ RoundedDown("SELL_USDT", quote)
    BY QuoteRoundsDown DEF Directions
  <2>5. /\ old.publicId = id /\ old.userId = profile /\ old.createdAt = 0
        /\ old.amountRub = quote.amountRub /\ old.amountUsdt = quote.amountUsdt
        /\ old.rateSnapshot = quote.rateSnapshot
    BY <2>3 DEF NewOrder
  <2> HIDE DEF quote
  <2>6. old \in Rows
    BY <1>2, <2>1, <2>3, <2>4, <2>5 DEF NewOrder, Rows, OrderStatus, PublicIds
  <2>7. profile # MockUser
    BY <1>2, <2>1, IdsAssumption
  <2>8. old.amountRub > 0 /\ old.amountUsdt > 0
    BY <2>1, <2>4, <2>5, <2>7, QuoteAssumption
       DEF AcceptsQuote, QuoteIsPositive, PositiveDecimal
  <2>9. Priced(old)
    BY <2>3, <2>4, <2>5, <2>8 DEF Priced, RoundedDown, DirectionOf
  <2> QED
    BY <2>1, <2>2, <2>5, <2>6, <2>9
<1>4. IsFiniteSet(orders)
  <2>1. CASE orders = {}
    BY <2>1, FS_EmptySet
  <2>2. ASSUME NEW row \in orders
        PROVE  IsFiniteSet(orders)
    BY <1>3, FS_Singleton
  <2> QED
    BY <2>1, <2>2
<1>5. TypeOK
  <2>1. users \subseteq UserIds
    BY <1>2 DEF Init
  <2>2. call \in [Calls -> CallStates] /\ listed \in [ListCalls -> SUBSET Rows]
    BY DEF Init, CallStates
  <2> QED
    BY <1>2, <1>3, <2>1, <2>2 DEF Init, TypeOK, Screens
<1>6. ProfilesAreInsertedOnce
  BY DEF Init, ProfilesAreInsertedOnce
<1>7. RowsAreTheCustomers
  BY <1>3 DEF Init, RowsAreTheCustomers
<1>8. FailureIsShown
  BY DEF Init, FailureIsShown
<1>9. ShownRowsAreKnown
  BY DEF Init, ShownRowsAreKnown, Known
<1> QED
  BY <1>3, <1>4, <1>5, <1>6, <1>7, <1>8, <1>9 DEF IInv

\* Rows, requests and screens agree in every reachable state.
THEOREM Inductive == Spec => []IInv
<1>1. IInv /\ [Next]_vars => IInv'
  <2> SUFFICES ASSUME IInv, [Next]_vars PROVE IInv'
    OBVIOUS
  <2>1. CASE UNCHANGED vars
    <3>1. UNCHANGED <<serverVars, runtime, appVars, callVars>>
      BY <2>1 DEF vars, appVars
    <3> QED
      BY <3>1 DEF serverVars, appVars, listVars, callVars, bootstrapVars, IInv, TypeOK,
         FailureIsShown, ProfilesAreInsertedOnce, RowsAreTheCustomers,
         ShownRowsAreKnown, Known, Priced, RoundedDown
  <2>2. CASE Server
    BY <2>2, AnswersKeep, InsertKeeps, CreateKeeps, MovesKeep DEF Server, Serve
  <2> QED
    BY <2>1, <2>2, CustomerKeeps, BootstrapKeeps, SubmissionKeeps DEF Next
<1> QED
  BY <1>1, InitIInv, PTL DEF Spec

-----------------------------------------------------------------------------
(* What follows from it.                                                   *)

\* Rows, screens and requests keep their declared shapes.
THEOREM TypeCorrect == Spec => []TypeOK
<1>1. IInv => TypeOK
  BY DEF IInv
<1> QED
  BY <1>1, Inductive, PTL

\* An app whose first requests failed never shows an order again.
THEOREM FailureHidesOrders == Spec => []FailedAppShowsNoOrder
<1>1. IInv => FailedAppShowsNoOrder
  BY DEF IInv, FailureIsShown, FailedAppShowsNoOrder, ShownOrders, Cards
<1> QED
  BY <1>1, Inductive, PTL

\* A customer of an app for production is one user, who owns the orders and
\* sees no other.
THEOREM OneUser == Spec => []CustomerIsOneUser
<1>1. IInv => CustomerIsOneUser
  <2> SUFFICES ASSUME IInv, runtime.protected, runtime.mode # "none"
               PROVE  /\ users = {profile} \ {NoUser}
                      /\ \A row \in orders : row.userId = profile
                      /\ \A shown \in ShownOrders :
                            \E row \in orders : row.publicId = shown.publicId
    BY DEF CustomerIsOneUser
  <2>1. RowsAreTheCustomers /\ ShownRowsAreKnown
    BY DEF IInv
  <2>2. \A shown \in ShownOrders :
           shown \in activeOrders \cup historyOrders \cup ({selectedOrder} \ {NoOrder})
    BY DEF ShownOrders, Cards
  <2> QED
    BY <2>1, <2>2 DEF RowsAreTheCustomers, ShownRowsAreKnown, Known
<1> QED
  BY <1>1, Inductive, PTL

\* No order pays out more than what was paid in is worth, nor a unit less.
THEOREM FairPrices == Spec => []OrdersArePricedByTheirRate
<1>1. IInv => OrdersArePricedByTheirRate
  <2> SUFFICES ASSUME IInv, NEW row \in orders, row.userId # MockUser
               PROVE  /\ row.amountRub > 0 /\ row.amountUsdt > 0
                      /\ RoundedDown(DirectionOf(row.publicId), row)
    BY DEF OrdersArePricedByTheirRate, RoundedDown
  <2> QED
    BY DEF IInv, Priced
<1> QED
  BY <1>1, Inductive, PTL

\* The screen of a created order is left, or its order replaced, only by the
\* customer, by another submission, or by the answer of the first requests.
THEOREM CreatedStays == Spec => OnlyFirstRequestsReplaceCreatedOrder
<1>1. [Next]_vars =>
        [screen' \in CreatedScreens =>
           \/ screen # screen' /\ selectedOrder' = createReply
           \/ screen = screen' /\ selectedOrder' \in {selectedOrder, createReply}
           \/ bootstrap = "loading" /\ bootstrap' # "loading"]_vars
  <2> SUFFICES ASSUME Next, screen' \in CreatedScreens
               PROVE  \/ screen # screen' /\ selectedOrder' = createReply
                      \/ screen = screen' /\ selectedOrder' \in {selectedOrder, createReply}
                      \/ bootstrap = "loading" /\ bootstrap' # "loading"
    OBVIOUS
  <2>1. CASE UNCHANGED <<screen, selectedOrder>>
    BY <2>1
  <2>2. CASE Server
    BY <2>1, <2>2 DEF Server, Serve, UpsertFindsNoProfile, UpsertInserts, CallFails,
       ServeList, ServeCreate, OrderMoves, appVars, listVars
  <2>3. CASE BootstrapArrives
    BY <2>3 DEF BootstrapArrives, BootstrapSucceeds, BootstrapFails
  <2>4. CASE SubmissionArrives
    BY <2>1, <2>4 DEF SubmissionArrives, CreateAnswered, SubmissionFails,
       SubmissionSucceeds, appVars, listVars
  <2>5. ASSUME NEW next \in Screens \ CreatedScreens, Goes(next)
        PROVE  FALSE
    BY <2>5 DEF Goes
  <2>6. {"home", "history", "buy", "sell", "buy-confirm", "sell-confirm", "order-detail"}
          \subseteq Screens \ CreatedScreens
    BY DEF Screens, CreatedScreens
  <2>7. CASE Customer
    <3>1. CASE \E direction \in Directions, amount \in Amounts : HandleCreate(direction, amount)
      BY <2>1, <3>1 DEF HandleCreate, listVars
    <3>2. CASE (\E next \in Screens : Navigate(next)) \/ HandleBack \/ HandleHome \/ OpenDetail
      BY <2>5, <2>6, <3>2 DEF Navigate, HandleBack, HandleHome, OpenDetail
    <3>3. CASE \E row \in Cards : OpenOrder(row)
      BY <2>5, <2>6, <3>3 DEF OpenOrder
    <3>4. CASE \E direction \in Directions :
                  OpenForm(direction) \/ Continue(direction) \/ ChangeOrder(direction)
      BY <2>5, <2>6, <3>4 DEF OpenForm, Continue, ChangeOrder, FormScreen, ConfirmScreen
    <3> QED
      BY <2>7, <3>1, <3>2, <3>3, <3>4 DEF Customer
  <2> QED
    BY <2>2, <2>3, <2>4, <2>7 DEF Next
<1> QED
  BY <1>1, PTL DEF Spec, OnlyFirstRequestsReplaceCreatedOrder

-----------------------------------------------------------------------------
(* What the screen waits for, and what a submission ends with.             *)

\* The order the server answers with is the one that was submitted.
LEMMA CreatedOrderFits ==
    ASSUME IInv, NEW id \in PublicIds, NEW user \in UserIds \cup {DevUser, MockUser},
           NEW rates \in UsdtRubRates(AtomicRates), ServeCreate(id, user, rates)
    PROVE  IsOrderFor(createReply', createInput)
<1> DEFINE quote == Quote(createInput.direction, createInput.amount, rates)
           order == NewOrder(id, user, quote, Cardinality(orders) + 1)
<1>1. /\ createReply' = order
      /\ createInput.direction = DirectionOf(id)
      /\ createInput.direction \in Directions
  BY DEF ServeCreate, FreeIds, DirectionOf, Directions
<1>2. createInput.amount \in Amounts
  BY <1>1 DEF IInv, TypeOK, Inputs, NoInput, Directions
<1>3. /\ quote.amountRub \in Nat /\ quote.amountUsdt \in Nat
      /\ quote.rateSnapshot \in AtomicRates
      /\ createInput.amount = IF createInput.direction = "BUY_USDT" THEN quote.amountRub
                              ELSE quote.amountUsdt
  BY <1>1, <1>2, QuoteRoundsDown DEF Quote
<1>4. /\ order.publicId = id
      /\ order.amountRub = quote.amountRub /\ order.amountUsdt = quote.amountUsdt
  BY DEF NewOrder
<1>5. order \in Rows
  <2>1. Cardinality(orders) + 1 \in Nat
    BY FS_CardinalityType DEF IInv
  <2> QED
    BY <1>3, <2>1 DEF NewOrder, Rows, OrderStatus
<1> HIDE DEF quote, order
<1> QED
  BY <1>1, <1>3, <1>4, <1>5, NoOrderAssumption DEF IsOrderFor

\* A request that is under way or answered stays asked for until the app
\* handles it, and its answer is the order that was submitted.
LEMMA AnswersAreAwaited ==
    ASSUME TypeOK, WaitsForAnswers, NEW c \in Calls, call[c] # "idle",
           NEW state, call' = [call EXCEPT ![c] = state],
           state # "idle" \/ (c \in BootstrapCalls /\ bootstrap # "loading"),
           UNCHANGED <<bootstrap, isSubmitting, submissionError, createInput>>,
           IF c # "create" THEN UNCHANGED createReply
           ELSE IF state = "answered" THEN IsOrderFor(createReply', createInput)
           ELSE createReply' = NoOrder
    PROVE  WaitsForAnswers'
<1>1. \A d \in Calls : call'[d] = IF d = c THEN state ELSE call[d]
  BY DEF TypeOK
<1>2. /\ BootstrapCalls \cup RefreshCalls \cup {"create"} = Calls
      /\ \A d \in RefreshCalls : d # "create" /\ d \notin BootstrapCalls
      /\ "create" \notin BootstrapCalls
  BY DEF Calls, BootstrapCalls, RefreshCalls
<1>3. \A d \in RefreshCalls \cup {"create"} : call'[d] = "idle" <=> call[d] = "idle"
  BY <1>1, <1>2
<1>4. /\ bootstrap = "loading" => \A d \in BootstrapCalls : call'[d] # "idle"
      /\ \A d \in RefreshCalls :
            IF isSubmitting THEN call'[d] = "idle" <=> call'["create"] # "idle"
            ELSE call'[d] = "idle" /\ call'["create"] = "idle"
  BY <1>1, <1>2, <1>3 DEF WaitsForAnswers
<1>5. CASE c = "create"
  <2>1. isSubmitting /\ \A d \in RefreshCalls : call[d] = "idle"
    BY <1>2, <1>5 DEF WaitsForAnswers, RefreshCalls
  <2>2. \A d \in RefreshCalls : call'[d] = "idle"
    BY <1>2, <1>3, <2>1
  <2> QED
    BY <1>1, <1>4, <1>5, <2>1, <2>2 DEF WaitsForAnswers, IsOrderFor
<1>6. CASE c # "create"
  <2>1. call'["create"] = call["create"]
    BY <1>1, <1>2, <1>6
  <2>2. (\E d \in RefreshCalls : call'[d] # "idle") <=> (\E d \in RefreshCalls : call[d] # "idle")
    BY <1>3
  <2> QED
    BY <1>4, <1>6, <2>1, <2>2 DEF WaitsForAnswers, IsOrderFor
<1> QED
  BY <1>5, <1>6

\* The server's steps.
LEMMA ServerIsAwaited ==
    ASSUME IInv, WaitsForAnswers, Server
    PROVE  WaitsForAnswers'
<1>0. TypeOK
  BY DEF IInv
<1>1. ASSUME NEW c \in Calls, UpsertFindsNoProfile(c) PROVE WaitsForAnswers'
  <2>1. /\ call[c] = "sent" /\ call' = [call EXCEPT ![c] = "inserting"]
        /\ UNCHANGED <<bootstrap, isSubmitting, submissionError, createInput, createReply>>
    BY <1>1 DEF UpsertFindsNoProfile, appVars, bootstrapVars
  <2>2. c = "create" => createReply = NoOrder
    BY <2>1 DEF WaitsForAnswers, RefreshCalls
  <2> QED
    BY <1>0, <2>1, <2>2, AnswersAreAwaited
<1>2. ASSUME NEW c \in Calls, UpsertInserts(c) PROVE WaitsForAnswers'
  <2>1. /\ call[c] = "inserting" /\ call' = [call EXCEPT ![c] = "resolved"]
        /\ UNCHANGED <<bootstrap, isSubmitting, submissionError, createInput, createReply>>
    BY <1>2 DEF UpsertInserts, appVars, bootstrapVars
  <2>2. c = "create" => createReply = NoOrder
    BY <2>1 DEF WaitsForAnswers, RefreshCalls
  <2> QED
    BY <1>0, <2>1, <2>2, AnswersAreAwaited
<1>3. ASSUME NEW c \in Calls, CallFails(c) PROVE WaitsForAnswers'
  <2> DEFINE state == Finished(c, "failed")
  <2>1. /\ call[c] # "idle" /\ call' = [call EXCEPT ![c] = state]
        /\ createReply' = IF c = "create" THEN NoOrder ELSE createReply
        /\ UNCHANGED <<bootstrap, isSubmitting, submissionError, createInput>>
    BY <1>3 DEF CallFails, InFlight, appVars, bootstrapVars
  <2>2. /\ state \in {"idle", "failed"}
        /\ state # "idle" \/ (c \in BootstrapCalls /\ bootstrap # "loading")
    BY DEF Finished
  <2> HIDE DEF state
  <2> QED
    BY <1>0, <2>1, <2>2, AnswersAreAwaited
<1>4. ASSUME NEW c \in ListCalls, NEW user \in UserIds \cup {DevUser, MockUser},
             ServeList(c, user)
      PROVE  WaitsForAnswers'
  <2> DEFINE state == Finished(c, "answered")
  <2>1. /\ call[c] # "idle" /\ call' = [call EXCEPT ![c] = state]
        /\ UNCHANGED <<bootstrap, isSubmitting, submissionError, createInput, createReply>>
    BY <1>4 DEF ServeList, ActsFor, appVars, bootstrapVars
  <2>2. /\ c \in Calls /\ c # "create"
        /\ state # "idle" \/ (c \in BootstrapCalls /\ bootstrap # "loading")
    BY DEF Finished, ListCalls, Calls, BootstrapCalls, RefreshCalls
  <2> HIDE DEF state
  <2> QED
    BY <1>0, <2>1, <2>2, AnswersAreAwaited
<1>5. ASSUME NEW id \in PublicIds, NEW user \in UserIds \cup {DevUser, MockUser},
             NEW rates \in UsdtRubRates(AtomicRates), ServeCreate(id, user, rates)
      PROVE  WaitsForAnswers'
  <2>1. /\ call["create"] # "idle" /\ call' = [call EXCEPT !["create"] = "answered"]
        /\ UNCHANGED <<bootstrap, isSubmitting, submissionError, createInput>>
    BY <1>5 DEF ServeCreate, ActsFor, appVars, bootstrapVars
  <2>2. IsOrderFor(createReply', createInput)
    BY <1>5, CreatedOrderFits
  <2>3. "create" \in Calls
    BY DEF Calls
  <2> QED
    BY <1>0, <2>1, <2>2, <2>3, AnswersAreAwaited
<1>6. ASSUME NEW row \in orders, NEW status \in LaterStatuses, OrderMoves(row, status)
      PROVE  WaitsForAnswers'
  BY <1>6 DEF OrderMoves, appVars, bootstrapVars, callVars, WaitsForAnswers, IsOrderFor
<1> QED
  BY <1>1, <1>2, <1>3, <1>4, <1>5, <1>6 DEF Server, Serve

\* The app's own steps.
LEMMA ClientWaits ==
    ASSUME IInv, WaitsForAnswers, Customer \/ BootstrapArrives \/ SubmissionArrives
    PROVE  WaitsForAnswers'
<1>0. /\ \A c \in RefreshCalls : c # "create" /\ c \notin BootstrapCalls /\ c \in Calls
      /\ "create" \notin BootstrapCalls /\ "create" \in Calls
      /\ RefreshCalls # {}
      /\ call \in [Calls -> CallStates]
  BY DEF Calls, BootstrapCalls, RefreshCalls, IInv, TypeOK
<1>1. ASSUME NEW next, Goes(next), submissionError' \in {FALSE, submissionError}
      PROVE  WaitsForAnswers'
  <2>1. UNCHANGED <<isSubmitting, bootstrap, call, createInput, createReply>>
    BY <1>1 DEF Goes, bootstrapVars, callVars
  <2>2. ~submissionError => ~submissionError'
    <3>1. CASE submissionError' = FALSE
      BY <3>1
    <3>2. CASE submissionError' = submissionError
      BY <3>2
    <3> QED
      BY <1>1, <3>1, <3>2
  <2> QED
    BY <2>1, <2>2 DEF WaitsForAnswers, IsOrderFor
<1>2. ASSUME NEW direction \in Directions, NEW amount \in Amounts,
             HandleCreate(direction, amount)
      PROVE  WaitsForAnswers'
  <2>1. /\ ~isSubmitting /\ isSubmitting' = TRUE /\ submissionError' = FALSE
        /\ createInput' = [direction |-> direction, amount |-> amount]
        /\ call' = [call EXCEPT !["create"] = "sent"]
        /\ UNCHANGED <<bootstrap, createReply>>
    BY <1>2 DEF HandleCreate, CanCreate, BuildOrderInput, bootstrapVars
  <2>2. createReply = NoOrder /\ \A c \in RefreshCalls : call[c] = "idle"
    BY <1>0, <2>1 DEF WaitsForAnswers
  <2>3. /\ \A c \in RefreshCalls : call'[c] = "idle"
        /\ \A c \in BootstrapCalls : call'[c] = call[c]
        /\ call'["create"] = "sent"
    BY <1>0, <2>1, <2>2 DEF Calls
  <2>4. createInput' \in Inputs
    BY <2>1 DEF Inputs
  <2> QED
    BY <2>1, <2>2, <2>3, <2>4 DEF WaitsForAnswers
<1>3. CASE Customer
  <2>1. CASE \E next \in Screens : Navigate(next)
    BY <1>1, <2>1 DEF Navigate
  <2>2. CASE HandleBack
    BY <1>1, <2>2 DEF HandleBack
  <2>3. CASE HandleHome \/ OpenDetail
    BY <1>1, <2>3 DEF HandleHome, OpenDetail
  <2>4. CASE \E row \in Cards : OpenOrder(row)
    BY <1>1, <2>4 DEF OpenOrder
  <2>5. ASSUME NEW direction \in Directions,
               OpenForm(direction) \/ Continue(direction) \/ ChangeOrder(direction)
        PROVE  WaitsForAnswers'
    BY <1>1, <2>5 DEF OpenForm, Continue, ChangeOrder
  <2> QED
    BY <1>2, <1>3, <2>1, <2>2, <2>3, <2>4, <2>5 DEF Customer
<1>4. CASE BootstrapArrives
  <2>1. /\ bootstrap' # "loading"
        /\ \A c \in Calls : c \notin BootstrapCalls => call'[c] = call[c]
        /\ UNCHANGED <<isSubmitting, submissionError, createInput, createReply>>
    BY <1>4 DEF BootstrapArrives, BootstrapSucceeds, BootstrapFails
  <2>2. /\ \A c \in RefreshCalls : call'[c] = call[c]
        /\ call'["create"] = call["create"]
    BY <1>0, <2>1
  <2> QED
    BY <2>1, <2>2 DEF WaitsForAnswers, IsOrderFor
<1>5. CASE CreateAnswered
  <2>1. /\ call["create"] = "answered"
        /\ \A c \in Calls : call'[c] = CASE c = "create" -> "idle"
                                         [] c \in RefreshCalls -> "sent"
                                         [] OTHER -> call[c]
        /\ UNCHANGED <<bootstrap, isSubmitting, submissionError, createInput, createReply>>
    BY <1>5 DEF CreateAnswered, appVars, bootstrapVars
  <2>2. /\ call'["create"] = "idle"
        /\ \A c \in RefreshCalls : call'[c] = "sent"
        /\ \A c \in BootstrapCalls : call'[c] = call[c]
    BY <1>0, <2>1 DEF Calls
  <2>3. isSubmitting /\ IsOrderFor(createReply, createInput)
    BY <1>0, <2>1 DEF WaitsForAnswers
  <2> QED
    BY <1>0, <2>1, <2>2, <2>3 DEF WaitsForAnswers, IsOrderFor
<1>6. ASSUME NEW calls \in SUBSET Calls, Settled(calls), RefreshCalls \subseteq calls,
             calls \cap BootstrapCalls = {}, "create" \in calls \/ call["create"] = "idle",
             UNCHANGED bootstrap
      PROVE  WaitsForAnswers'
  <2>1. /\ isSubmitting' = FALSE /\ createInput' = NoInput /\ createReply' = NoOrder
        /\ \A c \in Calls : call'[c] = IF c \in calls THEN "idle" ELSE call[c]
    BY <1>6 DEF Settled
  <2>2. /\ \A c \in RefreshCalls : call'[c] = "idle"
        /\ call'["create"] = "idle"
        /\ \A c \in BootstrapCalls : call'[c] = call[c]
    BY <1>0, <1>6, <2>1 DEF Calls
  <2> QED
    BY <1>6, <2>1, <2>2 DEF WaitsForAnswers
<1>7. CASE SubmissionFails
  BY <1>0, <1>6, <1>7 DEF SubmissionFails, bootstrapVars
<1>8. CASE SubmissionSucceeds
  <2>1. call["create"] = "idle"
    BY <1>0, <1>8 DEF SubmissionSucceeds, Answered, WaitsForAnswers
  <2> QED
    BY <1>0, <1>6, <1>8, <2>1 DEF SubmissionSucceeds, bootstrapVars
<1> QED
  BY <1>3, <1>4, <1>5, <1>7, <1>8 DEF SubmissionArrives

\* The spinner and the disabled button always have a request they wait for: it
\* is under way, or has ended and the app is about to handle it.
THEOREM ScreenWaitsForAnswers == Spec => []WaitsForAnswers
<1>1. Init => WaitsForAnswers
  <2> SUFFICES ASSUME Init PROVE WaitsForAnswers
    OBVIOUS
  <2>1. /\ \A c \in RefreshCalls \cup {"create"} : call[c] = "idle"
        /\ runtime.mode # "none" => \A c \in BootstrapCalls : call[c] = "sent"
    BY DEF Init, Calls, RefreshCalls, BootstrapCalls
  <2> QED
    BY <2>1 DEF Init, WaitsForAnswers
<1>2. IInv /\ WaitsForAnswers /\ [Next]_vars => WaitsForAnswers'
  <2> SUFFICES ASSUME IInv, WaitsForAnswers, [Next]_vars PROVE WaitsForAnswers'
    OBVIOUS
  <2>1. CASE UNCHANGED vars
    BY <2>1 DEF vars, appVars, callVars, bootstrapVars, WaitsForAnswers, IsOrderFor
  <2> QED
    BY <2>1, ServerIsAwaited, ClientWaits DEF Next
<1> QED
  BY <1>1, <1>2, Inductive, PTL DEF Spec

\* A submission ends with an error or with the order that was submitted.
THEOREM SubmittedIsShown == Spec => SubmissionShowsItsOrder
<1> DEFINE Shows ==
        isSubmitting /\ ~isSubmitting' =>
         \/ submissionError'
         \/ /\ IsOrderFor(selectedOrder', createInput)
            /\ screen' = CreatedScreen(createInput.direction)
<1>1. WaitsForAnswers /\ [Next]_vars => [Shows]_vars
  <2> SUFFICES ASSUME WaitsForAnswers, Next, isSubmitting, ~isSubmitting'
               PROVE  Shows
    OBVIOUS
  <2>1. SubmissionArrives
    BY DEF Next, Server, Serve, UpsertFindsNoProfile, UpsertInserts, CallFails, ServeList,
       ServeCreate, OrderMoves, appVars, Customer, Navigate, HandleBack, HandleHome,
       OpenDetail, OpenOrder, OpenForm, Continue, ChangeOrder, HandleCreate, Goes,
       BootstrapArrives, BootstrapSucceeds, BootstrapFails
  <2>2. CASE SubmissionFails
    BY <2>2 DEF SubmissionFails
  <2>3. CASE SubmissionSucceeds
    <3>1. IsOrderFor(createReply, createInput)
      BY <2>3 DEF SubmissionSucceeds, Answered, WaitsForAnswers, RefreshCalls
    <3> QED
      BY <2>3, <3>1 DEF SubmissionSucceeds
  <2> QED
    BY <2>1, <2>2, <2>3 DEF SubmissionArrives, CreateAnswered, appVars
<1> QED
  BY <1>1, ScreenWaitsForAnswers, PTL DEF Spec, SubmissionShowsItsOrder
=============================================================================

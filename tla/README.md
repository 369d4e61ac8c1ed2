# A TLA+ model of the exchange office

The repository is a Telegram mini app, an administration app and a Fastify/Prisma
API for exchanging USDT (TRC20) against cash in an office. Customers create BUY and
SELL orders; a SELL order gets a TRON deposit address of its own; a scheduled watcher
records the transfers to these addresses; a scheduled job expires orders nobody paid;
managers decide everything else. No private key is in the system: the back end is a
state machine over PostgreSQL rows that several processes change concurrently, and
the two apps are state machines whose requests overlap and are answered in any order.
These state machines are what the modules model, check and prove things about.

Paths are relative to the repository root (`src/...` is the application code).
`PROJECT.json` maps every definition to the lines it models.

## 1. Inventory

### Components with state of their own

| component | state | operations | interacts with |
| --- | --- | --- | --- |
| order creation (`src/orders/orderApplicationService.ts`, `orderService.ts`, `src/address-pool/reserveDepositAddress.ts`) | `Order`, `DepositAddress`, `TelegramProfile` rows; row locks of a transaction | create BUY order; create SELL order: find the lowest available address, reserve it, retry, write the profile, insert, commit | other requests through rows and locks; the import |
| address pool import (`src/address-pool/`) | `DepositAddress` rows | import a CSV, all or nothing | order creation |
| order managers (`src/orders/orderManagerService.ts`) | `Order.status`, `payoutTxId`, `AuditLog` | set a status, record a payout | expiration, ingestion, other managers through order rows |
| order expiration (`src/orders/expireOrders.ts`) | `Order.status`, `DepositAddress.status`, `AuditLog` | expire the oldest due orders in one transaction | the same |
| deposit ingestion (`src/tron/ingestUsdtDeposit.ts`) | `BlockchainTransaction`, `Order.status`, `DepositAddress.status`, `AuditLog` | ingest one transfer | called by the watcher |
| deposit watcher (`src/tron/runUsdtDepositWatcher.ts`, `runUsdtDepositWatcherOnce.ts`, the two command lines) | `WatcherCursor`; the page and range of a pass | one pass; configure the cursor | provider, ingestion, operators, overlapping passes |
| TRON provider (`src/tron/tronWebProvider.ts`, `normalizeUsdtTransfer.ts`) | cache of block events | latest block, transfers of a block range | the chain, the watcher |
| admin access (`src/admin/`, part of `src/api/createApp.ts`) | `AdminUser` rows, signed sessions, login limiter | log in, authorize, disable, provision | the API |
| HTTP API (`src/api/`) | none but the login limiter | route a request, authorize it, stamp it with `now` | all services |
| telegram identity (`src/telegram/`, `src/users/`) | `User` and `TelegramProfile` rows | validate init data, upsert a profile | order creation, lists |
| mini app (`src/mini-app/`) | screen, lists, selected order, requests in flight | bootstrap, open, submit, refresh | the API as one Telegram customer |
| admin app (`src/admin-app/`) | stored session, queue, opened order and drafted status, requests in flight | log in and out, reload, refresh, open, update | the API with a session |

Without state: rate quotes (`src/rates/`), the replay dry run
(`src/tron/replayUsdtDepositDryRun.ts`), order lists (`src/orders/orderReadService.ts`),
wallet tools (`src/wallet/`), command lines.

### What is hard, and what makes each part correct

- **Transactions are READ COMMITTED and read before they write.** Manager, expiration
  and ingestion all read rows, decide, and write later; anything may happen in
  between. Correct means: an order that still awaits its deposit is unpaid and holds a
  reserved address; `funds_detected` is justified by an exact transfer in time; no
  batch expires a paid order; a payout is never replaced; each change leaves its audit
  row.
- **Transfers come late, twice and through two passes.** A transfer has effect once,
  under the order that held its address when it was mined.
- **Addresses are a shared, exhaustible pool.** An address goes to one order in its
  life; a failed request gives it back; requests do not deadlock.
- **The watcher is a one-shot process that may die anywhere, overlap with another one,
  or see only part of its transfers succeed.** The cursor may pass a block only when
  every transfer in it that matters is settled.
- **Jobs run for ever.** An overdue order eventually stops waiting, a transfer is
  eventually recorded, and no bad row blocks either job.
- **The apps have several requests under way.** An answer takes effect when it arrives,
  whatever was opened, submitted or logged out meanwhile. Correct means: the screen of a
  created order shows that order; an app that failed to start shows none; what the
  console submits fits the order it names; no spinner stays for ever.
- **Authorization comes before the act.** The login limiter is read before the password
  is checked, a session before the request it carries, an account before it is disabled.
  Correct means: a bounded number of guesses, no authorization by a revoked session, a
  `disabledAt` that is never too late.
- **The same decision is coded twice.** The dry run repeats the ingestion's decisions, the
  order lists divide the statuses by hand, the mini app prices what the server prices
  again, the console offers what the server checks.

`PROJECT.json` lists every hazard at its line, with the properties that would catch it
going wrong, or the reason why no property covers it yet.

## 2. The modules

```
ExchangeDomain              statuses, status sets, the two decisions of the ingestion
  OrderLifecycle            orders, addresses and transfers; customers, managers,
    |                       expiration and ingestion as interleaved transactions
    |                       (implements OrderBook)
    +- DepositWatcher       passes of the watcher around the lifecycle's ingestions
    +- ReplayDryRun         what the dry run reports, in a state of the lifecycle
  OrderQueries              the active and history lists, single orders
    +- ReplayDryRun
    +- MiniApp              a customer's app and the API that answers it
    +- AdminConsole         a manager's console and the API that answers it
OrderBook                   abstract: orders whose operations are one step each
AddressAllocator            abstract: each order is given one address of its own
AddressReservation          the SELL transaction statement by statement, with locks
RateQuote                   how an order is priced (used by MiniApp)
AdminAccess                 account, sessions, limiter, operators (used by AdminConsole)

OrderLifecycleProofs, OrderBookProofs, AddressReservationProofs, DepositWatcherProofs,
ReplayDryRunProofs, MiniAppProofs, AdminAccessProofs, AdminConsoleProofs
MCOrderLifecycle, MCAddressReservation, MCDepositWatcher, MCMiniApp, MCAdminConsole
```

`OrderLifecycle` implements `OrderBook` and, like `AddressReservation`,
`AddressAllocator`; `DepositWatcher` implements `OrderLifecycle`, and `AdminConsole`
implements `AdminAccess`. All of these refinements are proved. TLC also checks those of
`OrderBook`, of `AddressAllocator` by `AddressReservation`, and of `OrderLifecycle`.

### OrderBook

What the exchange promises about an order if requests and jobs took no time: `OpenSell`,
`OpenBuy`, `Credit` (a transfer), `Lapse` (a set of overdue orders), `Decide` (a manager)
and `PayOut` look at the rows and change them in one step. In `OrderLifecycle` each of
them is a read, an arbitrary delay and a write. `ImplementsOrderBook` says that every
commit is one such operation, whose precondition holds *when it commits*: the
conditional updates of the batch, the ingestion and the payout do their work. `Decide`
alone has no precondition on the order's status, because the code's status update has
none (see the first finding); its outcome is only one that fits the direction and is
settable by managers. Addresses' statuses and the audit log are left out.

### OrderLifecycle

A variable per column that matters (`status`, `orderExpiresAt`, `depositAddress`,
`payoutTxId` of orders; `addressStatus`, `reservedAt` of addresses; `deposits` for the
`BlockchainTransaction` rows), the wall clock, the transfers on the chain, and for
every transaction in flight what it has read (`managerTxn`, `expiryTxn`, `ingestTxn`).
`audit` holds the `AuditLog` rows of the latest step, so that action properties can say
who changed what.

Each transaction of a manager, a batch or an ingestion is a *read* action, which
remembers the row it saw, and a *write* action or a *rollback*. The write phase is one
action although it is several statements: every row lock it takes is held until the
commit, and every conditional update re-evaluates its condition on the committed row,
so that no other transaction sees or changes anything in between. The two SELECTs of
`ingestUsdtDepositInDb` are one read for the same reason: everything they find is
checked again by the conditional updates, except facts that never change (owner,
deadline, amount). Creating a SELL order is one action here; `AddressReservation` opens
it up.

`now` is read when a request arrives and used when its transaction commits: customers'
actions choose any `now` not older than `MaxRequestDelay`, so an order may be due, and
its address paid, at the moment it appears.

Amounts are model values: the code compares canonical decimal strings, which is
equality of amounts. Comments, actor ids, names, the rate snapshot and the payout
address only travel and are left out.

### AddressReservation

The statements of `createSellUsdtOrderInDb` (and of `reserveDepositAddress`) between
BEGIN and COMMIT. The tables hold committed rows; the writes of an open transaction are
in its `request` record and in the locks it holds: on the address it updated, on its
customer's profile row, on the `publicId` it inserted. A statement that needs a held
lock is not enabled. A request retries when its candidate was taken
(`MaxReservationAttempts`, 3 in the code), gives up, is refused by the unique index, is
lost at any statement, or commits. `ImportAddressPool` adds rows while this goes on.
`AllAnswered` lets the model stutter once every request ended, so that TLC's deadlock
check means exactly: no request waits for ever.

### DepositWatcher

Extends `OrderLifecycle`, whose `Ingesters` become passes. A pass reads the cursor and
the latest block (`StartPass`), reads pages of watched addresses and the transfers to
them (`FetchPage`), ingests the transfers one by one (`ReadTransfer`, then one of
`RecordTransfer`, `SkipDuplicate`, `FailOnConflict`; or `IgnoreTransfer`,
`FailMalformed`, `FailOnDatabaseError`), and moves the cursor by compare-and-set
(`MoveCursor`) or ends without progress. It can be lost anywhere (`LosePass`), and
operators may configure the cursor at any moment (`ConfigureCursor`). Everyone else
acts between any two steps (`Others`).

- Blocks are clock ticks: block n+1 is mined while the clock shows n.
- `EventLag` is how long a block's events may be missing from the provider's answers
  (it asks for confirmed events only). `DepthAssumption` is what the confirmation depth
  is configured for: it is at least `EventLag`. Transfers younger than `EventLag` are
  arbitrarily missing from an answer.
- Because the blocks scanned are confirmed, answers for them never change; hence
  reading a page and fetching its transfers can be one action, and the provider's
  per-block cache changes nothing here.
- Reading the cursor and the latest block is one action: a cursor that changes in
  between is caught by the compare-and-set, like one that changes later.
- The safe block is floored at 0, which gives the same `noop` as the code's negative
  number.
- The runbook asks for a single active instance of each job; overlapping passes and
  batches are modelled nevertheless, because only a convention prevents them.
- `SendToOrder`: somebody who sends USDT to a deposit address knows it from an order.
  In `OrderLifecycle` alone transfers may go to any address at any time.
- `configuredBlock` and `leftWatch` are history variables: where an operator last put
  the cursor, and which orders were ever closed to ingestion. They appear in
  properties only.

### OrderQueries and ReplayDryRun

Operators over order rows and over the states of `OrderLifecycle`; neither changes
anything, so they are evaluated in every state of `lifecycle_sell`. A list is the set of
its rows, cut at its limit by `createdAt`. `ClassifyReplayTransfer` keeps every early
return of `classifyReplayTransfer` in its order. The dry run does not look for transfers
that were recorded already, and `ReplayAgreesWithIngestion` leaves these out.

### RateQuote

`createBuyUsdtQuote` and `createSellUsdtQuote` on integers: a decimal string is the
integer at its scale, `AtomicScale` the power of ten between the scales, `MaxAtomic` the
limit of a `Decimal(36, _)` column. Division of BigInts of natural numbers is `\div`.

### MiniApp

One customer's app from the moment it is opened. `runtime` is what
`loadMiniAppRuntimeConfig` makes of a build and of how it was opened; it decides whether
the requests go to the mock or to the API, and as whom. Each request is `sent`, served
in one step (`ServeList`, `ServeCreate`; the profile's upsert before it is a read and an
insert of their own, `UpsertFindsNoProfile` and `UpsertInserts`), and its answer takes
effect in a later step, or it fails at any moment before that (`CallFails`), also after
the server acted. `BootstrapSucceeds` needs all first requests and `BootstrapFails` one
of them, as `Promise.all` does; `CreateAnswered` sends the refresh of the lists, and
`SubmissionSucceeds` or `SubmissionFails` ends `submitOrder`. `Navigate`, `HandleBack`,
`OpenForm`, `Continue`, `ChangeOrder`, `OpenOrder`, `OpenDetail` and `HandleHome` are
what the screens offer meanwhile; the error screen replaces only the screen, the bottom
bar stays.

- The first requests are four; those for the rates and the profile are left out, because
  they can only fail like the two that are modelled.
- `createdAt` is the position of an order in the order of creation.
- The mock is a server of its own: it never fails, closes no order, accepts a zero amount.
- Managers and jobs change one order once (`OrderMoves`): what they do is
  `OrderLifecycle`'s; here it matters that a row that was read is old when it is shown.
- `NewUserId` chooses one id, because the ids the database generates are interchangeable.
- A request nobody waits for any more is dropped when it is given up: whatever the server
  would still do with it, it could have done before.

### AdminAccess and AdminConsole

`AdminAccess` is one username: its `AdminUser` row, its count in the limiter, the logins
and `disable` commands under way. A login is let pass by the limiter (`LoginArrives`) and
ends later (`LoginSucceeds`, `LoginFails`, `LoginIsLost`); a disable command reads
(`DisableFindsEnabled`) and updates (`DisableUpdates`) in two steps, with the time at
which it was started; provisioning is one upsert. `RestartApi` empties the limiter and
loses the logins. `disabledSince` is a history variable: when the account stopped working.

`AdminConsole` adds one browser. A request carries the session and the mode current when
it was sent; the server authorizes it (`Authorize`), acts (`ServeList`, `ServeOrder`,
`ServeChange`) and answers in separate steps; the answer takes effect when it arrives
(`ListArrives`, `OpenArrives`, `ChangeArrives`, `RequestIsRefused`, `ListIsLost`).
`Shows` is the React effect that drafts a status whenever another order is selected. The
one `loading` label stands for all requests, as in the code. `Reload` reads the session
from the storage and forgets the requests; `LogOut` does not wait for them. `stale` is a
history variable: the request's session was revoked when the request was sent, and the
account was not provisioned since.

`bound` is not part of the code: it picks one of several small instances, each with its
own actors, so that one run explores them side by side.

## 3. What is checked

| run | instance | properties |
| --- | --- | --- |
| `lifecycle_sell` | one SELL order, two addresses, two transfers of an exact or a wrong amount, two ingestions, a manager with every settable status, one batch | `AwaitingOrderIsUnpaid`, `FundsDetectedIsJustified`, `FundedMeansRecorded`, `DepositsBelongToTheirOrder`, `AuditRecordsEveryChange`, `TransferTakesEffectOnce`, `ReplayAgreesWithIngestion`, `EveryOrderIsListedOnce` |
| `lifecycle_batch` | two SELL orders and a BUY order, two batches of two | `ExpirationBatchNeverThrows`, `ExpirationTakesUnpaidDueOrders`, `BatchesAreDoneWith`, `AddressesAreNeverReused`, `ImplementsOrderBook` |
| `lifecycle_buy` | two BUY orders, two payout transactions, two managers | `BuyCompletionIsPaid`, `PayoutIsFinal`, `OnlyStaleUpdatesReopenOrders` |
| `lifecycle_overdue` | a SELL and a BUY order, batches of one, fairness | `OverdueOrderStopsWaiting` |
| `lifecycle_terminal` | one BUY order, two managers, a payout | `ManagersLeaveTerminalOrders` is violated |
| `reservation` | four SELL requests of three customers, two with one `publicId`, three addresses, two attempts | `ReservedMeansOrdered`, `AttemptsAreLostToOrders`, `NoCircularWait`, `RequestsRunOut`, `ImplementsAllocator`, no deadlock |
| `watcher_pass` | two passes, one order, two transfers, an operator with two cursor positions | `CursorCoversTransfers`, `CursorGoesForward`, `ImplementsLifecycle` |
| `watcher_pages` | two orders on two pages, one malformed event, a manager, a batch | `WatcherIInv`, `PassesRunOut` |
| `watcher_live` | one order, two transfers, fairness | `TransfersAreEventuallyRecorded` |
| `watcher_repeated` | one order, two transfers | `EveryTransferIsRecorded` is violated |
| `mini_app` | a customer with or without a profile and an old order, five builds, one SELL and one BUY order to submit, fairness | `FailedAppShowsNoOrder`, `CustomerIsOneUser`, `OrdersArePricedByTheirRate`, `SubmissionShowsItsOrder`, `OnlyFirstRequestsReplaceCreatedOrder`, `NothingSpinsForEver` |
| `admin_console` | five instances side by side, fairness | `ConsoleShowsOrdersOnce`, `LimiterBoundsGuesses`, `DisabledAtIsNotLate`, `RevokedSessionChangesNothing`, `ConsoleFitsServer`, `NothingLoadsForEver` |

**Bounds.** `MaxTime` stops the clock; 2 gives an instant before, at and after a
deadline at 1, and 3 gives the watcher two blocks beyond its confirmation depth, that
is two consecutive passes. `MaxRequestDelay = 1` makes orders due when they commit.
`ManagerTargets` restricts the statuses managers ask for where other actors are the
point: `pending_aml` and `manager_review` suffice to take an order out of a batch or
out of the watch and back. Two transfers suffice for repeated, duplicated and wrong
payments of one order; two actors of a kind for every race, since each conflict in this
code is between two transactions over one row. `CursorConfigs` is what operators
configure: the first or the second block, so that moves back and forward both happen.
`mini_app` submits each public id once: an order of either direction after an old one,
and with it the first requests, a creation and a refresh under way together. Its scale of
5, amounts 1 and 8 and rates 2 and 7 give an order rounded to zero and others that are
not exact. Its builds are production opened from Telegram and by hand, production with
the settings of a local build, a local build, and the mock. The instances of
`admin_console` are: three concurrent logins with two passwords, a limit of two and a
window that ends; two operators disabling one account while it is provisioned; a session
that is revoked by expiry, by disabling and by a change of role while its console sends
one request; two requests under way with a BUY and a SELL order; two requests under way
in two modes, with an order that expires meanwhile. Lists are shorter than their limits
(5, 10, 50), so that these never cut one.

Actors and orders are symmetric, addresses only where their derivation index plays no
role. The runs that bound the clock disable TLC's deadlock check, because time really
ends there; `reservation` keeps it.

**Fairness.** `ExpirationFairness`: the scheduler starts the job every one to five
minutes (`docs/operations-scheduler.md:97-103`), so a batch that could be read is
eventually read (weak), and not every run dies or throws before it commits (strong,
because a rollback disables the write). `WatcherFairness`: blocks are mined, a pass
that can take a step eventually takes it, an unconfigured cursor is eventually
configured, and breakdowns and operators' moves of the cursor come to an end.
`RequestsEnd` of the apps: a `fetch` is settled by an answer or by an error (weak, for
each request), and what has settled is handled. That a request ends well is never
assumed. Nothing is assumed about customers and managers, so both may go on submitting
for ever, and the properties say that the app is free again and again; a page that is
loaded again and again before anything arrives is excepted in `NothingLoadsForEver`.

### Findings

- **`lifecycle_terminal`.** `setManagerOrderStatusInDb` refuses to change a terminal
  order, but it checks the row it read and then updates by `publicId` only, while the
  payout path next to it repeats its condition in the update. Two manager requests, or
  a manager and a payout, a batch or an ingestion, can therefore overwrite a terminal
  status. `PayoutIsFinal` and `BuyCompletionIsPaid` hold all the same, because the
  payout's own update requires `payoutTxId` to be null. A manager's audit row
  names the status the request had read, also when it overwrites another one; the rows of
  the jobs are exact (`AuditRecordsEveryChange`).
- **`watcher_repeated`.** `README.md:187` says that repeated transfers are recorded
  for manager review. They are while the order is under review or late; after an exact
  first transfer the order is `funds_detected`, its address leaves the watch, and the
  cursor passes a second transfer unrecorded. `CursorCoversTransfers` is the guarantee
  that does hold: no transfer to an order that has always been open is passed.

### What else modelling showed

These behaviours are in the models and contradict no property; they are worth knowing
when the code is changed.

- **First requests after an order.** A customer may submit an order before the first
  requests are answered. Their answer then selects the newest order of a list read
  before the creation, under the customer's eyes on the screen of the created order
  (`src/mini-app/App.tsx:198-206`). What the screens
  are designed to show (`docs/design/telegram-mini-app-ui-spec.md:114-116`) is lost in no
  other way (`OnlyFirstRequestsReplaceCreatedOrder`).
- **A lost refresh looks like a lost order.** When the order was created and only its
  answer or the refresh fails, the app reports that the order could not be created
  (`src/mini-app/App.tsx:335-344`); trying again creates a second one.
- **A late command overwrites `disabledAt`.** `README.md:444-445` says that the first
  timestamp is preserved; `src/admin/disableAdminUser.ts:73` updates by username only, so
  of two concurrent commands the later one wins. `DisabledAtIsNotLate` is what holds.
- **A queue of the other mode.** A submission refreshes the queue of the mode in which it
  was sent; after a change of mode the console can show the other list
  (`src/admin-app/App.tsx:204`). What is submitted from it still fits its order
  (`ConsoleFitsServer`).
- **A lost race is an internal error.** The messages of a terminal order and of a status
  of the wrong direction are not among `DOMAIN_VALIDATION_PATTERNS`
  (`src/api/createApp.ts:107`), so the manager who comes second gets a 500.

## 4. What is proved

`tlapm` proves the following for every value of the constants: any number of
orders, addresses, transfers, actors and requests, any deadlines, page sizes, amounts
and rates.

- **OrderLifecycleProofs.** `IInv` is inductive (`Inductive`), and from it follow
  `TypeOK`, `AwaitingOrderIsUnpaid`, `ExpirationBatchNeverThrows`,
  `FundsDetectedIsJustified`, `FundedMeansRecorded`, `DepositsBelongToTheirOrder`,
  `BuyCompletionIsPaid` and the refinement of `AddressAllocator`, and the action
  properties `ExpirationTakesUnpaidDueOrders`, `PayoutIsFinal`,
  `AuditRecordsEveryChange`, `TransferTakesEffectOnce` and `AddressesAreNeverReused`.
  None of these is inductive alone. What a transaction remembers
  is stale, so the invariant says what of it stays true: the orders of a batch exist
  and were due (deadlines never move, the clock does not go back); the order of an
  ingestion still owns the address of its transfer (addresses never change hands); a
  status update of a BUY order never asks for `completed`. With
  `AddressesHaveOneOrder`, the write of one order cannot disturb another order's
  address, and a batch that finds an order still waiting finds its address still
  reserved.
- **OrderBookProofs.** `BookRefinement` is that `OrderLifecycle` implements `OrderBook`.
  Reads and rollbacks map to stutters; each write maps to one operation
  (`CommitsAreOperations`), whose precondition is rebuilt at the commit from the
  condition of the update and from `IInv`: an order of a batch that is still waiting is
  still due and unpaid (`StillSeenOverdue`), a transfer in hand is one of the chain
  (`OnChain`). What follows of an order is then argued about single operations
  (`OperationsKeepTerms`, `OperationsMoveOrders`, `OperationsJudgeByDeadline`): its
  deadline, its address and its recorded transfers stay (`TermsAreKept`), it waits for its
  customer once (`WaitingIsOnce`), it counts as paid late only for a transfer mined after
  its deadline (`LateIsLate`). `TerminalExits` delimits the first finding: apart from a
  status update that read the order before it became terminal, only a transfer to an
  expired order changes a terminal order. `BatchesEndWaiting` is the safety part of
  `OverdueOrderStopsWaiting`: since an order waits once, what a batch had to skip has
  stopped waiting for good (`BatchesReadWaitingOrders`), so that a batch that commits
  leaves none of its orders waiting; each batch takes the oldest, so the orders in front
  of an overdue one only get fewer.
- **AddressReservationProofs.** `IInv` adds to `ReservedMeansOrdered` what a request
  holds at each stage (`LocksMatchStages`): an address lock belongs to the request
  between its reservation and its commit, and a locked row is still `available` for
  everyone else. From it follow the absence of leaks, the refinement of
  `AddressAllocator`, and `NoDeadlock`: a request waits only for requests further in
  the transaction, so the order address, profile, publicId of the statements is a lock
  order. `AttemptsLost` counts: while a request holds a candidate, its attempts are
  at most the created orders that took *another* address (`AttemptsAreCounted`);
  a candidate that is gone adds one to them. `AddressesAreNotShared` carries the
  allocator's promise over: no two committed orders hold one address.
  `RequestsEnd` and `NobodyStarves` are what termination rests on. Each request has a
  number of statements left (`StatementsLeft`, from its stage and its attempts), a
  natural number that each of its steps lowers and no step of another request raises;
  and while a request runs, one of those that run is not waiting for a lock, because
  locks are taken in the order of the statements. That requests do end is then a matter
  of scheduling.
- **DepositWatcherProofs.** Every step of the watcher is a lifecycle step or leaves it
  alone (`WatcherRefinement`), so everything proved of the lifecycle holds with the
  watcher. `WatcherIInv` says where a transfer in the range of a pass that has not
  failed can be: recorded, to an order that left the watch, in hand, or at an address
  with an index still to come (`PassesMissNothing`). Its hard steps: a page
  (`FetchPagePreserves`), where an open order's address is on the page or behind its
  last index however the watched set changed since the previous page, from the lemmas
  on the lowest k of a set of numbers (`PageIsLowest`); an ignored transfer
  (`IngestPreserves`), whose order must have been closed to ingestion, because its
  address cannot be in a wrong status and the transfer cannot be older than the
  reservation; steps of everyone else (`OthersGrow`), which never add a transfer to a
  block being scanned; and the compare-and-set (`MoveCursorPreserves`), which joins
  the range of the pass to the range already covered. `CursorCovers` follows.
  `CursorForward`: only an operator moves the cursor back or beyond the confirmed
  blocks, since a pass that another one overtook fails its compare-and-set. `PassesEnd`:
  the page index only grows, so that the addresses behind it (`AddressesFrom`) get fewer
  with each page, and within a page the transfers in hand do; a pass therefore ends by
  itself, however the watched set changes meanwhile. `WatcherKeepsBook`: with the
  watcher the lifecycle still implements `OrderBook`, so that all that is said of orders
  above holds with it too.
- **ReplayDryRunProofs.** `ReplayAgrees` compares the two codings of the decision case by
  case (`SameDecision`) over the rows both start from (`SameRows`). `ListedOnce` needs an
  invariant of its own, `NoDrafts`: of all statuses only `draft` is in neither list, and
  no transaction writes it.
- **MiniAppProofs.** `QuoteRoundsDown` is arithmetic on one quote; with it every order is
  `Priced`. `IInv` adds that whatever is shown, listed or answered names an order that
  exists (`ShownRowsAreKnown`), that only a customer without a user is having one inserted
  (`ProfilesAreInsertedOnce`), and that orders are never priced again. From it follow
  `TypeCorrect`, `FailureHidesOrders`, `OneUser`, `FairPrices` and `CreatedStays`.
  `SubmittedIsShown`: the answer of a creation names the order the form asked for
  (`CreatedOrderFits`), and nothing that happens during the refresh that follows it puts
  another in its place, so that a submission that succeeds ends on the screen of an order
  of its form's direction and amount. `ScreenWaitsForAnswers` is the
  safety part of `NothingSpinsForEver`: whenever the app shows that it is loading or
  submitting, a request that ends this is under way or has just ended. It needs to know
  which requests belong together (`AnswersAreAwaited`). `SpreadCoversRounding`: whoever
  buys USDT and sells it back, or the other way round, loses by the spread although both
  quotes are rounded, for any scale, rates and amount.
- **AdminAccessProofs.** `AccessIInv` counts: an attempt that ends in a failure moves from
  the logins under way to the count, and one is let pass only below the limit. For
  `DisabledAtIsNotLate` a command must be known to carry a time no later than the moment
  the account stopped working (`CommandsAreCurrent`), because the clock of the command
  was read before the account it updates.
- **AdminConsoleProofs.** `AccessRefinement`: every step of the console is a step of
  `AdminAccess` or leaves it alone, so the invariants proved there hold here
  (`GuessesAreBounded`, `DisabledInTime`). `ConsoleIInv` adds what requests and the draft
  carry (`CallsHold`, `DraftFits`): a stale request's session is still revoked, since only
  provisioning lifts that and clears the mark; a drafted status fits the direction of the
  selected order whenever it changes, which is what makes every submission fit.
  `QueueListsOnce`: rows wait in answers while orders move on, so `ShownIInv` says of the
  database, of every answer and of the screen that they hold the same orders, each once
  (`OrdersStay`, `CallsStep`, `ScreenStep`: who may bring rows where). `LabelWaits` is the
  safety part of `NothingLoadsForEver`: the label stands only while a request is under way.

The assumptions are those named in the modules: SELL and BUY ids are disjoint, nulls are
not addresses or transactions, lifetimes and limits are positive, derivation indexes are
unique (a unique index of the schema), the requests and logins that compete are finitely
many, the confirmation depth is at least `EventLag`, amounts and rates are positive and
fit their columns, the nulls of the apps and of the access control are no values.

**Model-checked only.** Liveness under fairness is beyond TLAPS:
`OverdueOrderStopsWaiting`, `TransfersAreEventuallyRecorded`, `NothingSpinsForEver` and
`NothingLoadsForEver` stay with TLC, and what of them is safety is proved as said above.
`NobodyStarves` states with the guards of the statements what ENABLED would say. The
violations of the two findings are TLC's counterexamples. Every invariant, action property
and refinement of a passing run is also proved.

**Proved and not part of a run.** `TypeOK` of every module but the watcher's, the
inductive invariants of `OrderLifecycle` and `AddressReservation`, the refinement of
`AddressAllocator` by `OrderLifecycle`, `OrdersKeepTheirTerms`, `OrdersWaitOnce`,
`LatePaymentsAreLate`, `WaitsForAnswers` and `LabelIsOfARequest` hold in the instances of
section 3, where TLC found no counterexample, and for every instance by the theorems
above; the runs leave them to the proofs.

## 5. Not modelled

- **Cryptography**: key derivation and the address tools (`src/wallet/`), password hashes,
  the signatures of sessions and of init data. The models take their verdicts as given.
- **Formatting**: routing, schemas of bodies and responses, decimal and date strings,
  texts, layout, QR codes, CSV and environment parsing, the command lines. They have no
  state; where such a conversion decides something (the scale of a quote, the runtime
  configuration) it is modelled by what it does.
- **Data that only travels**: names, comments, actor ids, payout addresses, the filters of
  the console's queue.
- **The provider's pagination** (`src/tron/tronWebProvider.ts:114-172`): the pages of a
  block's events and the cache of their promises. A pass has a provider of its own, reads
  confirmed blocks only and fails when a page fails; the models assume that an answer
  about confirmed blocks is complete, and no more. A module of its own would replace this
  assumption.
- **Row locks outside order creation**: two expiration batches over orders of one deadline
  may wait for each other. PostgreSQL aborts one of them, which is a rollback of
  `OrderLifecycle`; a module of the locks of every transaction would show which of them
  can.

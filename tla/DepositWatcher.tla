--------------------------- MODULE DepositWatcher ---------------------------
(***************************************************************************)
(* The one-shot deposit watcher, composed with the order lifecycle.  A     *)
(* pass reads the cursor, scans the next confirmed blocks page by page of  *)
(* watched addresses, ingests every transfer it finds, and moves the       *)
(* cursor only if no transfer failed and nobody moved it meanwhile.        *)
(* Between any two steps customers, managers, the expiration job and other *)
(* passes may act, and the pass may be lost.                               *)
(*                                                                         *)
(* Block n+1 is mined while the clock shows n, so when the clock shows n   *)
(* the latest block is n.  The Ingesters of OrderLifecycle are the passes. *)
(***************************************************************************)
EXTENDS OrderLifecycle, FiniteSetsExt

CONSTANTS
    DerivationIndex,   \* the wallet index of each address
    AddressBatchSize,  \* addresses per page
    CursorConfigs,     \* bound: what operators configure the cursor to
    Malformed,         \* transfers whose event cannot be normalized
    EventLag,          \* blocks until a block's events are all confirmed
    NoCursor           \* the cursor is not configured

CursorRow == [lastProcessedBlock: Nat, confirmationDepth: Nat, maxBlockRange: Nat \ {0}]

ASSUME WatcherAssumption ==
    /\ DerivationIndex \in [Addresses -> Nat]
    /\ \A a, b \in Addresses : DerivationIndex[a] = DerivationIndex[b] => a = b
    /\ AddressBatchSize \in Nat \ {0}
    /\ CursorConfigs \subseteq CursorRow
    /\ NoCursor \notin CursorRow
    /\ EventLag \in Nat
\* What the confirmation depth is for: events are only read once confirmed.
ASSUME DepthAssumption == \A c \in CursorConfigs : EventLag <= c.confirmationDepth

VARIABLES
    cursor,           \* the WatcherCursor row
    pass,             \* the state of each pass
    configuredBlock,  \* history: lastProcessedBlock of the latest configuration
    leftWatch         \* history: orders that were ever closed to ingestion

watcherVars == <<cursor, pass, configuredBlock, leftWatch>>
allVars == <<vars, watcherVars>>

Off == [stage |-> "off"]

Pass == [stage: {"paging", "ingesting", "finishing"}, fromBlock: Nat, toBlock: Nat,
         nextIndex: Nat, more: BOOLEAN, events: SUBSET Transfer, failed: BOOLEAN]

-----------------------------------------------------------------------------
(* Blocks and what the provider returns of them.                           *)

LatestBlock == clock

BlockOf(t) == t.blockTimestamp + 1

\* Events of the block range to the given addresses.  An event younger than
\* EventLag may still be unconfirmed, and missing from the answer.
InRange(p, addresses) ==
    {t \in chain : t.toAddress \in addresses /\ BlockOf(t) \in p.fromBlock..p.toBlock}

Confirmed(ts) == {t \in ts : BlockOf(t) + EventLag <= LatestBlock}

\* Mutated: the confirmation depth is ignored.
LatestIsSafe(c) == LatestBlock

SafeBlock(c) ==
    IF LatestBlock >= c.confirmationDepth THEN LatestBlock - c.confirmationDepth ELSE 0

-----------------------------------------------------------------------------
(* Watched addresses, in pages by derivation index.                        *)

\* Mutated: expired orders are not watched.
WatchedWhileWaiting ==
    {a \in Addresses :
        /\ addressStatus[a] \in OpenAddressStatuses
        /\ \E o \in SellOrders : depositAddress[o] = a /\ status[o] = "awaiting_deposit"}

Watched ==
    {a \in Addresses :
        /\ addressStatus[a] \in OpenAddressStatuses
        /\ \E o \in SellOrders : depositAddress[o] = a /\ status[o] \in OpenOrderStatuses}

IndexesFrom(n) == {DerivationIndex[a] : a \in Watched} \ 0..(n - 1)

\* Mutated: the page is found by skipping n rows instead.
PageByOffset(n) ==
    {i \in IndexesFrom(0) :
        Cardinality({j \in IndexesFrom(0) : j < i}) \in n..(n + AddressBatchSize - 1)}

\* The AddressBatchSize lowest watched indexes from n on.
Page(n) ==
    {i \in IndexesFrom(n) :
        Cardinality({j \in IndexesFrom(n) : j < i}) < AddressBatchSize}

\* Mutated: the next page begins with the last address of this one.
IndexOfPage(n, page) == IF page = {} THEN n ELSE Max(page)

\* Where the page after this one begins.
IndexAfter(n, page) == IF page = {} THEN n ELSE Max(page) + 1

StageAfter(events, more) ==
    IF events # {} THEN "ingesting" ELSE IF more THEN "paging" ELSE "finishing"

-----------------------------------------------------------------------------
(* A pass.                                                                 *)

StartPass(w) ==
    /\ pass[w] = Off
    /\ cursor # NoCursor
    /\ SafeBlock(cursor) > cursor.lastProcessedBlock
    /\ pass' = [pass EXCEPT ![w] =
                  [stage |-> "paging",
                   fromBlock |-> cursor.lastProcessedBlock + 1,
                   toBlock |-> Min({cursor.lastProcessedBlock + cursor.maxBlockRange,
                                    SafeBlock(cursor)}),
                   nextIndex |-> 0, more |-> TRUE, events |-> {}, failed |-> FALSE]]
    /\ UNCHANGED <<vars, cursor, configuredBlock, leftWatch>>

FetchPage(w) ==
    LET p == pass[w]
        page == Page(p.nextIndex)
        mined == InRange(p, {a \in Addresses : DerivationIndex[a] \in page})
        more == Cardinality(page) = AddressBatchSize
    IN
    /\ p.stage = "paging"
    /\ \E missing \in SUBSET (mined \ Confirmed(mined)) :
          LET events == mined \ missing IN
          pass' = [pass EXCEPT ![w].stage = StageAfter(events, more),
                               ![w].nextIndex = IndexAfter(p.nextIndex, page),
                               ![w].more = more,
                               ![w].events = events]
    /\ UNCHANGED <<vars, cursor, configuredBlock, leftWatch>>

\* The transfers of a page are ingested one after the other, by block: t is
\* the one in hand.
IsNext(w, t) ==
    /\ pass[w].stage = "ingesting"
    /\ t \in pass[w].events
    /\ ingestTxn[w] # Idle => ingestTxn[w].transfer = t
    /\ \A u \in pass[w].events : t.blockTimestamp <= u.blockTimestamp

\* Mutated: a transfer that failed does not hold the cursor back.
DoneEvenIfFailed(w, t, failed) ==
    LET rest == pass[w].events \ {t} IN
    pass' = [pass EXCEPT ![w].events = rest,
                         ![w].stage = StageAfter(rest, pass[w].more)]

DoneWith(w, t, failed) ==
    LET rest == pass[w].events \ {t} IN
    pass' = [pass EXCEPT ![w].events = rest,
                         ![w].failed = @ \/ failed,
                         ![w].stage = StageAfter(rest, pass[w].more)]

WatcherUnchanged == UNCHANGED <<cursor, configuredBlock>>

ReadTransfer(w, t) ==
    /\ IsNext(w, t)
    /\ t.id \notin Malformed
    /\ \E o \in SellOrders : IngestRead(w, t, o)
    /\ UNCHANGED <<pass, leftWatch>> /\ WatcherUnchanged

\* One of the ignored_* results.
IgnoreTransfer(w, t) ==
    /\ IsNext(w, t)
    /\ t.id \notin Malformed
    /\ ingestTxn[w] = Idle
    /\ \A o \in SellOrders : ~AcceptedOnRead(t, o)
    /\ DoneWith(w, t, FALSE)
    /\ UNCHANGED <<vars, leftWatch>> /\ WatcherUnchanged

ClosedToIngestion == {o \in SellOrders : Created(o) /\ status[o] \notin OpenOrderStatuses}

NoteLeftWatch == leftWatch' = leftWatch \cup ClosedToIngestion'

RecordTransfer(w, t) ==
    /\ IsNext(w, t)
    /\ IngestWrite(w)
    /\ DoneWith(w, t, FALSE)
    /\ NoteLeftWatch /\ WatcherUnchanged

SkipDuplicate(w, t) ==
    /\ IsNext(w, t)
    /\ AlreadyRecorded(t.id)
    /\ IngestRollback(w)
    /\ DoneWith(w, t, FALSE)
    /\ UNCHANGED leftWatch /\ WatcherUnchanged

\* The order or the address changed since it was read.
FailOnConflict(w, t) ==
    /\ IsNext(w, t)
    /\ ingestTxn[w] # Idle
    /\ ~AlreadyRecorded(t.id)
    /\ ~SeenUnchanged(ingestTxn[w])
    /\ IngestRollback(w)
    /\ DoneWith(w, t, TRUE)
    /\ UNCHANGED leftWatch /\ WatcherUnchanged

FailMalformed(w, t) ==
    /\ IsNext(w, t)
    /\ t.id \in Malformed
    /\ DoneWith(w, t, TRUE)
    /\ UNCHANGED <<vars, leftWatch>> /\ WatcherUnchanged

\* A statement of the ingestion fails for a passing reason.
FailOnDatabaseError(w, t) ==
    /\ IsNext(w, t)
    /\ DoneWith(w, t, TRUE)
    /\ IF ingestTxn[w] = Idle THEN UNCHANGED vars ELSE IngestRollback(w)
    /\ UNCHANGED leftWatch /\ WatcherUnchanged

\* Mutated: the update matches the cursor's id only.
CursorExists(w) == cursor # NoCursor

CursorUnmoved(w) == cursor.lastProcessedBlock + 1 = pass[w].fromBlock

MoveCursor(w) ==
    /\ pass[w].stage = "finishing"
    /\ ~pass[w].failed
    /\ CursorUnmoved(w)
    /\ cursor' = [cursor EXCEPT !.lastProcessedBlock = pass[w].toBlock]
    /\ pass' = [pass EXCEPT ![w] = Off]
    /\ UNCHANGED <<vars, configuredBlock, leftWatch>>

\* The pass reports failed transfers, or throws because the cursor moved.
EndWithoutProgress(w) ==
    /\ pass[w].stage = "finishing"
    /\ pass[w].failed \/ ~CursorUnmoved(w)
    /\ pass' = [pass EXCEPT ![w] = Off]
    /\ UNCHANGED <<vars, cursor, configuredBlock, leftWatch>>

\* Mutated: the ingestion is not one transaction, and stops half way.
LosePassMidIngestion(w) ==
    /\ pass[w] # Off
    /\ pass' = [pass EXCEPT ![w] = Off]
    /\ IF ingestTxn[w] = Idle THEN UNCHANGED vars
       ELSE /\ deposits' = deposits \cup {[transfer |-> ingestTxn[w].transfer,
                                           order |-> ingestTxn[w].order]}
            /\ ingestTxn' = [ingestTxn EXCEPT ![w] = Idle]
            /\ audit' = {}
            /\ UNCHANGED <<clock, chain, orderVars, addressVars, managerTxn, expiryTxn>>
    /\ UNCHANGED leftWatch /\ WatcherUnchanged

\* The process dies, or the provider fails and the pass throws.
LosePass(w) ==
    /\ pass[w] # Off
    /\ pass' = [pass EXCEPT ![w] = Off]
    /\ IF ingestTxn[w] = Idle THEN UNCHANGED vars ELSE IngestRollback(w)
    /\ UNCHANGED leftWatch /\ WatcherUnchanged

\* An operator creates the cursor, or moves it.
ConfigureCursor(c) ==
    /\ cursor' = c
    /\ configuredBlock' = c.lastProcessedBlock
    /\ UNCHANGED <<vars, pass, leftWatch>>

-----------------------------------------------------------------------------
WatcherInit ==
    /\ Init
    /\ cursor = NoCursor
    /\ pass = [w \in Ingesters |-> Off]
    /\ configuredBlock = 0
    /\ leftWatch = {}

\* Customers only know addresses that orders show them.
SendToOrder(id, o, amount) ==
    depositAddress[o] # NoAddress /\ SendTransfer(id, depositAddress[o], amount)

Others ==
    /\ \/ Tick
       \/ \E id \in TransferIds, o \in SellOrders, amount \in Amounts :
             SendToOrder(id, o, amount)
       \/ Customer
       \/ \E m \in Managers : Manager(m)
       \/ \E x \in Expirers : Expirer(x)
    /\ NoteLeftWatch /\ WatcherUnchanged /\ UNCHANGED pass

Ingest(w, t) ==
    \/ ReadTransfer(w, t)
    \/ IgnoreTransfer(w, t)
    \/ RecordTransfer(w, t)
    \/ SkipDuplicate(w, t)
    \/ FailOnConflict(w, t)
    \/ FailMalformed(w, t)

Progress(w) ==
    \/ StartPass(w)
    \/ FetchPage(w)
    \/ \E t \in chain : Ingest(w, t)
    \/ MoveCursor(w)
    \/ EndWithoutProgress(w)

Breakdown(w) ==
    \/ \E t \in chain : FailOnDatabaseError(w, t)
    \/ LosePass(w)

WatcherNext ==
    \/ Others
    \/ \E w \in Ingesters : Progress(w) \/ Breakdown(w)
    \/ \E c \in CursorConfigs : ConfigureCursor(c)

WatcherSpec == WatcherInit /\ [][WatcherNext]_allVars

Reconfigure == cursor # NoCursor /\ \E c \in CursorConfigs : ConfigureCursor(c)

\* The scheduler runs a pass every minute, blocks keep coming and operators
\* configure the cursor; the database and the provider are not down for ever,
\* and operators do not move the cursor for ever.
WatcherFairness ==
    /\ WF_allVars(Tick /\ Others)
    /\ \A w \in Ingesters : WF_allVars(Progress(w))
    /\ WF_allVars(cursor = NoCursor /\ \E c \in CursorConfigs : ConfigureCursor(c))
    /\ <>[][~Reconfigure /\ \A w \in Ingesters : ~Breakdown(w)]_allVars

FairWatcherSpec == WatcherSpec /\ WatcherFairness
-----------------------------------------------------------------------------
(* Properties.                                                             *)

\* Passes and the cursor keep their shapes; a pass has blocks to scan, and it
\* fetches no page while transfers of the last one are still in hand.
WatcherTypeOK ==
    /\ TypeOK
    /\ cursor \in CursorRow \cup {NoCursor}
    /\ pass \in [Ingesters -> Pass \cup {Off}]
    /\ \A w \in Ingesters : pass[w] # Off =>
          /\ pass[w].fromBlock <= pass[w].toBlock
          /\ pass[w].stage = "ingesting" <=> pass[w].events # {}
    /\ configuredBlock \in Nat
    /\ leftWatch \subseteq SellOrders

\* The cursor never passes an unrecorded transfer to an order that has always
\* been open to ingestion: not when a pass is lost between an ingestion and
\* the cursor, not when a transfer fails, not when passes overlap or orders
\* change while pages are read, not when an operator moves the cursor back
\* during a pass (runUsdtDepositWatcherOnce).
CursorCoversTransfers ==
    \A t \in chain, o \in SellOrders :
        /\ cursor # NoCursor
        /\ BlockOf(t) \in (configuredBlock + 1)..cursor.lastProcessedBlock
        /\ depositAddress[o] = t.toAddress
        => AlreadyRecorded(t.id) \/ o \in leftWatch

\* Only an operator moves the cursor back, or past a block whose events may be
\* unconfirmed: a pass that began from an older cursor, or before another pass
\* moved it, moves it to later, confirmed blocks or not at all (the condition
\* of the update with which runUsdtDepositWatcherOnce ends).
CursorGoesForward ==
    [][cursor' # cursor =>
          \/ \E c \in CursorConfigs : ConfigureCursor(c)
          \/ /\ cursor # NoCursor
             /\ cursor'.lastProcessedBlock > cursor.lastProcessedBlock
             /\ cursor'.lastProcessedBlock + EventLag <= LatestBlock]_allVars

AddressesFrom(n) == {a \in Addresses : DerivationIndex[a] >= n}

\* A pass comes to an end however orders enter and leave the watch between its
\* pages: each of its steps leaves fewer transfers in hand, or a page that was
\* the last one, or fewer addresses for the pages to come (the while loop of
\* runUsdtDepositWatcher, which asks for indexes above the last one it saw).
PassesRunOut ==
    [][\A w \in Ingesters :
          LET p == pass[w]
              q == pass'[w]
          IN
          p # Off /\ q # Off /\ q # p =>
              \/ /\ p.more
                 /\ \/ ~q.more
                    \/ /\ AddressesFrom(q.nextIndex) \subseteq AddressesFrom(p.nextIndex)
                       /\ AddressesFrom(q.nextIndex) # AddressesFrom(p.nextIndex)
              \/ /\ q.more = p.more /\ q.nextIndex = p.nextIndex
                 /\ q.events \subseteq p.events /\ q.events # p.events]_allVars

\* The watcher changes orders and addresses only as OrderLifecycle allows, so
\* everything shown there holds with it.
ImplementsLifecycle == Spec

\* "Partial, repeated, or late transfers are recorded for manager review":
\* the cursor never passes an unrecorded transfer to an order.
EveryTransferIsRecorded ==
    \A t \in chain, o \in SellOrders :
        /\ cursor # NoCursor
        /\ BlockOf(t) \in (configuredBlock + 1)..cursor.lastProcessedBlock
        /\ depositAddress[o] = t.toAddress
        => AlreadyRecorded(t.id)

\* A transfer whose block becomes safe is eventually recorded, or its order
\* leaves the watch, or an operator skips the block.
TransfersAreEventuallyRecorded ==
    \A id \in TransferIds :
        (\E t \in chain : t.id = id /\ BlockOf(t) <= MaxTime - EventLag)
            ~> \/ AlreadyRecorded(id)
               \/ \E t \in chain, o \in SellOrders :
                     /\ t.id = id
                     /\ depositAddress[o] = t.toAddress
                     /\ o \in leftWatch \/ BlockOf(t) <= configuredBlock

-----------------------------------------------------------------------------
(* The inductive invariant: where a transfer that the cursor is about to   *)
(* pass may still be while its pass has not failed.                        *)

TransfersHaveOrders ==
    \A t \in chain :
        /\ t.blockTimestamp >= reservedAt[t.toAddress]
        /\ \E o \in SellOrders : depositAddress[o] = t.toAddress

ReservationsArePast == \A a \in Addresses : reservedAt[a] <= clock

OpenUnlessLeft ==
    /\ ClosedToIngestion \subseteq leftWatch
    /\ \A a \in Addresses : addressStatus[a] \in OpenAddressStatuses \cup {"available"}

CursorBehindChain ==
    cursor # NoCursor =>
        /\ EventLag <= cursor.confirmationDepth
        /\ cursor.lastProcessedBlock <= clock \/ cursor.lastProcessedBlock <= configuredBlock

BehindChain(p) ==
    p # Off =>
        /\ cursor # NoCursor
        /\ p.toBlock + EventLag <= clock
        /\ p.stage = "finishing" => ~p.more
        /\ p.stage = "paging" => p.more

PassesBehindChain == \A w \in Ingesters : BehindChain(pass[w])

\* Recorded, or its order left the watch.
SettledFor(t, o) == AlreadyRecorded(t.id) \/ o \in leftWatch

\* In hand, or on a page that is still to come.
StillAhead(p, t) ==
    \/ t \in p.events
    \/ p.more /\ DerivationIndex[t.toAddress] >= p.nextIndex

MissesNothing(p) ==
    p # Off /\ ~p.failed =>
        \A t \in chain, o \in SellOrders :
            /\ BlockOf(t) \in p.fromBlock..p.toBlock
            /\ depositAddress[o] = t.toAddress
            => SettledFor(t, o) \/ StillAhead(p, t)

PassesMissNothing == \A w \in Ingesters : MissesNothing(pass[w])

WatcherIInv ==
    /\ IInv
    /\ WatcherTypeOK
    /\ TransfersHaveOrders
    /\ ReservationsArePast
    /\ OpenUnlessLeft
    /\ CursorBehindChain
    /\ PassesBehindChain
    /\ PassesMissNothing
    /\ CursorCoversTransfers
=============================================================================

------------------------ MODULE DepositWatcherProofs ------------------------
(***************************************************************************)
(* Theorems about DepositWatcher, for any number of passes, orders,        *)
(* transfers and pages: the watcher implements the order lifecycle, and    *)
(* the cursor never passes a transfer it should not.                       *)
(***************************************************************************)
EXTENDS DepositWatcher, OrderBookProofs, FiniteSetTheorems, WellFoundedInduction

-----------------------------------------------------------------------------
(* Pages of natural numbers.                                               *)

LowerThan(S, i) == {j \in S : j < i}

\* A set of natural numbers that has an element has a least one.
LEMMA LeastNatural ==
    ASSUME NEW S \in SUBSET Nat, S # {}
    PROVE  \E x \in S : \A y \in S : x <= y
<1> DEFINE T == {0..x : x \in S}
           R == StrictSubsetOrdering(Nat)
           F == FiniteSubsetsOf(Nat)
<1>1. ASSUME NEW x \in S PROVE 0..x \in F
  <2>1. IsFiniteSet(0..x)
    BY FS_Interval
  <2>2. 0..x \in SUBSET Nat
    OBVIOUS
  <2> QED
    BY <2>1, <2>2 DEF FiniteSubsetsOf
<1>2. T \subseteq F /\ T # {}
  BY <1>1
<1>3. IsWellFoundedOn(R, F)
  BY FS_StrictSubsetOrderingWellFounded
<1>4. \E U \in T : \A V \in T : ~(<<V, U>> \in R)
  <2> HIDE DEF T, R, F
  <2> QED
    BY <1>2, <1>3, WFMin
<1>5. PICK x \in S : \A y \in S : ~(<<0..y, 0..x>> \in R)
  BY <1>4
<1>6. ASSUME NEW y \in S, y < x PROVE FALSE
  <2>1. 0..y \subseteq 0..x /\ 0..y # 0..x
    <3>1. x \in 0..x /\ x \notin 0..y
      BY <1>6
    <3> QED
      BY <1>6, <3>1
  <2>2. <<0..y, 0..x>> \in (SUBSET Nat) \X (SUBSET Nat)
    OBVIOUS
  <2> QED
    BY <1>5, <2>1, <2>2 DEF StrictSubsetOrdering
<1> QED
  BY <1>5, <1>6

\* What is below an element is finite, and grows with the element.
LEMMA LowerFinite ==
    ASSUME NEW S \in SUBSET Nat, NEW i \in S
    PROVE  IsFiniteSet(LowerThan(S, i)) /\ Cardinality(LowerThan(S, i)) \in Nat
<1>1. \A j \in LowerThan(S, i) : j \in Nat /\ j <= i
  BY DEF LowerThan
<1>2. IsFiniteSet(LowerThan(S, i))
  BY <1>1, FS_BoundedSetOfNaturals
<1> QED
  BY <1>2, FS_CardinalityType

\* Of two elements, the greater has more below it.
LEMMA LowerGrows ==
    ASSUME NEW S \in SUBSET Nat, NEW i \in S, NEW j \in S, i < j
    PROVE  Cardinality(LowerThan(S, i)) < Cardinality(LowerThan(S, j))
<1> DEFINE I == LowerThan(S, i)
           J == LowerThan(S, j)
<1>0. \A x \in S : x \in Nat
  OBVIOUS
<1>1. (\A l \in I \cup {i} : l \in J) /\ i \notin I
  BY <1>0 DEF LowerThan
<1>2. /\ IsFiniteSet(I) /\ Cardinality(I) \in Nat
      /\ IsFiniteSet(J) /\ Cardinality(J) \in Nat
  BY LowerFinite
<1> HIDE DEF I, J
<1>3. Cardinality(I \cup {i}) = Cardinality(I) + 1
  BY <1>1, <1>2, FS_AddElement
<1>4. Cardinality(I \cup {i}) <= Cardinality(J)
  BY <1>1, <1>2, FS_Subset
<1>5. Cardinality(I) < Cardinality(J)
  BY <1>2, <1>3, <1>4
<1> QED
  BY <1>5 DEF I, J

LowestOf(S, k) == {i \in S : Cardinality(LowerThan(S, i)) < k}

\* A page that is not empty has a greatest element, which Max finds.
LEMMA PageHasMax ==
    ASSUME NEW S \in SUBSET Nat, NEW k \in Nat \ {0}, LowestOf(S, k) # {}
    PROVE  /\ Max(LowestOf(S, k)) \in LowestOf(S, k)
           /\ \A j \in LowestOf(S, k) : j <= Max(LowestOf(S, k))
<1> DEFINE P == LowestOf(S, k)
           C == {k - Cardinality(LowerThan(S, i)) : i \in P}
<1>1. P \subseteq S /\ P # {}
  BY DEF LowestOf
<1>2. \A i \in P : Cardinality(LowerThan(S, i)) \in Nat /\ Cardinality(LowerThan(S, i)) < k
  BY LowerFinite DEF LowestOf
<1> HIDE DEF P
<1>3. C \in SUBSET Nat /\ C # {}
  <2>1. \A i \in P : k - Cardinality(LowerThan(S, i)) \in Nat
    BY <1>2
  <2> QED
    BY <1>1, <2>1
<1>4. PICK c \in C : \A d \in C : c <= d
  <2> HIDE DEF C
  <2> QED
    BY <1>3, LeastNatural
<1>5. PICK m \in P : c = k - Cardinality(LowerThan(S, m))
  OBVIOUS
<1>6. \A j \in P : Cardinality(LowerThan(S, j)) <= Cardinality(LowerThan(S, m))
  <2> SUFFICES ASSUME NEW j \in P
               PROVE  Cardinality(LowerThan(S, j)) <= Cardinality(LowerThan(S, m))
    OBVIOUS
  <2>1. c <= k - Cardinality(LowerThan(S, j))
    BY <1>4
  <2> QED
    BY <1>2, <1>5, <2>1
<1>7. \A j \in P : j <= m
  <2> SUFFICES ASSUME NEW j \in P, ~(j <= m) PROVE FALSE
    OBVIOUS
  <2>1. m \in S /\ j \in S /\ m < j
    BY <1>1
  <2>2. Cardinality(LowerThan(S, m)) < Cardinality(LowerThan(S, j))
    BY <2>1, LowerGrows
  <2> QED
    BY <1>2, <1>6, <2>2
<1>8. \A j \in P : m >= j
  BY <1>1, <1>7
<1>9. Max(P) \in P /\ \A j \in P : Max(P) >= j
  BY <1>8 DEF Max
<1> QED
  BY <1>1, <1>9 DEF P

\* What a page leaves out comes after everything on it, and the page is full:
\* the watcher goes on to the next page.
LEMMA PageIsLowest ==
    ASSUME NEW S \in SUBSET Nat, NEW k \in Nat \ {0},
           NEW i \in S, i \notin LowestOf(S, k)
    PROVE  /\ LowestOf(S, k) # {}
           /\ Cardinality(LowestOf(S, k)) = k
           /\ Max(LowestOf(S, k)) < i
<1> DEFINE P == LowestOf(S, k)
<1>0. \A x \in S : x \in Nat
  OBVIOUS
<1>1. P \subseteq S /\ \A j \in S : j \in P <=> Cardinality(LowerThan(S, j)) < k
  BY DEF LowestOf
<1>2. \A j \in S : Cardinality(LowerThan(S, j)) \in Nat
  BY LowerFinite
<1>3. \A j, l \in S : j \in P /\ l < j => l \in P
  <2> SUFFICES ASSUME NEW j \in S, NEW l \in S, j \in P, l < j PROVE l \in P
    OBVIOUS
  <2>1. Cardinality(LowerThan(S, l)) < Cardinality(LowerThan(S, j))
    BY LowerGrows
  <2>2. Cardinality(LowerThan(S, j)) < k
    BY <1>1
  <2>3. Cardinality(LowerThan(S, l)) < k
    BY <1>2, <2>1, <2>2
  <2> QED
    BY <1>1, <2>3
<1> HIDE DEF P
<1>4. PICK first \in S \ P : \A j \in S \ P : first <= j
  <2>1. S \ P \in SUBSET Nat /\ S \ P # {}
    BY DEF P
  <2> QED
    BY <2>1, LeastNatural
<1>5. LowerThan(S, first) = P
  <2>1. \A j \in S : j < first => j \in P
    BY <1>0, <1>4
  <2>2. \A j \in P : j < first
    BY <1>0, <1>1, <1>3, <1>4
  <2> QED
    BY <1>1, <2>1, <2>2 DEF LowerThan
<1>6. Cardinality(P) >= k /\ Cardinality(P) \in Nat /\ IsFiniteSet(P)
  BY <1>1, <1>2, <1>4, <1>5, LowerFinite
<1>7. P # {}
  BY <1>6, FS_EmptySet
<1>8. Max(P) \in P /\ \A j \in P : j <= Max(P)
  BY <1>7, PageHasMax DEF P
<1>9. Cardinality(P) <= k
  <2> DEFINE L == LowerThan(S, Max(P))
  <2>1. IsFiniteSet(L) /\ Cardinality(L) \in Nat /\ Cardinality(L) < k
    BY <1>1, <1>8, LowerFinite
  <2>2. P = L \cup {Max(P)}
    <3>1. \A j \in P : j \in L \cup {Max(P)}
      <4> SUFFICES ASSUME NEW j \in P, j # Max(P) PROVE j \in L
        OBVIOUS
      <4>1. j \in S /\ Max(P) \in S /\ j <= Max(P)
        BY <1>1, <1>8
      <4>2. j \in Nat /\ Max(P) \in Nat
        BY <1>0, <4>1
      <4>3. j < Max(P)
        BY <4>1, <4>2
      <4> QED
        BY <4>1, <4>3 DEF LowerThan
    <3>2. \A j \in L \cup {Max(P)} : j \in P
      <4> SUFFICES ASSUME NEW j \in L PROVE j \in P
        BY <1>8
      <4>1. j \in S /\ j < Max(P)
        BY DEF LowerThan
      <4>2. Max(P) \in S
        BY <1>1, <1>8
      <4> QED
        BY <1>3, <1>8, <4>1, <4>2
    <3> QED
      BY <3>1, <3>2
  <2>3. Cardinality(L \cup {Max(P)}) <= Cardinality(L) + 1
    <3> HIDE DEF L
    <3> QED
      BY <2>1, FS_AddElement
  <2> QED
    BY <1>6, <2>1, <2>2, <2>3
<1>10. Max(P) < i
  <2>1. i \notin P
    BY DEF P
  <2>2. Max(P) \in S /\ Max(P) # i
    BY <1>1, <1>8, <2>1
  <2>3. ~(i < Max(P))
    BY <1>3, <1>8, <2>1, <2>2
  <2>4. i \in Nat /\ Max(P) \in Nat
    BY <1>0, <2>2
  <2> QED
    BY <2>2, <2>3, <2>4
<1> QED
  BY <1>6, <1>7, <1>9, <1>10 DEF P

-----------------------------------------------------------------------------
(* The watcher implements the order lifecycle: each of its steps is a step *)
(* of an ingestion, or leaves orders and addresses alone.                  *)

\* Every step of the watcher, and of everyone around it, is a lifecycle step.
LEMMA StepIsLifecycleStep == IInv /\ [WatcherNext]_allVars => [Next]_vars
<1> SUFFICES ASSUME IInv, [WatcherNext]_allVars PROVE [Next]_vars
  OBVIOUS
<1>1. CASE UNCHANGED allVars
  BY <1>1 DEF allVars
<1>2. CASE Others
  <2>1. ASSUME NEW id \in TransferIds, NEW o \in SellOrders, NEW amount \in Amounts,
               SendToOrder(id, o, amount)
        PROVE  Environment
    <3>1. depositAddress[o] \in Addresses
      BY <2>1 DEF SendToOrder, IInv, TypeOK, Orders
    <3> QED
      BY <2>1, <3>1 DEF SendToOrder, Environment
  <2> QED
    BY <1>2, <2>1 DEF Others, Next, Environment
<1>3. ASSUME NEW w \in Ingesters, Progress(w) PROVE [Next]_vars
  <2>1. ASSUME NEW t \in chain, Ingest(w, t) PROVE [Next]_vars
    <3>1. CASE ReadTransfer(w, t)
      BY <3>1 DEF ReadTransfer, Ingester, Next
    <3>2. CASE IgnoreTransfer(w, t) \/ FailMalformed(w, t)
      BY <3>2 DEF IgnoreTransfer, FailMalformed
    <3>3. CASE RecordTransfer(w, t)
      BY <3>3 DEF RecordTransfer, Ingester, Next
    <3>4. CASE SkipDuplicate(w, t) \/ FailOnConflict(w, t)
      BY <3>4 DEF SkipDuplicate, FailOnConflict, Ingester, Next
    <3> QED
      BY <2>1, <3>1, <3>2, <3>3, <3>4 DEF Ingest
  <2>2. CASE StartPass(w) \/ FetchPage(w) \/ MoveCursor(w) \/ EndWithoutProgress(w)
    BY <2>2 DEF StartPass, FetchPage, MoveCursor, EndWithoutProgress
  <2> QED
    BY <1>3, <2>1, <2>2 DEF Progress
<1>4. ASSUME NEW w \in Ingesters, Breakdown(w) PROVE [Next]_vars
  BY <1>4 DEF Breakdown, FailOnDatabaseError, LosePass, Ingester, Next
<1>5. ASSUME NEW c \in CursorConfigs, ConfigureCursor(c) PROVE [Next]_vars
  BY <1>5 DEF ConfigureCursor
<1> QED
  BY <1>1, <1>2, <1>3, <1>4, <1>5 DEF WatcherNext

\* The lifecycle's inductive invariant holds with the watcher.
THEOREM WatcherKeepsIInv == WatcherSpec => []IInv
<1>1. WatcherInit => IInv
  BY InitIInv DEF WatcherInit
<1>2. IInv /\ [WatcherNext]_allVars => IInv'
  BY StepIsLifecycleStep, NextIInv
<1> QED
  BY <1>1, <1>2, PTL DEF WatcherSpec

\* The watcher changes orders and addresses only as the lifecycle allows.
THEOREM WatcherRefinement == WatcherSpec => ImplementsLifecycle
<1>1. WatcherInit => Init
  BY DEF WatcherInit
<1> QED
  BY <1>1, StepIsLifecycleStep, WatcherKeepsIInv, PTL
     DEF WatcherSpec, ImplementsLifecycle, Spec

-----------------------------------------------------------------------------
(* The cursor.  A step may record transfers, take orders out of the watch, *)
(* and add transfers and orders; a transfer to an order that is new in     *)
(* either way is mined in a block that no pass scans yet.                  *)

Grows ==
    /\ deposits \subseteq deposits'
    /\ leftWatch \subseteq leftWatch'
    /\ clock' >= clock
    /\ cursor # NoCursor => cursor' # NoCursor
    /\ \A t \in chain', o \in SellOrders :
          depositAddress'[o] = t.toAddress =>
              \/ t \in chain /\ depositAddress[o] = t.toAddress
              \/ t.blockTimestamp >= clock

SettledNext(t, o) == (\E d \in deposits' : d.transfer.id = t.id) \/ o \in leftWatch'

MissesNothingNext(p) ==
    p # Off /\ ~p.failed =>
        \A t \in chain', o \in SellOrders :
            /\ BlockOf(t) \in p.fromBlock..p.toBlock
            /\ depositAddress'[o] = t.toAddress
            => SettledNext(t, o) \/ StillAhead(p, t)

BehindChainNext(p) ==
    p # Off =>
        /\ cursor' # NoCursor
        /\ p.toBlock + EventLag <= clock'
        /\ p.stage = "finishing" => ~p.more
        /\ p.stage = "paging" => p.more

WellFormed(p) ==
    /\ p \in Pass \cup {Off}
    /\ p # Off => /\ p.fromBlock <= p.toBlock
                  /\ p.stage = "ingesting" <=> p.events # {}

\* Numbers that the following lemmas compare.
LEMMA WatcherNumbers ==
    ASSUME WatcherIInv
    PROVE  /\ clock \in Nat /\ configuredBlock \in Nat /\ EventLag \in Nat
           /\ \A t \in chain : t.blockTimestamp \in Nat
           /\ \A w \in Ingesters : pass[w] # Off =>
                 pass[w].fromBlock \in Nat /\ pass[w].toBlock \in Nat
           /\ cursor # NoCursor => cursor.lastProcessedBlock \in Nat
BY TimesAssumption, WatcherAssumption
   DEF WatcherIInv, WatcherTypeOK, IInv, TypeOK, Transfer, Pass, CursorRow

\* What settles a transfer, settles it for good.
LEMMA SettledStays ==
    ASSUME Grows, NEW t \in chain, NEW o \in SellOrders, SettledFor(t, o)
    PROVE  SettledNext(t, o)
BY DEF Grows, SettledFor, SettledNext, AlreadyRecorded

\* A pass that stays as it is still misses nothing.
LEMMA PassKept ==
    ASSUME WatcherIInv, Grows, TypeOK', NEW w \in Ingesters
    PROVE  MissesNothingNext(pass[w]) /\ BehindChainNext(pass[w])
<1>1. MissesNothing(pass[w]) /\ BehindChain(pass[w])
  BY DEF WatcherIInv, PassesMissNothing, PassesBehindChain
<1>0. clock' \in Nat /\ \A t \in chain' : t.blockTimestamp \in Nat
  BY TimesAssumption DEF TypeOK, Transfer
<1>2. BehindChainNext(pass[w])
  BY <1>0, <1>1, WatcherNumbers DEF BehindChain, BehindChainNext, Grows
<1>3. ASSUME pass[w] # Off, ~pass[w].failed, NEW t \in chain', NEW o \in SellOrders,
             BlockOf(t) \in pass[w].fromBlock..pass[w].toBlock,
             depositAddress'[o] = t.toAddress
      PROVE  SettledNext(t, o) \/ StillAhead(pass[w], t)
  <2>1. CASE t \in chain /\ depositAddress[o] = t.toAddress
    BY <1>1, <1>3, <2>1, SettledStays DEF MissesNothing
  <2>2. CASE t.blockTimestamp >= clock
    <3>1. pass[w].toBlock <= clock
      BY <1>1, <1>3, WatcherNumbers DEF BehindChain
    <3> QED
      BY <1>0, <1>3, <2>2, <3>1, WatcherNumbers DEF BlockOf
  <2> QED
    BY <1>3, <2>1, <2>2 DEF Grows
<1> QED
  BY <1>2, <1>3 DEF MissesNothingNext

\* A cursor that stays where it is has passed nothing new.
LEMMA CursorKept ==
    ASSUME WatcherIInv, Grows, TypeOK', UNCHANGED <<cursor, configuredBlock>>
    PROVE  CursorCoversTransfers' /\ CursorBehindChain'
<1>1. CursorCoversTransfers /\ CursorBehindChain
  BY DEF WatcherIInv
<1>0. clock' \in Nat /\ \A t \in chain' : t.blockTimestamp \in Nat
  BY TimesAssumption DEF TypeOK, Transfer
<1>2. CursorBehindChain'
  BY <1>0, <1>1, WatcherNumbers DEF CursorBehindChain, Grows
<1>3. ASSUME NEW t \in chain', NEW o \in SellOrders, cursor # NoCursor,
             BlockOf(t) \in (configuredBlock + 1)..cursor.lastProcessedBlock,
             depositAddress'[o] = t.toAddress
      PROVE  SettledNext(t, o)
  <2>1. CASE t \in chain /\ depositAddress[o] = t.toAddress
    BY <1>1, <1>3, <2>1, SettledStays DEF CursorCoversTransfers, SettledFor
  <2>2. CASE t.blockTimestamp >= clock
    BY <1>0, <1>1, <1>3, <2>2, WatcherNumbers DEF BlockOf, CursorBehindChain
  <2> QED
    BY <1>3, <2>1, <2>2 DEF Grows
<1> QED
  BY <1>2, <1>3 DEF CursorCoversTransfers, SettledNext, AlreadyRecorded

\* A step preserves the invariant if the cursor and the passes stay sound.
LEMMA SoundStepPreserves ==
    ASSUME WatcherIInv, IInv', OpenUnlessLeft', TransfersHaveOrders', ReservationsArePast',
           leftWatch' \subseteq SellOrders, configuredBlock' \in Nat,
           cursor' \in CursorRow \cup {NoCursor}, CursorCoversTransfers', CursorBehindChain',
           pass' \in [Ingesters -> Pass \cup {Off}],
           \A w \in Ingesters :
              /\ WellFormed(pass'[w])
              /\ MissesNothingNext(pass'[w])
              /\ BehindChainNext(pass'[w])
    PROVE  WatcherIInv'
<1>1. TypeOK'
  BY DEF IInv
<1>2. WatcherTypeOK'
  BY <1>1 DEF WatcherIInv, WatcherTypeOK, WellFormed
<1>3. PassesMissNothing'
  BY DEF PassesMissNothing, MissesNothing, MissesNothingNext, SettledFor, SettledNext,
         AlreadyRecorded, StillAhead
<1>4. PassesBehindChain'
  BY DEF PassesBehindChain, BehindChain, BehindChainNext
<1> QED
  BY <1>1, <1>2, <1>3, <1>4 DEF WatcherIInv

\* A step that leaves the cursor alone.
LEMMA StepPreserves ==
    ASSUME WatcherIInv, IInv', Grows, OpenUnlessLeft', TransfersHaveOrders', ReservationsArePast',
           UNCHANGED <<cursor, configuredBlock>>, leftWatch' \subseteq SellOrders,
           pass' \in [Ingesters -> Pass \cup {Off}],
           \A w \in Ingesters :
              /\ WellFormed(pass'[w])
              /\ MissesNothingNext(pass'[w])
              /\ BehindChainNext(pass'[w])
    PROVE  WatcherIInv'
<1>1. TypeOK'
  BY DEF IInv
<1>2. CursorCoversTransfers' /\ CursorBehindChain'
  BY <1>1, CursorKept
<1>3. cursor' \in CursorRow \cup {NoCursor} /\ configuredBlock' \in Nat
  BY DEF WatcherIInv, WatcherTypeOK
<1> QED
  BY <1>2, <1>3, SoundStepPreserves

\* Passes that do not move stay well formed and miss nothing.
LEMMA OtherPasses ==
    ASSUME WatcherIInv, IInv', Grows, NEW w \in Ingesters
    PROVE  /\ WellFormed(pass[w])
           /\ MissesNothingNext(pass[w])
           /\ BehindChainNext(pass[w])
BY PassKept DEF WatcherIInv, WatcherTypeOK, WellFormed, IInv

\* Everybody else: orders are created for addresses nobody ever paid to, and
\* transfers go to addresses of orders, in blocks no pass scans yet.
LEMMA OthersGrow ==
    ASSUME WatcherIInv, IInv', Others
    PROVE  /\ Grows /\ OpenUnlessLeft' /\ TransfersHaveOrders' /\ ReservationsArePast'
           /\ leftWatch' \subseteq SellOrders
<1> DEFINE Grown == Grows /\ OpenUnlessLeft' /\ TransfersHaveOrders' /\ ReservationsArePast'
           Kept == /\ UNCHANGED <<deposits, depositAddress, reservedAt>>
                   /\ clock' >= clock
<1>0. /\ leftWatch' = leftWatch \cup ClosedToIngestion'
      /\ leftWatch' \subseteq SellOrders
      /\ cursor' = cursor
      /\ clock \in Nat /\ clock' \in Nat
      /\ TransfersHaveOrders /\ ReservationsArePast /\ TypeOK /\ TypeOK'
      /\ \A a \in Addresses : addressStatus[a] \in OpenAddressStatuses \cup {"available"}
  BY TimesAssumption DEF Others, NoteLeftWatch, WatcherUnchanged, ClosedToIngestion, WatcherIInv,
     WatcherTypeOK, OpenUnlessLeft, IInv, TypeOK
<1>1. ASSUME \A a \in Addresses : addressStatus'[a] \in OpenAddressStatuses \cup {"available"}
      PROVE  OpenUnlessLeft'
  BY <1>0, <1>1 DEF OpenUnlessLeft
<1>2. ASSUME Kept, UNCHANGED chain,
             \A a \in Addresses : addressStatus'[a] \in OpenAddressStatuses \cup {"available"}
      PROVE  Grown
  BY <1>0, <1>1, <1>2 DEF Grows, TransfersHaveOrders, ReservationsArePast, TypeOK
<1>3. ASSUME Tick PROVE Grown
  BY <1>0, <1>2, <1>3 DEF Tick, orderVars, addressVars
<1>4. ASSUME NEW id \in TransferIds, NEW o \in SellOrders, NEW amount \in Amounts,
             SendToOrder(id, o, amount)
      PROVE  Grown
  <2>1. depositAddress[o] \in Addresses
    BY <1>0, <1>4 DEF SendToOrder, TypeOK, Orders
  <2> DEFINE new == [id |-> id, toAddress |-> depositAddress[o], amount |-> amount,
                     blockTimestamp |-> clock]
  <2>2. /\ chain' = chain \cup {new}
        /\ UNCHANGED <<clock, deposits, depositAddress, addressStatus, reservedAt>>
    BY <1>4 DEF SendToOrder, SendTransfer, orderVars, addressVars
  <2>3. Grows
    BY <1>0, <2>2 DEF Grows
  <2>4. reservedAt[depositAddress[o]] <= clock
    BY <1>0, <2>1 DEF ReservationsArePast
  <2> QED
    BY <1>0, <1>1, <2>2, <2>3, <2>4 DEF TransfersHaveOrders, ReservationsArePast
<1>5. ASSUME Customer PROVE Grown
  <2>1. ASSUME NEW o \in BuyOrders, NEW now, NEW ttl, CreateBuyUsdtOrder(o, now, ttl)
        PROVE  Grown
    BY <1>0, <1>2, <2>1 DEF CreateBuyUsdtOrder, addressVars
  <2>2. ASSUME NEW o \in SellOrders, NEW a \in Addresses, NEW now \in RequestTimes, NEW ttl,
               CreateSellUsdtOrder(o, a, now, ttl)
        PROVE  Grown
    <3>1. /\ UNCHANGED <<clock, chain, deposits>>
          /\ addressStatus[a] = "available" /\ status[o] = "none"
          /\ addressStatus' = [addressStatus EXCEPT ![a] = "reserved"]
          /\ depositAddress' = [depositAddress EXCEPT ![o] = a]
          /\ reservedAt' = [reservedAt EXCEPT ![a] = now]
      BY <2>2 DEF CreateSellUsdtOrder, Created, Reservable
    <3>2. /\ \A other \in SellOrders : depositAddress[other] # a
          /\ depositAddress[o] = NoAddress
      BY <3>1, NullsAssumption DEF WatcherIInv, IInv, AddressesHaveOneOrder, Orders, Created
    <3>3. \A t \in chain : t.toAddress # a
      BY <1>0, <3>2 DEF TransfersHaveOrders
    <3>4. Grows
      BY <1>0, <3>1, <3>2, <3>3 DEF Grows, TypeOK, Orders
    <3>5. \A b \in Addresses : addressStatus'[b] \in OpenAddressStatuses \cup {"available"}
      BY <1>0, <3>1 DEF TypeOK, OpenAddressStatuses
    <3>6. TransfersHaveOrders'
      <4> SUFFICES ASSUME NEW t \in chain
                   PROVE  /\ t.blockTimestamp >= reservedAt'[t.toAddress]
                          /\ \E other \in SellOrders : depositAddress'[other] = t.toAddress
        BY <3>1 DEF TransfersHaveOrders
      <4>1. PICK other \in SellOrders : depositAddress[other] = t.toAddress
        BY <1>0 DEF TransfersHaveOrders
      <4>2. t.toAddress \in Addresses /\ t.toAddress # a
        BY <1>0, <3>3 DEF TypeOK, Transfer
      <4>3. other # o
        BY <3>2, <4>1, <4>2, NullsAssumption
      <4>4. depositAddress'[other] = t.toAddress
        BY <1>0, <3>1, <4>1, <4>3 DEF TypeOK, Orders
      <4>5. reservedAt'[t.toAddress] = reservedAt[t.toAddress]
        BY <1>0, <3>1, <4>2 DEF TypeOK
      <4> QED
        BY <1>0, <4>4, <4>5 DEF TransfersHaveOrders
    <3>7. ReservationsArePast'
      BY <1>0, <3>1 DEF ReservationsArePast, RequestTimes, TypeOK
    <3> QED
      BY <1>1, <3>4, <3>5, <3>6, <3>7
  <2> QED
    BY <1>5, <2>1, <2>2 DEF Customer
<1>6. ASSUME NEW m \in Managers, Manager(m)
      PROVE  Grown
  <2>1. UNCHANGED <<clock, chain, deposits, depositAddress, reservedAt, addressStatus>>
    BY <1>6 DEF Manager, ManagerReadStatus, ManagerWriteStatus, ManagerReadPayout,
       ManagerWritePayout, ManagerRollback, orderVars, addressVars
  <2> QED
    BY <1>0, <1>2, <2>1
<1>7. ASSUME NEW x \in Expirers, Expirer(x)
      PROVE  Grown
  <2>1. UNCHANGED <<clock, chain, deposits, depositAddress, reservedAt>>
    BY <1>7 DEF Expirer, ExpireRead, ExpireWrite, ExpireRollback, orderVars, addressVars
  <2>2. \A a \in Addresses : addressStatus'[a] \in {addressStatus[a], "expired"}
    BY <1>7 DEF Expirer, ExpireRead, ExpireWrite, ExpireRollback, addressVars
  <2>3. \A a \in Addresses : addressStatus'[a] \in OpenAddressStatuses \cup {"available"}
    BY <1>0, <2>2 DEF OpenAddressStatuses
  <2> QED
    BY <1>0, <1>2, <2>1, <2>3
<1>8. \/ Tick \/ Customer
      \/ \E id \in TransferIds, o \in SellOrders, amount \in Amounts : SendToOrder(id, o, amount)
      \/ \E m \in Managers : Manager(m)
      \/ \E x \in Expirers : Expirer(x)
  BY Zenon DEF Others
<1> QED
  <2> HIDE DEF Grown
  <2>1. Grown
    BY <1>3, <1>4, <1>5, <1>6, <1>7, <1>8
  <2> QED
    BY <1>0, <2>1 DEF Grown

-----------------------------------------------------------------------------
(* The steps of a pass.                                                    *)

Settles ==
    /\ Grows /\ OpenUnlessLeft' /\ TransfersHaveOrders' /\ ReservationsArePast'
    /\ leftWatch' \subseteq SellOrders
    /\ UNCHANGED <<clock, chain, depositAddress>>

\* A step that changes no row.
LEMMA QuietStep ==
    ASSUME WatcherIInv, UNCHANGED <<clock, chain, orderVars, addressVars, deposits, leftWatch>>,
           cursor # NoCursor => cursor' # NoCursor
    PROVE  Settles
<1>1. clock \in Nat
  BY TimesAssumption DEF WatcherIInv, WatcherTypeOK, TypeOK
<1> QED
  BY <1>1 DEF WatcherIInv, WatcherTypeOK, Settles, Grows, OpenUnlessLeft, TransfersHaveOrders,
     ReservationsArePast, ClosedToIngestion, Created, orderVars, addressVars

\* One pass moves, the others stay.
LEMMA OnePassMoves ==
    ASSUME WatcherIInv, IInv', Settles, UNCHANGED <<cursor, configuredBlock>>,
           NEW w \in Ingesters,
           \E q : pass' = [pass EXCEPT ![w] = q],
           WellFormed(pass'[w]), MissesNothingNext(pass'[w]), BehindChainNext(pass'[w])
    PROVE  WatcherIInv'
<1>1. pass \in [Ingesters -> Pass \cup {Off}]
  BY DEF WatcherIInv, WatcherTypeOK
<1>2. /\ pass' \in [Ingesters -> Pass \cup {Off}]
      /\ \A v \in Ingesters : v # w => pass'[v] = pass[v]
  BY <1>1 DEF WellFormed
<1>3. \A v \in Ingesters : /\ WellFormed(pass'[v])
                          /\ MissesNothingNext(pass'[v])
                          /\ BehindChainNext(pass'[v])
  BY <1>2, OtherPasses DEF Settles
<1> QED
  BY <1>2, <1>3, StepPreserves DEF Settles

\* The pass ends.
LEMMA PassEnds ==
    ASSUME WatcherIInv, IInv', Settles, UNCHANGED <<cursor, configuredBlock>>,
           NEW w \in Ingesters, pass' = [pass EXCEPT ![w] = Off]
    PROVE  WatcherIInv'
<1>1. pass'[w] = Off
  BY DEF WatcherIInv, WatcherTypeOK
<1>2. WellFormed(Off) /\ MissesNothingNext(Off) /\ BehindChainNext(Off)
  BY DEF WellFormed, MissesNothingNext, BehindChainNext
<1>3. \E q : pass' = [pass EXCEPT ![w] = q]
  OBVIOUS
<1> QED
  BY <1>1, <1>2, <1>3, OnePassMoves

\* A pass is done with the transfer in hand, which is settled or has failed.
LEMMA DoneWithPreserves ==
    ASSUME WatcherIInv, IInv', Settles, UNCHANGED <<cursor, configuredBlock>>,
           NEW w \in Ingesters, NEW t \in chain, NEW failed \in BOOLEAN,
           pass[w].stage = "ingesting", DoneWith(w, t, failed),
           failed \/ \A o \in SellOrders : depositAddress[o] = t.toAddress => SettledNext(t, o)
    PROVE  WatcherIInv'
<1> DEFINE p == pass[w]
           rest == p.events \ {t}
           q == [p EXCEPT !.events = rest, !.failed = p.failed \/ failed,
                          !.stage = StageAfter(rest, p.more)]
<1>1. /\ pass \in [Ingesters -> Pass \cup {Off}]
      /\ p \in Pass
      /\ p.fromBlock <= p.toBlock
      /\ BehindChain(p) /\ MissesNothing(p)
  BY DEF WatcherIInv, WatcherTypeOK, Off, PassesBehindChain, PassesMissNothing
<1>2. pass' = [pass EXCEPT ![w] = q] /\ pass'[w] = q
  BY <1>1 DEF DoneWith
<1>3. StageAfter(rest, p.more) \in {"paging", "ingesting", "finishing"}
  BY DEF StageAfter
<1>4. /\ q \in Pass /\ q # Off
      /\ q.fromBlock = p.fromBlock /\ q.toBlock = p.toBlock
      /\ q.nextIndex = p.nextIndex /\ q.more = p.more
      /\ q.events = rest /\ q.failed = (p.failed \/ failed)
      /\ q.stage = StageAfter(rest, p.more)
  BY <1>1, <1>3 DEF Pass, Off
<1> HIDE DEF q
<1>5. WellFormed(q)
  BY <1>1, <1>4 DEF WellFormed, StageAfter
<1>6. BehindChainNext(q)
  BY <1>1, <1>4 DEF BehindChain, BehindChainNext, StageAfter, Settles, Off, Pass
<1>7. MissesNothingNext(q)
  <2> SUFFICES ASSUME ~p.failed, ~failed, NEW u \in chain, NEW o \in SellOrders,
                      BlockOf(u) \in p.fromBlock..p.toBlock,
                      depositAddress[o] = u.toAddress
               PROVE  SettledNext(u, o) \/ StillAhead(q, u)
    BY <1>4 DEF MissesNothingNext, Settles
  <2>1. SettledFor(u, o) \/ StillAhead(p, u)
    BY <1>1 DEF MissesNothing, Pass, Off
  <2>2. CASE SettledFor(u, o)
    BY <2>2, SettledStays DEF Settles
  <2>3. CASE StillAhead(p, u)
    BY <1>4, <2>3 DEF StillAhead
  <2> QED
    BY <2>1, <2>2, <2>3
<1> QED
  BY <1>2, <1>5, <1>6, <1>7, OnePassMoves

\* The least of two numbers, as StartPass computes the last block of its range.
LEMMA MinOfTwo ==
    ASSUME NEW m \in Nat, NEW n \in Nat
    PROVE  Min({m, n}) \in {m, n} /\ Min({m, n}) <= m /\ Min({m, n}) <= n
<1>1. \E x \in {m, n} : \A y \in {m, n} : x <= y
  OBVIOUS
<1>2. Min({m, n}) \in {m, n} /\ \A y \in {m, n} : Min({m, n}) <= y
  BY <1>1 DEF Min
<1> QED
  BY <1>2

\* A new pass has every page of its blocks still to come.
LEMMA StartPassPreserves ==
    ASSUME WatcherIInv, IInv', NEW w \in Ingesters, StartPass(w)
    PROVE  WatcherIInv'
<1> DEFINE last == cursor.lastProcessedBlock
           to == Min({last + cursor.maxBlockRange, SafeBlock(cursor)})
           q == [stage |-> "paging", fromBlock |-> last + 1, toBlock |-> to,
                 nextIndex |-> 0, more |-> TRUE, events |-> {}, failed |-> FALSE]
<1>1. /\ pass' = [pass EXCEPT ![w] = q]
      /\ cursor # NoCursor /\ SafeBlock(cursor) > last
      /\ UNCHANGED <<vars, cursor, configuredBlock, leftWatch>>
  BY DEF StartPass
<1>2. /\ last \in Nat /\ cursor.maxBlockRange \in Nat \ {0}
      /\ cursor.confirmationDepth \in Nat /\ EventLag \in Nat /\ clock \in Nat
      /\ EventLag <= cursor.confirmationDepth
  BY <1>1, WatcherNumbers DEF WatcherIInv, WatcherTypeOK, CursorBehindChain, CursorRow
<1>3. SafeBlock(cursor) \in Nat /\ SafeBlock(cursor) + EventLag <= clock
  BY <1>1, <1>2 DEF SafeBlock, LatestBlock
<1>4. to \in Nat /\ last + 1 <= to /\ to <= SafeBlock(cursor)
  BY <1>1, <1>2, <1>3, MinOfTwo
<1>5. Settles
  BY <1>1, QuietStep DEF vars
<1>6. pass'[w] = q
  BY <1>1 DEF WatcherIInv, WatcherTypeOK
<1> HIDE DEF to, last
<1>7. WellFormed(q)
  BY <1>2, <1>4 DEF WellFormed, Pass
<1>8. BehindChainNext(q)
  <2>1. to + EventLag <= clock
    BY <1>2, <1>3, <1>4
  <2> QED
    BY <1>1, <2>1 DEF BehindChainNext, vars
<1>9. MissesNothingNext(q)
  <2>1. \A t \in chain' : DerivationIndex[t.toAddress] \in Nat
    BY WatcherAssumption DEF IInv, TypeOK, Transfer
  <2>2. \A t \in chain' : StillAhead(q, t)
    BY <2>1 DEF StillAhead
  <2> QED
    BY <2>2 DEF MissesNothingNext
<1>10. \E r : pass' = [pass EXCEPT ![w] = r]
  BY <1>1
<1> QED
  BY <1>1, <1>5, <1>6, <1>7, <1>8, <1>9, <1>10, OnePassMoves

\* An order that is open to ingestion has its address on the page, or on one
\* still to come, however orders changed since the page before.
LEMMA FetchPagePreserves ==
    ASSUME WatcherIInv, IInv', NEW w \in Ingesters, FetchPage(w)
    PROVE  WatcherIInv'
<1> DEFINE p == pass[w]
           S == IndexesFrom(p.nextIndex)
           page == Page(p.nextIndex)
           mined == InRange(p, {a \in Addresses : DerivationIndex[a] \in page})
           more == Cardinality(page) = AddressBatchSize
<1>1. PICK missing \in SUBSET (mined \ Confirmed(mined)) :
         pass' = [pass EXCEPT ![w].stage = StageAfter(mined \ missing, more),
                              ![w].nextIndex = IndexAfter(p.nextIndex, page),
                              ![w].more = more,
                              ![w].events = mined \ missing]
  BY DEF FetchPage
<1>2. /\ p.stage = "paging"
      /\ UNCHANGED <<vars, cursor, configuredBlock, leftWatch>>
  BY DEF FetchPage
<1>3. /\ pass \in [Ingesters -> Pass \cup {Off}]
      /\ p \in Pass
      /\ p.fromBlock <= p.toBlock /\ p.events = {}
      /\ BehindChain(p) /\ MissesNothing(p) /\ p.more
  BY <1>2 DEF WatcherIInv, WatcherTypeOK, Off, PassesBehindChain, PassesMissNothing, BehindChain
<1>4. S \in SUBSET Nat /\ page = LowestOf(S, AddressBatchSize)
  BY WatcherAssumption DEF IndexesFrom, Watched, Page, LowestOf, LowerThan
<1>5. mined = mined \ missing
  <2>1. mined \subseteq Confirmed(mined)
    BY <1>3, WatcherNumbers
       DEF InRange, Confirmed, LatestBlock, BlockOf, BehindChain, Pass, Off
  <2> QED
    BY <2>1
<1> DEFINE next == IndexAfter(p.nextIndex, page)
           q == [p EXCEPT !.stage = StageAfter(mined, more), !.nextIndex = next,
                          !.more = more, !.events = mined]
<1> HIDE DEF page, mined, more, S
<1>6. next \in Nat
  <2>1. p.nextIndex \in Nat
    BY <1>3 DEF Pass
  <2>2. ASSUME page # {} PROVE Max(page) \in Nat
    <3>1. Max(page) \in page
      BY <1>4, <2>2, PageHasMax, WatcherAssumption
    <3>2. page \subseteq S
      BY <1>4 DEF LowestOf
    <3> QED
      BY <1>4, <3>1, <3>2
  <2> QED
    BY <2>1, <2>2 DEF IndexAfter
<1>7. StageAfter(mined, more) \in {"paging", "ingesting", "finishing"} /\ more \in BOOLEAN
  BY DEF StageAfter, more
<1>8. mined \subseteq Transfer
  BY DEF mined, InRange, WatcherIInv, IInv, TypeOK
<1> HIDE DEF next
<1>9. pass' = [pass EXCEPT ![w] = q] /\ pass'[w] = q
  BY <1>1, <1>3, <1>5 DEF next
<1>10. /\ q \in Pass /\ q # Off
       /\ q.fromBlock = p.fromBlock /\ q.toBlock = p.toBlock /\ q.failed = p.failed
       /\ q.nextIndex = next /\ q.more = more /\ q.events = mined
       /\ q.stage = StageAfter(mined, more)
  BY <1>3, <1>6, <1>7, <1>8 DEF Pass, Off
<1> HIDE DEF q
<1>11. WellFormed(q)
  BY <1>3, <1>10 DEF WellFormed, StageAfter
<1>12. BehindChainNext(q)
  BY <1>2, <1>3, <1>10 DEF BehindChain, BehindChainNext, StageAfter, vars, Off, Pass
<1>13. MissesNothingNext(q)
  <2> SUFFICES ASSUME ~p.failed, NEW t \in chain, NEW o \in SellOrders,
                      BlockOf(t) \in p.fromBlock..p.toBlock,
                      depositAddress[o] = t.toAddress,
                      ~SettledFor(t, o)
               PROVE  StillAhead(q, t)
    BY <1>2, <1>10 DEF MissesNothingNext, SettledFor, SettledNext, AlreadyRecorded, vars,
       orderVars
  <2> DEFINE i == DerivationIndex[t.toAddress]
  <2>1. i \in Nat /\ i >= p.nextIndex /\ t.toAddress \in Addresses
    <3>1. t.toAddress \in Addresses
      BY DEF WatcherIInv, IInv, TypeOK, Transfer
    <3>2. StillAhead(p, t)
      BY <1>3 DEF MissesNothing, Off, Pass
    <3> QED
      BY <1>3, <3>1, <3>2, WatcherAssumption DEF StillAhead
  <2>2. t.toAddress \in Watched
    <3>1. status[o] \in OpenOrderStatuses
      <4>1. Created(o)
        BY <2>1, NullsAssumption DEF WatcherIInv, IInv, AddressesHaveOneOrder, Orders
      <4> QED
        BY <4>1 DEF SettledFor, WatcherIInv, OpenUnlessLeft, ClosedToIngestion
    <3>2. addressStatus[t.toAddress] \in OpenAddressStatuses
      <4>1. addressStatus[t.toAddress] # "available"
        BY <2>1, NullsAssumption DEF WatcherIInv, IInv, AddressesHaveOneOrder, Orders
      <4> QED
        BY <2>1, <4>1 DEF WatcherIInv, OpenUnlessLeft
    <3> QED
      BY <2>1, <3>1, <3>2 DEF Watched
  <2>3. i \in S
    BY <1>3, <2>1, <2>2 DEF S, IndexesFrom, Pass
  <2>4. CASE i \in page
    BY <1>10, <2>1, <2>4 DEF StillAhead, mined, InRange
  <2>5. CASE i \notin page
    <3>1. page # {} /\ more /\ Max(page) < i
      BY <1>4, <2>3, <2>5, PageIsLowest, WatcherAssumption DEF more
    <3>2. Max(page) \in Nat
      BY <1>4, <3>1, PageHasMax, WatcherAssumption DEF LowestOf
    <3> QED
      BY <1>10, <2>1, <3>1, <3>2 DEF StillAhead, next, IndexAfter
  <2> QED
    BY <2>4, <2>5
<1>14. Settles
  BY <1>2, QuietStep DEF vars
<1>15. \E r : pass' = [pass EXCEPT ![w] = r]
  BY <1>9
<1> QED
  BY <1>2, <1>9, <1>11, <1>12, <1>13, <1>14, <1>15, OnePassMoves

\* What the ingestion of one transfer does to rows and to the watch.
LEMMA RecordSettles ==
    ASSUME WatcherIInv, IInv', NEW w \in Ingesters, NEW t \in chain, RecordTransfer(w, t)
    PROVE  Settles /\ AlreadyRecorded(t.id)'
<1>1. /\ ingestTxn[w].op = "ingest"
      /\ deposits' = deposits \cup {[transfer |-> ingestTxn[w].transfer,
                                    order |-> ingestTxn[w].order]}
      /\ UNCHANGED <<clock, chain, depositAddress, reservedAt, cursor>>
  BY DEF RecordTransfer, IngestWrite, WatcherUnchanged
<1>2. PICK next : addressStatus' = [addressStatus EXCEPT ![ingestTxn[w].transfer.toAddress] =
                                      NextDepositAddressStatus(next)]
  BY DEF RecordTransfer, IngestWrite
<1>3. ingestTxn[w].transfer = t
  BY <1>1 DEF RecordTransfer, IsNext, Idle
<1>4. /\ leftWatch' = leftWatch \cup ClosedToIngestion'
      /\ leftWatch' \subseteq SellOrders
  BY DEF RecordTransfer, NoteLeftWatch, ClosedToIngestion, WatcherIInv, WatcherTypeOK
<1>5. \A a \in Addresses : addressStatus'[a] \in OpenAddressStatuses \cup {"available"}
  BY <1>2 DEF WatcherIInv, OpenUnlessLeft, OpenAddressStatuses, NextDepositAddressStatus,
     IInv, TypeOK
<1>6. clock \in Nat
  BY WatcherNumbers
<1>7. Grows
  BY <1>1, <1>4, <1>6 DEF Grows
<1>8. AlreadyRecorded(t.id)'
  <2>1. [transfer |-> t, order |-> ingestTxn[w].order] \in deposits'
    BY <1>1, <1>3
  <2>2. \E d \in deposits' : d.transfer.id = t.id
    BY <2>1
  <2> QED
    BY <2>2 DEF AlreadyRecorded
<1> QED
  BY <1>1, <1>4, <1>5, <1>7, <1>8
     DEF Settles, OpenUnlessLeft, WatcherIInv, TransfersHaveOrders, ReservationsArePast

\* Each way an ingestion may end settles its transfer, or fails the pass: a
\* transfer is ignored only when its order is no longer open to ingestion.
LEMMA IngestPreserves ==
    ASSUME WatcherIInv, IInv', NEW w \in Ingesters, NEW t \in chain, Ingest(w, t)
    PROVE  WatcherIInv'
<1>1. CASE ReadTransfer(w, t)
  <2>1. /\ UNCHANGED <<clock, chain, orderVars, addressVars, deposits, leftWatch>>
        /\ UNCHANGED <<pass, cursor, configuredBlock>>
    BY <1>1 DEF ReadTransfer, IngestRead, WatcherUnchanged
  <2>2. Settles
    BY <2>1, QuietStep
  <2> QED
    BY <2>1, <2>2, OtherPasses, StepPreserves DEF Settles, WatcherIInv, WatcherTypeOK
<1>2. CASE IgnoreTransfer(w, t)
  <2>1. /\ UNCHANGED <<clock, chain, orderVars, addressVars, deposits, leftWatch>>
        /\ UNCHANGED <<cursor, configuredBlock>>
        /\ pass[w].stage = "ingesting" /\ DoneWith(w, t, FALSE)
        /\ \A o \in SellOrders : ~AcceptedOnRead(t, o)
    BY <1>2 DEF IgnoreTransfer, IsNext, WatcherUnchanged, vars
  <2>2. Settles
    BY <2>1, QuietStep
  <2>3. ASSUME NEW o \in SellOrders, depositAddress[o] = t.toAddress PROVE SettledNext(t, o)
    <3>1. t.toAddress \in Addresses
      BY DEF WatcherIInv, IInv, TypeOK, Transfer
    <3>2. Created(o) /\ addressStatus[t.toAddress] # "available"
      BY <2>3, <3>1, NullsAssumption DEF WatcherIInv, IInv, AddressesHaveOneOrder, Orders
    <3>3. t.blockTimestamp >= reservedAt[t.toAddress]
      BY DEF WatcherIInv, TransfersHaveOrders
    <3>4. addressStatus[t.toAddress] \in OpenAddressStatuses
      BY <3>1, <3>2 DEF WatcherIInv, OpenUnlessLeft
    <3>5. status[o] \notin OpenOrderStatuses
      BY <2>1, <2>3, <3>3, <3>4 DEF AcceptedOnRead
    <3>6. o \in leftWatch
      BY <3>2, <3>5 DEF WatcherIInv, OpenUnlessLeft, ClosedToIngestion
    <3> QED
      BY <2>1, <3>6 DEF SettledNext
  <2> QED
    BY <2>1, <2>2, <2>3, DoneWithPreserves
<1>3. CASE RecordTransfer(w, t)
  <2>1. /\ UNCHANGED <<cursor, configuredBlock>>
        /\ pass[w].stage = "ingesting" /\ DoneWith(w, t, FALSE)
    BY <1>3 DEF RecordTransfer, IsNext, WatcherUnchanged
  <2>2. \A o \in SellOrders : SettledNext(t, o)
    BY <1>3, RecordSettles DEF SettledNext, AlreadyRecorded
  <2> QED
    BY <1>3, <2>1, <2>2, RecordSettles, DoneWithPreserves
<1>4. CASE SkipDuplicate(w, t)
  <2>1. /\ UNCHANGED <<clock, chain, orderVars, addressVars, deposits, leftWatch>>
        /\ UNCHANGED <<cursor, configuredBlock>>
        /\ pass[w].stage = "ingesting" /\ DoneWith(w, t, FALSE)
        /\ AlreadyRecorded(t.id)
    BY <1>4 DEF SkipDuplicate, IngestRollback, IsNext, WatcherUnchanged
  <2>2. \A o \in SellOrders : SettledNext(t, o)
    BY <2>1 DEF SettledNext, AlreadyRecorded
  <2> QED
    BY <2>1, <2>2, QuietStep, DoneWithPreserves
<1>5. CASE FailOnConflict(w, t) \/ FailMalformed(w, t)
  <2>1. /\ UNCHANGED <<clock, chain, orderVars, addressVars, deposits, leftWatch>>
        /\ UNCHANGED <<cursor, configuredBlock>>
        /\ pass[w].stage = "ingesting" /\ DoneWith(w, t, TRUE)
    BY <1>5 DEF FailOnConflict, FailMalformed, IngestRollback, IsNext, WatcherUnchanged, vars
  <2> QED
    BY <2>1, QuietStep, DoneWithPreserves
<1> QED
  BY <1>1, <1>2, <1>3, <1>4, <1>5 DEF Ingest

\* The cursor moves over the blocks of a pass in which nothing failed, from
\* where it was when the pass began.
LEMMA MoveCursorPreserves ==
    ASSUME WatcherIInv, IInv', NEW w \in Ingesters, MoveCursor(w)
    PROVE  WatcherIInv'
<1> DEFINE p == pass[w]
<1>1. /\ p.stage = "finishing" /\ ~p.failed
      /\ cursor.lastProcessedBlock + 1 = p.fromBlock
      /\ cursor' = [cursor EXCEPT !.lastProcessedBlock = p.toBlock]
      /\ pass' = [pass EXCEPT ![w] = Off]
      /\ UNCHANGED <<vars, configuredBlock, leftWatch>>
  BY DEF MoveCursor, CursorUnmoved
<1>2. /\ p \in Pass /\ p # Off /\ BehindChain(p) /\ MissesNothing(p) /\ p.events = {}
  BY <1>1 DEF WatcherIInv, WatcherTypeOK, Off, PassesBehindChain, PassesMissNothing
<1>3. ~p.more /\ p.toBlock + EventLag <= clock
  BY <1>1, <1>2 DEF BehindChain
<1>4. \A t \in chain, o \in SellOrders :
         /\ BlockOf(t) \in p.fromBlock..p.toBlock
         /\ depositAddress[o] = t.toAddress
         => SettledFor(t, o)
  BY <1>1, <1>2, <1>3 DEF MissesNothing, StillAhead
<1>5. cursor # NoCursor /\ cursor \in CursorRow /\ cursor' \in CursorRow
  BY <1>1, <1>2 DEF BehindChain, WatcherIInv, WatcherTypeOK, CursorRow, Pass, Off
<1>6. cursor' # NoCursor
  BY <1>5, WatcherAssumption
<1>7. Settles
  BY <1>1, <1>6, QuietStep DEF vars
<1>8. CursorBehindChain'
  <2>1. p.toBlock <= clock
    BY <1>2, <1>3, WatcherNumbers
  <2>2. /\ cursor'.lastProcessedBlock = p.toBlock
        /\ cursor'.confirmationDepth = cursor.confirmationDepth
    BY <1>1, <1>5 DEF CursorRow
  <2>3. EventLag <= cursor.confirmationDepth
    BY <1>5 DEF WatcherIInv, CursorBehindChain
  <2> QED
    BY <1>1, <2>1, <2>2, <2>3 DEF CursorBehindChain, vars
<1>9. CursorCoversTransfers'
  <2> SUFFICES ASSUME NEW t \in chain, NEW o \in SellOrders,
                      BlockOf(t) \in (configuredBlock + 1)..cursor'.lastProcessedBlock,
                      depositAddress[o] = t.toAddress
               PROVE  SettledFor(t, o)
    BY <1>1 DEF CursorCoversTransfers, SettledFor, AlreadyRecorded, vars, orderVars
  <2>1. cursor'.lastProcessedBlock = p.toBlock
    BY <1>1, <1>5 DEF CursorRow
  <2>2. /\ BlockOf(t) \in Nat /\ cursor.lastProcessedBlock \in Nat
        /\ p.fromBlock \in Nat /\ p.toBlock \in Nat /\ configuredBlock \in Nat
    BY <1>2, <1>5, WatcherNumbers DEF BlockOf
  <2>3. CASE BlockOf(t) \in (configuredBlock + 1)..cursor.lastProcessedBlock
    BY <1>5, <2>3 DEF WatcherIInv, CursorCoversTransfers, SettledFor
  <2>4. CASE BlockOf(t) \in p.fromBlock..p.toBlock
    BY <1>4, <2>4
  <2> QED
    BY <1>1, <2>1, <2>2, <2>3, <2>4
<1>10. /\ pass' \in [Ingesters -> Pass \cup {Off}]
       /\ pass'[w] = Off
       /\ \A v \in Ingesters : v # w => pass'[v] = pass[v]
  BY <1>1 DEF WatcherIInv, WatcherTypeOK
<1>11. WellFormed(Off) /\ MissesNothingNext(Off) /\ BehindChainNext(Off)
  BY DEF WellFormed, MissesNothingNext, BehindChainNext
<1>12. \A v \in Ingesters : /\ WellFormed(pass'[v])
                            /\ MissesNothingNext(pass'[v])
                            /\ BehindChainNext(pass'[v])
  BY <1>7, <1>10, <1>11, OtherPasses DEF Settles
<1>13. configuredBlock' \in Nat
  BY <1>1 DEF WatcherIInv, WatcherTypeOK
<1> QED
  BY <1>5, <1>7, <1>8, <1>9, <1>10, <1>12, <1>13, SoundStepPreserves DEF Settles

\* A pass that ends without moving the cursor has passed nothing.
LEMMA LostPassPreserves ==
    ASSUME WatcherIInv, IInv', NEW w \in Ingesters, EndWithoutProgress(w) \/ LosePass(w)
    PROVE  WatcherIInv'
<1>1. /\ UNCHANGED <<clock, chain, orderVars, addressVars, deposits, leftWatch>>
      /\ UNCHANGED <<cursor, configuredBlock>>
      /\ pass' = [pass EXCEPT ![w] = Off]
  BY DEF EndWithoutProgress, LosePass, IngestRollback, WatcherUnchanged, vars
<1> QED
  BY <1>1, QuietStep, PassEnds

\* A transfer that meets a database error fails the pass.
LEMMA DatabaseErrorPreserves ==
    ASSUME WatcherIInv, IInv', NEW w \in Ingesters, NEW t \in chain, FailOnDatabaseError(w, t)
    PROVE  WatcherIInv'
<1>1. /\ UNCHANGED <<clock, chain, orderVars, addressVars, deposits, leftWatch>>
      /\ UNCHANGED <<cursor, configuredBlock>>
      /\ pass[w].stage = "ingesting" /\ DoneWith(w, t, TRUE)
  BY DEF FailOnDatabaseError, IngestRollback, IsNext, WatcherUnchanged, vars
<1> QED
  BY <1>1, QuietStep, DoneWithPreserves

\* A cursor that was just configured has passed nothing.
LEMMA ConfigurePreserves ==
    ASSUME WatcherIInv, IInv', NEW c \in CursorConfigs, ConfigureCursor(c)
    PROVE  WatcherIInv'
<1>1. /\ cursor' = c /\ configuredBlock' = c.lastProcessedBlock
      /\ UNCHANGED <<vars, pass, leftWatch>>
  BY DEF ConfigureCursor
<1>2. c \in CursorRow /\ c # NoCursor /\ EventLag <= c.confirmationDepth
  BY WatcherAssumption, DepthAssumption
<1>3. Settles
  BY <1>1, <1>2, QuietStep DEF vars
<1>4. c.lastProcessedBlock \in Nat
  BY <1>2 DEF CursorRow
<1>5. CursorBehindChain'
  BY <1>1, <1>2, <1>4 DEF CursorBehindChain
<1>6. CursorCoversTransfers'
  <2>1. (c.lastProcessedBlock + 1)..c.lastProcessedBlock = {}
    BY <1>4
  <2> QED
    BY <1>1, <2>1 DEF CursorCoversTransfers
<1>7. \A v \in Ingesters : /\ WellFormed(pass'[v])
                           /\ MissesNothingNext(pass'[v])
                           /\ BehindChainNext(pass'[v])
  BY <1>1, <1>3, OtherPasses DEF Settles
<1>8. pass' \in [Ingesters -> Pass \cup {Off}]
  BY <1>1 DEF WatcherIInv, WatcherTypeOK
<1> QED
  BY <1>1, <1>2, <1>3, <1>4, <1>5, <1>6, <1>7, <1>8, SoundStepPreserves DEF Settles

-----------------------------------------------------------------------------
(* The invariant.                                                          *)

\* Nothing has happened yet.
LEMMA InitWatcherIInv == WatcherInit => WatcherIInv
<1> SUFFICES ASSUME WatcherInit PROVE WatcherIInv
  OBVIOUS
<1>1. IInv /\ TypeOK
  BY InitIInv DEF WatcherInit, IInv
<1>2. /\ cursor = NoCursor /\ pass = [w \in Ingesters |-> Off]
      /\ configuredBlock = 0 /\ leftWatch = {}
      /\ chain = {} /\ clock = 0
      /\ reservedAt = [a \in Addresses |-> 0]
      /\ addressStatus = [a \in Addresses |-> "available"]
      /\ status = [o \in Orders |-> "none"]
  BY DEF WatcherInit, Init
<1>3. WatcherTypeOK
  BY <1>1, <1>2 DEF WatcherTypeOK
<1>4. OpenUnlessLeft
  BY <1>2 DEF OpenUnlessLeft, ClosedToIngestion, Created, Orders
<1> QED
  BY <1>1, <1>2, <1>3, <1>4
     DEF WatcherIInv, TransfersHaveOrders, ReservationsArePast, CursorBehindChain,
         PassesBehindChain, BehindChain, PassesMissNothing, MissesNothing, CursorCoversTransfers

\* Every step of the watcher, and of everyone around it, preserves it.
LEMMA NextWatcherIInv == WatcherIInv /\ [WatcherNext]_allVars => WatcherIInv'
<1> SUFFICES ASSUME WatcherIInv, [WatcherNext]_allVars PROVE WatcherIInv'
  OBVIOUS
<1>0. IInv'
  BY StepIsLifecycleStep, NextIInv DEF WatcherIInv
<1>1. CASE UNCHANGED allVars
  <2>1. /\ UNCHANGED <<clock, chain, orderVars, addressVars, deposits, leftWatch>>
        /\ UNCHANGED <<cursor, configuredBlock, pass>>
    BY <1>1 DEF allVars, watcherVars, vars
  <2>2. Settles
    BY <2>1, QuietStep
  <2> QED
    BY <1>0, <2>1, <2>2, OtherPasses, StepPreserves DEF Settles, WatcherIInv, WatcherTypeOK
<1>2. CASE Others
  <2>1. UNCHANGED <<cursor, configuredBlock, pass>>
    BY <1>2 DEF Others, WatcherUnchanged
  <2>2. /\ Grows /\ OpenUnlessLeft' /\ TransfersHaveOrders' /\ ReservationsArePast'
        /\ leftWatch' \subseteq SellOrders
    BY <1>0, <1>2, OthersGrow
  <2> QED
    BY <1>0, <2>1, <2>2, OtherPasses, StepPreserves DEF WatcherIInv, WatcherTypeOK
<1>3. ASSUME NEW w \in Ingesters, Progress(w) PROVE WatcherIInv'
  BY <1>0, <1>3, StartPassPreserves, FetchPagePreserves, IngestPreserves, MoveCursorPreserves,
     LostPassPreserves DEF Progress
<1>4. ASSUME NEW w \in Ingesters, Breakdown(w) PROVE WatcherIInv'
  BY <1>0, <1>4, DatabaseErrorPreserves, LostPassPreserves DEF Breakdown
<1>5. ASSUME NEW c \in CursorConfigs, ConfigureCursor(c) PROVE WatcherIInv'
  BY <1>0, <1>5, ConfigurePreserves
<1> QED
  BY <1>1, <1>2, <1>3, <1>4, <1>5 DEF WatcherNext

\* The inductive invariant holds for any number of passes, orders, transfers
\* and pages, and any batch size.
THEOREM WatcherInductive == WatcherSpec => []WatcherIInv
<1> QED
  BY InitWatcherIInv, NextWatcherIInv, PTL DEF WatcherSpec

\* The cursor never passes an unrecorded transfer to an order that has always
\* been open to ingestion.
THEOREM CursorCovers == WatcherSpec => []CursorCoversTransfers
<1>1. WatcherIInv => CursorCoversTransfers
  BY DEF WatcherIInv
<1> QED
  BY <1>1, WatcherInductive, PTL

-----------------------------------------------------------------------------
(* What a step may do to the cursor and to a pass.                         *)

\* Steps that leave the cursor alone: all but the end of a pass in which
\* nothing failed, and an operator's.
LEMMA CursorMovers ==
    ASSUME WatcherIInv, [WatcherNext]_allVars, cursor' # cursor
    PROVE  \/ \E c \in CursorConfigs : ConfigureCursor(c)
           \/ \E w \in Ingesters : MoveCursor(w)
<1>1. CASE Others \/ UNCHANGED allVars
  BY <1>1 DEF Others, WatcherUnchanged, allVars, watcherVars
<1>2. ASSUME NEW w \in Ingesters, Progress(w), ~MoveCursor(w) PROVE FALSE
  BY <1>2 DEF Progress, StartPass, FetchPage, EndWithoutProgress, Ingest, ReadTransfer,
     IgnoreTransfer, RecordTransfer, SkipDuplicate, FailOnConflict, FailMalformed,
     WatcherUnchanged
<1>3. ASSUME NEW w \in Ingesters, Breakdown(w) PROVE FALSE
  BY <1>3 DEF Breakdown, FailOnDatabaseError, LosePass, WatcherUnchanged
<1> QED
  BY <1>1, <1>2, <1>3 DEF WatcherNext

\* A pass has at least one block, all of them confirmed, and moves the cursor
\* only from the block before its first one.
THEOREM CursorForward == WatcherSpec => CursorGoesForward
<1> DEFINE Forward ==
        cursor' # cursor =>
          \/ \E c \in CursorConfigs : ConfigureCursor(c)
          \/ /\ cursor # NoCursor
             /\ cursor'.lastProcessedBlock > cursor.lastProcessedBlock
             /\ cursor'.lastProcessedBlock + EventLag <= LatestBlock
<1>1. WatcherIInv /\ [WatcherNext]_allVars => [Forward]_allVars
  <2> SUFFICES ASSUME WatcherIInv, [WatcherNext]_allVars, cursor' # cursor,
                      NEW w \in Ingesters, MoveCursor(w)
               PROVE  /\ cursor # NoCursor
                      /\ cursor'.lastProcessedBlock > cursor.lastProcessedBlock
                      /\ cursor'.lastProcessedBlock + EventLag <= LatestBlock
    BY CursorMovers
  <2> DEFINE p == pass[w]
  <2>1. /\ p.stage = "finishing"
        /\ cursor.lastProcessedBlock + 1 = p.fromBlock
        /\ cursor' = [cursor EXCEPT !.lastProcessedBlock = p.toBlock]
    BY DEF MoveCursor, CursorUnmoved
  <2>2. /\ p \in Pass /\ p # Off /\ BehindChain(p) /\ p.fromBlock <= p.toBlock
    BY <2>1 DEF WatcherIInv, WatcherTypeOK, Off, PassesBehindChain
  <2>3. cursor # NoCursor /\ cursor \in CursorRow /\ p.toBlock + EventLag <= clock
    BY <2>2 DEF BehindChain, WatcherIInv, WatcherTypeOK
  <2>4. cursor'.lastProcessedBlock = p.toBlock
    BY <2>1, <2>3 DEF CursorRow
  <2>5. p.fromBlock \in Nat /\ p.toBlock \in Nat /\ cursor.lastProcessedBlock \in Nat
    BY <2>2, <2>3, WatcherNumbers
  <2> QED
    BY <2>1, <2>2, <2>3, <2>4, <2>5 DEF LatestBlock
<1> QED
  BY <1>1, WatcherInductive, PTL DEF WatcherSpec, CursorGoesForward

\* What one step leaves a pass to do.
LeavesLess(p, q) ==
    \/ /\ p.more
       /\ \/ ~q.more
          \/ /\ AddressesFrom(q.nextIndex) \subseteq AddressesFrom(p.nextIndex)
             /\ AddressesFrom(q.nextIndex) # AddressesFrom(p.nextIndex)
    \/ /\ q.more = p.more /\ q.nextIndex = p.nextIndex
       /\ q.events \subseteq p.events /\ q.events # p.events

\* The next page begins above the last address of this one, and a page without
\* addresses is the last.
LEMMA PagesRunOut ==
    ASSUME WatcherIInv, NEW w \in Ingesters, FetchPage(w)
    PROVE  LeavesLess(pass[w], pass'[w])
<1> DEFINE p == pass[w]
           S == IndexesFrom(p.nextIndex)
           page == Page(p.nextIndex)
           more == Cardinality(page) = AddressBatchSize
           next == IndexAfter(p.nextIndex, page)
<1>1. /\ p.stage = "paging"
      /\ \E events : pass' = [pass EXCEPT ![w].stage = StageAfter(events, more),
                                         ![w].nextIndex = next,
                                         ![w].more = more,
                                         ![w].events = events]
  BY DEF FetchPage
<1>2. /\ pass \in [Ingesters -> Pass \cup {Off}]
      /\ p \in Pass /\ p.more
  BY <1>1 DEF WatcherIInv, WatcherTypeOK, Off, PassesBehindChain, BehindChain
<1>3. pass'[w].nextIndex = next /\ pass'[w].more = more
  <2> HIDE DEF more, next
  <2> QED
    BY <1>1, <1>2 DEF Pass
<1>4. /\ S \in SUBSET Nat /\ page = LowestOf(S, AddressBatchSize)
      /\ \A i \in S : i >= p.nextIndex /\ \E a \in Addresses : i = DerivationIndex[a]
  BY <1>2, WatcherAssumption DEF IndexesFrom, Watched, Page, LowestOf, LowerThan, Pass
<1> HIDE DEF page, S
<1>5. CASE page = {}
  <2>1. Cardinality(page) # AddressBatchSize
    BY <1>5, FS_EmptySet, WatcherAssumption
  <2> QED
    BY <1>2, <1>3, <2>1 DEF LeavesLess
<1>6. CASE page # {}
  <2>1. Max(page) \in page
    BY <1>4, <1>6, PageHasMax, WatcherAssumption
  <2>2. /\ Max(page) \in Nat /\ Max(page) >= p.nextIndex
    BY <1>4, <2>1 DEF LowestOf
  <2>3. PICK a \in Addresses : Max(page) = DerivationIndex[a]
    BY <1>4, <2>1 DEF LowestOf
  <2>4. pass'[w].nextIndex = Max(page) + 1
    BY <1>3, <1>6 DEF IndexAfter
  <2>5. p.nextIndex \in Nat /\ \A b \in Addresses : DerivationIndex[b] \in Nat
    BY <1>2, WatcherAssumption DEF Pass
  <2>6. AddressesFrom(pass'[w].nextIndex) \subseteq AddressesFrom(p.nextIndex)
    BY <2>2, <2>4, <2>5 DEF AddressesFrom
  <2>7. a \in AddressesFrom(p.nextIndex) /\ a \notin AddressesFrom(pass'[w].nextIndex)
    BY <2>2, <2>3, <2>4, <2>5 DEF AddressesFrom
  <2> QED
    BY <1>2, <2>6, <2>7 DEF LeavesLess
<1> QED
  BY <1>5, <1>6

\* A pass that is done with a transfer has one less in hand.
LEMMA TransfersRunOut ==
    ASSUME WatcherIInv, NEW w \in Ingesters, NEW t \in chain, NEW failed \in BOOLEAN,
           IsNext(w, t), DoneWith(w, t, failed)
    PROVE  LeavesLess(pass[w], pass'[w])
<1>1. /\ pass[w].stage = "ingesting" /\ t \in pass[w].events
      /\ pass \in [Ingesters -> Pass \cup {Off}]
      /\ pass[w] \in Pass
  BY DEF IsNext, WatcherIInv, WatcherTypeOK, Off
<1>2. /\ pass'[w].events = pass[w].events \ {t}
      /\ pass'[w].more = pass[w].more
      /\ pass'[w].nextIndex = pass[w].nextIndex
  BY <1>1 DEF DoneWith, Pass
<1> QED
  BY <1>1, <1>2 DEF LeavesLess

\* Every pass ends, however many orders and transfers there are.
THEOREM PassesEnd == WatcherSpec => PassesRunOut
<1> DEFINE RunOut ==
        \A w \in Ingesters :
          LET p == pass[w]
              q == pass'[w]
          IN
          p # Off /\ q # Off /\ q # p =>
              \/ /\ p.more
                 /\ \/ ~q.more
                    \/ /\ AddressesFrom(q.nextIndex) \subseteq AddressesFrom(p.nextIndex)
                       /\ AddressesFrom(q.nextIndex) # AddressesFrom(p.nextIndex)
              \/ /\ q.more = p.more /\ q.nextIndex = p.nextIndex
                 /\ q.events \subseteq p.events /\ q.events # p.events
<1>1. WatcherIInv /\ [WatcherNext]_allVars => [RunOut]_allVars
  <2> SUFFICES ASSUME WatcherIInv, [WatcherNext]_allVars,
                      NEW w \in Ingesters, pass[w] # Off, pass'[w] # Off,
                      pass'[w] # pass[w]
               PROVE  LeavesLess(pass[w], pass'[w])
    BY DEF LeavesLess
  <2>0. pass \in [Ingesters -> Pass \cup {Off}]
    BY DEF WatcherIInv, WatcherTypeOK
  <2>1. CASE Others \/ UNCHANGED allVars
    BY <2>1 DEF Others, allVars, watcherVars
  <2>2. CASE \E c \in CursorConfigs : ConfigureCursor(c)
    BY <2>2 DEF ConfigureCursor
  <2>3. ASSUME NEW v \in Ingesters, Progress(v) PROVE LeavesLess(pass[w], pass'[w])
    <3>1. CASE StartPass(v)
      BY <2>0, <3>1 DEF StartPass
    <3>2. CASE FetchPage(v)
      <4>1. v = w
        BY <2>0, <3>2 DEF FetchPage
      <4> QED
        BY <3>2, <4>1, PagesRunOut
    <3>3. ASSUME NEW t \in chain, Ingest(v, t) PROVE LeavesLess(pass[w], pass'[w])
      <4>1. IsNext(v, t) /\ ~ReadTransfer(v, t)
        BY <3>3 DEF Ingest, ReadTransfer, IgnoreTransfer, RecordTransfer, SkipDuplicate,
           FailOnConflict, FailMalformed
      <4>2. DoneWith(v, t, FALSE) \/ DoneWith(v, t, TRUE)
        BY <3>3, <4>1 DEF Ingest, IgnoreTransfer, RecordTransfer, SkipDuplicate,
           FailOnConflict, FailMalformed
      <4>3. v = w
        BY <2>0, <4>2 DEF DoneWith
      <4> QED
        BY <4>1, <4>2, <4>3, TransfersRunOut
    <3>4. CASE MoveCursor(v) \/ EndWithoutProgress(v)
      BY <2>0, <3>4 DEF MoveCursor, EndWithoutProgress
    <3> QED
      BY <2>3, <3>1, <3>2, <3>3, <3>4 DEF Progress
  <2>4. ASSUME NEW v \in Ingesters, Breakdown(v) PROVE LeavesLess(pass[w], pass'[w])
    <3>1. ASSUME NEW t \in chain, FailOnDatabaseError(v, t)
          PROVE  LeavesLess(pass[w], pass'[w])
      <4>1. IsNext(v, t) /\ DoneWith(v, t, TRUE)
        BY <3>1 DEF FailOnDatabaseError
      <4>2. v = w
        BY <2>0, <4>1 DEF DoneWith
      <4> QED
        BY <4>1, <4>2, TransfersRunOut
    <3>2. CASE LosePass(v)
      BY <2>0, <3>2 DEF LosePass
    <3> QED
      BY <2>4, <3>1, <3>2 DEF Breakdown
  <2> QED
    BY <2>1, <2>2, <2>3, <2>4 DEF WatcherNext
<1> QED
  BY <1>1, WatcherInductive, PTL DEF WatcherSpec, PassesRunOut

-----------------------------------------------------------------------------
(* What the lifecycle promises, with the watcher: passes that fetch pages, *)
(* overlap, fail half way and repeat transfers.                            *)

\* Orders that a watcher works on are those of the order book.
THEOREM WatcherKeepsBook == WatcherSpec => ImplementsOrderBook
<1> QED
  BY WatcherRefinement, BookRefinement, PTL DEF ImplementsLifecycle
=============================================================================

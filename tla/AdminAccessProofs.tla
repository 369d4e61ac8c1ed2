------------------------- MODULE AdminAccessProofs -------------------------
(***************************************************************************)
(* Theorems about AdminAccess, for any number of concurrent logins and     *)
(* operators, any limit and any window.                                    *)
(***************************************************************************)
EXTENDS AdminAccess, FiniteSetTheorems, TLAPS

\* The AdminUser rows there may be.
Accounts == [password: Passwords, role: Roles, disabledAt: Nat \cup {NotDisabled}]

\* What a run of the disable command relies on until it updates: the account it
\* found is still there, and was not disabled before the run was started.
CommandsAreCurrent ==
    /\ disabledSince <= clock
    /\ \A d \in Commands :
          command[d] # Idle =>
              /\ command[d] <= clock
              /\ account # NoAccount
              /\ account.disabledAt # NotDisabled => command[d] <= disabledSince

AccessIInv ==
    /\ AccessTypeOK
    /\ LimiterBoundsGuesses
    /\ DisabledAtIsNotLate
    /\ CommandsAreCurrent

-----------------------------------------------------------------------------
(* Counting the logins under way.                                          *)

\* Attempts can be counted, and one that ends is one less.
LEMMA CountLogins ==
    ASSUME NEW S \in SUBSET Attempts
    PROVE  /\ Cardinality(S) \in Nat /\ Cardinality(Attempts) \in Nat
           /\ Cardinality(S) <= Cardinality(Attempts)
           /\ \A a \in S : Cardinality(S \ {a}) = Cardinality(S) - 1
<1>1. IsFiniteSet(Attempts) /\ IsFiniteSet(S)
  BY LimiterAssumption, FS_Subset
<1>2. Cardinality(S) \in Nat /\ Cardinality(Attempts) \in Nat
  BY <1>1, FS_CardinalityType
<1>3. Cardinality(S) <= Cardinality(Attempts)
  BY <1>1, FS_Subset
<1>4. \A a \in S : Cardinality(S \ {a}) = Cardinality(S) - 1
  BY <1>1, FS_RemoveElement
<1> QED
  BY <1>2, <1>3, <1>4

\* The entry of the limiter counts a natural number of failures.
LEMMA CountedIsNatural == ASSUME AccessTypeOK PROVE CountedFailures \in Nat
BY NullsAssumption DEF AccessTypeOK, CountedFailures

\* A login that ends, whatever its end, leaves one less under way.
LEMMA EndedCounts ==
    ASSUME AccessTypeOK, NEW a \in Attempts, attempt[a] # Idle, Ended(a)
    PROVE  /\ Cardinality(LoginsUnderWay) \in Nat
           /\ Cardinality(LoginsUnderWay)' = Cardinality(LoginsUnderWay) - 1
           /\ Cardinality(LoginsUnderWay) <= Cardinality(Attempts)
           /\ Cardinality(Attempts) \in Nat
<1>1. LoginsUnderWay \in SUBSET Attempts /\ a \in LoginsUnderWay
  BY DEF LoginsUnderWay
<1>2. LoginsUnderWay' = LoginsUnderWay \ {a}
  BY DEF LoginsUnderWay, Ended, AccessTypeOK
<1> QED
  BY <1>1, <1>2, CountLogins

-----------------------------------------------------------------------------
(* Type correctness.                                                       *)

\* The first row, and a server that was just started, have the declared shapes.
THEOREM InitAccessTypeOK == AccessInit => AccessTypeOK
BY DEF AccessInit, AccessTypeOK

\* Every step keeps the row, the limiter's entry, the logins and the commands in
\* their declared shapes.
LEMMA NextAccessTypeOK ==
    AccessTypeOK /\ CommandsAreCurrent /\ [AccessNext]_accessVars => AccessTypeOK'
<1> SUFFICES ASSUME AccessTypeOK, CommandsAreCurrent, [AccessNext]_accessVars
             PROVE  AccessTypeOK'
  OBVIOUS
<1> USE NullsAssumption
<1>1. CASE UNCHANGED accessVars
  BY <1>1 DEF AccessTypeOK, accessVars
<1>2. ASSUME NEW a \in Attempts, NEW password \in Passwords, LoginArrives(a, password)
      PROVE  AccessTypeOK'
  BY <1>2 DEF AccessTypeOK, LoginArrives
<1>3. ASSUME NEW a \in Attempts, LoginFails(a)
      PROVE  AccessTypeOK'
  <2>1. attempt[a].at \in Nat
    BY <1>3 DEF LoginFails, AccessTypeOK
  <2>2. failures' \in [count: Nat \ {0}, firstFailedAt: Nat]
    BY <1>3, <2>1 DEF LoginFails, AfterFailure, AccessTypeOK
  <2> QED
    BY <1>3, <2>2 DEF LoginFails, Ended, AccessTypeOK
<1>4. ASSUME NEW a \in Attempts, LoginSucceeds(a) \/ LoginIsLost(a)
      PROVE  AccessTypeOK'
  BY <1>4 DEF LoginSucceeds, LoginIsLost, Ended, AccessTypeOK
<1>5. CASE RestartApi
  BY <1>5 DEF RestartApi, AccessTypeOK
<1>6. ASSUME NEW password \in Passwords, NEW role \in Roles,
             ProvisionAdminUser(password, role)
      PROVE  AccessTypeOK'
  BY <1>6 DEF ProvisionAdminUser, AccessTypeOK
<1>7. ASSUME NEW d \in Commands, NEW at \in 0..clock, DisableFindsEnabled(d, at)
      PROVE  AccessTypeOK'
  BY <1>7 DEF DisableFindsEnabled, AccessTypeOK
<1>8. ASSUME NEW d \in Commands, DisableUpdates(d)
      PROVE  AccessTypeOK'
  <2>1. account \in Accounts /\ command[d] \in Nat
    BY <1>8 DEF DisableUpdates, CommandsAreCurrent, AccessTypeOK, Accounts
  <2>2. account' \in Accounts
    BY <1>8, <2>1 DEF DisableUpdates, Accounts
  <2> QED
    BY <1>8, <2>2 DEF DisableUpdates, AccessTypeOK, Accounts
<1>9. ASSUME NEW d \in Commands, DisableIsLost(d)
      PROVE  AccessTypeOK'
  BY <1>9 DEF DisableIsLost, AccessTypeOK
<1>10. CASE Tick
  BY <1>10 DEF Tick, AccessTypeOK
<1> QED
  BY <1>1, <1>2, <1>3, <1>4, <1>5, <1>6, <1>7, <1>8, <1>9, <1>10 DEF AccessNext

-----------------------------------------------------------------------------
(* The limiter.                                                            *)

\* A login is let pass while the count is below the limit, and a failure is
\* counted when its login ends: together they never grow past the bound.
LEMMA NextLimiter ==
    AccessTypeOK /\ LimiterBoundsGuesses /\ [AccessNext]_accessVars
        => LimiterBoundsGuesses'
<1> SUFFICES ASSUME AccessTypeOK, LimiterBoundsGuesses, [AccessNext]_accessVars
             PROVE  LimiterBoundsGuesses'
  OBVIOUS
<1> USE LimiterAssumption, NullsAssumption
<1>1. CASE UNCHANGED <<failures, attempt>>
  BY <1>1 DEF LimiterBoundsGuesses, CountedFailures, LoginsUnderWay
<1>2. ASSUME NEW a \in Attempts, NEW password \in Passwords, LoginArrives(a, password)
      PROVE  LimiterBoundsGuesses'
  <2>1. CountedFailures' \in Nat /\ CountedFailures' <= MaxFailedAttempts - 1
    BY <1>2 DEF LoginArrives, IsRateLimited, CountedFailures, AccessTypeOK
  <2>2. LoginsUnderWay' \in SUBSET Attempts
    BY DEF LoginsUnderWay
  <2> QED
    BY <2>1, <2>2, CountLogins DEF LimiterBoundsGuesses
<1>3. ASSUME NEW a \in Attempts, LoginFails(a)
      PROVE  LimiterBoundsGuesses'
  <2>1. CountedFailures' = 1 \/ CountedFailures' = CountedFailures + 1
    BY <1>3 DEF LoginFails, AfterFailure, CountedFailures, AccessTypeOK
  <2>2. attempt[a] # Idle /\ Ended(a)
    BY <1>3 DEF LoginFails
  <2> QED
    BY <2>1, <2>2, EndedCounts, CountedIsNatural DEF LimiterBoundsGuesses
<1>4. ASSUME NEW a \in Attempts, LoginSucceeds(a) \/ LoginIsLost(a)
      PROVE  LimiterBoundsGuesses'
  <2>1. CountedFailures' = 0 \/ CountedFailures' = CountedFailures
    BY <1>4 DEF LoginSucceeds, LoginIsLost, CountedFailures
  <2>2. attempt[a] # Idle /\ Ended(a)
    BY <1>4 DEF LoginSucceeds, LoginIsLost
  <2> QED
    BY <2>1, <2>2, EndedCounts, CountedIsNatural DEF LimiterBoundsGuesses
<1>5. CASE RestartApi
  <2>1. CountedFailures' = 0 /\ LoginsUnderWay' = {}
    BY <1>5 DEF RestartApi, CountedFailures, LoginsUnderWay
  <2> QED
    BY <2>1, FS_EmptySet, CountLogins DEF LimiterBoundsGuesses
<1> QED
  BY <1>1, <1>2, <1>3, <1>4, <1>5
     DEF AccessNext, accessVars, ProvisionAdminUser, DisableFindsEnabled,
         DisableUpdates, DisableIsLost, Tick

-----------------------------------------------------------------------------
(* Disabling.                                                              *)

\* A command carries the time it was started at, so that a second command that
\* found the account enabled too was started before the first took effect.
LEMMA NextCommands ==
    AccessTypeOK /\ DisabledAtIsNotLate /\ CommandsAreCurrent /\ [AccessNext]_accessVars
        => DisabledAtIsNotLate' /\ CommandsAreCurrent'
<1> SUFFICES ASSUME AccessTypeOK, DisabledAtIsNotLate, CommandsAreCurrent,
                    [AccessNext]_accessVars
             PROVE  DisabledAtIsNotLate' /\ CommandsAreCurrent'
  OBVIOUS
<1> USE NullsAssumption
<1>1. CASE UNCHANGED <<clock, account, command, disabledSince>>
  BY <1>1 DEF DisabledAtIsNotLate, CommandsAreCurrent
<1>2. ASSUME NEW password \in Passwords, NEW role \in Roles,
             ProvisionAdminUser(password, role)
      PROVE  DisabledAtIsNotLate' /\ CommandsAreCurrent'
  <2>1. /\ account' # NoAccount /\ account'.disabledAt = NotDisabled
        /\ UNCHANGED <<clock, command, disabledSince>>
    BY <1>2 DEF ProvisionAdminUser
  <2> QED
    BY <2>1 DEF DisabledAtIsNotLate, CommandsAreCurrent
<1>3. ASSUME NEW d \in Commands, NEW at \in 0..clock, DisableFindsEnabled(d, at)
      PROVE  DisabledAtIsNotLate' /\ CommandsAreCurrent'
  <2>1. /\ account # NoAccount /\ account.disabledAt = NotDisabled /\ at <= clock
        /\ \A e \in Commands : command'[e] = IF e = d THEN at ELSE command[e]
        /\ UNCHANGED <<clock, account, disabledSince>>
    BY <1>3 DEF DisableFindsEnabled, AccessTypeOK
  <2> QED
    BY <2>1 DEF DisabledAtIsNotLate, CommandsAreCurrent
<1>4. ASSUME NEW d \in Commands, DisableUpdates(d)
      PROVE  DisabledAtIsNotLate' /\ CommandsAreCurrent'
  <2>1. /\ account \in Accounts /\ command[d] \in Nat /\ command[d] <= clock
        /\ account.disabledAt # NotDisabled => command[d] <= disabledSince
    BY <1>4 DEF DisableUpdates, CommandsAreCurrent, AccessTypeOK, Accounts
  <2>2. /\ account' \in Accounts /\ account'.disabledAt = command[d]
        /\ account' # NoAccount
    BY <1>4, <2>1 DEF DisableUpdates, Accounts
  <2>3. disabledSince' = IF account.disabledAt = NotDisabled THEN clock ELSE disabledSince
    BY <1>4 DEF DisableUpdates
  <2>4. /\ clock' = clock /\ clock \in Nat /\ disabledSince \in Nat
        /\ command \in [Commands -> Nat \cup {Idle}]
        /\ \A e \in Commands : command'[e] = IF e = d THEN Idle ELSE command[e]
    BY <1>4 DEF DisableUpdates, AccessTypeOK
  <2>5. DisabledAtIsNotLate'
    BY <2>1, <2>2, <2>3 DEF DisabledAtIsNotLate
  <2>6. disabledSince' <= clock'
    BY <2>3, <2>4 DEF CommandsAreCurrent
  <2>7. ASSUME NEW e \in Commands, command'[e] # Idle
        PROVE  command'[e] <= clock' /\ command'[e] <= disabledSince'
    BY <2>3, <2>4, <2>7 DEF CommandsAreCurrent
  <2> QED
    BY <2>2, <2>5, <2>6, <2>7 DEF CommandsAreCurrent
<1>5. ASSUME NEW d \in Commands, DisableIsLost(d)
      PROVE  DisabledAtIsNotLate' /\ CommandsAreCurrent'
  <2>1. /\ \A e \in Commands : command'[e] # Idle => command'[e] = command[e]
        /\ \A e \in Commands : command'[e] # Idle => command[e] # Idle
        /\ UNCHANGED <<clock, account, disabledSince>>
    BY <1>5 DEF DisableIsLost, AccessTypeOK
  <2> QED
    BY <2>1 DEF DisabledAtIsNotLate, CommandsAreCurrent
<1>6. CASE Tick
  <2>1. /\ clock' = clock + 1 /\ clock \in Nat /\ disabledSince \in Nat
        /\ \A d \in Commands : command[d] # Idle => command[d] \in Nat
        /\ UNCHANGED <<account, command, disabledSince>>
    BY <1>6 DEF Tick, AccessTypeOK
  <2> QED
    BY <2>1 DEF DisabledAtIsNotLate, CommandsAreCurrent
<1> QED
  BY <1>1, <1>2, <1>3, <1>4, <1>5, <1>6
     DEF AccessNext, accessVars, LoginArrives, LoginFails, LoginSucceeds,
         LoginIsLost, RestartApi

-----------------------------------------------------------------------------
(* The inductive invariant.                                                *)

\* Nobody is provisioned, and nothing is counted or under way.
THEOREM InitAccessIInv == AccessInit => AccessIInv
<1> SUFFICES ASSUME AccessInit PROVE AccessIInv
  OBVIOUS
<1>1. CountedFailures = 0 /\ LoginsUnderWay = {}
  BY DEF AccessInit, CountedFailures, LoginsUnderWay
<1>2. LimiterBoundsGuesses
  BY <1>1, FS_EmptySet, CountLogins, LimiterAssumption DEF LimiterBoundsGuesses
<1> QED
  BY <1>2, InitAccessTypeOK
     DEF AccessInit, AccessIInv, DisabledAtIsNotLate, CommandsAreCurrent

\* Every step of a login, an operator, the clock or the server keeps it.
THEOREM NextAccessIInv == AccessIInv /\ [AccessNext]_accessVars => AccessIInv'
BY NextAccessTypeOK, NextLimiter, NextCommands DEF AccessIInv

\* Rows, counts, logins and commands agree in every reachable state.
THEOREM AccessInductive == AccessSpec => []AccessIInv
BY InitAccessIInv, NextAccessIInv, PTL DEF AccessSpec
=============================================================================

---------------------------- MODULE AdminAccess ----------------------------
(***************************************************************************)
(* Who may act as the administrator of one username: the AdminUser row,    *)
(* the operators' commands that provision and disable it, the signed       *)
(* sessions, and the limiter of failed logins.                             *)
(*                                                                         *)
(* A login is checked against the limiter when it arrives and against the  *)
(* database afterwards, so that logins overlap.  The limiter keeps its     *)
(* counts in the memory of the API, by address and username: this is the   *)
(* count of one pair, and the pairs are independent.  Whether a password   *)
(* matches a hash and a signature its text is left to cryptography.        *)
(***************************************************************************)
EXTENDS Naturals, FiniteSets

CONSTANTS
    MaxFailedAttempts,  \* ADMIN_LOGIN_MAX_FAILED_ATTEMPTS
    LoginWindow,        \* ADMIN_LOGIN_RATE_LIMIT_WINDOW_MS
    SessionTtl,         \* seconds a session lasts
    Roles,              \* manager and owner
    Passwords,
    Attempts,           \* concurrent login requests
    Commands,           \* concurrent runs of the disable command
    NoAccount,          \* no AdminUser row
    NotDisabled,        \* null disabledAt
    NoFailures,         \* no entry in adminLoginFailures
    Idle                \* an attempt or a command that is not running

ASSUME LimiterAssumption ==
    /\ MaxFailedAttempts \in Nat \ {0}
    /\ LoginWindow \in Nat \ {0}
    /\ IsFiniteSet(Attempts)
ASSUME SessionAssumption == SessionTtl \in Nat \ {0}
ASSUME NullsAssumption ==
    /\ NotDisabled \notin Nat
    /\ NoAccount \notin [password: Passwords, role: Roles,
                         disabledAt: Nat \cup {NotDisabled}]
    /\ NoFailures \notin [count: Nat \ {0}, firstFailedAt: Nat]
    /\ Idle \notin [password: Passwords, at: Nat]
    /\ Idle \notin Nat

VARIABLES
    clock,     \* the servers' and the operators' clock
    account,   \* the AdminUser row
    failures,  \* the entry of adminLoginFailures
    attempt,   \* logins the limiter let pass: password and requestNow
    command,   \* runs of the disable command that found the account enabled
    disabledSince  \* history: when the account was last disabled in effect

accessVars == <<clock, account, failures, attempt, command, disabledSince>>

-----------------------------------------------------------------------------
(* Sessions.                                                               *)

SignAdminSession(role, at) == [role |-> role, expiresAt |-> at + SessionTtl]

Sessions == [role: Roles, expiresAt: Nat]

VerifyAdminSession(session, at) == at < session.expiresAt

\* Mutated: a disabled administrator keeps a session until it expires.
TrustsTheSession(session) == account # NoAccount /\ account.role = session.role

RequireActiveAdminSession(session) ==
    /\ account # NoAccount
    /\ account.disabledAt = NotDisabled
    /\ account.role = session.role

\* resolveAdminAuthorization, with a session.
Authorizes(session) ==
    VerifyAdminSession(session, clock) /\ RequireActiveAdminSession(session)

-----------------------------------------------------------------------------
(* The limiter.                                                            *)

WindowIsOver(at) == failures.firstFailedAt + LoginWindow <= at

IsRateLimited(at) ==
    /\ failures # NoFailures
    /\ ~WindowIsOver(at)
    /\ failures.count >= MaxFailedAttempts

AfterFailure(at) ==
    IF failures = NoFailures \/ WindowIsOver(at)
    THEN [count |-> 1, firstFailedAt |-> at]
    ELSE [failures EXCEPT !.count = @ + 1]

-----------------------------------------------------------------------------
(* Logging in.                                                             *)

\* Mutated: the limiter is not asked.
LoginAlwaysArrives(a, password) ==
    /\ attempt[a] = Idle
    /\ attempt' = [attempt EXCEPT ![a] = [password |-> password, at |-> clock]]
    /\ UNCHANGED <<clock, account, failures, command, disabledSince>>

LoginArrives(a, password) ==
    /\ attempt[a] = Idle
    /\ ~IsRateLimited(clock)
    /\ failures' = IF failures # NoFailures /\ WindowIsOver(clock)
                   THEN NoFailures ELSE failures
    /\ attempt' = [attempt EXCEPT ![a] = [password |-> password, at |-> clock]]
    /\ UNCHANGED <<clock, account, command, disabledSince>>

Accepts(password) ==
    /\ account # NoAccount
    /\ account.disabledAt = NotDisabled
    /\ account.password = password

Ended(a) == attempt' = [attempt EXCEPT ![a] = Idle]

LoginFails(a) ==
    /\ attempt[a] # Idle
    /\ ~Accepts(attempt[a].password)
    /\ failures' = AfterFailure(attempt[a].at)
    /\ Ended(a)
    /\ UNCHANGED <<clock, account, command, disabledSince>>

\* The session is that of the row and of the time the login arrived.
IssuedSession(a) == SignAdminSession(account.role, attempt[a].at)

LoginSucceeds(a) ==
    /\ attempt[a] # Idle
    /\ Accepts(attempt[a].password)
    /\ failures' = NoFailures
    /\ Ended(a)
    /\ UNCHANGED <<clock, account, command, disabledSince>>

\* Any other error leaves the count alone.
LoginIsLost(a) ==
    /\ attempt[a] # Idle
    /\ Ended(a)
    /\ UNCHANGED <<clock, account, failures, command, disabledSince>>

\* The API is started again: its memory and its requests are gone.
RestartApi ==
    /\ failures' = NoFailures
    /\ attempt' = [a \in Attempts |-> Idle]
    /\ UNCHANGED <<clock, account, command, disabledSince>>

-----------------------------------------------------------------------------
(* Operators.                                                              *)

\* An upsert: a disabled account is enabled again.
ProvisionAdminUser(password, role) ==
    /\ account' = [password |-> password, role |-> role, disabledAt |-> NotDisabled]
    /\ UNCHANGED <<clock, failures, attempt, command, disabledSince>>

\* Mutated: an account that is already disabled is disabled again.
DisablesAgain(d, at) ==
    /\ command[d] = Idle
    /\ at <= clock
    /\ account # NoAccount
    /\ command' = [command EXCEPT ![d] = at]
    /\ UNCHANGED <<clock, account, failures, attempt, disabledSince>>

\* The time is that at which the command was started.  An account that is not
\* there, or disabled already, ends the command.
DisableFindsEnabled(d, at) ==
    /\ command[d] = Idle
    /\ at <= clock
    /\ account # NoAccount
    /\ account.disabledAt = NotDisabled
    /\ command' = [command EXCEPT ![d] = at]
    /\ UNCHANGED <<clock, account, failures, attempt, disabledSince>>

DisableUpdates(d) ==
    /\ command[d] # Idle
    /\ account' = [account EXCEPT !.disabledAt = command[d]]
    /\ disabledSince' = IF account.disabledAt = NotDisabled THEN clock
                        ELSE disabledSince
    /\ command' = [command EXCEPT ![d] = Idle]
    /\ UNCHANGED <<clock, failures, attempt>>

DisableIsLost(d) ==
    /\ command[d] # Idle
    /\ command' = [command EXCEPT ![d] = Idle]
    /\ UNCHANGED <<clock, account, failures, attempt, disabledSince>>

Tick ==
    /\ clock' = clock + 1
    /\ UNCHANGED <<account, failures, attempt, command, disabledSince>>

-----------------------------------------------------------------------------
AccessInit ==
    /\ clock = 0
    /\ account = NoAccount
    /\ failures = NoFailures
    /\ attempt = [a \in Attempts |-> Idle]
    /\ command = [d \in Commands |-> Idle]
    /\ disabledSince = 0

AccessNext ==
    \/ \E a \in Attempts :
          \/ \E password \in Passwords : LoginArrives(a, password)
          \/ LoginFails(a) \/ LoginSucceeds(a) \/ LoginIsLost(a)
    \/ RestartApi
    \/ \E password \in Passwords, role \in Roles : ProvisionAdminUser(password, role)
    \/ \E d \in Commands :
          \/ \E at \in 0..clock : DisableFindsEnabled(d, at)
          \/ DisableUpdates(d) \/ DisableIsLost(d)
    \/ Tick

AccessSpec == AccessInit /\ [][AccessNext]_accessVars

-----------------------------------------------------------------------------
(* Properties.                                                             *)

AccessTypeOK ==
    /\ clock \in Nat
    /\ account \in [password: Passwords, role: Roles,
                    disabledAt: Nat \cup {NotDisabled}] \cup {NoAccount}
    /\ failures \in [count: Nat \ {0}, firstFailedAt: Nat] \cup {NoFailures}
    /\ attempt \in [Attempts -> [password: Passwords, at: Nat] \cup {Idle}]
    /\ command \in [Commands -> Nat \cup {Idle}]
    /\ disabledSince \in Nat

CountedFailures == IF failures = NoFailures THEN 0 ELSE failures.count

LoginsUnderWay == {a \in Attempts : attempt[a] # Idle}

\* The limiter is read when a login arrives and counts after the password was
\* checked: logins sent together are all checked.  This is how far the count can
\* overshoot: by the logins that were under way when the last one was let pass,
\* whatever successes, expired windows and restarts reset meanwhile.
LimiterBoundsGuesses ==
    CountedFailures + Cardinality(LoginsUnderWay)
        <= MaxFailedAttempts - 1 + Cardinality(Attempts)

\* disabledAt, which audits read, never postdates the moment the account really
\* stopped working: when several operators disable it at once, the last one
\* overwrites the time of the first, but only with an earlier moment than that
\* at which the first one took effect.
DisabledAtIsNotLate ==
    account # NoAccount /\ account.disabledAt # NotDisabled =>
        account.disabledAt <= disabledSince
=============================================================================

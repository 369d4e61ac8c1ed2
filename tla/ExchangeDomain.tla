--------------------------- MODULE ExchangeDomain ---------------------------
(***************************************************************************)
(* The vocabulary every other module shares: the two status enumerations   *)
(* of the database schema, the status sets the services guard themselves   *)
(* with, and the two pure decisions of the deposit ingestion.              *)
(***************************************************************************)
EXTENDS Naturals

OrderStatus ==
    {"draft", "awaiting_deposit", "awaiting_office_visit", "funds_detected",
     "pending_aml", "manager_review", "ready_for_cash_payout",
     "ready_for_crypto_payout", "completed", "cancelled", "expired",
     "late_payment", "rejected"}

DepositAddressStatus ==
    {"available", "reserved", "funded", "expired", "late_funded", "disabled"}

-----------------------------------------------------------------------------
(* Status sets of the manager service, the expiration job and the watcher. *)

ManagerSettable ==
    {"pending_aml", "manager_review", "ready_for_cash_payout",
     "ready_for_crypto_payout", "completed", "cancelled", "expired",
     "rejected"}

OpenForManualCryptoPayout ==
    {"awaiting_office_visit", "manager_review", "ready_for_crypto_payout"}

TerminalOrderStatuses == {"completed", "cancelled", "expired", "rejected"}

ExpirableOrderStatuses == {"awaiting_deposit", "awaiting_office_visit"}

\* isDepositAddressOpenForIngestion, and the watcher's own list of statuses.
OpenAddressStatuses == {"reserved", "expired", "funded", "late_funded"}

\* isOrderOpenForDepositIngestion, and the watcher's own list of statuses.
OpenOrderStatuses ==
    {"awaiting_deposit", "expired", "manager_review", "late_payment"}

-----------------------------------------------------------------------------
(* What an accepted transfer turns its order and its address into.  The    *)
(* amounts are compared as decimal strings in one canonical form, which is *)
(* equality of amounts; a transfer mined exactly at the deadline is on     *)
(* time.                                                                   *)

\* Mutated: a partial payment leaves the order waiting for the rest.
DecideWaitsForRest(seen, amount, expected, blockTimestamp, orderExpiresAt) ==
    IF seen \in {"manager_review", "late_payment"} THEN seen
    ELSE IF amount # expected THEN seen
    ELSE IF blockTimestamp > orderExpiresAt THEN "late_payment"
    ELSE "funds_detected"

\* Mutated: the deadline is not looked at.
DecideIgnoresDeadline(seen, amount, expected, blockTimestamp, orderExpiresAt) ==
    IF seen \in {"manager_review", "late_payment"} THEN seen
    ELSE IF amount # expected THEN "manager_review"
    ELSE "funds_detected"

DecideNextOrderStatus(seen, amount, expected, blockTimestamp, orderExpiresAt) ==
    IF seen \in {"manager_review", "late_payment"} THEN seen
    ELSE IF amount # expected THEN "manager_review"
    ELSE IF blockTimestamp > orderExpiresAt THEN "late_payment"
    ELSE "funds_detected"

\* Mutated: an address under review stays reserved.
ReviewKeepsReserved(nextOrderStatus) ==
    CASE nextOrderStatus = "late_payment" -> "late_funded"
      [] nextOrderStatus = "manager_review" -> "reserved"
      [] OTHER -> "funded"

NextDepositAddressStatus(nextOrderStatus) ==
    IF nextOrderStatus = "late_payment" THEN "late_funded" ELSE "funded"
=============================================================================

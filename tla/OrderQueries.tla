---------------------------- MODULE OrderQueries ----------------------------
(***************************************************************************)
(* What orderReadService answers from the order rows of the database: the  *)
(* active and the history lists, newest first and cut at a limit, of one   *)
(* customer or of all, and single orders by their public id.  A list is    *)
(* the set of its rows; its order is that of createdAt, which the rows     *)
(* keep.                                                                   *)
(***************************************************************************)
EXTENDS ExchangeDomain, FiniteSets

\* Mutated: a status is missing from the active list.
ForgetsLatePayments ==
    {"awaiting_deposit", "awaiting_office_visit", "funds_detected",
     "pending_aml", "manager_review", "ready_for_cash_payout",
     "ready_for_crypto_payout"}

ActiveOrderStatuses ==
    {"awaiting_deposit", "awaiting_office_visit", "funds_detected",
     "pending_aml", "manager_review", "ready_for_cash_payout",
     "ready_for_crypto_payout", "late_payment"}

HistoryOrderStatuses == {"completed", "cancelled", "expired", "rejected"}

\* orderBy: { createdAt: 'desc' }, take: limit
NewestFirst(rows, limit) ==
    {row \in rows :
       Cardinality({newer \in rows : newer.createdAt > row.createdAt}) < limit}

ListAllActiveOrders(rows, limit) ==
    NewestFirst({row \in rows : row.status \in ActiveOrderStatuses}, limit)

ListAllHistoryOrders(rows, limit) ==
    NewestFirst({row \in rows : row.status \in HistoryOrderStatuses}, limit)

OfUser(rows, userId) == {row \in rows : row.userId = userId}

ListActiveOrders(rows, userId, limit) ==
    ListAllActiveOrders(OfUser(rows, userId), limit)

ListHistoryOrders(rows, userId, limit) ==
    ListAllHistoryOrders(OfUser(rows, userId), limit)

\* The answer holds one order, or none when it is not found.
GetAnyOrderByPublicId(rows, publicId) == {row \in rows : row.publicId = publicId}
=============================================================================

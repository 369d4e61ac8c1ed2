---------------------------- MODULE ReplayDryRun ----------------------------
(***************************************************************************)
(* The replay dry run, with which an operator asks what the ingestion of   *)
(* past transfers would do.  It writes nothing: it reads the watched       *)
(* addresses with their orders, fetches their transfers and classifies     *)
(* each one, by rules of its own that repeat the ingestion's.              *)
(***************************************************************************)
EXTENDS OrderLifecycle, OrderQueries

OpenForReplayIngestion ==
    {"awaiting_deposit", "expired", "manager_review", "late_payment"}

WatchedByReplay ==
    {a \in Addresses :
       addressStatus[a] \in {"reserved", "expired", "funded", "late_funded"}}

OrdersOfAddress(a) == {o \in Orders : depositAddress[o] = a}

\* The status the dry run says order o would get, "none" when it would not
\* ingest the transfer.  Every early return of classifyReplayTransfer is a
\* case, in the order of the code.

\* Mutated: the deadline is compared before the amount.
ClassifyLateFirst(t, o) ==
    IF t.blockTimestamp < reservedAt[t.toAddress] THEN "none"
    ELSE IF status[o] \notin OpenForReplayIngestion THEN "none"
    ELSE IF status[o] \in {"manager_review", "late_payment"} THEN status[o]
    ELSE IF t.blockTimestamp > orderExpiresAt[o] THEN "late_payment"
    ELSE IF t.amount # AmountUsdt[o] THEN "manager_review"
    ELSE "funds_detected"

ClassifyReplayTransfer(t, o) ==
    IF t.blockTimestamp < reservedAt[t.toAddress] THEN "none"
    ELSE IF t.toAddress \notin WatchedByReplay THEN "none"
    ELSE IF status[o] \notin OpenForReplayIngestion THEN "none"
    ELSE IF status[o] = "manager_review" THEN "manager_review"
    ELSE IF status[o] = "late_payment" THEN "late_payment"
    ELSE IF t.amount # AmountUsdt[o] THEN "manager_review"
    ELSE IF t.blockTimestamp > orderExpiresAt[o] THEN "late_payment"
    ELSE "funds_detected"

\* The transfers reported, each with the order it matches and its next status.
\* An address without an order is reported as unassigned, never ingested.
ReplayMatches ==
    {[transfer |-> m[1], order |-> m[2],
      nextOrderStatus |-> ClassifyReplayTransfer(m[1], m[2])] :
       m \in {p \in chain \X SellOrders :
                /\ p[1].toAddress \in WatchedByReplay
                /\ p[2] \in OrdersOfAddress(p[1].toAddress)}}

\* What an operator relies on: in whatever state the orders are, the dry run
\* reports exactly the ingestions that would happen, with the status each order
\* would get.  It does not look for transfers that were recorded already, which
\* ingestion refuses: those are left out here.
ReplayAgreesWithIngestion ==
    \A t \in chain, o \in SellOrders :
        ~AlreadyRecorded(t.id) =>
            IF AcceptedOnRead(t, o)
            THEN [transfer |-> t, order |-> o, nextOrderStatus |->
                    DecideNextOrderStatus(status[o], t.amount, AmountUsdt[o],
                                          t.blockTimestamp, orderExpiresAt[o])]
                    \in ReplayMatches
            ELSE \A m \in ReplayMatches :
                    m.transfer = t /\ m.order = o => m.nextOrderStatus = "none"

\* No order is lost to the apps: whatever its status, an order that exists is
\* in exactly one of the lists, active or history, that customers and managers
\* are shown.
EveryOrderIsListedOnce ==
    \A o \in Orders :
        Created(o) =>
            (status[o] \in ActiveOrderStatuses <=> status[o] \notin HistoryOrderStatuses)
=============================================================================

----------------------------- MODULE RateQuote -----------------------------
(***************************************************************************)
(* How rateQuoteService prices an order, in integers: RUB in kopecks, USDT *)
(* in its smallest units, a rate in millionths of a rouble per USDT.  The  *)
(* server prices an order when it is created; the Mini App prices it by    *)
(* itself, with rates it loaded earlier, to show a confirmation.           *)
(***************************************************************************)
EXTENDS Integers

CONSTANTS
    AtomicScale,  \* 10^10: rate decimals plus USDT decimals minus RUB decimals
    MaxAtomic     \* 10^36: the least integer a Decimal(36, _) column cannot hold

ASSUME QuoteAssumption == AtomicScale \in Nat \ {0} /\ MaxAtomic \in Nat

\* parseDecimalToAtomic: a positive decimal that fits its column.
PositiveDecimal(atomic) == atomic \in Nat /\ 0 < atomic /\ atomic < MaxAtomic

\* Mutated: the amount to pay out is rounded up.
RoundsUp(rub, buyRate) == (rub * AtomicScale + buyRate - 1) \div buyRate

BuyUsdtAmount(rub, buyRate) == (rub * AtomicScale) \div buyRate

SellRubAmount(usdt, sellRate) == (usdt * sellRate) \div AtomicScale

\* createUsdtRubOrderQuote: what is paid in and out, and the rate it was priced
\* at.  rates is a record with the fields buyRate and sellRate.
Quote(direction, amount, rates) ==
    IF direction = "BUY_USDT"
    THEN [amountRub |-> amount,
          amountUsdt |-> BuyUsdtAmount(amount, rates.buyRate),
          rateSnapshot |-> rates.buyRate]
    ELSE [amountRub |-> SellRubAmount(amount, rates.sellRate),
          amountUsdt |-> amount,
          rateSnapshot |-> rates.sellRate]

\* formatAtomicDecimal throws on a quote too large for its columns, and the
\* order services refuse one that was rounded to zero.
QuoteFits(quote) == quote.amountRub < MaxAtomic /\ quote.amountUsdt < MaxAtomic

QuoteIsPositive(quote) ==
    PositiveDecimal(quote.amountRub) /\ PositiveDecimal(quote.amountUsdt)

\* The rates a server starts with: assertPositiveUsdtRubSpread.
UsdtRubRates(atomicRates) ==
    {rates \in [buyRate: atomicRates, sellRate: atomicRates] :
       rates.sellRate < rates.buyRate}

\* What is bought and sold back at once, or sold and bought back, comes back as
\* less: the rounding of two quotes never outweighs the spread between them.
RoundTripsLose(rates, amount) ==
    LET usdt == BuyUsdtAmount(amount, rates.buyRate)
        rub == SellRubAmount(amount, rates.sellRate)
    IN  /\ usdt > 0 => SellRubAmount(usdt, rates.sellRate) < amount
        /\ rub > 0 => BuyUsdtAmount(rub, rates.buyRate) < amount
=============================================================================

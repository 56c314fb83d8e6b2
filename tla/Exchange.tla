-------------------------------- MODULE Exchange ------------------------------
(***************************************************************************)
(* What the contract computes from an order book (exchange.rs) before it   *)
(* sends an order, and from the answer to it (the SELL_ASSET reply of      *)
(* contract.rs).  A book is a sequence of price levels [p, q], the best    *)
(* one first.  Decimal256 is an integer that counts in 1/One (One is 10^18 *)
(* in the code); multiplication and division round down.                   *)
(*                                                                         *)
(* The answers of the order-book query and the execution of an order are   *)
(* the exchange module's, modelled from how exchange.rs uses them.         *)
(***************************************************************************)
EXTENDS Integers, Sequences, FiniteSets

CONSTANTS
  One,                                     \* the decimal 1
  spot_atomic_market_order_fee_multiplier  \* a decimal of the exchange's parameters

ASSUME ExchangeAssumption ==
  /\ One \in Nat \ {0}
  /\ spot_atomic_market_order_fee_multiplier \in Nat

Mul(a, b) == (a * b) \div One
Div(a, b) == (a * One) \div b
Decimal(n) == n * One
ToUintFloor(a) == a \div One

Smaller(a, b) == IF a <= b THEN a ELSE b

\* Levels carry the price p and the quantity q, both decimals.
Level == [p : Nat \ {0}, q : Nat \ {0}]

Market(Denoms) ==
  [base_denom : Denoms, quote_denom : Denoms, taker_fee_rate : Nat,
   min_price_tick_size : Nat \ {0}, min_quantity_tick_size : Nat \ {0}]

\* The part of an order's notional that is paid as its fee.
Fee(market) == Mul(market.taker_fee_rate, spot_atomic_market_order_fee_multiplier)

\* Mutant: rounded to a whole number instead of a whole tick.
StripToWhole(x, min_tick) == Decimal(ToUintFloor(x))

\* The whole ticks in x.
strip_min_tick(x, min_tick) == Mul(Decimal(ToUintFloor(Div(x, min_tick))), min_tick)

-------------------------------------------------------------------------------
(* The exchange module (external). *)

\* Buyers are listed from the highest price, sellers from the lowest.
IsOrderbook(book) ==
  /\ book.buys \in Seq(Level) /\ book.sells \in Seq(Level)
  /\ \A i, j \in 1..Len(book.buys) : i < j => book.buys[i].p >= book.buys[j].p
  /\ \A i, j \in 1..Len(book.sells) : i < j => book.sells[i].p <= book.sells[j].p

Notionals(levels) == [i \in 1..Len(levels) |-> Mul(levels[i].p, levels[i].q)]
Quantities(levels) == [i \in 1..Len(levels) |-> levels[i].q]

\* The sum of the first n sizes.
Depth(sizes, n) ==
  LET depth[i \in 0..n] == IF i = 0 THEN 0 ELSE depth[i - 1] + sizes[i]
  IN depth[n]

\* The answer to a query with a limit on the cumulative size: the levels up to the one
\* that reaches it.
QuerySpotOrderbook(levels, sizes, limit) ==
  LET below == {n \in 0..Len(levels) : Depth(sizes, n) < limit}
  IN SubSeq(levels, 1, Smaller(Len(levels), Cardinality(below)))

\* What an order for the given quantity takes of each level, the best ones first.
Walk(levels, quantity) ==
  LET left(n) == quantity - Depth(Quantities(levels), n - 1)
  IN [n \in 1..Len(levels) |->
        [levels[n] EXCEPT !.q = IF left(n) <= 0 THEN 0 ELSE Smaller(@, left(n))]]

\* The levels an order may take, those no worse than its worst price, come first.
Eligible(order, book) ==
  LET levels == IF order.sell_type = "Base" THEN book.buys ELSE book.sells
      taken  == {i \in 1..Len(levels) :
                   IF order.sell_type = "Base" THEN levels[i].p >= order.worst_price
                                               ELSE levels[i].p <= order.worst_price}
  IN SubSeq(levels, 1, Cardinality(taken))

\* An order is refused unless it is for a positive number of whole ticks, and
\* finds someone to trade with.
Accepted(order, market, book) ==
  /\ order.quantity > 0
  /\ Decimal(order.quantity) % market.min_quantity_tick_size = 0
  /\ Eligible(order, book) # <<>>

\* An atomic market order fills at once, and what is not filled is cancelled.  The
\* price that is reported is the average, rounded up or down.
Trades(order, market, book) ==
  LET filled   == Walk(Eligible(order, book), Decimal(order.quantity))
      quantity == Depth(Quantities(filled), Len(filled))
      notional == Depth(Notionals(filled), Len(filled))
  IN {[quantity |-> quantity, notional |-> notional, price |-> price,
       fee |-> Mul(notional, Fee(market))] :
         price \in {Div(notional, quantity), Div(notional, quantity) + 1}}

-------------------------------------------------------------------------------
(* The simulations, as the set that holds their result, empty on an error. *)

\* Mutant: the price of the first level instead of the last one.
BestPrice(levels) == levels[1].p

WorstPrice(levels) == levels[Len(levels)].p

\* Mutant: the fee is left to the exchange.
FeeIgnored(amount, market) == amount

\* Mutant: the product of two decimals is not scaled back.
FeeNotScaled(amount, market) ==
  Mul(amount, One - market.taker_fee_rate * spot_atomic_market_order_fee_multiplier)

\* What is left of an amount or a notional once the fee is paid.
AfterFee(amount, market) == Mul(amount, One - Fee(market))

\* Buying with amount of the quote asset: as many whole ticks as the amount pays for
\* when all of them cost the worst price of the answer.
simulate_quote_offer(amount, market, sells) ==
  LET levels   == QuerySpotOrderbook(sells, Notionals(sells), Decimal(amount))
      original == AfterFee(strip_min_tick(Decimal(amount), market.min_price_tick_size),
                           market)
  IN IF levels = <<>> \/ original > Depth(Notionals(levels), Len(levels)) THEN {}
     ELSE {[amount |-> ToUintFloor(strip_min_tick(Div(original, WorstPrice(levels)),
                                                  market.min_quantity_tick_size)),
            worst_price |-> WorstPrice(levels)]}

\* Selling the whole ticks in amount of the base asset, level by level.
simulate_base_offer(amount, market, buys) ==
  LET levels   == QuerySpotOrderbook(buys, Quantities(buys), Decimal(amount))
      quantity == strip_min_tick(Decimal(amount), market.min_quantity_tick_size)
      filled   == Walk(levels, quantity)
  IN IF levels = <<>> \/ quantity > Depth(Quantities(levels), Len(levels)) THEN {}
     ELSE {[amount |-> ToUintFloor(AfterFee(Depth(Notionals(filled), Len(filled)), market)),
            worst_price |-> WorstPrice(levels)]}

simulate(asset, amount, market, book) ==
  CASE asset = market.base_denom  -> simulate_base_offer(amount, market, book.buys)
    [] asset = market.quote_denom -> simulate_quote_offer(amount, market, book.sells)
    [] OTHER                      -> {}

-------------------------------------------------------------------------------
(* The order, and what its reply credits. *)

\* Which side of the market an asset is sold on.
SwapType(asset, market) == IF asset = market.base_denom THEN "Base" ELSE "Quote"

\* A sale offers the whole amount; a purchase asks for the quantity simulated for it.
\* The coin is the payload of the reply; simulated is kept for the properties.
swap(asset, amount, market, book) ==
  LET sell_type == SwapType(asset, market)
  IN {[sell_type   |-> sell_type,
       coin        |-> [denom |-> asset, amount |-> amount],
       quantity    |-> IF sell_type = "Base" THEN amount ELSE s.amount,
       worst_price |-> s.worst_price,
       simulated   |-> s.amount] : s \in simulate(asset, amount, market, book)}

\* Mutant: the fee is not deducted from what a sale brought in.
ReceivedBeforeFee(sell_type, trade) ==
  IF sell_type = "Quote" THEN ToUintFloor(trade.quantity)
  ELSE ToUintFloor(Mul(trade.quantity, trade.price))

\* What the reply adds to SETTLED_AMOUNT_TRANSIENT.
Received(sell_type, trade) ==
  IF sell_type = "Quote" THEN ToUintFloor(trade.quantity)
  ELSE ToUintFloor(Mul(trade.quantity, trade.price) - trade.fee)

\* Decimals do not go below zero: the reply fails when the fee exceeds the proceeds.
Creditable(sell_type, trade) ==
  sell_type = "Base" => trade.fee <= Mul(trade.quantity, trade.price)

===============================================================================

------------------------------ MODULE SpotMarket ------------------------------
(***************************************************************************)
(* One spot market while the contract sells in it: the handler simulates   *)
(* the sale on the book of the moment and sends an order, the exchange     *)
(* executes it, and the reply credits what it brought in (exchange.rs,     *)
(* contract.rs).  No one else's transaction comes between the handler and  *)
(* the execution; before and after, the book may become any other.         *)
(***************************************************************************)
EXTENDS Exchange

CONSTANTS
  market,    \* the market: its denominations, its ticks and its fee
  Books,     \* the books it may have
  Amounts,   \* what the contract sells
  None       \* no order, no reply

ASSUME MarketAssumption ==
  /\ market \in Market({market.base_denom, market.quote_denom})
  /\ market.base_denom # market.quote_denom
  /\ Fee(market) <= One
  /\ \A book \in Books : IsOrderbook(book)
  /\ Amounts \subseteq Nat

VARIABLES
  book,    \* the levels of both sides
  order,   \* the order that is being sent, or None
  reply    \* the last execution, with its order and what was credited, or None

vars == <<book, order, reply>>

Order ==
  [sell_type : {"Base", "Quote"},
   coin : [denom : {market.base_denom, market.quote_denom}, amount : Nat],
   quantity : Nat, worst_price : Nat \ {0}, simulated : Nat]

Init ==
  /\ book \in Books
  /\ order = None
  /\ reply = None

\* The orders of others are placed, filled and cancelled.
BookChanges ==
  /\ order = None
  /\ book' \in Books
  /\ reply' = None
  /\ UNCHANGED order

Swap(asset, amount) ==
  /\ order = None
  /\ order' \in swap(asset, amount, market, book)
  /\ reply' = None
  /\ UNCHANGED book

\* The order is executed and its reply runs.
Execute ==
  /\ order # None
  /\ Accepted(order, market, book)
  /\ \E trade \in Trades(order, market, book) :
       /\ Creditable(order.sell_type, trade)
       /\ reply' = [order |-> order, trade |-> trade,
                    received |-> Received(order.sell_type, trade)]
  /\ order' = None
  /\ UNCHANGED book

\* The exchange refuses the order or the reply fails, which reverts the transaction.
Refuse ==
  /\ order # None
  /\ Accepted(order, market, book)
       => \E trade \in Trades(order, market, book) : ~Creditable(order.sell_type, trade)
  /\ order' = None
  /\ UNCHANGED <<book, reply>>

Next ==
  \/ BookChanges
  \/ \E asset \in {market.base_denom, market.quote_denom}, amount \in Amounts :
       Swap(asset, amount)
  \/ Execute
  \/ Refuse

Spec == Init /\ [][Next]_vars

-------------------------------------------------------------------------------
(* Properties. *)

MarketTypeOK ==
  /\ book \in Books
  /\ order \in Order \cup {None}
  /\ reply # None => reply.order \in Order /\ reply.received \in Nat

\* The contract can pay for what it asks for: a purchase costs no more than the
\* amount it was to spend, even if all of it is filled at the worst price, fee
\* included, whatever was rounded on the way.
OrderAffordable ==
  order # None /\ order.sell_type = "Quote"
    => order.quantity * order.worst_price * (One + Fee(market))
         <= Decimal(order.coin.amount) * One

\* An order that the exchange accepts is filled completely: the levels that are no
\* worse than its worst price hold as much as it asks for.
OrderFilled ==
  reply # None => reply.trade.quantity = Decimal(reply.order.quantity)

\* The rounding of the average price, for each token traded.
PriceRounding(trade) == trade.quantity \div One + 2

\* The simulation promises no more than the sale brings in on the same book: the
\* deposit limit and the queries, which simulate, agree with the settlement.
SimulationKept ==
  reply # None =>
    Decimal(reply.order.simulated)
      < Decimal(reply.received + 1) + PriceRounding(reply.trade)

\* What a sale is credited with did come in, and what a purchase is credited with too.
CreditCovered ==
  reply # None =>
    LET trade == reply.trade IN
    Decimal(reply.received) <=
      IF reply.order.sell_type = "Quote" THEN trade.quantity
      ELSE trade.notional - trade.fee + PriceRounding(trade)

\* A purchase asks for whole ticks, if a tick is a whole number of tokens: the exchange
\* does not refuse it for the way its quantity was rounded.
PurchaseOnTick ==
  order # None /\ order.sell_type = "Quote" /\ market.min_quantity_tick_size % One = 0
    => Decimal(order.quantity) % market.min_quantity_tick_size = 0

\* exchange.rs: "strip the quantity to the minimum tick size".
OrderOnTick ==
  order # None => Decimal(order.quantity) % market.min_quantity_tick_size = 0

===============================================================================

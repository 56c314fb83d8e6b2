--------------------------- MODULE SpotMarket_proofs --------------------------
(***************************************************************************)
(* Proofs about the orders of the contract, for every market, every book,  *)
(* every amount and every precision of the decimals.  Exchange_proofs says *)
(* what one order brings; here it is related to the steps of the market.   *)
(***************************************************************************)
EXTENDS SpotMarket, Exchange_proofs

\* The market is one the proofs about orders speak of.
LEMMA MarketFits == IsMarket(market)
BY MarketAssumption DEF Market, IsMarket

\* What holds of an order.
OrderSound(o) ==
  /\ o \in Order
  /\ o.sell_type = "Quote" =>
       /\ o.quantity * o.worst_price * (One + Fee(market)) <= Decimal(o.coin.amount) * One
       /\ market.min_quantity_tick_size % One = 0
            => Decimal(o.quantity) % market.min_quantity_tick_size = 0

\* What holds of an execution.
ReplySound(r) ==
  /\ r.order \in Order /\ r.received \in Nat
  /\ r.trade.quantity = Decimal(r.order.quantity)
  /\ Decimal(r.order.simulated) < Decimal(r.received + 1) + PriceRounding(r.trade)
  /\ Decimal(r.received) <=
       IF r.order.sell_type = "Quote" THEN r.trade.quantity
       ELSE r.trade.notional - r.trade.fee + PriceRounding(r.trade)

\* The inductive invariant: an order that is being sent is one the handler makes on the
\* book as it is, since no one else's transaction comes in between.
MarketInv ==
  /\ book \in Books
  /\ order # None =>
       /\ OrderSound(order)
       /\ order.coin.amount \in Amounts
       /\ order \in swap(order.coin.denom, order.coin.amount, market, book)
  /\ reply # None => ReplySound(reply)

-------------------------------------------------------------------------------
(* The orders of a handler. *)

\* An order has the fields of an order.
LEMMA SwapRecord ==
  ASSUME NEW b, NEW asset \in {market.base_denom, market.quote_denom}, NEW amount \in Nat,
         NEW o \in swap(asset, amount, market, b),
         o.quantity \in Nat, o.worst_price \in Nat \ {0}, o.simulated \in Nat
  PROVE  o \in Order
<1>1. PICK s \in simulate(asset, amount, market, b) :
        o = [sell_type   |-> SwapType(asset, market),
             coin        |-> [denom |-> asset, amount |-> amount],
             quantity    |-> IF SwapType(asset, market) = "Base" THEN amount ELSE s.amount,
             worst_price |-> s.worst_price,
             simulated   |-> s.amount]
  BY DEF swap
<1>2. SwapType(asset, market) \in {"Base", "Quote"}
  BY DEF SwapType
<1> QED BY <1>1, <1>2 DEF Order

\* An order is well formed, and a purchase can be paid for and is for whole ticks.
LEMMA SwapSound ==
  ASSUME NEW b, IsOrderbook(b), NEW asset \in {market.base_denom, market.quote_denom},
         NEW amount \in Nat, NEW o \in swap(asset, amount, market, b)
  PROVE  OrderSound(o) /\ o.coin.denom = asset /\ o.coin.amount = amount
<1>1. b.buys \in Seq(Level) /\ b.sells \in Seq(Level)
  BY DEF IsOrderbook
<1>2. /\ o.sell_type = "Base" \/ o.sell_type = "Quote"
      /\ o.coin.denom = asset /\ o.coin.amount = amount
  BY MarketFits, SwapSimulated
<1>3. PICK s \in IF o.sell_type = "Base"
                 THEN simulate_base_offer(amount, market, b.buys)
                 ELSE simulate_quote_offer(amount, market, b.sells) :
        /\ o.quantity = IF o.sell_type = "Base" THEN amount ELSE s.amount
        /\ o.worst_price = s.worst_price
        /\ o.simulated = s.amount
  BY MarketFits, SwapSimulated
<1>4. CASE o.sell_type = "Base"
  <2>1. s \in simulate_base_offer(amount, market, b.buys)
    BY <1>4
  <2>2. PICK k \in 1..Len(b.buys) :
          LET quantity == strip_min_tick(Decimal(amount), market.min_quantity_tick_size)
              near     == Walk(SubSeq(b.buys, 1, k), quantity)
          IN /\ s.worst_price = b.buys[k].p
             /\ quantity \in Nat
             /\ quantity <= Depth(Quantities(b.buys), k)
             /\ s.amount = ToUintFloor(AfterFee(Depth(Notionals(near), Len(near)), market))
    BY <1>1, <2>1, MarketFits, BaseOffer
  <2> DEFINE quantity == strip_min_tick(Decimal(amount), market.min_quantity_tick_size)
             near     == Walk(SubSeq(b.buys, 1, k), quantity)
  <2>3. b.buys[k].p \in Nat \ {0}
    BY <1>1, LevelType
  <2>4. Depth(Notionals(near), Len(near)) \in Nat
    <3>1. k \in 0..Len(b.buys) /\ k \in k..Len(b.buys)
      BY <1>1
    <3>2. quantity \in Nat /\ quantity <= Depth(Quantities(b.buys), k)
      BY <2>2
    <3> HIDE DEF quantity
    <3> QED BY <1>1, <3>1, <3>2, WalkPrefix
  <2>5. s.amount \in Nat
    BY <2>2, <2>4, MarketFits, AfterFeeDown, FloorBounds
  <2>6. s.worst_price \in Nat \ {0}
    BY <2>2, <2>3
  <2>7. o.quantity \in Nat /\ o.worst_price \in Nat \ {0} /\ o.simulated \in Nat
    BY <1>3, <1>4, <2>5, <2>6
  <2> QED BY <1>2, <1>4, <2>7, SwapRecord DEF OrderSound
<1>5. CASE o.sell_type = "Quote"
  <2>1. s \in simulate_quote_offer(amount, market, b.sells)
    BY <1>5
  <2>2. /\ s.amount \in Nat
        /\ s.worst_price \in Nat \ {0}
        /\ s.amount * s.worst_price * (One + Fee(market)) <= Decimal(amount) * One
    BY <1>1, <2>1, MarketFits, QuoteOffer
  <2>3. PICK x \in Nat :
          s.amount = ToUintFloor(strip_min_tick(x, market.min_quantity_tick_size))
    BY <1>1, <2>1, MarketFits, QuoteOffer
  <2>4. market.min_quantity_tick_size % One = 0
          => Decimal(s.amount) % market.min_quantity_tick_size = 0
    BY <2>3, MarketFits, TokensOnTick DEF IsMarket
  <2>5. /\ o.quantity = s.amount /\ o.worst_price = s.worst_price /\ o.simulated = s.amount
    BY <1>3, <1>5
  <2> QED BY <1>2, <2>2, <2>4, <2>5, SwapRecord DEF OrderSound
<1> QED BY <1>2, <1>4, <1>5

-------------------------------------------------------------------------------
(* The steps. *)

\* At first there is no order and no reply.
LEMMA InitMarket == Init => MarketInv
BY DEF Init, MarketInv

\* A handler leaves an order that is sound.
LEMMA SwapEffect ==
  ASSUME MarketInv, NEW asset \in {market.base_denom, market.quote_denom},
         NEW amount \in Amounts, Swap(asset, amount)
  PROVE  MarketInv'
<1>1. /\ book \in Books /\ book' = book /\ reply' = None
      /\ order' \in swap(asset, amount, market, book)
  BY DEF MarketInv, Swap
<1>2. IsOrderbook(book) /\ amount \in Nat
  BY <1>1, MarketAssumption
<1>3. OrderSound(order') /\ order'.coin.denom = asset /\ order'.coin.amount = amount
  BY <1>1, <1>2, SwapSound
<1>4. OrderSound(order)'
  BY <1>3 DEF OrderSound
<1> QED BY <1>1, <1>3, <1>4 DEF MarketInv

\* The handler's order is filled, and its reply credits what it should.
LEMMA ExecuteEffect ==
  ASSUME MarketInv, Execute
  PROVE  MarketInv'
<1> DEFINE asset  == order.coin.denom
           amount == order.coin.amount
<1>1. /\ book \in Books /\ OrderSound(order) /\ amount \in Amounts
      /\ order \in swap(asset, amount, market, book)
      /\ Accepted(order, market, book)
      /\ order' = None /\ book' = book
  BY DEF MarketInv, Execute
<1>2. IsOrderbook(book) /\ amount \in Nat /\ IsMarket(market)
  BY <1>1, MarketAssumption, MarketFits
<1>3. PICK trade \in Trades(order, market, book) :
        /\ Creditable(order.sell_type, trade)
        /\ reply' = [order |-> order, trade |-> trade,
                     received |-> Received(order.sell_type, trade)]
  BY DEF Execute
<1>4. /\ order.quantity \in Nat \ {0}
      /\ trade.quantity = Decimal(order.quantity)
      /\ trade.notional \in Nat
      /\ order.sell_type = "Base" => order.quantity = amount
  BY <1>1, <1>2, OrderExecuted
<1>5. /\ order.simulated \in Nat
      /\ Received(order.sell_type, trade) \in Nat
      /\ trade.fee \in Nat
      /\ order.sell_type = "Quote" => Received(order.sell_type, trade) = order.simulated
      /\ order.sell_type = "Base" =>
           /\ Decimal(order.simulated) < Decimal(Received(order.sell_type, trade) + 1) + amount
           /\ Decimal(Received(order.sell_type, trade)) <= trade.notional - trade.fee + amount
  BY <1>1, <1>2, <1>3, OrderCredited
<1>6. order.sell_type = "Quote" => order.simulated = order.quantity
  BY <1>1, <1>2, OrderExecuted
<1>7. order.sell_type = "Base" \/ order.sell_type = "Quote"
  BY <1>1, <1>2, SwapSimulated
<1> HIDE DEF asset, amount
<1>8. PICK o, t, r : o = order /\ t = trade /\ r = Received(order.sell_type, trade)
  OBVIOUS
<1>9. PriceRounding(t) = o.quantity + 2
  BY <1>4, <1>8, FloorWhole DEF PriceRounding, ToUintFloor
<1>10. /\ Decimal(r + 1) = Decimal(r) + One /\ Decimal(r) \in Nat
       /\ One \in Nat \ {0} /\ Decimal(o.simulated) \in Nat
  BY <1>5, <1>8, FloorWhole, ExchangeAssumption DEF Decimal
<1>11. /\ Decimal(o.simulated) < Decimal(r + 1) + PriceRounding(t)
       /\ Decimal(r) <= IF o.sell_type = "Quote" THEN t.quantity
                        ELSE t.notional - t.fee + PriceRounding(t)
  <2>1. CASE o.sell_type = "Quote"
    <3>1. r = o.simulated /\ t.quantity = Decimal(r)
      BY <1>4, <1>5, <1>6, <1>8, <2>1
    <3> QED BY <1>4, <1>8, <1>9, <1>10, <2>1, <3>1
  <2>2. CASE o.sell_type = "Base"
    <3>1. /\ Decimal(o.simulated) < Decimal(r + 1) + o.quantity
          /\ Decimal(r) <= t.notional - t.fee + o.quantity
      BY <1>4, <1>5, <1>8, <2>2
    <3> QED BY <1>4, <1>5, <1>8, <1>9, <1>10, <2>2, <3>1
  <2> QED BY <1>7, <1>8, <2>1, <2>2
<1>12. reply' = [order |-> o, trade |-> t, received |-> r]
  BY <1>3, <1>8
<1>13. ReplySound(reply)'
  <2>1. reply'.order = o /\ reply'.trade = t /\ reply'.received = r
    BY <1>12
  <2>2. o \in Order /\ r \in Nat /\ t.quantity = Decimal(o.quantity)
    BY <1>1, <1>4, <1>5, <1>8 DEF OrderSound
  <2> QED BY <1>11, <2>1, <2>2 DEF ReplySound
<1> QED BY <1>1, <1>13 DEF MarketInv

\* Every step keeps the invariant.
LEMMA NextMarket == MarketInv /\ [Next]_vars => MarketInv'
<1> SUFFICES ASSUME MarketInv, [Next]_vars PROVE MarketInv'
  OBVIOUS
<1>1. CASE BookChanges
  BY <1>1 DEF BookChanges, MarketInv
<1>2. CASE \E asset \in {market.base_denom, market.quote_denom}, amount \in Amounts :
             Swap(asset, amount)
  BY <1>2, SwapEffect
<1>3. CASE Execute
  BY <1>3, ExecuteEffect
<1>4. CASE Refuse
  BY <1>4 DEF Refuse, MarketInv, ReplySound
<1>5. CASE UNCHANGED vars
  BY <1>5 DEF vars, MarketInv, OrderSound, ReplySound
<1> QED BY <1>1, <1>2, <1>3, <1>4, <1>5 DEF Next

\* The invariant holds at any time.
LEMMA MarketInvariant == Spec => []MarketInv
<1> QED BY InitMarket, NextMarket, PTL DEF Spec

-------------------------------------------------------------------------------
(* The theorems. *)

\* Orders and replies have their types.
THEOREM MarketTyped == Spec => []MarketTypeOK
<1>1. MarketInv => MarketTypeOK
  BY DEF MarketInv, OrderSound, ReplySound, MarketTypeOK
<1> QED BY <1>1, MarketInvariant, PTL

\* A purchase never costs more than the amount it spends, the fee included, whatever the
\* book and whatever was rounded on the way.
THEOREM PurchaseAffordable == Spec => []OrderAffordable
<1>1. MarketInv => OrderAffordable
  BY DEF MarketInv, OrderSound, OrderAffordable
<1> QED BY <1>1, MarketInvariant, PTL

\* A purchase is for whole ticks: the exchange does not refuse it for its quantity.
THEOREM PurchaseTicks == Spec => []PurchaseOnTick
<1>1. MarketInv => PurchaseOnTick
  BY DEF MarketInv, OrderSound, PurchaseOnTick
<1> QED BY <1>1, MarketInvariant, PTL

\* An order that is accepted finds all it asks for within its worst price: the depth that
\* was simulated is enough, for any book and any rounding.
THEOREM AcceptedFilled == Spec => []OrderFilled
<1>1. MarketInv => OrderFilled
  BY DEF MarketInv, ReplySound, OrderFilled
<1> QED BY <1>1, MarketInvariant, PTL

\* A sale brings in what was simulated, but for one unit and the rounding of the price.
THEOREM SimulationHolds == Spec => []SimulationKept
<1>1. MarketInv => SimulationKept
  BY DEF MarketInv, ReplySound, SimulationKept
<1> QED BY <1>1, MarketInvariant, PTL

\* The reply credits no more than came in, but for the rounding of the price.
THEOREM CreditsCovered == Spec => []CreditCovered
<1>1. MarketInv => CreditCovered
  BY DEF MarketInv, ReplySound, CreditCovered
<1> QED BY <1>1, MarketInvariant, PTL

===============================================================================

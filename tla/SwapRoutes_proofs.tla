--------------------------- MODULE SwapRoutes_proofs --------------------------
(***************************************************************************)
(* Proofs about the routes, for any denominations, markets and books: a    *)
(* stored route joins two different assets in a market that trades them    *)
(* for one another, a settlement by these routes brings in what the        *)
(* valuation of its basket by the exchange counts, and a bid stays below   *)
(* what the router answered for the assets that are still sold by the      *)
(* routes it was asked about.                                              *)
(***************************************************************************)
EXTENDS SwapRoutes, Exchange_proofs, Totals_proofs

\* The inductive invariant.
RoutesInv == RoutesTypeOK /\ RoutesConnect

\* At first there is no route.
LEMMA InitRoutes == Init => RoutesInv
BY DEF Init, RoutesInv, RoutesTypeOK, RoutesConnect

\* The checks of set_route leave no choice: the market trades source for target.
LEMMA SetRouteEffect ==
  ASSUME RoutesInv, NEW sender, NEW route \in SwapRoute, SetRoute(sender, route)
  PROVE  /\ RoutesInv'
         /\ \A key \in DOMAIN swap_routes : key \in DOMAIN swap_routes'
                                            /\ swap_routes'[key] = swap_routes[key]
<1> DEFINE key == route_key(route.source_denom, route.target_denom)
           m   == market[route.market_id]
<1>1. /\ key = {route.source_denom, route.target_denom}
      /\ key \in SUBSET Denoms
      /\ route.source_denom # route.target_denom
      /\ key \notin DOMAIN swap_routes
      /\ swap_routes' = [k \in DOMAIN swap_routes \cup {key} |->
                           IF k = key THEN route ELSE swap_routes[k]]
  BY DEF SetRoute, route_key, HasRoute, SwapRoute
<1>2. key = {m.base_denom, m.quote_denom}
  BY <1>1 DEF SetRoute, verify_route_exists
<1> HIDE DEF key
<1>3. \A k \in DOMAIN swap_routes : k \in DOMAIN swap_routes'
                                    /\ swap_routes'[k] = swap_routes[k]
  BY <1>1
<1>4. swap_routes'[key] = route /\ DOMAIN swap_routes' = DOMAIN swap_routes \cup {key}
  BY <1>1
<1>5. \E d, e \in key : d # e
  BY <1>1
<1>6. RoutesTypeOK'
  BY <1>1, <1>3, <1>4, <1>5 DEF RoutesInv, RoutesTypeOK, SetRoute
<1>7. RoutesConnect'
  BY <1>2, <1>3, <1>4 DEF RoutesInv, RoutesConnect
<1> QED  BY <1>3, <1>6, <1>7 DEF RoutesInv

\* Deleting a route leaves the others as they are.
LEMMA DeleteRouteEffect ==
  ASSUME RoutesInv, NEW sender, NEW source, NEW target,
         DeleteRoute(sender, source, target)
  PROVE  /\ RoutesInv'
         /\ \A key \in DOMAIN swap_routes' : key \in DOMAIN swap_routes
                                             /\ swap_routes'[key] = swap_routes[key]
<1>1. /\ DOMAIN swap_routes' \subseteq DOMAIN swap_routes
      /\ \A key \in DOMAIN swap_routes' : swap_routes'[key] = swap_routes[key]
  BY DEF DeleteRoute
<1>2. bid' \in Bid \cup {None}
  <2>1. Unlisted(source, target) \in SUBSET Denoms
    BY DEF Unlisted, SoldAssets, Routed
  <2> HIDE DEF Unlisted
  <2> QED BY <2>1 DEF DeleteRoute, RoutesInv, RoutesTypeOK, Bid
<1>3. RoutesTypeOK'
  BY <1>1, <1>2 DEF RoutesInv, RoutesTypeOK, DeleteRoute
<1>4. RoutesConnect'
  BY <1>1 DEF RoutesInv, RoutesConnect
<1> QED  BY <1>1, <1>3, <1>4 DEF RoutesInv

\* A bid records the basket, the answers and the markets of its assets.
LEMMA TryBidEffect ==
  ASSUME RoutesInv, NEW basket \in Baskets, NEW answers \in Answers, NEW amount \in BidAmounts,
         TryBid(basket, answers, amount)
  PROVE  RoutesInv' /\ swap_routes' = swap_routes
<1>1. UNCHANGED <<config, swap_routes, books>>
  BY DEF TryBid
<1>2. bid' \in Bid
  <2>1. /\ basket \in [Denoms -> Nat] /\ answers \in [Denoms -> Nat] /\ amount \in Nat
    BY RoutesAssumption
  <2>2. [amount |-> amount, basket |-> basket] \in BidAttempt
    BY <2>1 DEF BidAttempt
  <2>3. \A d \in SoldAssets(basket) : MarketOf(d) \in Markets
    BY DEF SoldAssets, Routed, HasRoute, MarketOf, RoutesInv, RoutesTypeOK, SwapRoute
  <2>4. [d \in Denoms |-> IF d \in SoldAssets(basket) THEN MarketOf(d) ELSE None]
          \in [Denoms -> Markets \cup {None}]
    BY <2>3
  <2> HIDE DEF MarketOf, SoldAssets
  <2> QED BY <2>1, <2>2, <2>4 DEF TryBid, Bid
<1> QED BY <1>1, <1>2 DEF RoutesInv, RoutesTypeOK, RoutesConnect

\* The other steps leave the routes alone; they keep the bid or end it.
LEMMA OtherEffect ==
  ASSUME RoutesInv,
         \/ \E sender, admin \in Accounts, bps \in OffsetBps : UpdateConfig(sender, admin, bps)
         \/ \E id \in Markets, book \in Books : BookChanges(id, book)
         \/ \E won \in BOOLEAN : TrySettle(won)
         \/ TryClearCurrentBid
         \/ UNCHANGED vars
  PROVE  RoutesInv' /\ swap_routes' = swap_routes /\ (bid' = bid \/ bid' = None)
<1>1. swap_routes' = swap_routes
  BY DEF UpdateConfig, BookChanges, TrySettle, TryClearCurrentBid, vars
<1>2. config' \in [admin : Accounts, max_inj_offset_bps : OffsetBps]
  BY DEF RoutesInv, RoutesTypeOK, UpdateConfig, BookChanges, TrySettle, TryClearCurrentBid, vars
<1>3. books' \in [Markets -> Books]
  BY DEF RoutesInv, RoutesTypeOK, UpdateConfig, BookChanges, TrySettle, TryClearCurrentBid, vars
<1>4. bid' = bid \/ bid' = None
  BY DEF UpdateConfig, BookChanges, TrySettle, TryClearCurrentBid, vars
<1> QED  BY <1>1, <1>2, <1>3, <1>4 DEF RoutesInv, RoutesTypeOK, RoutesConnect

\* Every step keeps the invariant.
LEMMA NextRoutes == RoutesInv /\ [Next]_vars => RoutesInv'
BY SetRouteEffect, DeleteRouteEffect, TryBidEffect, OtherEffect DEF Next

\* The invariant holds at any time.
LEMMA RoutesInvariant == Spec => []RoutesInv
<1> QED  BY InitRoutes, NextRoutes, PTL DEF Spec

\* Routes and configuration have their types: a route is stored for two different
\* denominations, and names a market and denominations that exist.
THEOREM RoutesTyped == Spec => []RoutesTypeOK
<1>1. RoutesInv => RoutesTypeOK
  BY DEF RoutesInv
<1> QED  BY <1>1, RoutesInvariant, PTL

\* A settlement sells each asset for INJ: the market of a route trades exactly the two
\* denominations under which the route is found.
THEOREM RoutesJoin == Spec => []RoutesConnect
<1>1. RoutesInv => RoutesConnect
  BY DEF RoutesInv
<1> QED  BY <1>1, RoutesInvariant, PTL

\* The assets of a basket are sold in different markets.
THEOREM IndependentOrders == Spec => []OrdersIndependent
<1>1. RoutesInv => OrdersIndependent
  <2> SUFFICES ASSUME RoutesInv, NEW basket \in Baskets,
                      NEW d \in SoldAssets(basket), NEW e \in SoldAssets(basket),
                      MarketOf(d) = MarketOf(e)
               PROVE  d = e
    BY DEF OrdersIndependent
  <2> DEFINE m == market[MarketOf(d)]
  <2>1. /\ d # INJ /\ e # INJ
        /\ {d, INJ} \in DOMAIN swap_routes /\ {e, INJ} \in DOMAIN swap_routes
    BY DEF SoldAssets, Routed, HasRoute, route_key
  <2>2. {d, INJ} = {m.base_denom, m.quote_denom} /\ {e, INJ} = {m.base_denom, m.quote_denom}
    BY <2>1 DEF RoutesInv, RoutesConnect, MarketOf, route_key
  <2> QED  BY <2>1, <2>2
<1> QED  BY <1>1, RoutesInvariant, PTL

\* A route changes only by being deleted and set again.
THEOREM RoutesKept == Spec => RouteKept
<1>1. RoutesInv /\ [Next]_vars
        => [\A key \in DOMAIN swap_routes \cap DOMAIN swap_routes' :
              swap_routes'[key] = swap_routes[key]]_vars
  BY SetRouteEffect, DeleteRouteEffect, TryBidEffect, OtherEffect DEF Next
<1> QED  BY <1>1, RoutesInvariant, PTL DEF Spec, RouteKept

-------------------------------------------------------------------------------
(* What a settlement brings in. *)

\* No route joins INJ to itself, so that everything with a route is sold.
LEMMA RoutedSold ==
  ASSUME RoutesInv, NEW basket \in Baskets
  PROVE  /\ SoldAssets(basket) = Routed(basket)
         /\ \A d \in SoldAssets(basket) :
              /\ d \in Denoms /\ d # INJ /\ HasRoute(d, INJ)
              /\ basket[d] \in Nat /\ basket[d] > 0
              /\ MarketOf(d) \in Markets
<1>1. ~HasRoute(INJ, INJ)
  BY DEF RoutesInv, RoutesTypeOK, HasRoute, route_key
<1>2. SoldAssets(basket) = Routed(basket)
  BY <1>1 DEF SoldAssets, Routed
<1>3. basket \in [Denoms -> Nat]
  BY RoutesAssumption
<1>4. \A d \in SoldAssets(basket) : MarketOf(d) \in Markets
  BY DEF SoldAssets, Routed, HasRoute, MarketOf, RoutesInv, RoutesTypeOK, SwapRoute
<1> QED BY <1>2, <1>3, <1>4 DEF SoldAssets, Routed

\* The market and the book of a route are ones the proofs about orders speak of.
LEMMA MarketFits ==
  ASSUME RoutesInv, NEW id \in Markets
  PROVE  IsMarket(market[id]) /\ IsOrderbook(books[id])
<1>1. /\ market[id] \in Market(Denoms)
      /\ market[id].base_denom # market[id].quote_denom
      /\ Fee(market[id]) <= One
  BY RoutesAssumption
<1>2. books[id] \in Books
  BY DEF RoutesInv, RoutesTypeOK
<1>3. IsMarket(market[id])
  BY <1>1 DEF Market, IsMarket
<1> QED BY <1>2, <1>3, RoutesAssumption

\* The least of what a reply may credit is one of its credits.
LEMMA LeastOfTwo ==
  ASSUME NEW a \in Nat, NEW b \in Nat, NEW S, S = {a, b}
  PROVE  (CHOOSE x \in S : \A y \in S : x <= y) \in S
<1>1. \E x \in S : \A y \in S : x <= y
  <2>1. CASE a <= b
    BY <2>1
  <2>2. CASE b <= a
    BY <2>2
  <2> QED BY <2>1, <2>2
<1> QED BY <1>1

\* The reply of each sale of a settlement credits what its valuation counted, but for
\* one unit and the rounding of the price.
LEMMA SaleCredited ==
  ASSUME RoutesInv, NEW basket \in Baskets, CanSettle(basket),
         NEW d \in SoldAssets(basket)
  PROVE  /\ LeastCredit(basket, d) \in Nat
         /\ TheOne(Simulated(basket, d)).amount \in Nat
         /\ TheOne(Simulated(basket, d)).amount * One
              <= LeastCredit(basket, d) * One + (One + basket[d] + 2)
<1> DEFINE m == market[MarketOf(d)]
           b == books[MarketOf(d)]
           S == swap(d, basket[d], m, b)
<1>1. IsMarket(m) /\ IsOrderbook(b) /\ basket[d] \in Nat
  BY RoutedSold, MarketFits
<1>2. Orders(basket)[d] = S
  BY DEF Orders
<1>3. PICK o \in S : /\ Accepted(o, m, b)
                     /\ \A trade \in Trades(o, m, b) : Creditable(o.sell_type, trade)
  BY <1>2 DEF CanSettle
<1> HIDE DEF m, b
<1>4. /\ \A p \in S : p = o
      /\ \E s \in simulate(d, basket[d], m, b) : s.amount = o.simulated
      /\ \A s, t \in simulate(d, basket[d], m, b) : s = t
  BY <1>1, OneOrder
<1>5. TheOne(Orders(basket)[d]) = o
  BY <1>2, <1>3, <1>4 DEF TheOne
<1>6. TheOne(Simulated(basket, d)).amount = o.simulated
  <2>1. Simulated(basket, d) = simulate(d, basket[d], m, b)
    BY DEF Simulated, m, b
  <2> QED BY <1>4, <2>1 DEF TheOne
<1> HIDE DEF S
<1>7. \A trade \in Trades(o, m, b) :
        /\ o.simulated \in Nat
        /\ Received(o.sell_type, trade) \in Nat
        /\ o.sell_type = "Quote" => Received(o.sell_type, trade) = o.simulated
        /\ o.sell_type = "Base" =>
             Decimal(o.simulated) < Decimal(Received(o.sell_type, trade) + 1) + basket[d]
  BY <1>1, <1>3, OrderCredited DEF S
<1>8. o.sell_type = "Base" \/ o.sell_type = "Quote"
  BY <1>1, <1>3, SwapSimulated DEF S
<1>9. Credits(basket, d) = {Received(o.sell_type, trade) : trade \in Trades(o, m, b)}
  BY <1>5 DEF Credits, m, b
<1>10. PICK t, u \in Trades(o, m, b) : Trades(o, m, b) = {t, u}
  BY TwoTrades
<1>11. LeastCredit(basket, d) \in Credits(basket, d)
  <2>1. PICK r, s : r = Received(o.sell_type, t) /\ s = Received(o.sell_type, u)
    OBVIOUS
  <2>2. Credits(basket, d) = {r, s} /\ r \in Nat /\ s \in Nat
    BY <1>7, <1>9, <1>10, <2>1
  <2> QED BY <2>2, LeastOfTwo DEF LeastCredit
<1>12. PICK trade \in Trades(o, m, b) : LeastCredit(basket, d) = Received(o.sell_type, trade)
  BY <1>9, <1>11
<1>13. PICK s, r : s = o.simulated /\ r = Received(o.sell_type, trade)
  OBVIOUS
<1>14. /\ s \in Nat /\ r \in Nat
       /\ s = r \/ Decimal(s) < Decimal(r + 1) + basket[d]
  BY <1>7, <1>8, <1>13
<1>15. s * One <= r * One + (One + basket[d] + 2)
  <2>1. /\ s * One \in Nat /\ r * One \in Nat /\ One \in Nat
        /\ (r + 1) * One = r * One + One
    BY <1>14, TimesNat, ExchangeAssumption
  <2>2. CASE s = r
    BY <1>1, <2>1, <2>2
  <2>3. CASE s * One < (r + 1) * One + basket[d]
    BY <1>1, <2>1, <2>3
  <2> QED BY <1>14, <2>2, <2>3 DEF Decimal
<1> QED BY <1>6, <1>12, <1>13, <1>14, <1>15

\* The same for all sales together.
LEMMA SettlementTotals ==
  ASSUME RoutesInv, NEW basket \in Baskets, CanSettle(basket)
  PROVE  LET sold == SoldAssets(basket)
             credit == [d \in sold |-> LeastCredit(basket, d)]
             value  == [d \in sold |-> TheOne(Simulated(basket, d)).amount]
         IN /\ IsFiniteSet(sold) /\ sold \in SUBSET Denoms
            /\ credit \in [sold -> Nat] /\ value \in [sold -> Nat]
            /\ Total(value) * One <= Total(credit) * One + Rounding(basket)
            /\ Rounding(basket) \in Nat
<1> DEFINE sold   == SoldAssets(basket)
           credit == [d \in sold |-> LeastCredit(basket, d)]
           value  == [d \in sold |-> TheOne(Simulated(basket, d)).amount]
           slack  == [d \in sold |-> One + basket[d] + 2]
           values  == [d \in sold |-> value[d] * One]
           credits == [d \in sold |-> credit[d] * One]
           bound   == [d \in sold |-> credits[d] + slack[d]]
<1>1. sold \in SUBSET Denoms /\ IsFiniteSet(sold)
  <2>1. sold \subseteq Denoms
    BY DEF SoldAssets, Routed
  <2> QED BY <2>1, FS_Subset, RoutesAssumption
<1>2. \A d \in sold : /\ credit[d] \in Nat /\ value[d] \in Nat /\ slack[d] \in Nat
                      /\ value[d] * One <= credit[d] * One + slack[d]
  BY SaleCredited, RoutedSold, ExchangeAssumption
<1>3. /\ credit = [d \in sold |-> credit[d]] /\ value = [d \in sold |-> value[d]]
      /\ slack = [d \in sold |-> slack[d]]
  OBVIOUS
<1>4. Rounding(basket) = Total(slack)
  BY DEF Rounding
<1> HIDE DEF sold, credit, value, slack
<1>5. credit \in [sold -> Nat] /\ value \in [sold -> Nat] /\ slack \in [sold -> Nat]
  BY <1>2, <1>3
<1>6. One \in Nat
  BY ExchangeAssumption
<1>7. \A d \in sold : value[d] * One \in Nat /\ credit[d] * One \in Nat
  BY <1>2, <1>6, TimesNat
<1>8. /\ values \in [sold -> Nat] /\ credits \in [sold -> Nat]
      /\ \A d \in sold : values[d] = value[d] * One /\ credits[d] = credit[d] * One
  BY <1>7
<1>9. Total(values) = One * Total(value)
  BY <1>1, <1>5, <1>6, TotalTimes
<1>10. Total(credits) = One * Total(credit)
  BY <1>1, <1>5, <1>6, TotalTimes
<1> HIDE DEF values, credits
<1>11. /\ bound \in [sold -> Nat]
       /\ \A d \in sold : values[d] <= bound[d]
  BY <1>2, <1>7, <1>8
<1>12. Total(bound) = Total(credits) + Total(slack)
  BY <1>1, <1>5, <1>8, TotalPlus
<1> HIDE DEF bound
<1>13. Total(values) <= Total(bound)
  BY <1>1, <1>8, <1>11, TotalMono
<1>14. Total(value) \in Nat /\ Total(credit) \in Nat /\ Total(slack) \in Nat
  BY <1>1, <1>5, TotalType
<1>15. One * Total(value) = Total(value) * One /\ One * Total(credit) = Total(credit) * One
  BY <1>6, <1>14
<1>16. Total(value) * One <= Total(credit) * One + Total(slack)
  BY <1>9, <1>10, <1>12, <1>13, <1>15
<1> QED BY <1>1, <1>4, <1>5, <1>14, <1>16 DEF sold, credit, value

\* The valuation by the exchange is what a settlement brings in, but for the rounding.
LEMMA ValueRealised ==
  ASSUME RoutesInv, NEW basket \in Baskets, CanSettle(basket)
  PROVE  LET value == get_current_auction_value_using_exchange(basket)
         IN /\ value \in Nat /\ Realised(basket) \in Nat /\ Rounding(basket) \in Nat
            /\ Decimal(value) <= Decimal(Realised(basket)) + Rounding(basket)
<1> DEFINE sold == SoldAssets(basket)
           credit == [d \in sold |-> LeastCredit(basket, d)]
           value  == [d \in sold |-> TheOne(Simulated(basket, d)).amount]
<1>1. /\ IsFiniteSet(sold)
      /\ credit \in [sold -> Nat] /\ value \in [sold -> Nat]
      /\ Total(value) * One <= Total(credit) * One + Rounding(basket)
      /\ Rounding(basket) \in Nat
  BY SettlementTotals
<1>2. get_current_auction_value_using_exchange(basket) = basket[INJ] + Total(value)
  BY RoutedSold DEF get_current_auction_value_using_exchange
<1>3. Realised(basket) = basket[INJ] + Total(credit)
  BY DEF Realised
<1> HIDE DEF value, credit, sold
<1>4. Total(value) \in Nat /\ Total(credit) \in Nat
  BY <1>1, TotalType
<1>5. basket[INJ] \in Nat /\ One \in Nat
  BY RoutesAssumption, ExchangeAssumption
<1>6. PICK i, v, c, r : /\ i = basket[INJ] /\ v = Total(value) /\ c = Total(credit)
                        /\ r = Rounding(basket)
  OBVIOUS
<1>7. i \in Nat /\ v \in Nat /\ c \in Nat /\ r \in Nat /\ v * One <= c * One + r
  BY <1>1, <1>4, <1>5, <1>6
<1>8. (i + v) * One = i * One + v * One /\ (i + c) * One = i * One + c * One
  BY <1>5, <1>7
<1>9. i * One \in Nat /\ v * One \in Nat /\ c * One \in Nat
  BY <1>5, <1>7, TimesNat
<1>10. (i + v) * One <= (i + c) * One + r
  BY <1>7, <1>8, <1>9
<1> QED BY <1>2, <1>3, <1>6, <1>7, <1>10 DEF Decimal

\* The limit on deposits is no more than the configured share of the INJ that a settlement
\* of the same basket on the same books brings in, but for the rounding of its orders.
THEOREM LimitCovered == Spec => []LimitRealised
<1>1. RoutesInv => LimitRealised
  <2> SUFFICES ASSUME RoutesInv, NEW basket \in Baskets, CanSettle(basket)
               PROVE  Decimal(get_max_tokens(basket)) * 10000
                        <= config.max_inj_offset_bps
                             * (Decimal(Realised(basket)) + Rounding(basket))
    BY DEF LimitRealised
  <2>1. PICK v, r, e, bps :
          /\ v = get_current_auction_value_using_exchange(basket)
          /\ r = Decimal(Realised(basket)) /\ e = Rounding(basket)
          /\ bps = config.max_inj_offset_bps
    OBVIOUS
  <2>2. v \in Nat /\ r \in Nat /\ e \in Nat /\ v * One <= r + e
    BY <2>1, ValueRealised, FloorWhole DEF Decimal
  <2>3. bps \in Nat
    BY <2>1, RoutesAssumption DEF RoutesInv, RoutesTypeOK
  <2>4. PICK g : g = get_max_tokens(basket)
    OBVIOUS
  <2>5. g \in Nat /\ g * 10000 <= v * bps
    <3>1. v * bps \in Nat
      BY <2>2, <2>3, TimesNat
    <3>2. g = (v * bps) \div 10000
      BY <2>1, <2>4 DEF get_max_tokens
    <3> QED BY <3>1, <3>2, DivDown
  <2>6. (g * 10000) * One <= (v * bps) * One
    BY <2>2, <2>3, <2>5, TimesMono, TimesNat, ExchangeAssumption
  <2>7. (v * One) * bps <= (r + e) * bps
    BY <2>2, <2>3, TimesMono, TimesNat, ExchangeAssumption
  <2>8. /\ (g * 10000) * One = (g * One) * 10000
        /\ (v * bps) * One = (v * One) * bps
        /\ (r + e) * bps = bps * (r + e)
    BY <2>2, <2>3, <2>5, ExchangeAssumption
  <2>9. /\ (g * One) * 10000 \in Nat /\ (v * One) * bps \in Nat
        /\ bps * (r + e) \in Nat
    BY <2>2, <2>3, <2>5, TimesNat, ExchangeAssumption
  <2>10. (g * One) * 10000 <= bps * (r + e)
    BY <2>6, <2>7, <2>8, <2>9
  <2> QED BY <2>1, <2>4, <2>10 DEF Decimal
<1> QED BY <1>1, RoutesInvariant, PTL

-------------------------------------------------------------------------------
(* What a bid is worth. *)

\* The sum over a part is no more than the sum over the whole.
LEMMA TotalSubset ==
  ASSUME NEW U, IsFiniteSet(U), NEW f \in [U -> Nat], NEW B \in SUBSET U, NEW A \in SUBSET B
  PROVE  /\ Total([x \in A |-> f[x]]) \in Nat
         /\ Total([x \in A |-> f[x]]) <= Total([x \in B |-> f[x]])
<1> DEFINE a == [x \in A |-> f[x]]
           b == [x \in B |-> f[x]]
           wideA == [x \in U |-> IF x \in A THEN a[x] ELSE 0]
           wideB == [x \in U |-> IF x \in B THEN b[x] ELSE 0]
<1>1. a \in [A -> Nat] /\ b \in [B -> Nat] /\ A \in SUBSET U
  OBVIOUS
<1>2. /\ wideA \in [U -> Nat] /\ wideB \in [U -> Nat]
      /\ \A x \in U : wideA[x] <= wideB[x]
  OBVIOUS
<1>3. IsFiniteSet(A)
  BY <1>1, FS_Subset
<1> HIDE DEF a, b
<1>4. Total(wideA) = Total(a) /\ Total(wideB) = Total(b)
  BY <1>1, TotalExtend
<1> HIDE DEF wideA, wideB
<1>5. Total(wideA) <= Total(wideB)
  BY <1>2, TotalMono
<1>6. Total(a) \in Nat
  BY <1>1, <1>3, TotalType
<1> QED BY <1>4, <1>5, <1>6 DEF a, b

\* The valuation by the router is the INJ of the basket and its answers for the assets that
\* a settlement by the same routes would sell.
LEMMA RouterValued ==
  ASSUME RoutesInv, NEW basket \in Baskets, NEW answers \in Answers
  PROVE  get_current_auction_value_using_router(basket, answers)
           = basket[INJ] + Total([d \in SoldAssets(basket) |-> answers[d]])
<1> DEFINE sold    == SoldAssets(basket)
           credit  == [d \in sold |-> answers[d]]
           held    == {x \in Denoms : basket[x] > 0}
           coin(d) == get_inj_value_asset(basket, answers, d)
           sale    == [d \in Denoms |-> IF d \in sold THEN credit[d] ELSE 0]
           inj     == [d \in Denoms |-> IF d = INJ THEN basket[INJ] ELSE 0]
           all     == [d \in Denoms |-> sale[d] + inj[d]]
           value   == [d \in held |-> coin(d)]
<1>1. /\ sold \in SUBSET Denoms /\ credit \in [sold -> Nat]
      /\ basket \in [Denoms -> Nat] /\ INJ \in Denoms /\ IsFiniteSet(Denoms)
  <2>1. /\ basket \in [Denoms -> Nat] /\ answers \in [Denoms -> Nat]
        /\ INJ \in Denoms /\ IsFiniteSet(Denoms)
    BY RoutesAssumption
  <2>2. sold \in SUBSET Denoms
    BY DEF SoldAssets, Routed
  <2> QED BY <2>1, <2>2
<1>2. /\ \A d \in Denoms : d \in sold <=> basket[d] > 0 /\ d # INJ /\ HasRoute(d, INJ)
      /\ \A d \in sold : credit[d] = answers[d]
  BY DEF SoldAssets, Routed
<1>3. \A d \in held : coin(d) = IF d = INJ THEN basket[INJ]
                                ELSE IF d \in sold THEN credit[d] ELSE 0
  <2> HIDE DEF sold, credit
  <2> QED BY <1>1, <1>2 DEF get_inj_value_asset
<1>4. get_current_auction_value_using_router(basket, answers) = Total(value)
  BY DEF get_current_auction_value_using_router
<1> HIDE DEF coin, sold, credit
<1>5. /\ sale \in [Denoms -> Nat] /\ inj \in [Denoms -> Nat]
      /\ \A d \in Denoms : sale[d] = IF d \in sold THEN credit[d] ELSE 0
      /\ \A d \in Denoms : inj[d] = IF d = INJ THEN basket[INJ] ELSE 0
  BY <1>1
<1>6. Total(sale) = Total(credit)
  BY <1>1, TotalExtend
<1>7. Total(inj) = basket[INJ]
  BY <1>1, TotalSingle
<1> HIDE DEF sale, inj
<1>8. Total(all) = Total(sale) + Total(inj)
  <2>1. IsFiniteSet(Denoms) /\ sale \in [Denoms -> Nat] /\ inj \in [Denoms -> Nat]
    BY <1>1, <1>5
  <2> HIDE DEF held, value
  <2> QED BY <2>1, TotalPlus
<1>9. \A d \in held : value[d] = coin(d) /\ d \in Denoms
  OBVIOUS
<1>10. value \in [held -> Nat]
  <2>1. \A d \in held : coin(d) \in Nat
    BY <1>1, <1>3
  <2> QED BY <2>1
<1>11. \A d \in Denoms : basket[d] \in Nat /\ (d \in held <=> basket[d] > 0)
  BY <1>1
<1>12. all = [d \in Denoms |-> IF d \in held THEN value[d] ELSE 0]
  <2>1. ASSUME NEW d \in Denoms
        PROVE  sale[d] + inj[d] = IF d \in held THEN value[d] ELSE 0
    <3>1. CASE d = INJ
      <4>1. d \notin sold /\ sale[d] = 0 /\ inj[d] = basket[d]
        BY <1>2, <1>5, <3>1
      <4>2. d \in held => value[d] = basket[d]
        BY <1>3, <1>9, <3>1
      <4>3. d \notin held => basket[d] = 0
        BY <1>11
      <4> HIDE DEF held, value
      <4> QED BY <1>11, <4>1, <4>2, <4>3
    <3>2. CASE d # INJ
      <4>1. inj[d] = 0 /\ sale[d] = IF d \in sold THEN credit[d] ELSE 0
        BY <1>5, <3>2
      <4>2. d \in held => value[d] = IF d \in sold THEN credit[d] ELSE 0
        BY <1>3, <1>9, <3>2
      <4>3. d \in sold => d \in held /\ credit[d] \in Nat
        BY <1>1, <1>2, <1>11
      <4> HIDE DEF held, value
      <4> QED BY <4>1, <4>2, <4>3
    <3> QED BY <3>1, <3>2
  <2> HIDE DEF held, value
  <2> QED BY <2>1
<1> HIDE DEF all, value
<1>13. Total(all) = Total(value)
  <2>1. held \in SUBSET Denoms
    OBVIOUS
  <2> HIDE DEF held
  <2> QED BY <1>10, <1>12, <2>1, TotalExtend
<1>14. Total(credit) \in Nat /\ basket[INJ] \in Nat
  <2>1. IsFiniteSet(sold)
    BY <1>1, FS_Subset
  <2> QED BY <1>1, <2>1, TotalType
<1>15. Total(value) = basket[INJ] + Total(credit)
  BY <1>6, <1>7, <1>8, <1>13, <1>14
<1> QED BY <1>4, <1>15 DEF credit, sold

\* The assets that back a bid, sold where they were valued or unlisted since.
Backing == SoldAsValued \cup bid.unlisted

\* A bid is backed as long as no asset drops out.
LEMMA StillBacked ==
  ASSUME RoutesInv, RoutesInv', BidBacked, bid # None, bid' # None,
         bid'.attempt = bid.attempt, bid'.answers = bid.answers,
         Backing \subseteq Backing'
  PROVE  BidBacked'
<1>1. bid \in Bid /\ bid' \in Bid
  BY DEF RoutesInv, RoutesTypeOK
<1>2. bid.answers \in [Denoms -> Nat] /\ bid.attempt \in BidAttempt
  BY <1>1 DEF Bid
<1>3. Backing' \in SUBSET Denoms
  <2>1. SoldAsValued' \subseteq Denoms
    BY DEF SoldAsValued, SoldAssets, Routed
  <2>2. bid'.unlisted \subseteq Denoms
    BY <1>1 DEF Bid
  <2> QED BY <2>1, <2>2 DEF Backing
<1>4. PICK answers, old, new, n, m :
        /\ answers = bid.answers /\ old = Backing /\ new = Backing'
        /\ n = Total([d \in old |-> answers[d]]) /\ m = Total([d \in new |-> answers[d]])
  OBVIOUS
<1>5. n \in Nat /\ n <= m
  <2>1. /\ IsFiniteSet(Denoms) /\ answers \in [Denoms -> Nat]
        /\ new \in SUBSET Denoms /\ old \in SUBSET new
    BY <1>2, <1>3, <1>4, RoutesAssumption
  <2> QED BY <1>4, <2>1, TotalSubset
<1>6. m \in Nat
  <2>1. /\ IsFiniteSet(Denoms) /\ answers \in [Denoms -> Nat]
        /\ new \in SUBSET Denoms /\ new \in SUBSET new
    BY <1>2, <1>3, <1>4, RoutesAssumption
  <2> QED BY <1>4, <2>1, TotalSubset
<1>7. bid.attempt.amount < bid.attempt.basket[INJ] + n
  BY <1>4 DEF BidBacked, Backing
<1>8. bid.attempt.amount \in Nat /\ bid.attempt.basket[INJ] \in Nat
  BY <1>2, RoutesAssumption DEF BidAttempt
<1>9. bid.attempt.amount < bid.attempt.basket[INJ] + m
  BY <1>5, <1>6, <1>7, <1>8
<1> QED BY <1>4, <1>9 DEF BidBacked, Backing

\* A bid that is placed is below what it was valued at, and nothing has changed yet.
LEMMA BidPlaced ==
  ASSUME RoutesInv, NEW basket \in Baskets, NEW answers \in Answers, NEW amount \in BidAmounts,
         TryBid(basket, answers, amount)
  PROVE  BidBacked'
<1>1. /\ get_current_auction_value_using_router(basket, answers) > amount
      /\ swap_routes' = swap_routes
      /\ bid'.attempt.amount = amount /\ bid'.attempt.basket = basket
      /\ bid'.answers = answers /\ bid'.unlisted = {}
      /\ \A d \in Denoms : d \in SoldAssets(basket) => bid'.markets[d] = MarketOf(d)
  BY DEF TryBid
<1>2. SoldAssets(basket)' = SoldAssets(basket) /\ \A d : MarketOf(d)' = MarketOf(d)
  BY <1>1 DEF SoldAssets, Routed, HasRoute, MarketOf
<1>3. SoldAssets(basket) \subseteq Denoms
  BY DEF SoldAssets, Routed
<1>4. SoldAsValued' = SoldAssets(basket)
  <2>1. SoldAsValued' = {d \in SoldAssets(bid.attempt.basket)' : MarketOf(d)' = bid'.markets[d]}
    BY DEF SoldAsValued
  <2>2. SoldAssets(bid.attempt.basket)' = SoldAssets(basket)
    BY <1>1 DEF SoldAssets, Routed, HasRoute
  <2> QED BY <1>1, <1>2, <1>3, <2>1, <2>2
<1>5. amount < basket[INJ] + Total([d \in SoldAssets(basket) |-> answers[d]])
  <2>1. PICK v : v = basket[INJ] + Total([d \in SoldAssets(basket) |-> answers[d]])
    OBVIOUS
  <2>2. v > amount
    BY <1>1, <2>1, RouterValued
  <2>3. \A x, y : x > y => y < x
    OBVIOUS
  <2> QED BY <2>1, <2>2, <2>3
<1>6. SoldAsValued' \cup bid'.unlisted = SoldAssets(basket)
  BY <1>1, <1>4
<1> QED BY <1>1, <1>5, <1>6 DEF BidBacked

\* The inductive invariant of the bid.
BackedInv == RoutesInv /\ BidBacked

\* Every step keeps it: a new route takes none away, and a route that is deleted is noted.
LEMMA NextBacked == BackedInv /\ [Next]_vars => BackedInv'
<1> SUFFICES ASSUME BackedInv, [Next]_vars
             PROVE  BidBacked'
  BY NextRoutes DEF BackedInv
<1>1. RoutesInv /\ RoutesInv' /\ BidBacked
  BY NextRoutes DEF BackedInv
<1>2. CASE bid' = None
  BY <1>2 DEF BidBacked
<1>3. CASE bid' # None /\ bid' = bid
           /\ \A key \in DOMAIN swap_routes : key \in DOMAIN swap_routes'
                                            /\ swap_routes'[key] = swap_routes[key]
  <2>1. \A d \in SoldAsValued : d \in SoldAsValued'
    BY <1>3 DEF SoldAsValued, SoldAssets, Routed, HasRoute, MarketOf
  <2>2. Backing \subseteq Backing'
    BY <1>3, <2>1 DEF Backing
  <2> QED BY <1>1, <1>3, <2>2, StillBacked
<1>4. ASSUME NEW sender \in Accounts, NEW source \in Denoms, NEW target \in Denoms,
             DeleteRoute(sender, source, target), bid' # None
      PROVE  BidBacked'
  <2>1. /\ bid # None
        /\ bid' = [bid EXCEPT !.unlisted = @ \cup Unlisted(source, target)]
        /\ \A key \in DOMAIN swap_routes :
             key # route_key(source, target)
               => key \in DOMAIN swap_routes' /\ swap_routes'[key] = swap_routes[key]
    BY <1>4 DEF DeleteRoute
  <2>2. /\ bid'.attempt = bid.attempt /\ bid'.answers = bid.answers
        /\ bid'.markets = bid.markets
        /\ bid'.unlisted = bid.unlisted \cup Unlisted(source, target)
    <3>1. bid \in Bid
      BY <1>1, <2>1 DEF RoutesInv, RoutesTypeOK
    <3> QED BY <2>1, <3>1 DEF Bid
  <2>3. ASSUME NEW d \in SoldAsValued
        PROVE  d \in SoldAsValued' \cup bid'.unlisted
    <3>1. CASE route_key(d, INJ) = route_key(source, target)
      <4>1. d \in SoldAssets(bid.attempt.basket)
        BY DEF SoldAsValued
      <4>2. d \in Unlisted(source, target)
        BY <3>1, <4>1 DEF Unlisted
      <4> QED BY <2>2, <4>2
    <3>2. CASE route_key(d, INJ) # route_key(source, target)
      BY <2>1, <2>2, <3>2 DEF SoldAsValued, SoldAssets, Routed, HasRoute, MarketOf
    <3> QED BY <3>1, <3>2
  <2>4. Backing \subseteq Backing'
    BY <2>2, <2>3 DEF Backing
  <2> QED BY <1>1, <1>4, <2>1, <2>2, <2>4, StillBacked
<1>5. ASSUME NEW sender \in Accounts, NEW route \in SwapRoute, SetRoute(sender, route),
             bid' # None
      PROVE  BidBacked'
  BY <1>1, <1>3, <1>5, SetRouteEffect DEF SetRoute
<1>6. ASSUME NEW basket \in Baskets, NEW answers \in Answers, NEW amount \in BidAmounts,
             TryBid(basket, answers, amount)
      PROVE  BidBacked'
  BY <1>1, <1>6, BidPlaced
<1>7. CASE swap_routes' = swap_routes /\ (bid' = bid \/ bid' = None)
  BY <1>2, <1>3, <1>7
<1> QED BY <1>1, <1>2, <1>4, <1>5, <1>6, <1>7, OtherEffect DEF Next

\* Whatever the admin does between a bid and its settlement, the bid is below what the
\* router answered for the assets that are sold where they were valued, and for those whose
\* route he deleted.
THEOREM BidCovered == Spec => []BidBacked
<1>1. Init => BackedInv
  BY InitRoutes DEF Init, BackedInv, BidBacked
<1>2. BackedInv => BidBacked
  BY DEF BackedInv
<1> QED BY <1>1, <1>2, NextBacked, PTL DEF Spec

===============================================================================

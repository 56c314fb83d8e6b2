------------------------------ MODULE SwapRoutes ------------------------------
(***************************************************************************)
(* The routes by which a basket is sold (state.rs, admins.rs), and the     *)
(* handlers that look them up: the valuations of the basket that limit     *)
(* deposits and bids (auction.rs, lp.rs, router.rs), and the orders of a   *)
(* settlement.  The admin sets and deletes routes and hands over his role  *)
(* while the books of the markets change, also between a bid and its       *)
(* settlement.                                                             *)
(***************************************************************************)
EXTENDS Exchange, Totals

CONSTANTS
  Denoms, INJ,   \* INJ is the literal "inj" of the handlers and the accepted denom
  Accounts,      \* who may send admin messages
  Markets,       \* market ids
  market,        \* the spot market of each id
  Books,         \* the books a market may have
  Baskets,       \* the baskets of an auction: the amount of each denomination
  BidAmounts,    \* what the contract may have to bid
  Answers,       \* what the router may answer for each denomination, 0 if it fails
  None,          \* no bid
  OffsetBps      \* values of Config.max_inj_offset_bps

ASSUME RoutesAssumption ==
  /\ IsFiniteSet(Denoms)
  /\ INJ \in Denoms
  /\ market \in [Markets -> Market(Denoms)]
  /\ \A id \in Markets : market[id].base_denom # market[id].quote_denom
  /\ \A id \in Markets : Fee(market[id]) <= One
  /\ \A book \in Books : IsOrderbook(book)
  /\ Baskets \subseteq [Denoms -> Nat]
  /\ BidAmounts \subseteq Nat
  /\ Answers \subseteq [Denoms -> Nat]
  /\ OffsetBps \subseteq Nat

BidAttempt == [amount : Nat, basket : [Denoms -> Nat]]

\* A bid that is recorded and, as history, what the router answered for its basket, the
\* markets it was asked about, and the assets whose route was deleted since.
Bid ==
  [attempt : BidAttempt, answers : [Denoms -> Nat],
   markets : [Denoms -> Markets \cup {None}], unlisted : SUBSET Denoms]

ASSUME NoBidAssumption == None \notin Bid

VARIABLES
  config,        \* CONFIG: admin and max_inj_offset_bps
  swap_routes,   \* SWAP_ROUTES: a route for each of some pairs of denominations
  books,         \* the book of each market
  bid            \* BID_ATTEMPT and history of it, or None

vars == <<config, swap_routes, books, bid>>

SwapRoute == [market_id : Markets, source_denom : Denoms, target_denom : Denoms]

Init ==
  /\ config \in [admin : Accounts, max_inj_offset_bps : OffsetBps]
  /\ swap_routes = [key \in {} |-> 0]
  /\ books \in [Markets -> Books]
  /\ bid = None

-------------------------------------------------------------------------------
(* Routes and their administration. *)

\* The two denominations, whichever is the source.
route_key(source, target) == {source, target}

\* Whether read_swap_route finds a route.
HasRoute(source, target) == route_key(source, target) \in DOMAIN swap_routes

\* Mutant: only the source is looked for in the market.
SourceTraded(route) ==
  route.source_denom \in {market[route.market_id].base_denom,
                          market[route.market_id].quote_denom}

verify_route_exists(route) ==
  {route.source_denom, route.target_denom}
    \subseteq {market[route.market_id].base_denom, market[route.market_id].quote_denom}

UpdateConfig(sender, admin, max_inj_offset_bps) ==
  /\ sender = config.admin
  /\ config' = [admin |-> admin, max_inj_offset_bps |-> max_inj_offset_bps]
  /\ UNCHANGED <<swap_routes, books, bid>>

\* Mutant: a route of a denomination to itself is stored.
SetAnyRoute(sender, route) ==
  LET key == route_key(route.source_denom, route.target_denom) IN
  /\ sender = config.admin
  /\ ~HasRoute(route.source_denom, route.target_denom)
  /\ verify_route_exists(route)
  /\ swap_routes' = [k \in DOMAIN swap_routes \cup {key} |->
                       IF k = key THEN route ELSE swap_routes[k]]
  /\ UNCHANGED <<config, books, bid>>

\* Mutant: only a route stored with the same source is found.
SetRouteReversed(sender, route) ==
  LET key == route_key(route.source_denom, route.target_denom) IN
  /\ sender = config.admin
  /\ route.source_denom # route.target_denom
  /\ HasRoute(route.source_denom, route.target_denom)
       => swap_routes[key].source_denom # route.source_denom
  /\ verify_route_exists(route)
  /\ swap_routes' = [k \in DOMAIN swap_routes \cup {key} |->
                       IF k = key THEN route ELSE swap_routes[k]]
  /\ UNCHANGED <<config, books, bid>>

SetRoute(sender, route) ==
  LET key == route_key(route.source_denom, route.target_denom) IN
  /\ sender = config.admin
  /\ route.source_denom # route.target_denom
  /\ ~HasRoute(route.source_denom, route.target_denom)
  /\ verify_route_exists(route)
  /\ swap_routes' = [k \in DOMAIN swap_routes \cup {key} |->
                       IF k = key THEN route ELSE swap_routes[k]]
  /\ UNCHANGED <<config, books, bid>>

-------------------------------------------------------------------------------
(* What the handlers do with a basket. *)

\* The coins of the basket for which a route to INJ is found.  The valuation looks a
\* route up for the INJ of the basket as well.
Routed(basket) == {d \in Denoms : basket[d] > 0 /\ HasRoute(d, INJ)}

MarketOf(d) == swap_routes[route_key(d, INJ)].market_id

Simulated(basket, d) == simulate(d, basket[d], market[MarketOf(d)], books[MarketOf(d)])

\* One asset that cannot be simulated, and the whole valuation fails.
CanValue(basket) == \A d \in Routed(basket) : Simulated(basket, d) # {}

TheOne(S) == CHOOSE x \in S : TRUE

get_current_auction_value_using_exchange(basket) ==
  basket[INJ] + Total([d \in Routed(basket) |-> TheOne(Simulated(basket, d)).amount])

get_max_tokens(basket) ==
  (get_current_auction_value_using_exchange(basket) * config.max_inj_offset_bps) \div 10000

\* What try_settle sells: INJ is skipped before its route is looked up.
SoldAssets(basket) == Routed(basket) \ {INJ}

Orders(basket) ==
  [d \in SoldAssets(basket) |->
     swap(d, basket[d], market[MarketOf(d)], books[MarketOf(d)])]

\* Whether every order can be sent and is accepted, and every reply succeeds, as the
\* settlement requires.
CanSettle(basket) ==
  \A d \in SoldAssets(basket) : \E order \in Orders(basket)[d] :
    LET m == market[MarketOf(d)]
        b == books[MarketOf(d)]
    IN /\ Accepted(order, m, b)
       /\ \A trade \in Trades(order, m, b) : Creditable(order.sell_type, trade)

\* What the reply of the sale of d may credit: the average price is rounded either way.
Credits(basket, d) ==
  LET order == TheOne(Orders(basket)[d])
  IN {Received(order.sell_type, trade) :
        trade \in Trades(order, market[MarketOf(d)], books[MarketOf(d)])}

LeastCredit(basket, d) ==
  CHOOSE x \in Credits(basket, d) : \A y \in Credits(basket, d) : x <= y

\* What a settlement of the basket on these books is sure to bring in: the INJ of the
\* basket and what each reply credits.
Realised(basket) ==
  basket[INJ] + Total([d \in SoldAssets(basket) |-> LeastCredit(basket, d)])

\* Mutant: the router is asked about assets that have no route.
ValueUnrouted(basket, answers, d) == IF d = INJ THEN basket[d] ELSE answers[d]

\* The value of one coin of the basket; answers is what the router contract answers,
\* 0 if it fails.
get_inj_value_asset(basket, answers, d) ==
  IF d = INJ THEN basket[d] ELSE IF HasRoute(d, INJ) THEN answers[d] ELSE 0

get_current_auction_value_using_router(basket, answers) ==
  Total([d \in {x \in Denoms : basket[x] > 0} |-> get_inj_value_asset(basket, answers, d)])

-------------------------------------------------------------------------------
(* Deletion of routes, and the markets. *)

\* The assets of a bid whose route to INJ is the one that is deleted.
Unlisted(source, target) ==
  {d \in SoldAssets(bid.attempt.basket) : route_key(d, INJ) = route_key(source, target)}

\* Deleting a route that is not there succeeds and changes nothing.
DeleteRoute(sender, source, target) ==
  /\ sender = config.admin
  /\ swap_routes' = [k \in DOMAIN swap_routes \ {route_key(source, target)} |->
                       swap_routes[k]]
  /\ bid' = IF bid = None THEN None
            ELSE [bid EXCEPT !.unlisted = @ \cup Unlisted(source, target)]
  /\ UNCHANGED <<config, books>>

\* The orders of others are placed, filled and cancelled.
BookChanges(id, book) ==
  /\ books' = [books EXCEPT ![id] = book]
  /\ UNCHANGED <<config, swap_routes, bid>>

-------------------------------------------------------------------------------
(* The bid, and what ends it. The rounds, the times and the other bidders are the part of
   Auction; here a bid and what ends it may come whenever that module lets them. *)

\* The contract bids on what the router answers for the basket of the moment; it may bid
\* again when it was outbid.
TryBid(basket, answers, amount) ==
  /\ get_current_auction_value_using_router(basket, answers) > amount
  /\ bid' = [attempt |-> [amount |-> amount, basket |-> basket],
             answers |-> answers,
             markets |-> [d \in Denoms |-> IF d \in SoldAssets(basket) THEN MarketOf(d)
                                           ELSE None],
             unlisted |-> {}]
  /\ UNCHANGED <<config, swap_routes, books>>

\* A bid that won is settled by the routes and on the books of that moment.
TrySettle(won) ==
  /\ bid # None
  /\ won => CanSettle(bid.attempt.basket)
  /\ bid' = None
  /\ UNCHANGED <<config, swap_routes, books>>

TryClearCurrentBid ==
  /\ bid # None
  /\ bid' = None
  /\ UNCHANGED <<config, swap_routes, books>>

Next ==
  \/ \E sender, admin \in Accounts, bps \in OffsetBps : UpdateConfig(sender, admin, bps)
  \/ \E sender \in Accounts, route \in SwapRoute : SetRoute(sender, route)
  \/ \E sender \in Accounts, source, target \in Denoms : DeleteRoute(sender, source, target)
  \/ \E id \in Markets, book \in Books : BookChanges(id, book)
  \/ \E basket \in Baskets, answers \in Answers, amount \in BidAmounts :
       TryBid(basket, answers, amount)
  \/ \E won \in BOOLEAN : TrySettle(won)
  \/ TryClearCurrentBid

Spec == Init /\ [][Next]_vars

-------------------------------------------------------------------------------
(* Properties. *)

RoutesTypeOK ==
  /\ config \in [admin : Accounts, max_inj_offset_bps : OffsetBps]
  /\ DOMAIN swap_routes \subseteq {key \in SUBSET Denoms : \E d, e \in key : d # e}
  /\ \A key \in DOMAIN swap_routes : swap_routes[key] \in SwapRoute
  /\ books \in [Markets -> Books]
  /\ bid \in Bid \cup {None}

\* A route is stored for two different denominations, which its market trades for one
\* another: what a settlement sells is sold for INJ.
RoutesConnect ==
  \A key \in DOMAIN swap_routes :
    LET m == market[swap_routes[key].market_id]
    IN key = {m.base_denom, m.quote_denom}

\* Every asset of a basket is sold in a market of its own, so that the orders of one
\* settlement, which are simulated before any of them is executed, do not take each
\* other's levels.
OrdersIndependent ==
  \A basket \in Baskets : \A d, e \in SoldAssets(basket) :
    d # e => MarketOf(d) # MarketOf(e)

\* Rounding of the credits of a settlement, in decimals.
Rounding(basket) == Total([d \in SoldAssets(basket) |-> One + basket[d] + 2])

\* The limit on deposits is the share max_inj_offset_bps of INJ that a settlement of the
\* same basket on the same books brings in: every coin is counted once, and sold.
LimitRealised ==
  \A basket \in Baskets :
    CanValue(basket) /\ CanSettle(basket)
      => Decimal(get_max_tokens(basket)) * 10000
           <= config.max_inj_offset_bps * (Decimal(Realised(basket)) + Rounding(basket))

\* The assets that a settlement would sell now in the market the router was asked about.
SoldAsValued ==
  {d \in SoldAssets(bid.attempt.basket) : MarketOf(d) = bid.markets[d]}

\* The bid is below what the router answered for its INJ, for the assets that a settlement
\* would sell now where they were valued, and for those whose route the admin deleted
\* since: however the routes change before the settlement, no other asset that made the
\* contract bid is left unsold or sold elsewhere.
BidBacked ==
  bid # None =>
    bid.attempt.amount
      < bid.attempt.basket[INJ]
          + Total([d \in SoldAsValued \cup bid.unlisted |-> bid.answers[d]])

\* A stored route is replaced only after it was deleted, whichever way round the admin
\* names its denominations.
RouteKept ==
  [][\A key \in DOMAIN swap_routes \cap DOMAIN swap_routes' :
       swap_routes'[key] = swap_routes[key]]_vars

===============================================================================

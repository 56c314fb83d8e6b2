# Verification of the auction DAO contract

The contract pools INJ of its users, bids with it in Injective's weekly burn
auction, sells a basket it wins and shares the profit among its depositors. This
directory holds TLA+ models of it, the TLC runs that check them, and proofs that
TLAPS checks. Paths below are relative to the repository; `cw/` stands for
`contracts/auction_dao_contract/src/`.

## 1. The system

### Components and their state

| Component | Code | State | Operations |
|---|---|---|---|
| Liquidity providers | `cw/lp.rs`, `cw/callback.rs` | `GLOBAL` (index, profit to distribute, accumulated profit, total supply), `USER_ACCOUNTS` | deposit, withdraw, harvest, callback after a settlement |
| Bid life cycle | `cw/auction.rs`, reply in `cw/contract.rs` | `BID_ATTEMPT`, `BID_ATTEMPT_TRANSIENT` | try_bid and its reply, try_settle, try_clear_current_bid |
| Settlement | `cw/auction.rs`, `cw/contract.rs`, `cw/callback.rs` | `SETTLED_AMOUNT_TRANSIENT`, the bank balance | sale of a basket, sell replies, BidSettledSuccess |
| Exchange | `cw/exchange.rs` | none (order books are queried) | simulate, swap, tick stripping |
| Router valuation | `cw/router.rs` | none | value of an asset in INJ |
| Admin and routes | `cw/admins.rs`, `cw/state.rs` | `CONFIG`, `SWAP_ROUTES` | update_config, set_route, delete_route, manual_swap |
| Entry points | `cw/contract.rs`, `cw/queries.rs` | contract version | instantiate, execute, reply, migrate, queries |
| Auction module (external) | queried and sent to by `cw/auction.rs` | running round, highest bid, basket, last result | MsgBid, fees, end of a round |

### How they interact

Every handler is one transaction: its submessages, their replies and the messages
it returns commit together or not at all. Within it, `try_bid` sends MsgBid and its
reply turns the transient attempt into `BID_ATTEMPT`; `try_settle` sends one order
per asset, each reply adds to `SETTLED_AMOUNT_TRANSIENT`, and a message from the
contract to itself runs the callback, which credits the profit. Between
transactions the components share three things: `BID_ATTEMPT` (while it is set,
deposits and withdrawals are refused), the clock of the auction (bids are allowed
near the closing time, withdrawals before it) and the INJ of the contract (deposits,
bids, refunds, proceeds, rewards and withdrawals all go through one balance).

### What is hard

* Anyone may send any handler in any order, between any two blocks. Bids are
  outbid and placed again, cleared, settled late or twice; rounds close in the first
  block at or after the closing time, blocks may jump past the whole bid window.
* The index is lazy: what a user is owed is never stored, and each handler brings
  one account up to date just before it changes it.
* Which of `BID_ATTEMPT`, the running auction and its last result speak of the same
  round is nowhere recorded; each handler compares two of them.
* A settlement depends on the market and on a keeper being in time. What is sold, and
  for how much at worst, is computed from a book before the order is executed, with
  four roundings on the way, and all orders of a settlement are computed before the
  first of them is executed.
* A transaction is a queue of messages and replies that can break off after each.
* The admin can change routes, buffers, the reward and himself at any time, also between a
  bid and its settlement.
* Only `deposit` reads the funds of its message. INJ and assets that come with any other
  message, or without one, stay in the contract and belong to nobody.

PROJECT.json lists the hazards line by line, with the properties aimed at each.

### What makes each component correct

* Providers: the supply is the sum of the deposits; nobody is paid from another's
  deposit; a profit belongs to those who had INJ deposited when it arrived.
* Bid life cycle: INJ out for a bid is recorded as such; one bid at a time; each win
  is shared out once; every bid is resolved.
* Settlement and the whole: every INJ is accounted for; those who backed a bid are
  those who share in it; the reward goes to the submitter.
* Exchange: an order is affordable and filled, a simulation promises no more than the
  sale brings in, and no more is credited than comes in.
* Routes: a route connects its two assets in one market; what is valued is what a
  settlement sells, also when the routes change between the bid and the settlement.
* Execution: a transaction is one step of the contract or nothing.

## 2. Modules

| Module | Contents |
|---|---|
| `Totals` | the sum of a function, as the number of units it counts |
| `RewardLedger` | abstract: a profit is shared the moment it arrives |
| `Lp` | deposit, withdraw, harvest, callback; implements `RewardLedger` |
| `BidEscrow` | abstract: INJ backs one bid, comes back or is spent, each win is shared out once |
| `Auction` | the bid life cycle next to the auction module; implements `BidEscrow` |
| `AuctionDao` | the composition of `Lp` and `Auction` over one balance, with the sale of baskets, rewards, manual swaps and coins that others send |
| `TxExecution` | the transactions of `AuctionDao` message by message, with replies, transient items and rollback; implements `AuctionDao` |
| `Exchange` | pure: tick stripping, both simulations, the order, what its reply credits; the answers of the exchange module |
| `SpotMarket` | one market while the contract sells in it |
| `SwapRoutes` | routes and their administration, the valuations of a basket, the deposit limit, the orders of a settlement; the bid on a valuation and its settlement by later routes |
| `MCLp`, `MCAuction`, `MCAuctionDao`, `MCTxExecution`, `MCSpotMarket`, `MCSwapRoutes` | values of the constants for TLC |
| `Totals_proofs`, `Lp_proofs`, `Auction_proofs`, `AuctionDao_proofs`, `Exchange_proofs`, `SpotMarket_proofs`, `SwapRoutes_proofs`, `TxExecution_proofs` | theorems |

Names of variables, fields and helpers are those of the Rust code. Handlers are
actions of the same name in camel case. A `Mutant:` operator is a plausible bug: the
definition that follows it is replaced by it to see that a property notices.

### Lp

`global` is `GLOBAL` and `user_accounts` is `USER_ACCOUNTS`, where an absent account
reads as `UserAccount::default()`, as in the handlers. `Decimal256` counts in
1/`Scale` (10^18 in the code). What a handler reads elsewhere is a parameter: the
deposit limit, whether a bid is active, the block and closing times, what a basket
was sold for. Two history variables record rewards paid and profit credited.

A withdrawal of amount 0 without rewards is allowed in `Lp`, where it changes
nothing that is owed; the bank refuses to send an empty amount, and `AuctionDao`
has that guard. Addition on 128 bits cannot overflow with the supply INJ has, and
the contract is built with overflow checks, so that an overflow reverts; numbers
are therefore natural, and `TypeOK` says that no subtraction goes below zero.

### Auction

`bid_attempt` is `BID_ATTEMPT`. `auction`, `last_result` and `now` are the chain's;
`MsgBid`, `RivalBid`, `FeesArrive`, `NextBlock` and `CloseRound` are external and
modelled from what the contract sends and reads: a bid replaces the highest one and
refunds it, a round ends after the transactions of the first block that reaches its
closing time, and only a round with bids replaces the last result. Block times are
whole seconds. The value of the basket is an input of `TryBid`, and so is the balance in this
module; `RouterValue` says which values there are: INJ counts as it is, so that an empty
basket is worth nothing, and what the other coins are worth is up to the router. The transient attempt exists only
within the transaction and is the LET definition `bid`. `stake` is a history
variable: the bid for which INJ of the contract is out, from MsgBid until the INJ is
refunded or the win is shared out.

`TrySettle` takes the routes and the liquid assets of the moment as inputs: assets
without a route are skipped, and a routed asset without a buyer reverts the whole
transaction, as `swap(...)?` does.

### AuctionDao

It instantiates `Lp` and `Auction` on one set of variables and adds the purse. Each
action is the conjunction of a handler's part in `Lp` or `Auction` and what it does
to the balance; having the INJ is a guard, because the bank reverts otherwise. A won
basket is delivered as it is when the round closes, and sold as it was recorded when
the contract bid. `arrived`, `surplus`, `lost` and `donated` are history variables for the
INJ that is in the contract and not, or not any longer, matched by a debt: INJ of a won
basket before its settlement, fees that came in after the bid and are never settled,
the shortfall of baskets that brought in less than their bid, and INJ that others sent.

`FundsArrive` is how coins come in that nobody looks at. The bank moves the funds of a
message to the contract before its handler runs, only `deposit` reads them, and every other
handler keeps them: the tests attach INJ to try_bid, try_clear_current_bid and try_settle
(`contracts/auction_dao_contract/tests/lp_test.rs:1264-1272`, `1321-1327`, `1505-1511`) and
to update_config (`contract_test.rs:79-96` beside it), and all succeed. A message with funds
is the step `FundsArrive` followed by the step of its handler, and coins that are sent
without a message are `FundsArrive` alone; if the handler fails the funds go back, and
neither step is taken. Since the two steps follow each other in every order that the
handlers allow, what such a message may do is covered, spending the funds on the bid it
came with included. `Donations` are the denominations that are sent. INJ that came this way
is bid and paid out like any other, and credited to nobody.

A settlement takes of each asset at most what the basket recorded: an order to buy INJ
with the asset may take less, and the rest stays in `holdings`. `SwapTargets` are the
denominations that the markets the admin chooses for manual swaps trade against; the
contract accepts any, and what it assumes is `SwapTargets = {INJ}`. `Auction` is
instantiated with every natural number as a value, since here only `TryBid` of this
module limits the values, for TLC.

`config` has the fields of `CONFIG` that these handlers read. `UpdateConfig` may replace
all of them by any member of `Configs`, at any time, a bid or a settlement pending or
not; the admin may hand over his role. `Lp` and `Auction` take the buffers and the
reward as parameters of their actions. The accepted denomination is INJ throughout: the
handlers name it "inj" in some places and read it from `CONFIG` in others, and what they
should do if the two differed is nowhere said.

### TxExecution

A transaction is a queue of messages and a copy of the store. A handler begins it, each
step takes its first message, and what that gives rise to (a reply, the messages of a
callback) goes before the messages that wait. While `tx` is not `None` nobody else moves.
`Commit` writes the copy back when no message is left; `Revert`, which drops it, is
possible at any step, since a message may be refused and the gas may run out. The
variables of `AuctionDao` are what the chain has stored, so that `RefinesDao` is simply its
`Spec`: each commit is one of its steps. The transient items
and the payload of the callback exist here only. The assets of a basket are sold in any
order. Deposits, withdrawals, harvests,
clears, `update_config`, the chain and coins that others send have one step (`SimpleStep`):
they send at most one bank message, which `AuctionDao` has as a guard. `BeginForgedCallback` is the callback
sent from outside.

### Exchange, SpotMarket, SwapRoutes

Decimals are integers that count in 1/`One`; multiplication and division round down as
`Decimal256` does. Simulations return the set that holds their result, empty when they
fail. Both loops over the price levels are `Depth` and `Walk`: the notional or the
quantity of the first levels, and what an order takes of each. The quantity that
`simulate_quote_offer` computes on the way and throws away (`exchange.rs:150-152`) is not
modelled; what it returns depends on the amount, the depth and the worst price only.

External, and modelled from how `exchange.rs` uses it: a book lists buyers from the
highest price and sellers from the lowest (`IsOrderbook`); the query answers with the levels
up to the one at which the cumulative limit is reached; an order for a quantity that is
not a positive number of ticks, or that meets no level, is refused; an atomic order is
filled from the best level on down to its worst price, and the rest cancelled; the price
in the response is the average, rounded either way. Decimals that would go below zero
make the reply fail (`Creditable`).

`SpotMarket` keeps one market: between the handler and the execution of its order the
book is the same, since both are in one transaction; before and after it is any other.
`SwapRoutes` keeps the routes, the admin and the book of every market, and evaluates its
invariants for every basket in every state. `swap_routes` is keyed by unordered pairs,
because `route_key` sorts the two denominations. What the router contract answers is an
input of `get_current_auction_value_using_router`. Coins of a basket are those with a
positive amount; a coin with amount 0 would be valued like one that is not there, but
the exchange valuation would look its market up.

`bid` of `SwapRoutes` is the recorded bid with its history: what the router answered for the
basket, the markets it was asked about, and the assets whose route to INJ was deleted since.
`TryBid` has the comparison of value and bid as its guard, `TrySettle` sells by the routes
and on the books of its own moment. When a bid may be placed and how a round ends is left to
`Auction`: here both may happen at any time, so that what is shown holds for every such order.

## 3. Runs

| Run | Question | Bounds |
|---|---|---|
| `lp` | does the lazy index pay what an eager ledger credits? | 2 users, Scale 3, amounts up to 3, supply up to 4, profit up to 4, rewards 0, 50 and 200 per cent |
| `auction` | is INJ out for a bid always recorded, and every win shared once? | 3 rounds of 3 seconds, blocks of 1 or 4 seconds, 2 submitters, bids up to 3 |
| `auction_live` | is every bid resolved, every win shared? | 2 rounds, bids up to 2, prompt settlement |
| `auction_missed` | is a refused bid really unfinished? (violated) | as `auction` |
| `dao` | is every INJ accounted for, are backers and beneficiaries the same? | 2 users, 2 submitters, 2 rounds, bids up to 2, profit up to 3, one asset next to INJ, others send 1 INJ |
| `reconfigured` | is the contract solvent, and do backers stay, when the admin changes the configuration and the admin? | as `dao` with 1 user, 1 submitter and 2 configurations; others send 1 INJ, and assets |
| `tx` | is an interrupted transaction one step of the contract, or nothing? | 1 user, 1 submitter, 1 round, bids and deposits up to 3, two assets next to INJ, others send 1 INJ |
| `market` | is an order affordable, filled, and worth what was simulated and credited? | one decimal digit, books of up to 3 levels with 3 prices and 3 quantities, amounts up to 9 |
| `market_tick` | is a sale sent for whole ticks? (violated) | as `market` |
| `routes` | do routes join their assets, and does the deposit limit count what is sold? | 2 accounts, 3 denominations, 3 markets with 4 books each, 27 baskets |
| `routes_bid` | is a bid backed by what is still sold where it was valued? | 2 accounts, 3 denominations, 3 markets (two of them of the same pair), one deep book, 8 baskets, 8 answers, bids of 1 and 4 |
| `dao_swap` | is what a manual swap credits INJ that came in? (violated) | as `dao`, with a third asset and a market between any two |

Why the bounds are enough. In `lp`, Scale 3 with a supply of 4 rounds shares both in
the index and in the accounts, and a profit of 1 does not move the index at all; two
users are enough for one to dilute the other. In `auction`, three rounds let a bid
miss its settlement by one round and a further one follow; a block of 4 seconds
jumps past a bid window and a whole round. The bids leave room for the contract to be
outbid, to bid again and to be outbid again. In `dao`, a basket sold for 0 or 3
against bids of 1 and 2 gives losses, break-even and profits, and fees arrive before
and after the bid; a profit of 3 lets both a settlement and a manual swap bring some. One
INJ that others send is enough to place a first bid, or to pay a user, that the contract
could not afford without it. Users and submitters are interchangeable there, and the run uses
symmetry; no run of a liveness property does. Every bound is marked in the module.

In `reconfigured`, the second configuration opens the bid window for a whole round,
closes withdrawals only at the end of it and rewards the whole profit; each of the two
admins can configure both and hand the role over. In `tx`, two assets give settlements of
zero, one and two orders, with INJ in the basket or not. In `market`, a tick of two
tokens makes half of the amounts off the tick, a price tick of 0.3 strips every amount
that is no multiple of 3, and a fee of 0.2 makes rounding visible; levels of 1.5, 2 and
4.5 tokens are above and below what is sold, so that an order ends within a level, at its
end and beyond the book. In `routes`, the four books are empty, too thin, deep, and deep
at a second price. In `routes_bid`, an answer of 3 for an asset and a bid of 1 or 4 make one
coin of the basket enough for the lower bid and take two for the higher one; two markets of
hinj and INJ let a route be deleted and set again to another market, and the admin may hand
over his role in between. The books play no part in what is sold where, and one is enough.

The models of the auction stop after the last round, so deadlock is not checked
there; it is in `lp`, `market`, `routes` and `routes_bid`.

### What each property says

`lp`: `TypeOK` (no underflow), `SupplyIsSum`, `IndexNotAhead`, `NeverOverPaid` (paid
and owed rewards never exceed the profit shared out), `DustGrowsSlowly` (a step loses
less than a token of an account, or than a unit of the index per deposited token, and
never hands out what was lost before), `RefinesLedger`.

`auction`: `AuctionTypeOK`, `MinBidTight` (the bid of the contract is accepted, and one
unit less would not be), `StakeRecorded`, `PaidOncePerWin`, `SettleWindow` (a bid
passes the round check of try_settle during the whole next round, because a bid is
recorded only when it was placed and a round with a bid has a result),
`StuckIsPermanent`, `RefinesEscrow`.

`dao`: `DaoTypeOK` (above all that a delivered basket covers the one that was
recorded), `InjAccounted` (what the contract has, what is out for a bid and what was lost
are its debts, the INJ of won baskets that is no profit, and what others sent), `Solvent`
(with no bid recorded everybody can be paid in full, unless more was lost on bids than came
in beside), `BackersFixed`, `SubmitterRewarded`.

`reconfigured`: `Solvent` and `BackersFixed` again, the two that depend on what a change of
configuration leaves alone: a bid that is recorded stays recorded, and keeps withdrawals
closed however the buffers are set.

`tx`: `RefinesDao` (what a transaction commits is one step of `AuctionDao`),
`TransientsEmpty` (it leaves no transient item to a later one), `SettledCounted` (while a
sale runs, the settled amount is the INJ of the basket and of the orders so far).

`market`: `MarketTypeOK`, `OrderAffordable` (a purchase costs no more than what it was to
spend, even if all of it costs the worst price), `PurchaseOnTick`, `OrderFilled` (an
accepted order is filled completely), `SimulationKept` (it brings in what was simulated,
up to the rounding of the average price), `CreditCovered` (and no more is credited than
came in, up to the same rounding).

`routes`: `RoutesTypeOK`, `RoutesConnect`, `OrdersIndependent` (no two orders of a settlement
go to one market, so that each simulation is still true when its order is executed),
`RouteKept` (a route is never overwritten, named either way round), `LimitRealised` (the
deposit limit is a share of what a settlement of the same basket on the same books would
bring in: no coin is counted twice, none that is not sold). `LimitRealised` holds of the
routes and books of the moment, and says nothing of the next ones; `cw/lp.rs:15-17` names
that risk.

`routes_bid`: `BidBacked` (the contract bid because the router valued the basket above the
bid; at any moment until the settlement the bid stays below the INJ of the basket and what
the router answered for the assets that are sold in the market it was asked about, or whose
route the admin has deleted since). It ties the lookups of the router valuation at the bid
to those of the orders at the settlement, over any sequence of `set_route` and
`delete_route` in between. What the market of the settlement pays may still be less than
the router answered: `Solvent` says what a loss does.

### Disagreements with the code

`try_settle` compares the round of the bid with that of the last result for equality
(`cw/auction.rs:256`). A bid that is not settled before the next round with a bid
ends is refused from then on with "Bid attempt round not finished"
(`packages/auction_dao/src/error.rs:75`), though it has finished; `auction_missed`
shows a run to such a state. `try_clear_current_bid` and `try_bid` refuse it as well.
`BID_ATTEMPT` stays set, and with it deposits and withdrawals stay closed
(`StuckIsPermanent`, proved as `StuckForever`).

`manual_swap` (`cw/admins.rs:136-184`) sends its order to whatever market the admin
names. The reply reports what the market paid as `received_inj::...`
(`cw/contract.rs:201`) and the callback credits it to the users as INJ; if the market
pays in another asset, the users are owed INJ that the contract never received.
`dao_swap` shows it (`ReceivedIsInj`), and the theorems `InjConserved` and `Solvency`
name what they need of the admin.

`simulate_base_offer` strips the quantity to the tick of the market ("strip the quantity to
the minimum tick size", `cw/exchange.rs:200`); `swap` throws that quantity away and sends
the order for the whole amount (`cw/exchange.rs:313-315`). An amount that is no multiple of
the tick makes the exchange refuse the order, and with it the whole settlement, which can
then not succeed until the admin deletes the route. `market_tick` shows it
(`OrderOnTick`). The tests sell multiples of the tick only. A purchase is always on the
tick (`PurchaseOnTick`, proved).

### Fairness

Only `auction_live` uses fairness: blocks are produced and rounds are closed, which
the chain does by itself, and a settlement that stays possible is eventually sent.
The contract has no timer: keepers send TrySettle, and nothing in the code makes them
do so in time. Since a late settlement is refused for ever, fairness alone is not
enough, and the run adds `PromptSettlement`: a round does not close while the bid of
an earlier one is unsettled. Both are assumptions about the keepers and, because a
settlement needs a buyer for every routed asset, about the market. `auction_missed`
and `StuckIsPermanent` say what happens without them.

## 4. Proofs

Each theorem holds for every value of the constants that satisfies the named
assumptions: finite sets of users and natural numbers in `LpAssumption`, three
different parties and a positive period in `AuctionAssumption`, a `None` that is no
record in `NoneAssumption`. `TxAssumption` adds that the contract never sends TryBid itself
and that there is some amount, 0 or more, that a sale may bring in.

**Totals_proofs.** `Total` counts units, so that its facts (the total of a changed
function, of a multiple, of a sum, of a larger function) follow from those about finite
sets and need no induction over data.

**Lp_proofs.** The inductive invariant `LpInv` is `TypeOK /\ SupplyIsSum /\
IndexNotAhead`: an account behind the index has a natural reward, and a supply that
is the sum of the deposits makes every withdrawal subtract what is there. Lemmas
`DepositEffect` to `CallbackEffect` say what each handler does to deposits and exact
claims. From them follow `RewardsCovered` (no step lowers the dust), `RoundingBounded`
and `Refinement`: each handler is a step of `RewardLedger`, with an account's claim
being its pending reward plus what the index has grown by since.

**Auction_proofs.** None of the properties of `Auction` is inductive. `AuctionInv`
adds which rounds may appear where (`OpenRound`: nothing is decided about the running
round, nothing known of later ones), that the contract is the highest bidder exactly
while the auction holds its INJ, that spent INJ belongs to a win that is still
recorded (`StakeHeld`), and that the published winner is the one who won
(`ResultAgrees`). One lemma per action shows that it keeps `AuctionInv` and is a step
of `BidEscrow` or a stutter. The theorems are the invariants of the run, the
permanence of a stuck bid, the refinement, and `MinBidSizeLeast`: the bid computed is
the smallest the auction accepts.

**AuctionDao_proofs.** The theorems about the parts are used through instances of
`Lp_proofs` and `Auction_proofs`, whose assumptions `LpAssumed` and `BidAssumed`
derive from `DaoAssumption` and `DaoNoneAssumption`. `DaoInv` joins `LpInv` and
`AuctionInv` with the type of the purse and `PurseAgrees`, which neither part can
state: the auction holds exactly the amount that was recorded, fees only add to the
basket that was recorded, and the INJ of a delivered basket is in the purse until it
is settled. Without it a settlement could turn INJ into profit that never arrived.
One lemma per handler shows that it keeps `DaoInv` and the `Excess` of what there is
over what is accounted for; only a manual swap that does not pay in INJ changes it, and
coins that others send (`FundsArriveStep`) are on both sides.
Hence `InjConserved` and `Solvency` assume `SwapTargets \subseteq {INJ}`; `BackersStay`
and `RewardToSubmitter` need nothing of the kind. `PartsKept` says that the whole
implies the specification of each part, so that the theorems of `Lp` and `Auction`
hold of the contract; `PromisesKept` draws the conclusion for the two refinements. All of them hold for a configuration
that changes: `DaoAssumption` only asks that `Configs` are configurations.

**Exchange_proofs.** The sums over the levels of a book are a recursive function, and facts
about them need an induction over its depth. The library states induction for a predicate
that is a parameter, which the provers here cannot instantiate; `NatSetInduction` states it
for a set in its place and proves it from the pigeonhole principle of finite sets (`n -> n
+ 1` would map the members below a missing number into themselves and never reach 0). With
it `DepthSteps` shows that `Depth` satisfies its equation, `WalkDepth` that an order takes
its quantity or all there is, `WalkPrefix` that levels beyond those that hold the quantity
do not change what it takes, `NotionalBound` that the levels are worth no more than their
quantities at the worst price. The lemmas on decimals say by how much each operation rounds
down. Together they give the two facts the theorems rest on, for one order, any book that
is listed from its best price (`IsOrderbook`), and any market with different assets and a
fee of at most 1: `OrderExecuted` (it is filled, by the trades its simulation counted) and
`OrderCredited` (what is credited lies within the rounding of the price of both what was
simulated and what came in). `SimulationComplete` adds that the limit of the query never
cuts a simulation short: it fails only if all of the book does not hold what it counts.

**SpotMarket_proofs.** `MarketInv` says that an order that is being sent is one that `swap`
makes on the book as it is now, which is what lets `OrderExecuted` and `OrderCredited`
speak of its execution; without it nothing would connect the worst price with the levels
that are met. All invariants of the run follow. `QuoteOffer` follows the four roundings of
a purchase: each of `strip_min_tick`, `AfterFee` and `Div` returns at most the exact value,
so that quantity, worst price and fee multiply to at most the amount.

**SwapRoutes_proofs.** `RoutesInv` is `RoutesTypeOK /\ RoutesConnect`: a route that is stored
for two different denominations that its market trades is stored for exactly the two
denominations of the market. Hence two assets with routes to INJ have different markets
(`IndependentOrders`), and a handler changes a stored route only by removing it
(`RoutesKept`). No route joins INJ to itself (`RoutedSold`), so that the valuation, which
looks a route up for INJ too, and the settlement, which skips it, count the same assets;
`SaleCredited` bounds the rounding of each of them by `OrderCredited`, and the sums of
`Totals_proofs` carry the bound over to baskets of any size (`LimitCovered`). `BidBacked` is
inductive together with `RoutesInv`. `RouterValued` shows that the router valuation is the
INJ of the basket and the answers for what a settlement by the same routes would sell, which
starts it (`BidPlaced`); a new route takes no asset away because none is replaced, a deleted
one is noted in `unlisted`, and `StillBacked` shows that the sum of the answers over a larger
set of assets is no smaller (`TotalSubset`). Hence `BidCovered`.

**TxExecution_proofs.** `TxInv` says of the transaction that runs which one it is and how
far it got: what its copy of the store holds by then and which messages are left. For
try_bid and manual_swap these are a few states each. For a sale, `SaleQueue` says that the
queue ends with the callback and that before it are the orders that wait, each once, with
at most one reply, that of the last order, at its head; `SaleGoesOn` adds that the settled
amount and that reply make up the income of the orders that were executed. That no order
is there twice comes from the listing of the basket being a bijection, and without it an
order could be counted twice. One lemma per message shows that it leads from one of these
states to another one, and one per transaction that what it commits is a step of
`AuctionDao`. A forged callback gets nowhere because `TransientsEmpty`, a conjunct of
`TxInv`, leaves it no amount to settle. `TxRefinesDao` carries every theorem about
`AuctionDao`, and through `PartsKept` about its parts, over to the contract that runs
message by message.

`MessagesKeepPromises` states what that comes to: the contract, message by message,
implements `RewardLedger` and `BidEscrow`, accounts for every INJ, that which others send
with a message or without one included, and can pay its providers.

Only model-checked: `BidResolved` and `WinsPaid`, since liveness under fairness is out
of the prover's reach. Every other property of the passing runs is a theorem.

## 5. Not modelled, and the plan

Not modelled: another accepted denomination than INJ; another router, subaccount or
owner; queries (they read, with the operators the handlers use), migration (it writes the
contract version only), serialisation, error types and scripts, which have no behaviour of
their own. `min_notional` and the status of a market are not read by the code and can only
make the exchange refuse an order, which `Refuse` and `Revert` allow at any time.

Next: `SwapRoutes` and `SpotMarket` in the place of the free choice of `routed`, `liquid`
and proceeds in `TxExecution`.

------------------------------ MODULE AuctionDao ------------------------------
(***************************************************************************)
(* The contract as a whole: the liquidity providers (Lp) and the bid       *)
(* (Auction) share BID_ATTEMPT, the clock and one purse, the INJ and the   *)
(* other assets the contract owns.  This module adds the purse, the sale   *)
(* of a basket, the reward of the submitter and manual_swap.               *)
(*                                                                         *)
(* A transaction that sends more than the contract owns is reverted, so    *)
(* that having it is a guard of the action.                                *)
(***************************************************************************)
EXTENDS Integers, Totals

CONSTANTS
  Users, Bidders, Contract, Rival, Nobody, None, Denoms, INJ,
  Scale,                      \* as in Lp
  Admins,                     \* accounts that send admin messages
  Configs,                    \* what the configuration may be
  IncrementBps, Period, Steps, Values, Caps,
  Prices,                     \* what the sale of one asset may bring in
  SwapTargets,                \* what the markets the admin sells in trade against
  Donations,                  \* what others send without depositing it
  MaxRound, MaxBid, MaxBasket, MaxAmount, MaxProfit, MaxDonated

ASSUME DaoAssumption ==
  /\ IsFiniteSet(Users) /\ IsFiniteSet(Denoms)
  /\ Scale \in Nat \ {0}
  /\ Configs \subseteq [admin : Admins, bid_time_buffer_secs : Nat,
                       withdraw_time_buffer_secs : Nat, winning_bidder_reward_bps : Nat]
  /\ Contract # Rival /\ Contract # Nobody /\ Rival # Nobody
  /\ INJ \in Denoms
  /\ IncrementBps \in Nat
  /\ Period \in Nat \ {0}
  /\ Steps \subseteq Nat \ {0}
  /\ Values \subseteq Nat /\ Caps \subseteq Nat /\ Prices \subseteq Nat
  /\ SwapTargets \subseteq Denoms /\ Donations \subseteq Denoms
  /\ MaxRound \in Nat /\ MaxBid \in Nat /\ MaxBasket \in Nat
  /\ MaxAmount \in Nat /\ MaxProfit \in Nat /\ MaxDonated \in Nat

VARIABLES
  config,          \* CONFIG: the fields that the handlers below read
  global, user_accounts, rewards_paid, profit_earned,              \* of Lp
  bid_attempt, auction, last_result, now, stake, won, payouts,     \* of Auction
  balance,         \* the INJ of the contract
  holdings,        \* its other assets
  arrived,         \* history: the INJ of a won basket that is not yet settled
  surplus,         \* history: INJ of won baskets that settlements did not count
  donated,         \* history: the INJ that came in and was not deposited
  lost,            \* history: what won baskets brought in less than their bids
  bidder_rewards   \* history: the rewards sent to each submitter

Lp == INSTANCE Lp WITH
  Times <- Nat, BidAmounts <- Nat, Receipts <- Nat,
  RewardBps <- Nat, WithdrawBuffers <- Nat

Bid == INSTANCE Auction WITH Values <- Nat, BidBuffers <- Nat, PromptSettlement <- FALSE

ASSUME DaoNoneAssumption == None \notin Bid!BidAttempt \cup Bid!Stake \cup Bid!LastResult

lp_vars == <<global, user_accounts, rewards_paid, profit_earned>>
bid_vars == <<bid_attempt, auction, last_result, now, stake, won, payouts>>
purse == <<balance, holdings, arrived, surplus, lost, donated, bidder_rewards>>
vars == <<config, lp_vars, bid_vars, purse>>

Assets == Denoms \ {INJ}

Init ==
  /\ config \in Configs
  /\ Lp!Init
  /\ Bid!Init
  /\ balance = 0
  /\ holdings = [d \in Assets |-> 0]
  /\ arrived = 0
  /\ surplus = 0
  /\ lost = 0
  /\ donated = 0
  /\ bidder_rewards = [b \in Bidders |-> 0]

-------------------------------------------------------------------------------
(* Handlers of the liquidity providers. *)

\* Mutant: a deposit looks at the auction instead of BID_ATTEMPT.
DepositBeforeSettling(u, amount, max_tokens) ==
  /\ Lp!Deposit(u, amount, max_tokens, auction.highestBidder = Contract)
  /\ balance' = balance + amount
  /\ UNCHANGED <<bid_vars, holdings, arrived, surplus, lost, donated, bidder_rewards>>

\* Mutant: the denomination of the funds is not checked.
DepositAnyDenom(u, amount, max_tokens) ==
  /\ Lp!Deposit(u, amount, max_tokens, bid_attempt # None)
  /\ UNCHANGED <<bid_vars, purse>>

Deposit(u, amount, max_tokens) ==
  /\ Lp!Deposit(u, amount, max_tokens, bid_attempt # None)
  /\ balance' = balance + amount
  /\ UNCHANGED <<bid_vars, holdings, arrived, surplus, lost, donated, bidder_rewards>>

\* Mutant: only the buffers keep withdrawals and bids apart.
WithdrawInTime(u, amount) ==
  LET amount_with_reward == amount + Lp!Updated(u).pending_reward IN
  /\ Lp!Withdraw(u, amount, FALSE, now, auction.closing, config.withdraw_time_buffer_secs)
  /\ amount_with_reward > 0
  /\ amount_with_reward <= balance
  /\ balance' = balance - amount_with_reward
  /\ UNCHANGED <<bid_vars, holdings, arrived, surplus, lost, donated, bidder_rewards>>

\* The bank refuses to send nothing.
Withdraw(u, amount) ==
  LET amount_with_reward == amount + Lp!Updated(u).pending_reward IN
  /\ Lp!Withdraw(u, amount, bid_attempt # None, now, auction.closing,
                 config.withdraw_time_buffer_secs)
  /\ amount_with_reward > 0
  /\ amount_with_reward <= balance
  /\ balance' = balance - amount_with_reward
  /\ UNCHANGED <<bid_vars, holdings, arrived, surplus, lost, donated, bidder_rewards>>

Harvest(u) ==
  LET reward == Lp!Updated(u).pending_reward IN
  /\ Lp!Harvest(u)
  /\ reward <= balance
  /\ balance' = balance - reward
  /\ UNCHANGED <<bid_vars, holdings, arrived, surplus, lost, donated, bidder_rewards>>

-------------------------------------------------------------------------------
(* Coins that nobody looks at. *)

\* The bank moves the funds of a message to the contract before the handler runs. Only
\* deposit reads info.funds; every other handler keeps what comes along, as the contract
\* keeps what is sent to it without a message. A message with funds is this step and the
\* step of its handler; the funds of a message that fails go back, and neither is taken.
FundsArrive(d, amount) ==
  /\ \/ /\ d = INJ
        /\ donated + amount <= MaxDonated   \* bound
        /\ balance' = balance + amount
        /\ donated' = donated + amount
        /\ UNCHANGED holdings
     \/ /\ d # INJ
        /\ holdings[d] + amount <= MaxBasket   \* bound
        /\ holdings' = [holdings EXCEPT ![d] = @ + amount]
        /\ UNCHANGED <<balance, donated>>
  /\ UNCHANGED <<lp_vars, bid_vars, arrived, surplus, lost, bidder_rewards>>

-------------------------------------------------------------------------------
(* The bid, and the auction that takes and returns its INJ. *)

TryBid(sender, round, value) ==
  /\ Bid!TryBid(sender, round, value, balance, config.bid_time_buffer_secs)
  /\ balance' = balance - Bid!MinBidSize(auction.highestBidAmount)
  /\ UNCHANGED <<lp_vars, holdings, arrived, surplus, lost, donated, bidder_rewards>>

RivalBid(amount) ==
  /\ Bid!RivalBid(amount)
  /\ balance' = balance + (IF auction.highestBidder = Contract
                           THEN auction.highestBidAmount ELSE 0)
  /\ UNCHANGED <<lp_vars, holdings, arrived, surplus, lost, donated, bidder_rewards>>

TryClearCurrentBid ==
  /\ Bid!TryClearCurrentBid
  /\ UNCHANGED <<lp_vars, purse>>

\* The winner gets the basket as it is when the round closes.
CloseRound ==
  LET delivered == IF auction.highestBidder = Contract THEN auction.basket
                   ELSE Bid!EmptyBasket
  IN
  /\ Bid!CloseRound
  /\ balance' = balance + delivered[INJ]
  /\ holdings' = [d \in Assets |-> holdings[d] + delivered[d]]
  /\ arrived' = arrived + delivered[INJ]
  /\ UNCHANGED <<lp_vars, surplus, lost, donated, bidder_rewards>>

ChainStep ==
  /\ \/ \E d \in Denoms : Bid!FeesArrive(d)
     \/ \E step \in Steps : Bid!NextBlock(step)
  /\ UNCHANGED <<lp_vars, purse>>

-------------------------------------------------------------------------------
(* Settlement. *)

\* Mutant: the INJ of the running auction is counted.
InjOfAuction(attempt) == auction.basket[INJ]

\* The INJ of the basket the contract bid for.
InitialAmount(attempt) == attempt.basket[INJ]

\* That INJ and what each sale brings in, as the replies add it to
\* SETTLED_AMOUNT_TRANSIENT.
Settled(attempt, sold, proceeds) ==
  InitialAmount(attempt) + Total([d \in sold |-> proceeds[d]])

\* Mutant: the sender of try_settle is rewarded.
RewardSettler(sender, attempt) == sender

\* The submitter of the bid, whoever settles it.
Rewarded(sender, attempt) == attempt.submitted_by

\* The callback: the profit over the bid is split, and the submitter's part sent.
BidSettledSuccess(sender, sold, proceeds) ==
  LET settled_amount == Settled(bid_attempt, sold, proceeds)
      profit == Lp!Profit(settled_amount, bid_attempt.amount)
      reward == Lp!WinningReward(profit, config.winning_bidder_reward_bps, FALSE)
      income == balance + Total([d \in sold |-> proceeds[d]])
  IN
  /\ Lp!Callback(settled_amount, bid_attempt.amount, config.winning_bidder_reward_bps, FALSE)
  /\ reward <= income
  /\ balance' = income - reward
  /\ bidder_rewards' =
       [bidder_rewards EXCEPT ![Rewarded(sender, bid_attempt)] = @ + reward]
  /\ arrived' = 0
  /\ surplus' = surplus + arrived - InitialAmount(bid_attempt)
  /\ lost' = lost + Lp!Profit(bid_attempt.amount, settled_amount)
  /\ UNCHANGED donated

\* An order takes no more of an asset than the basket had when the bid was placed; an
\* order to buy INJ with the asset may take less (exchange.rs, simulate_quote_offer).
TrySettle(sender, routed, liquid, taken, proceeds) ==
  LET sold == Bid!Sold(bid_attempt.basket, routed) IN
  /\ Bid!TrySettle(routed, liquid)
  /\ \/ /\ last_result.winner # Contract
        /\ UNCHANGED <<lp_vars, purse>>
     \/ /\ last_result.winner = Contract
        /\ \A d \in sold : taken[d] <= bid_attempt.basket[d] /\ taken[d] <= holdings[d]
        /\ holdings' = [d \in Assets |-> IF d \in sold THEN holdings[d] - taken[d]
                                         ELSE holdings[d]]
        /\ BidSettledSuccess(sender, sold, proceeds)

\* What a sale of amount of asset leaves of the other assets.
Swapped(assets, asset, target, amount, received) ==
  [d \in Assets |-> IF d = asset THEN assets[d] - amount
                   ELSE IF d = target THEN assets[d] + received
                   ELSE assets[d]]

\* Mutant: a part of the proceeds is set aside for a submitter there is not.
SwapRewarded(sender, asset, target, amount, received) ==
  /\ sender = config.admin
  /\ asset # target
  /\ amount <= holdings[asset]
  /\ Lp!Callback(received, 0, config.winning_bidder_reward_bps, FALSE)
  /\ holdings' = Swapped(holdings, asset, target, amount, received)
  /\ balance' = IF target = INJ THEN balance + received ELSE balance
  /\ UNCHANGED <<bid_vars, arrived, surplus, lost, donated, bidder_rewards>>

\* The admin sells an asset in a market of his choice; the contract does not look at
\* what the market trades it against, and what it brings in is profit of the users.
ManualSwap(sender, asset, target, amount, received) ==
  /\ sender = config.admin
  /\ asset # target
  /\ amount <= holdings[asset]
  /\ Lp!Callback(received, 0, config.winning_bidder_reward_bps, TRUE)
  /\ holdings' = Swapped(holdings, asset, target, amount, received)
  /\ balance' = IF target = INJ THEN balance + received ELSE balance
  /\ UNCHANGED <<bid_vars, arrived, surplus, lost, donated, bidder_rewards>>

-------------------------------------------------------------------------------
(* The configuration. *)

\* Mutant: a new configuration starts without a bid.
ConfigForgetsBid(sender, new_config) ==
  /\ sender = config.admin
  /\ config' = new_config
  /\ bid_attempt' = None
  /\ UNCHANGED <<lp_vars, auction, last_result, now, stake, won, payouts, purse>>

\* The admin may change it whenever he likes, also while a bid is out, and hand over his
\* role. The accepted denomination stays INJ, which the handlers have as a literal too.
UpdateConfig(sender, new_config) ==
  /\ sender = config.admin
  /\ config' = new_config
  /\ UNCHANGED <<lp_vars, bid_vars, purse>>

Step ==
  \/ \E u \in Users, amount \in 1..MaxAmount, max_tokens \in Caps :
       Deposit(u, amount, max_tokens)
  \/ \E u \in Users, amount \in 0..MaxAmount : Withdraw(u, amount)
  \/ \E u \in Users : Harvest(u)
  \/ \E d \in Donations, amount \in 1..MaxDonated : FundsArrive(d, amount)
  \/ \E sender \in Bidders, round \in Bid!Rounds, value \in Values :
       TryBid(sender, round, value)
  \/ \E amount \in 1..MaxBid : RivalBid(amount)
  \/ TryClearCurrentBid
  \/ CloseRound
  \/ ChainStep
  \/ \E sender \in Bidders, routed, liquid \in SUBSET Assets,
        taken \in [Assets -> 0..MaxBasket], proceeds \in [Assets -> Prices] :
       TrySettle(sender, routed, liquid, taken, proceeds)
  \/ \E sender \in Admins, asset \in Assets, target \in SwapTargets,
        amount \in 1..MaxBasket, received \in Prices :
       ManualSwap(sender, asset, target, amount, received)

Next ==
  \/ Step /\ UNCHANGED config
  \/ \E sender \in Admins, new_config \in Configs : UpdateConfig(sender, new_config)

Spec == Init /\ [][Next]_vars

-------------------------------------------------------------------------------
(* Properties. *)

\* What the contract owes its users: their deposits, the profit shared among them
\* that was not paid, and the profit that waits to be shared.
Owed ==
  global.total_supply + global.profit_to_distribute
    + global.accumulated_profit - Total(rewards_paid)

Staked == IF stake = None THEN 0 ELSE stake.bid.amount

DaoTypeOK ==
  /\ config \in Configs
  /\ balance \in Nat
  /\ holdings \in [Assets -> Nat]
  /\ arrived \in Nat
  /\ surplus \in Nat
  /\ lost \in Nat
  /\ donated \in Nat
  /\ bidder_rewards \in [Bidders -> Nat]

\* Every INJ is accounted for: what the contract has, what is out for a bid and
\* what was lost on a bid are what it owes, what came with won baskets and is not,
\* or not yet, counted as profit, and what others sent without depositing it.
InjAccounted ==
  balance + Staked + lost = Owed + arrived + surplus + donated

\* Once no bid is recorded, the contract can pay everyone in full, unless it lost more
\* INJ on bids than came in beside: a loss is never charged to the deposits.
Solvent ==
  bid_attempt = None /\ lost <= surplus + donated => balance >= Owed

\* Nobody joins or leaves while INJ of the contract is out for a bid: those who
\* backed a bid are those who share in its profit.
BackersFixed ==
  [][stake # None => Lp!deposited' = Lp!deposited]_vars

\* A reward is sent only when a won bid is settled, and only to its submitter.
SubmitterRewarded ==
  [][\A b \in Bidders :
       bidder_rewards'[b] # bidder_rewards[b]
         => /\ stake # None /\ stake.spent /\ stake' = None
            /\ stake.bid.submitted_by = b]_vars

\* contract.rs reports what a sale brought in as "received_inj": a manual swap raises
\* the INJ of the contract by the profit that it credits.
ReceivedIsInj ==
  [][UNCHANGED bid_vars /\ holdings' # holdings
       => balance' - balance = profit_earned' - profit_earned]_vars

===============================================================================

--------------------------- MODULE AuctionDao_proofs ---------------------------
(***************************************************************************)
(* Theorems about the whole contract, on top of those about its two parts. *)
(* LpP and BidP are the same instances of Lp and Auction as in AuctionDao, *)
(* with the theorems proved about them.                                    *)
(***************************************************************************)
EXTENDS AuctionDao, Totals_proofs

LpP == INSTANCE Lp_proofs WITH
  Times <- Nat, BidAmounts <- Nat, Receipts <- Nat,
  RewardBps <- Nat, WithdrawBuffers <- Nat

BidP == INSTANCE Auction_proofs WITH Values <- Nat, BidBuffers <- Nat, PromptSettlement <- FALSE

-------------------------------------------------------------------------------
(* The two parts keep their theorems. *)

\* The assumptions of Lp hold of its instance.
LEMMA LpAssumed == LpP!LpAssumption
  BY DaoAssumption DEF LpP!LpAssumption, LpP!IsFiniteSet, IsFiniteSet

\* The assumptions of Auction hold of its instance.
LEMMA BidAssumed == BidP!AuctionAssumption /\ BidP!NoneAssumption
  BY DaoAssumption, DaoNoneAssumption
  DEF BidP!AuctionAssumption, BidP!NoneAssumption,
      BidP!BidAttempt, BidP!Stake, BidP!LastResult, BidP!Rounds, BidP!Basket,
      Bid!BidAttempt, Bid!Stake, Bid!LastResult, Bid!Rounds, Bid!Basket

\* The handlers of lp.rs are those the theorems about Lp speak of.
LEMMA SameLp ==
  /\ \A u : Lp!Updated(u) = LpP!Updated(u)
  /\ \A u, amount, cap, bid_active :
       Lp!Deposit(u, amount, cap, bid_active) = LpP!Deposit(u, amount, cap, bid_active)
  /\ \A u, amount, bid_active, time, closing, buffer :
       Lp!Withdraw(u, amount, bid_active, time, closing, buffer)
         = LpP!Withdraw(u, amount, bid_active, time, closing, buffer)
  /\ \A u : Lp!Harvest(u) = LpP!Harvest(u)
  /\ \A received, bid_amount, bps, by_contract :
       Lp!Callback(received, bid_amount, bps, by_contract)
         = LpP!Callback(received, bid_amount, bps, by_contract)
  BY DEF Lp!Deposit, LpP!Deposit, Lp!Withdraw, LpP!Withdraw, Lp!Harvest, LpP!Harvest,
     Lp!Callback, LpP!Callback, Lp!Updated, LpP!Updated,
     Lp!update_user_reward, LpP!update_user_reward, Lp!DefaultAccount, LpP!DefaultAccount,
     Lp!increase_supply, LpP!increase_supply, Lp!decrease_supply, LpP!decrease_supply,
     Lp!InWithdrawTime, LpP!InWithdrawTime, Lp!Profit, LpP!Profit, Lp!Share, LpP!Share,
     Lp!WinningReward, LpP!WinningReward, Lp!update_global_index, LpP!update_global_index

\* The actions of the bid are those the theorems about Auction speak of.
LEMMA SameBid ==
  /\ \A sender, round, value, purse_balance, buffer :
       Bid!TryBid(sender, round, value, purse_balance, buffer)
         = BidP!TryBid(sender, round, value, purse_balance, buffer)
  /\ \A amount : Bid!RivalBid(amount) = BidP!RivalBid(amount)
  /\ \A d : Bid!FeesArrive(d) = BidP!FeesArrive(d)
  /\ \A step : Bid!NextBlock(step) = BidP!NextBlock(step)
  /\ Bid!CloseRound = BidP!CloseRound
  /\ \A routed, liquid : Bid!TrySettle(routed, liquid) = BidP!TrySettle(routed, liquid)
  /\ Bid!TryClearCurrentBid = BidP!TryClearCurrentBid
  BY DEF Bid!TryBid, BidP!TryBid, Bid!RivalBid, BidP!RivalBid, Bid!MsgBid, BidP!MsgBid,
     Bid!FeesArrive, BidP!FeesArrive, Bid!NextBlock, BidP!NextBlock,
     Bid!CloseRound, BidP!CloseRound, Bid!TrySettle, BidP!TrySettle,
     Bid!TryClearCurrentBid, BidP!TryClearCurrentBid, Bid!chain, BidP!chain,
     Bid!history, BidP!history, Bid!Outbids, BidP!Outbids, Bid!MinBidSize, BidP!MinBidSize,
     Bid!Attempt, BidP!Attempt, Bid!ReplyTryBid, BidP!ReplyTryBid,
     Bid!PreviousBidSettled, BidP!PreviousBidSettled, Bid!InBidTime, BidP!InBidTime,
     Bid!EmptyBasket, BidP!EmptyBasket, Bid!Sold, BidP!Sold,
     Bid!RouterValue, BidP!RouterValue,
     Bid!ResultKnown, BidP!ResultKnown, Bid!BidSettledSuccess, BidP!BidSettledSuccess

-------------------------------------------------------------------------------
(* The inductive invariant. *)

\* The purse and the auction agree: what the auction holds is what the bid recorded,
\* fees only add to the basket that was recorded, and a basket that was delivered and
\* not settled is still in the purse.
PurseAgrees ==
  /\ stake # None /\ ~stake.spent =>
       /\ auction.highestBidAmount = stake.bid.amount
       /\ stake.bid.basket[INJ] <= auction.basket[INJ]
       /\ arrived = 0
  /\ stake # None /\ stake.spent => stake.bid.basket[INJ] <= arrived
  /\ stake = None => arrived = 0

DaoInv == LpP!LpInv /\ BidP!AuctionInv /\ DaoTypeOK /\ PurseAgrees

\* What the contract has and is owed by the auction or lost, over what it owes, has not
\* counted and was sent; InjAccounted says that it is 0.
Excess == balance + Staked + lost - (Owed + arrived + surplus + donated)

\* What the handlers read of the configuration.
LEMMA ConfigFacts ==
  ASSUME DaoInv
  PROVE  /\ config.bid_time_buffer_secs \in Nat
         /\ config.withdraw_time_buffer_secs \in Nat
         /\ config.winning_bidder_reward_bps \in Nat
  BY DaoAssumption DEF DaoInv, DaoTypeOK

\* The numbers of Lp that the purse is compared with.
LEMMA LpFacts ==
  ASSUME DaoInv
  PROVE  /\ global \in LpP!Global
         /\ rewards_paid \in [Users -> Nat]
         /\ Total(rewards_paid) \in Nat
         /\ Owed \in Int
<1>1. global \in LpP!Global /\ rewards_paid \in [Users -> Nat]
  BY DEF DaoInv, LpP!LpInv, LpP!TypeOK
<1>2. Total(rewards_paid) \in Nat
  BY <1>1, TotalType, DaoAssumption
<1> QED BY <1>1, <1>2 DEF Owed, LpP!Global

\* What is recorded of the bid and of the auction.
LEMMA BidFacts ==
  ASSUME DaoInv
  PROVE  /\ bid_attempt \in BidP!BidAttempt \cup {None}
         /\ auction \in BidP!CurrentAuction
         /\ stake \in BidP!Stake \cup {None}
         /\ now \in Nat
         /\ \A d \in Denoms : auction.basket[d] \in Nat
         /\ stake # None =>
              /\ stake \in BidP!Stake
              /\ stake.bid \in BidP!BidAttempt
              /\ stake.bid.amount \in Nat
              /\ stake.bid.basket[INJ] \in Nat
              /\ bid_attempt = stake.bid /\ bid_attempt # None
         /\ Staked \in Nat
<1>1. /\ bid_attempt \in BidP!BidAttempt \cup {None}
      /\ auction \in BidP!CurrentAuction
      /\ stake \in BidP!Stake \cup {None}
      /\ now \in Nat
  BY DEF DaoInv, BidP!AuctionInv, BidP!AuctionTypeOK
<1>2. \A d \in Denoms : auction.basket[d] \in Nat
  BY <1>1 DEF BidP!CurrentAuction, BidP!Basket
<1>3. stake # None =>
        /\ stake \in BidP!Stake
        /\ stake.bid \in BidP!BidAttempt
        /\ stake.bid.amount \in Nat
        /\ stake.bid.basket[INJ] \in Nat
  BY <1>1, DaoAssumption DEF BidP!Stake, BidP!BidAttempt, BidP!Basket
<1>4. stake # None => bid_attempt = stake.bid /\ bid_attempt # None
  BY <1>3, BidAssumed DEF DaoInv, BidP!AuctionInv, BidP!StakeRecorded, BidP!NoneAssumption
<1> QED BY <1>1, <1>2, <1>3, <1>4 DEF Staked

\* What was paid in all when what was paid to one user changes.
LEMMA PaidTotal ==
  ASSUME DaoInv, NEW u \in Users, NEW n \in Nat
  PROVE  Total([rewards_paid EXCEPT ![u] = n]) = Total(rewards_paid) - rewards_paid[u] + n
<1>1. rewards_paid \in [Users -> Nat] /\ IsFiniteSet(Users)
  BY LpFacts, DaoAssumption
<1> QED BY <1>1, TotalUpdate

\* Paying r to u raises what was paid by r.
LEMMA PaidOut ==
  ASSUME DaoInv, NEW u \in Users, NEW r \in Nat,
         rewards_paid' = [rewards_paid EXCEPT ![u] = rewards_paid[u] + r]
  PROVE  Total(rewards_paid') = Total(rewards_paid) + r
<1>1. rewards_paid[u] \in Nat /\ Total(rewards_paid) \in Nat
  BY LpFacts
<1>2. Total([rewards_paid EXCEPT ![u] = rewards_paid[u] + r])
        = Total(rewards_paid) - rewards_paid[u] + (rewards_paid[u] + r)
  BY <1>1, rewards_paid[u] + r \in Nat, PaidTotal
<1>3. Total(rewards_paid') = Total([rewards_paid EXCEPT ![u] = rewards_paid[u] + r])
  OBVIOUS
<1> QED BY <1>1, <1>2, <1>3

\* The reward of an account brought up to date.
LEMMA RewardType ==
  ASSUME DaoInv, NEW u \in Users
  PROVE  Lp!Updated(u).pending_reward \in Nat
<1>1. LpP!Updated(u) \in LpP!UserAccount
  BY LpAssumed, LpP!UpdatedFacts DEF LpP!UpdatedFacts, DaoInv
<1> QED BY <1>1, SameLp DEF LpP!UserAccount

\* Handlers of the liquidity providers keep the invariant of their part.
LEMMA LpStep ==
  ASSUME DaoInv, LpP!Next
  PROVE  LpP!LpInv'
  BY LpAssumed, LpP!StepInv DEF LpP!StepInv, DaoInv

\* Steps of the bid keep the invariant of their part.
LEMMA BidStep ==
  ASSUME DaoInv, BidP!Next
  PROVE  BidP!AuctionInv'
  BY BidAssumed, BidP!StepInv DEF BidP!StepInv, DaoInv

\* A part that does not move keeps its invariant.
LEMMA LpIdle ==
  ASSUME DaoInv, UNCHANGED lp_vars
  PROVE  LpP!LpInv' /\ Owed' = Owed
<1>1. UNCHANGED LpP!vars
  BY DEF lp_vars, LpP!vars
<1>2. LpP!LpInv'
  BY <1>1, LpAssumed, LpP!StepInv DEF LpP!StepInv, DaoInv
<1> QED BY <1>2 DEF lp_vars, Owed

\* While the bid does not move, neither does the INJ that is out for it.
LEMMA BidIdle ==
  ASSUME DaoInv, UNCHANGED bid_vars
  PROVE  BidP!AuctionInv' /\ Staked' = Staked
<1>1. UNCHANGED BidP!vars
  BY DEF bid_vars, BidP!vars, BidP!chain, BidP!history
<1>2. BidP!AuctionInv'
  BY <1>1, BidAssumed, BidP!StepInv DEF BidP!StepInv, DaoInv
<1> QED BY <1>2 DEF bid_vars, Staked

-------------------------------------------------------------------------------
(* Each handler keeps the invariant and creates or destroys no INJ. *)

\* A deposit raises the balance and what is owed by the same amount.
LEMMA DepositStep ==
  ASSUME DaoInv, UNCHANGED config,
         NEW u \in Users, NEW amount \in 1..MaxAmount, NEW max_tokens \in Caps,
         Deposit(u, amount, max_tokens)
  PROVE  DaoInv' /\ Excess' = Excess
<1>1. /\ LpP!Deposit(u, amount, max_tokens, bid_attempt # None)
      /\ balance' = balance + amount
      /\ UNCHANGED bid_vars
      /\ UNCHANGED <<holdings, arrived, surplus, lost, donated, bidder_rewards>>
  BY SameLp DEF Deposit
<1>2. LpP!LpInv'
  <2>1. (bid_attempt # None) \in BOOLEAN
    OBVIOUS
  <2>2. LpP!Next
    BY <1>1, <2>1 DEF LpP!Next
  <2> QED BY <2>2, LpStep
<1>3. Owed' = Owed + amount
  <2>1. amount \in Nat /\ LpP!LpInv
    BY DEF DaoInv
  <2>2. /\ global'.total_supply = global.total_supply + amount
        /\ global'.profit_to_distribute = global.profit_to_distribute
        /\ global'.accumulated_profit = global.accumulated_profit
        /\ rewards_paid' = rewards_paid
    BY <1>1, <2>1, LpAssumed, LpP!DepositEffect DEF LpP!DepositEffect
  <2> QED BY <2>1, <2>2, LpFacts DEF Owed, LpP!Global
<1>4. BidP!AuctionInv' /\ Staked' = Staked
  BY <1>1, BidIdle
<1>5. DaoTypeOK' /\ PurseAgrees'
  BY <1>1 DEF DaoInv, DaoTypeOK, PurseAgrees, bid_vars
<1>6. Excess' = Excess
  <2>1. Owed \in Int /\ Staked \in Nat
    BY LpFacts, BidFacts
  <2> QED BY <1>1, <1>3, <1>4, <2>1 DEF Excess, DaoInv, DaoTypeOK
<1> QED BY <1>2, <1>4, <1>5, <1>6 DEF DaoInv

\* A withdrawal lowers the balance and what is owed by the amount and the reward.
LEMMA WithdrawStep ==
  ASSUME DaoInv, UNCHANGED config, NEW u \in Users, NEW amount \in 0..MaxAmount, Withdraw(u, amount)
  PROVE  DaoInv' /\ Excess' = Excess
<1> DEFINE reward == Lp!Updated(u).pending_reward
<1>1. /\ LpP!Withdraw(u, amount, bid_attempt # None, now, auction.closing,
                      config.withdraw_time_buffer_secs)
      /\ amount + reward <= balance
      /\ balance' = balance - (amount + reward)
      /\ UNCHANGED bid_vars
      /\ UNCHANGED <<holdings, arrived, surplus, lost, donated, bidder_rewards>>
  BY SameLp DEF Withdraw
<1>2. reward \in Nat /\ amount \in Nat
  BY RewardType
<1>3. LpP!LpInv'
  <2>1. /\ now \in Nat /\ auction.closing \in Nat /\ (bid_attempt # None) \in BOOLEAN
        /\ config.withdraw_time_buffer_secs \in Nat
    BY BidFacts, ConfigFacts DEF BidP!CurrentAuction
  <2>2. LpP!Next
    BY <1>1, <2>1 DEF LpP!Next
  <2> QED BY <2>2, LpStep
<1>4. Owed' = Owed - (amount + reward)
  <2>1. rewards_paid' = [rewards_paid EXCEPT ![u] = rewards_paid[u] + reward]
    BY <1>1, SameLp DEF LpP!Withdraw
  <2>2. /\ global'.total_supply = global.total_supply - amount
        /\ global'.profit_to_distribute = global.profit_to_distribute
        /\ global'.accumulated_profit = global.accumulated_profit
    BY <1>1, LpFacts DEF LpP!Withdraw, LpP!decrease_supply, LpP!Global
  <2> HIDE DEF reward
  <2>3. Total(rewards_paid') = Total(rewards_paid) + reward
    BY <1>2, <2>1, PaidOut
  <2> QED BY <1>2, <2>2, <2>3, LpFacts DEF Owed, LpP!Global
<1> HIDE DEF reward
<1>5. BidP!AuctionInv' /\ Staked' = Staked
  BY <1>1, BidIdle
<1>6. DaoTypeOK' /\ PurseAgrees'
  BY <1>1, <1>2 DEF DaoInv, DaoTypeOK, PurseAgrees, bid_vars
<1>7. Excess' = Excess
  <2>1. Owed \in Int /\ Staked \in Nat
    BY LpFacts, BidFacts
  <2> QED BY <1>1, <1>2, <1>4, <1>5, <2>1 DEF Excess, DaoInv, DaoTypeOK
<1> QED BY <1>3, <1>5, <1>6, <1>7 DEF DaoInv

\* A harvest lowers the balance and what is owed by the reward.
LEMMA HarvestStep ==
  ASSUME DaoInv, UNCHANGED config, NEW u \in Users, Harvest(u)
  PROVE  DaoInv' /\ Excess' = Excess
<1> DEFINE reward == Lp!Updated(u).pending_reward
<1>1. /\ LpP!Harvest(u)
      /\ reward <= balance
      /\ balance' = balance - reward
      /\ UNCHANGED bid_vars
      /\ UNCHANGED <<holdings, arrived, surplus, lost, donated, bidder_rewards>>
  BY SameLp DEF Harvest
<1>2. reward \in Nat
  BY RewardType
<1>3. LpP!LpInv'
  <2>1. LpP!Next
    BY <1>1 DEF LpP!Next
  <2> QED BY <2>1, LpStep
<1>4. Owed' = Owed - reward
  <2>1. /\ rewards_paid' = [rewards_paid EXCEPT ![u] = rewards_paid[u] + reward]
        /\ global' = global
    BY <1>1, SameLp DEF LpP!Harvest
  <2> HIDE DEF reward
  <2>2. Total(rewards_paid') = Total(rewards_paid) + reward
    BY <1>2, <2>1, PaidOut
  <2> QED BY <1>2, <2>1, <2>2, LpFacts DEF Owed, LpP!Global
<1> HIDE DEF reward
<1>5. BidP!AuctionInv' /\ Staked' = Staked
  BY <1>1, BidIdle
<1>6. DaoTypeOK' /\ PurseAgrees'
  BY <1>1, <1>2 DEF DaoInv, DaoTypeOK, PurseAgrees, bid_vars
<1>7. Excess' = Excess
  <2>1. Owed \in Int /\ Staked \in Nat
    BY LpFacts, BidFacts
  <2> QED BY <1>1, <1>2, <1>4, <1>5, <2>1 DEF Excess, DaoInv, DaoTypeOK
<1> QED BY <1>3, <1>5, <1>6, <1>7 DEF DaoInv

-------------------------------------------------------------------------------
(* Each step of the bid keeps the invariant and creates or destroys no INJ. *)

\* A bid moves its INJ from the balance to the auction.
LEMMA TryBidStep ==
  ASSUME DaoInv, UNCHANGED config,
         NEW sender \in Bidders, NEW round \in Bid!Rounds, NEW value \in Values,
         TryBid(sender, round, value)
  PROVE  DaoInv' /\ Excess' = Excess
<1> DEFINE amount == BidP!MinBidSize(auction.highestBidAmount)
           bid    == BidP!Attempt(sender, round, amount)
<1>1. /\ BidP!TryBid(sender, round, value, balance, config.bid_time_buffer_secs)
      /\ balance' = balance - amount
      /\ UNCHANGED lp_vars
      /\ UNCHANGED <<holdings, arrived, surplus, lost, donated, bidder_rewards>>
  BY SameBid DEF TryBid, Bid!MinBidSize, BidP!MinBidSize
<1>2. amount \in Nat
  <2>1. auction.highestBidAmount \in Nat
    BY BidFacts DEF BidP!CurrentAuction
  <2> QED BY <2>1, BidAssumed, BidP!MinBidSizeType DEF BidP!MinBidSizeType
<1>3. BidP!AuctionInv'
  <2>1. /\ value \in Nat /\ balance \in Nat /\ round \in BidP!Rounds
        /\ config.bid_time_buffer_secs \in Nat
    BY DaoAssumption, ConfigFacts DEF DaoInv, DaoTypeOK, Bid!Rounds, BidP!Rounds
  <2>2. BidP!Next
    BY <1>1, <2>1 DEF BidP!Next
  <2> QED BY <2>2, BidStep
<1>4. /\ amount <= balance
      /\ stake' = [bid |-> bid, spent |-> FALSE]
      /\ auction' = [auction EXCEPT !.highestBidder = Contract, !.highestBidAmount = amount]
      /\ auction.highestBidder # Contract
      /\ BidP!PreviousBidSettled
  BY <1>1 DEF BidP!TryBid, BidP!MsgBid
<1>5. stake = None
  BY <1>4, BidAssumed, BidP!NothingOut DEF BidP!NothingOut, DaoInv
<1>6. /\ stake' # None /\ ~stake'.spent
      /\ stake'.bid.amount = amount
      /\ stake'.bid.basket = auction.basket
  <2>1. stake' \in BidP!Stake \cup {None}
    BY <1>3 DEF BidP!AuctionInv, BidP!AuctionTypeOK
  <2>2. stake'.bid = bid /\ ~stake'.spent
    BY <1>4
  <2>3. stake' # None
    BY <1>3, <1>4, BidFacts DEF BidP!AuctionInv, BidP!StakeHeld, BidP!CurrentAuction
  <2> QED BY <2>2, <2>3 DEF BidP!Attempt
<1> HIDE DEF bid, amount
<1>7. /\ auction'.highestBidAmount = amount /\ auction'.basket = auction.basket
  BY <1>4, BidFacts DEF BidP!CurrentAuction
<1>8. LpP!LpInv' /\ Owed' = Owed
  BY <1>1, LpIdle
<1>9. Staked = 0 /\ Staked' = amount
  BY <1>5, <1>6 DEF Staked
<1>10. DaoTypeOK'
  BY <1>1, <1>2, <1>4 DEF DaoInv, DaoTypeOK
<1>11. PurseAgrees'
  <2>1. auction.basket[INJ] \in Nat
    BY BidFacts, DaoAssumption
  <2>2. arrived' = 0
    BY <1>1, <1>5 DEF DaoInv, PurseAgrees
  <2> QED BY <1>6, <1>7, <2>1, <2>2 DEF PurseAgrees
<1>12. Excess' = Excess
  BY <1>1, <1>2, <1>8, <1>9, LpFacts DEF Excess, DaoInv, DaoTypeOK
<1> QED BY <1>3, <1>8, <1>10, <1>11, <1>12 DEF DaoInv

\* When the contract is outbid its INJ comes back to the balance.
LEMMA RivalBidStep ==
  ASSUME DaoInv, UNCHANGED config, NEW amount \in 1..MaxBid, RivalBid(amount)
  PROVE  DaoInv' /\ Excess' = Excess
<1> DEFINE mine == auction.highestBidder = Contract
<1>1. /\ BidP!RivalBid(amount)
      /\ balance' = balance + (IF mine THEN auction.highestBidAmount ELSE 0)
      /\ UNCHANGED lp_vars
      /\ UNCHANGED <<holdings, arrived, surplus, lost, donated, bidder_rewards>>
  BY SameBid DEF RivalBid
<1>2. BidP!AuctionInv'
  <2>1. BidP!Next
    BY <1>1 DEF BidP!Next
  <2> QED BY <2>1, BidStep
<1>3. stake' = IF mine THEN None ELSE stake
  BY <1>1 DEF BidP!RivalBid
<1>4. mine <=> stake # None /\ ~stake.spent
  BY DEF DaoInv, BidP!AuctionInv, BidP!StakeHeld
<1>5. auction.highestBidAmount \in Nat
  BY BidFacts DEF BidP!CurrentAuction
<1>6. LpP!LpInv' /\ Owed' = Owed
  BY <1>1, LpIdle
<1>7. Staked' = Staked - (IF mine THEN auction.highestBidAmount ELSE 0)
  <2>1. CASE mine
    <3>1. stake # None /\ Staked = auction.highestBidAmount
      BY <1>4, <2>1 DEF DaoInv, PurseAgrees, Staked
    <3>2. Staked' = 0
      BY <1>3, <2>1 DEF Staked
    <3> QED BY <1>5, <2>1, <3>1, <3>2
  <2>2. CASE ~mine
    <3>1. Staked' = Staked
      BY <1>3, <2>2 DEF Staked
    <3> QED BY <2>2, <3>1, BidFacts
  <2> QED BY <2>1, <2>2
<1>8. DaoTypeOK'
  BY <1>1, <1>5 DEF DaoInv, DaoTypeOK
<1>9. PurseAgrees'
  BY <1>1, <1>3, <1>4 DEF DaoInv, PurseAgrees
<1> HIDE DEF mine
<1>10. Excess' = Excess
  BY <1>1, <1>5, <1>6, <1>7, LpFacts, BidFacts DEF Excess, DaoInv, DaoTypeOK
<1> QED BY <1>2, <1>6, <1>8, <1>9, <1>10 DEF DaoInv

\* Clearing a bid moves nothing: a bid that can be cleared has been refunded.
LEMMA ClearCurrentStep ==
  ASSUME DaoInv, UNCHANGED config, TryClearCurrentBid
  PROVE  DaoInv' /\ Excess' = Excess
<1>1. BidP!TryClearCurrentBid /\ UNCHANGED <<lp_vars, purse>>
  BY SameBid DEF TryClearCurrentBid
<1>2. BidP!AuctionInv'
  <2>1. BidP!Next
    BY <1>1 DEF BidP!Next
  <2> QED BY <2>1, BidStep
<1>3. stake' = stake /\ auction' = auction
  BY <1>1 DEF BidP!TryClearCurrentBid, BidP!chain, BidP!history
<1>4. LpP!LpInv' /\ Owed' = Owed
  BY <1>1, LpIdle
<1>5. DaoTypeOK' /\ PurseAgrees' /\ Excess' = Excess
  BY <1>1, <1>3, <1>4 DEF DaoInv, DaoTypeOK, PurseAgrees, Excess, Staked, purse
<1> QED BY <1>2, <1>4, <1>5 DEF DaoInv

\* A round that the contract leads delivers the basket, which no settlement has
\* counted yet.
LEMMA CloseRoundStep ==
  ASSUME DaoInv, UNCHANGED config, CloseRound
  PROVE  DaoInv' /\ Excess' = Excess
<1> DEFINE mine == auction.highestBidder = Contract
           delivered == IF mine THEN auction.basket ELSE Bid!EmptyBasket
<1>1. /\ BidP!CloseRound
      /\ balance' = balance + delivered[INJ]
      /\ holdings' = [d \in Assets |-> holdings[d] + delivered[d]]
      /\ arrived' = arrived + delivered[INJ]
      /\ UNCHANGED lp_vars
      /\ UNCHANGED <<surplus, lost, donated, bidder_rewards>>
  BY SameBid DEF CloseRound
<1>2. BidP!AuctionInv'
  <2>1. BidP!Next
    BY <1>1 DEF BidP!Next
  <2> QED BY <2>1, BidStep
<1>3. stake' = IF mine THEN [stake EXCEPT !.spent = TRUE] ELSE stake
  BY <1>1 DEF BidP!CloseRound
<1>4. mine <=> stake # None /\ ~stake.spent
  BY DEF DaoInv, BidP!AuctionInv, BidP!StakeHeld
<1>5. \A d \in Denoms : delivered[d] \in Nat
  BY BidFacts DEF Bid!EmptyBasket
<1>6. LpP!LpInv' /\ Owed' = Owed
  BY <1>1, LpIdle
<1>7. mine => /\ stake'.bid = stake.bid /\ stake'.spent
              /\ stake' # None
  <2> SUFFICES ASSUME mine
               PROVE  stake'.bid = stake.bid /\ stake'.spent /\ stake' # None
    OBVIOUS
  <2>1. stake \in BidP!Stake
    BY <1>4, BidFacts
  <2>2. stake' = [stake EXCEPT !.spent = TRUE]
    BY <1>3
  <2>3. stake' \in BidP!Stake /\ stake'.bid = stake.bid /\ stake'.spent
    BY <2>1, <2>2 DEF BidP!Stake
  <2> QED BY <2>3, BidAssumed DEF BidP!NoneAssumption
<1>8. Staked' = Staked
  BY <1>3, <1>4, <1>7 DEF Staked
<1>9. DaoTypeOK'
  <2>1. \A d \in Assets : holdings[d] + delivered[d] \in Nat
    BY <1>5 DEF DaoInv, DaoTypeOK, Assets
  <2>2. delivered[INJ] \in Nat
    BY <1>5, DaoAssumption
  <2> HIDE DEF delivered
  <2> QED BY <1>1, <2>1, <2>2 DEF DaoInv, DaoTypeOK
<1>10. PurseAgrees'
  <2>1. CASE mine
    <3>1. arrived' = auction.basket[INJ]
      BY <1>1, <1>4, <1>5, <2>1, DaoAssumption DEF DaoInv, PurseAgrees
    <3>2. stake.bid.basket[INJ] <= auction.basket[INJ]
      BY <1>4, <2>1 DEF DaoInv, PurseAgrees
    <3> QED BY <1>7, <2>1, <3>1, <3>2 DEF PurseAgrees
  <2>2. CASE ~mine
    <3>1. arrived' = arrived
      BY <1>1, <2>2, DaoAssumption DEF Bid!EmptyBasket, DaoInv, DaoTypeOK
    <3>2. stake' = stake
      BY <1>3, <2>2
    <3> QED BY <1>4, <2>2, <3>1, <3>2 DEF DaoInv, PurseAgrees
  <2> QED BY <2>1, <2>2
<1>11. Excess' = Excess
  <2>1. delivered[INJ] \in Nat
    BY <1>5, DaoAssumption
  <2> HIDE DEF delivered
  <2> QED BY <1>1, <1>6, <1>8, <2>1, LpFacts, BidFacts DEF Excess, DaoInv, DaoTypeOK
<1> QED BY <1>2, <1>6, <1>9, <1>10, <1>11 DEF DaoInv

\* Fees only add to the basket, and blocks change the time.
LEMMA ChainMoves ==
  ASSUME DaoInv, UNCHANGED config, ChainStep
  PROVE  DaoInv' /\ Excess' = Excess
<1>1. /\ \/ \E d \in Denoms : BidP!FeesArrive(d)
         \/ \E step \in Steps : BidP!NextBlock(step)
      /\ UNCHANGED <<lp_vars, purse>>
  BY SameBid DEF ChainStep
<1>2. BidP!AuctionInv'
  <2>1. BidP!Next
    BY <1>1 DEF BidP!Next
  <2> QED BY <2>1, BidStep
<1>3. /\ stake' = stake
      /\ auction'.highestBidAmount = auction.highestBidAmount
      /\ auction.basket[INJ] <= auction'.basket[INJ]
  <2>0. auction \in BidP!CurrentAuction /\ auction.basket \in BidP!Basket
        /\ auction.basket[INJ] \in Nat /\ INJ \in Denoms
    BY BidFacts, DaoAssumption DEF BidP!CurrentAuction
  <2>1. CASE \E d \in Denoms : BidP!FeesArrive(d)
    <3>1. PICK d \in Denoms : BidP!FeesArrive(d)
      BY <2>1
    <3> DEFINE basket == [auction.basket EXCEPT ![d] = @ + 1]
    <3>2. auction' = [auction EXCEPT !.basket = basket] /\ stake' = stake
      BY <3>1 DEF BidP!FeesArrive, BidP!history
    <3>3. auction.basket[INJ] <= basket[INJ]
      BY <2>0 DEF BidP!Basket
    <3> HIDE DEF basket
    <3> QED BY <2>0, <3>2, <3>3 DEF BidP!CurrentAuction
  <2>2. CASE \E step \in Steps : BidP!NextBlock(step)
    BY <2>0, <2>2 DEF BidP!NextBlock, BidP!history
  <2> QED BY <1>1, <2>1, <2>2
<1>4. LpP!LpInv' /\ Owed' = Owed
  BY <1>1, LpIdle
<1>5. UNCHANGED <<balance, holdings, arrived, surplus, lost, donated, bidder_rewards>>
  BY <1>1 DEF purse
<1>6. DaoTypeOK'
  BY <1>5 DEF DaoInv, DaoTypeOK
<1>7. PurseAgrees'
  <2>1. stake # None => stake.bid.basket[INJ] \in Nat
    BY BidFacts
  <2>2. auction.basket[INJ] \in Nat /\ auction'.basket[INJ] \in Nat
    <3>1. auction' \in BidP!CurrentAuction
      BY <1>2 DEF BidP!AuctionInv, BidP!AuctionTypeOK
    <3> QED BY <3>1, BidFacts, DaoAssumption DEF BidP!CurrentAuction, BidP!Basket
  <2> QED BY <1>3, <1>5, <2>1, <2>2 DEF DaoInv, PurseAgrees
<1>8. Excess' = Excess
  BY <1>3, <1>4, <1>5 DEF Excess, Staked
<1> QED BY <1>2, <1>4, <1>6, <1>7, <1>8 DEF DaoInv

-------------------------------------------------------------------------------
(* Settlements and manual swaps. *)

\* The callback adds the users' part of the profit to what is owed.
LEMMA CallbackStep ==
  ASSUME DaoInv, NEW received \in Nat, NEW bid_amount \in Nat, NEW by_contract \in BOOLEAN,
         Lp!Callback(received, bid_amount, config.winning_bidder_reward_bps, by_contract)
  PROVE  LET gross  == Lp!Profit(received, bid_amount)
             reward == Lp!WinningReward(gross, config.winning_bidder_reward_bps, by_contract)
         IN  /\ LpP!LpInv'
             /\ gross \in Nat /\ reward \in Nat /\ reward <= gross
             /\ by_contract => reward = 0
             /\ Owed' = Owed + (gross - reward)
             /\ Lp!deposited' = Lp!deposited
             /\ Lp!Next
<1> DEFINE bps    == config.winning_bidder_reward_bps
           gross  == Lp!Profit(received, bid_amount)
           reward == Lp!WinningReward(gross, bps, by_contract)
           profit == LpP!UsersPart(received, bid_amount, bps, by_contract)
<1>1. LpP!Callback(received, bid_amount, bps, by_contract) /\ bps \in Nat
  BY SameLp, ConfigFacts
<1>2. LpP!LpInv'
  <2>1. LpP!Next
    BY <1>1 DEF LpP!Next
  <2> QED BY <2>1, LpStep
<1>3. /\ profit \in 0..MaxProfit
      /\ UNCHANGED <<user_accounts, rewards_paid>>
      /\ global' = IF global.total_supply = 0
                   THEN [global EXCEPT !.profit_to_distribute =
                                         global.profit_to_distribute + profit]
                   ELSE [index |-> global.index + LpP!PerToken(profit),
                         profit_to_distribute |-> 0,
                         accumulated_profit |->
                           global.accumulated_profit
                             + (global.profit_to_distribute + profit),
                         total_supply |-> global.total_supply]
  <2>1. LpP!LpInv
    BY DEF DaoInv
  <2> QED BY <1>1, <2>1, LpAssumed, LpP!CallbackEffect DEF LpP!CallbackEffect
<1>4. profit = gross - reward
  BY DEF LpP!UsersPart, Lp!Profit, LpP!Profit, Lp!WinningReward, LpP!WinningReward,
         Lp!Share, LpP!Share
<1>5. gross \in Nat
  BY DEF Lp!Profit
<1>6. reward \in Nat /\ reward <= gross /\ (by_contract => reward = 0)
  <2>1. Lp!Share(gross, bps) \in Nat
    <3>1. gross * bps \in Nat
      BY <1>1, <1>5
    <3> HIDE DEF gross
    <3> QED BY <3>1 DEF Lp!Share
  <2>2. Lp!Share(gross, bps) <= gross
    BY DEF Lp!Callback
  <2> HIDE DEF gross
  <2> QED BY <1>5, <2>1, <2>2 DEF Lp!WinningReward
<1> HIDE DEF profit, gross, reward
<1>7. profit \in Nat
  BY <1>4, <1>5, <1>6
<1>8. Owed' = Owed + profit
  <2>1. CASE global.total_supply = 0
    <3>1. /\ global'.total_supply = global.total_supply
          /\ global'.profit_to_distribute = global.profit_to_distribute + profit
          /\ global'.accumulated_profit = global.accumulated_profit
      BY <1>3, <2>1, LpFacts DEF LpP!Global
    <3> QED BY <1>3, <1>7, <3>1, LpFacts DEF Owed, LpP!Global
  <2>2. CASE global.total_supply # 0
    <3>1. /\ global'.total_supply = global.total_supply
          /\ global'.profit_to_distribute = 0
          /\ global'.accumulated_profit
               = global.accumulated_profit + (global.profit_to_distribute + profit)
      BY <1>3, <2>2
    <3> QED BY <1>3, <1>7, <3>1, LpFacts DEF Owed, LpP!Global
  <2> QED BY <2>1, <2>2
<1>9. Lp!deposited' = Lp!deposited
  BY <1>3 DEF Lp!deposited
<1>10. Lp!Next
  BY <1>1 DEF Lp!Next
<1> QED BY <1>2, <1>4, <1>5, <1>6, <1>8, <1>9, <1>10 DEF gross, reward

\* Settling a lost bid only forgets it; settling a won one turns the basket's INJ and
\* the proceeds of its assets into the bid that was spent, profit and the reward.
LEMMA TrySettleStep ==
  ASSUME DaoInv, UNCHANGED config, NEW sender \in Bidders,
         NEW routed \in SUBSET Assets, NEW liquid \in SUBSET Assets,
         NEW taken \in [Assets -> 0..MaxBasket], NEW proceeds \in [Assets -> Prices],
         TrySettle(sender, routed, liquid, taken, proceeds)
  PROVE  /\ DaoInv' /\ Excess' = Excess
         /\ Lp!deposited' = Lp!deposited
         /\ Lp!Next \/ UNCHANGED lp_vars
         /\ bidder_rewards' # bidder_rewards =>
              /\ stake # None /\ stake.spent /\ stake' = None
              /\ \A b \in Bidders : bidder_rewards'[b] # bidder_rewards[b]
                                      => stake.bid.submitted_by = b
<1> DEFINE sold == Bid!Sold(bid_attempt.basket, routed)
<1>1. BidP!TrySettle(routed, liquid) /\ BidP!ResultKnown /\ auction' = auction
  BY SameBid DEF TrySettle, BidP!TrySettle, BidP!chain
<1>2. BidP!AuctionInv'
  <2>1. BidP!Next
    BY <1>1 DEF BidP!Next, BidP!Settle, Assets
  <2> QED BY <2>1, BidStep
<1>3. CASE last_result.winner # Contract
  <2>1. UNCHANGED lp_vars /\ UNCHANGED purse /\ stake' = stake
    BY <1>1, <1>3 DEF TrySettle, BidP!TrySettle
  <2>2. LpP!LpInv' /\ Owed' = Owed
    BY <2>1, LpIdle
  <2>3. DaoTypeOK' /\ PurseAgrees' /\ Excess' = Excess
    BY <1>1, <2>1, <2>2 DEF DaoInv, DaoTypeOK, PurseAgrees, Excess, Staked, purse
  <2>4. Lp!deposited' = Lp!deposited /\ bidder_rewards' = bidder_rewards
    BY <2>1 DEF lp_vars, purse, Lp!deposited
  <2> QED BY <1>2, <2>1, <2>2, <2>3, <2>4 DEF DaoInv
<1>4. CASE last_result.winner = Contract
  <2> DEFINE initial == bid_attempt.basket[INJ]
             income  == Total([d \in sold |-> proceeds[d]])
             gross   == Lp!Profit(initial + income, bid_attempt.amount)
             reward  == Lp!WinningReward(gross, config.winning_bidder_reward_bps, FALSE)
  <2>1. /\ \A d \in sold : taken[d] <= holdings[d]
        /\ holdings' = [d \in Assets |-> IF d \in sold THEN holdings[d] - taken[d]
                                         ELSE holdings[d]]
        /\ Lp!Callback(initial + income, bid_attempt.amount,
                       config.winning_bidder_reward_bps, FALSE)
        /\ reward <= balance + income
        /\ balance' = (balance + income) - reward
        /\ bidder_rewards' =
             [bidder_rewards EXCEPT ![bid_attempt.submitted_by] =
                bidder_rewards[bid_attempt.submitted_by] + reward]
        /\ arrived' = 0
        /\ surplus' = surplus + arrived - initial
        /\ lost' = lost + Lp!Profit(bid_attempt.amount, initial + income)
        /\ donated' = donated
    <3>1. /\ \A d \in sold : taken[d] <= holdings[d]
          /\ holdings' = [d \in Assets |-> IF d \in sold THEN holdings[d] - taken[d]
                                           ELSE holdings[d]]
          /\ BidSettledSuccess(sender, sold, proceeds)
      BY <1>4 DEF TrySettle
    <3> HIDE DEF sold
    <3>2. Settled(bid_attempt, sold, proceeds) = initial + income
      BY DEF Settled, InitialAmount
    <3> HIDE DEF income
    <3>3. /\ Lp!Callback(initial + income, bid_attempt.amount,
                         config.winning_bidder_reward_bps, FALSE)
          /\ reward <= balance + income
          /\ balance' = (balance + income) - reward
      BY <3>1, <3>2, Zenon DEF BidSettledSuccess, income
    <3>4. /\ bidder_rewards' =
               [bidder_rewards EXCEPT ![bid_attempt.submitted_by] =
                  bidder_rewards[bid_attempt.submitted_by] + reward]
          /\ arrived' = 0
          /\ surplus' = surplus + arrived - initial
          /\ lost' = lost + Lp!Profit(bid_attempt.amount, initial + income)
          /\ donated' = donated
      BY <3>1, <3>2 DEF BidSettledSuccess, InitialAmount, Rewarded
    <3> QED BY <3>1, <3>3, <3>4
  <2>2. /\ stake # None /\ stake.spent /\ stake.bid = bid_attempt
        /\ bid_attempt \in BidP!BidAttempt
        /\ bid_attempt.amount \in Nat /\ initial \in Nat /\ bid_attempt.submitted_by \in Bidders
    <3>1. /\ bid_attempt \in BidP!BidAttempt
          /\ stake # None /\ stake.spent /\ stake.bid = bid_attempt
      BY <1>1, <1>4, BidAssumed, BidP!KnownResult DEF BidP!KnownResult, DaoInv
    <3> QED BY <3>1, BidFacts DEF BidP!BidAttempt
  <2>3. stake' = None
    BY <1>1, <1>4, <2>2 DEF BidP!TrySettle, BidP!BidSettledSuccess
  <2>4. income \in Nat
    <3>1. sold \in SUBSET Assets
      BY DEF Bid!Sold, Assets
    <3>2. IsFiniteSet(sold)
      <4>1. IsFiniteSet(Denoms) /\ sold \in SUBSET Denoms
        BY <3>1, DaoAssumption DEF Assets
      <4> HIDE DEF sold
      <4> QED BY <4>1, FS_Subset
    <3>3. [d \in sold |-> proceeds[d]] \in [sold -> Nat]
      BY <3>1, DaoAssumption
    <3> HIDE DEF sold
    <3> QED BY <3>2, <3>3, TotalType
  <2> HIDE DEF initial, income
  <2>5. /\ LpP!LpInv'
        /\ gross \in Nat /\ reward \in Nat /\ reward <= gross
        /\ Owed' = Owed + (gross - reward)
        /\ Lp!deposited' = Lp!deposited
        /\ Lp!Next
    <3>1. initial + income \in Nat /\ FALSE \in BOOLEAN
      BY <2>2, <2>4
    <3> QED BY <2>1, <2>2, <3>1, CallbackStep
  <2>6. /\ gross - Lp!Profit(bid_attempt.amount, initial + income)
             = initial + income - bid_attempt.amount
        /\ Lp!Profit(bid_attempt.amount, initial + income) \in Nat
    BY <2>2, <2>4 DEF Lp!Profit
  <2> DEFINE loss == Lp!Profit(bid_attempt.amount, initial + income)
  <2> HIDE DEF gross, reward, loss
  <2>7. initial <= arrived
    BY <2>2 DEF DaoInv, PurseAgrees, initial
  <2>8. Staked = bid_attempt.amount /\ Staked' = 0
    BY <2>2, <2>3 DEF Staked
  <2>9. DaoTypeOK'
    <3>1. holdings' \in [Assets -> Nat]
      BY <2>1 DEF DaoInv, DaoTypeOK
    <3>2. bidder_rewards' \in [Bidders -> Nat]
      BY <2>1, <2>2, <2>5 DEF DaoInv, DaoTypeOK
    <3>3. balance' \in Nat /\ surplus' \in Nat /\ lost' \in Nat /\ arrived' \in Nat
          /\ donated' \in Nat
      BY <2>1, <2>2, <2>4, <2>5, <2>6, <2>7 DEF DaoInv, DaoTypeOK, loss
    <3>4. config' \in Configs
      BY DEF DaoInv, DaoTypeOK
    <3> QED BY <3>1, <3>2, <3>3, <3>4 DEF DaoTypeOK
  <2>10. PurseAgrees'
    BY <2>1, <2>3 DEF PurseAgrees
  <2>11. Excess' = Excess
    <3>1. lost' = lost + loss /\ loss \in Nat
          /\ gross - loss = initial + income - bid_attempt.amount
      BY <2>1, <2>6 DEF loss
    <3>2. /\ balance' = (balance + income) - reward
          /\ arrived' = 0 /\ surplus' = surplus + arrived - initial /\ donated' = donated
      BY <2>1
    <3>3. /\ balance \in Nat /\ lost \in Nat /\ arrived \in Nat /\ surplus \in Nat
          /\ donated \in Nat
          /\ Owed \in Int
      BY LpFacts DEF DaoInv, DaoTypeOK
    <3> QED BY <2>2, <2>4, <2>5, <2>8, <3>1, <3>2, <3>3 DEF Excess
  <2>12. \A b \in Bidders : bidder_rewards'[b] # bidder_rewards[b]
                              => stake.bid.submitted_by = b
    BY <2>1, <2>2 DEF DaoInv, DaoTypeOK
  <2> QED BY <1>2, <2>2, <2>3, <2>5, <2>9, <2>10, <2>11, <2>12 DEF DaoInv
<1> QED BY <1>3, <1>4

\* A manual swap keeps the invariant; when the market pays in INJ, what is owed grows
\* by what was received.
LEMMA ManualSwapStep ==
  ASSUME DaoInv, UNCHANGED config,
         NEW admin \in Admins, NEW asset \in Assets, NEW target \in SwapTargets,
         NEW amount \in 1..MaxBasket, NEW received \in Prices,
         ManualSwap(admin, asset, target, amount, received)
  PROVE  /\ DaoInv'
         /\ target = INJ => Excess' = Excess
         /\ Lp!deposited' = Lp!deposited
         /\ Lp!Next
         /\ bidder_rewards' = bidder_rewards
<1>1. /\ amount <= holdings[asset]
      /\ Lp!Callback(received, 0, config.winning_bidder_reward_bps, TRUE)
      /\ holdings' = Swapped(holdings, asset, target, amount, received)
      /\ balance' = IF target = INJ THEN balance + received ELSE balance
      /\ UNCHANGED bid_vars
      /\ UNCHANGED <<arrived, surplus, lost, donated, bidder_rewards>>
  BY DEF ManualSwap
<1>2. received \in Nat /\ 0 \in Nat /\ TRUE \in BOOLEAN
  BY DaoAssumption
<1>3. /\ LpP!LpInv'
      /\ Owed' = Owed + received
      /\ Lp!deposited' = Lp!deposited
      /\ Lp!Next
  <2>1. Lp!Profit(received, 0) = received
    BY <1>2 DEF Lp!Profit
  <2>2. Lp!WinningReward(received, config.winning_bidder_reward_bps, TRUE) = 0
    BY DEF Lp!WinningReward
  <2>3. /\ LpP!LpInv'
        /\ Owed' = Owed + (received - 0)
        /\ Lp!deposited' = Lp!deposited
        /\ Lp!Next
    BY <1>1, <1>2, <2>1, <2>2, CallbackStep
  <2> QED BY <1>2, <2>3
<1>4. BidP!AuctionInv' /\ Staked' = Staked
  BY <1>1, BidIdle
<1>5. DaoTypeOK' /\ PurseAgrees'
  <2>1. holdings' \in [Assets -> Nat]
    BY <1>1, <1>2 DEF DaoInv, DaoTypeOK, Swapped
  <2> QED BY <1>1, <1>2, <2>1 DEF DaoInv, DaoTypeOK, PurseAgrees, bid_vars
<1>6. target = INJ => Excess' = Excess
  <2>1. /\ balance \in Nat /\ lost \in Nat /\ arrived \in Nat /\ surplus \in Nat
        /\ donated \in Nat
        /\ Owed \in Int /\ Staked \in Nat
    BY LpFacts, BidFacts DEF DaoInv, DaoTypeOK
  <2> QED BY <1>1, <1>2, <1>3, <1>4, <2>1 DEF Excess
<1> QED BY <1>1, <1>3, <1>4, <1>5, <1>6 DEF DaoInv


\* What others send is counted when it comes in and owed to nobody.
LEMMA FundsArriveStep ==
  ASSUME DaoInv, UNCHANGED config, NEW d \in Donations, NEW amount \in 1..MaxDonated,
         FundsArrive(d, amount)
  PROVE  DaoInv' /\ Excess' = Excess
<1>1. /\ UNCHANGED lp_vars /\ UNCHANGED bid_vars
      /\ UNCHANGED <<arrived, surplus, lost, bidder_rewards>>
      /\ amount \in Nat /\ d \in Denoms
  BY DaoAssumption DEF FundsArrive
<1>2. LpP!LpInv' /\ Owed' = Owed /\ BidP!AuctionInv' /\ Staked' = Staked
  BY <1>1, LpIdle, BidIdle
<1>3. PICK n \in Nat : balance' = balance + n /\ donated' = donated + n
  BY <1>1 DEF FundsArrive, DaoInv, DaoTypeOK
<1>4. holdings' \in [Assets -> Nat]
  BY <1>1 DEF FundsArrive, DaoInv, DaoTypeOK, Assets
<1>5. DaoTypeOK' /\ PurseAgrees'
  BY <1>1, <1>3, <1>4 DEF DaoInv, DaoTypeOK, PurseAgrees, bid_vars
<1>6. Excess' = Excess
  <2>1. Owed \in Int /\ Staked \in Nat
    BY LpFacts, BidFacts
  <2> QED BY <1>1, <1>2, <1>3, <2>1 DEF Excess, DaoInv, DaoTypeOK
<1> QED BY <1>2, <1>5, <1>6 DEF DaoInv

-------------------------------------------------------------------------------
(* The invariant holds, and with it the properties. *)

\* At the start nothing is owned, owed or out for a bid.
LEMMA InitInv ==
  ASSUME Init
  PROVE  DaoInv /\ Excess = 0
<1>1. LpP!LpInv
  <2>1. LpP!Init
    BY DEF Init, Lp!Init, LpP!Init, Lp!DefaultAccount, LpP!DefaultAccount
  <2> QED BY <2>1, LpAssumed, LpP!InitInv DEF LpP!InitInv
<1>2. BidP!AuctionInv
  <2>1. BidP!Init
    BY DEF Init, Bid!Init, BidP!Init, Bid!EmptyBasket, BidP!EmptyBasket,
       Bid!Rounds, BidP!Rounds
  <2> QED BY <2>1, BidAssumed, BidP!InitInv DEF BidP!InitInv
<1>3. DaoTypeOK /\ PurseAgrees
  BY DEF Init, Bid!Init, DaoTypeOK, PurseAgrees
<1>4. Excess = 0
  <2>1. Owed = 0
    <3>1. \A u \in Users : rewards_paid[u] = 0
      BY DEF Init, Lp!Init
    <3>2. rewards_paid = [u \in Users |-> 0]
      BY DEF Init, Lp!Init
    <3>3. Total(rewards_paid) = 0
      BY <3>2, TotalZero
    <3> QED BY <3>3 DEF Owed, Init, Lp!Init
  <2>2. Staked = 0
    BY DEF Init, Bid!Init, Staked
  <2> QED BY <2>1, <2>2 DEF Excess, Init
<1> QED BY <1>1, <1>2, <1>3, <1>4 DEF DaoInv

\* Every step keeps the invariant, whatever the admin changes in between; only a manual
\* swap in a market that does not pay in INJ changes the excess.
LEMMA StepInv ==
  ASSUME DaoInv, [Next]_vars
  PROVE  DaoInv' /\ (SwapTargets \subseteq {INJ} => Excess' = Excess)
<1>1. ASSUME NEW u \in Users, NEW amount \in 1..MaxAmount, NEW max_tokens \in Caps,
             Deposit(u, amount, max_tokens), UNCHANGED config
      PROVE  DaoInv' /\ Excess' = Excess
  BY <1>1, DepositStep
<1>2. ASSUME NEW u \in Users, NEW amount \in 0..MaxAmount, Withdraw(u, amount),
             UNCHANGED config
      PROVE  DaoInv' /\ Excess' = Excess
  BY <1>2, WithdrawStep
<1>3. ASSUME NEW u \in Users, Harvest(u), UNCHANGED config
      PROVE  DaoInv' /\ Excess' = Excess
  BY <1>3, HarvestStep
<1>4. ASSUME NEW sender \in Bidders, NEW round \in Bid!Rounds, NEW value \in Values,
             TryBid(sender, round, value), UNCHANGED config
      PROVE  DaoInv' /\ Excess' = Excess
  BY <1>4, TryBidStep
<1>5. ASSUME NEW amount \in 1..MaxBid, RivalBid(amount), UNCHANGED config
      PROVE  DaoInv' /\ Excess' = Excess
  BY <1>5, RivalBidStep
<1>6. ASSUME TryClearCurrentBid \/ CloseRound \/ ChainStep, UNCHANGED config
      PROVE  DaoInv' /\ Excess' = Excess
  BY <1>6, ClearCurrentStep, CloseRoundStep, ChainMoves
<1>7. ASSUME NEW sender \in Bidders, NEW routed \in SUBSET Assets,
             NEW liquid \in SUBSET Assets, NEW taken \in [Assets -> 0..MaxBasket],
             NEW proceeds \in [Assets -> Prices],
             TrySettle(sender, routed, liquid, taken, proceeds), UNCHANGED config
      PROVE  DaoInv' /\ Excess' = Excess
  BY <1>7, TrySettleStep
<1>8. ASSUME NEW admin \in Admins, NEW asset \in Assets, NEW target \in SwapTargets,
             NEW amount \in 1..MaxBasket, NEW received \in Prices,
             ManualSwap(admin, asset, target, amount, received), UNCHANGED config
      PROVE  DaoInv' /\ (SwapTargets \subseteq {INJ} => Excess' = Excess)
  BY <1>8, ManualSwapStep
<1>9. ASSUME UNCHANGED <<lp_vars, bid_vars, purse>>, config' \in Configs
      PROVE  DaoInv' /\ Excess' = Excess
  <2>1. UNCHANGED lp_vars /\ UNCHANGED bid_vars /\ UNCHANGED purse
    BY <1>9
  <2>2. LpP!LpInv' /\ Owed' = Owed /\ BidP!AuctionInv' /\ Staked' = Staked
    BY <2>1, LpIdle, BidIdle
  <2> QED BY <1>9, <2>1, <2>2 DEF DaoInv, DaoTypeOK, PurseAgrees, Excess, purse, bid_vars
<1>10. ASSUME NEW d \in Donations, NEW amount \in 1..MaxDonated, FundsArrive(d, amount),
              UNCHANGED config
       PROVE  DaoInv' /\ Excess' = Excess
  BY <1>10, FundsArriveStep
<1>11. CASE Step /\ UNCHANGED config
  BY <1>1, <1>2, <1>3, <1>4, <1>5, <1>6, <1>7, <1>8, <1>10, <1>11 DEF Step
<1>12. CASE \E sender \in Admins, new_config \in Configs : UpdateConfig(sender, new_config)
  BY <1>9, <1>12 DEF UpdateConfig
<1>13. CASE UNCHANGED vars
  BY <1>9, <1>13 DEF vars, DaoInv, DaoTypeOK
<1> QED BY <1>11, <1>12, <1>13 DEF Next

\* The invariants of the two parts hold of the whole, and the purse agrees with them.
THEOREM DaoInvariant == Spec => []DaoInv
<1>1. Init => DaoInv
  BY InitInv
<1>2. DaoInv /\ [Next]_vars => DaoInv'
  BY StepInv
<1> QED BY <1>1, <1>2, PTL DEF Spec

\* No amount that is kept or counted of the purse ever goes below zero.
THEOREM DaoTypeCorrect == Spec => []DaoTypeOK
<1>1. DaoInv => DaoTypeOK
  BY DEF DaoInv
<1> QED BY <1>1, DaoInvariant, PTL

\* Every INJ is accounted for, what others send included, as long as what is sold by hand
\* is sold for INJ.
THEOREM InjConserved ==
  ASSUME SwapTargets \subseteq {INJ}
  PROVE  Spec => []InjAccounted
<1> DEFINE Balanced == DaoInv /\ Excess = 0
<1>1. Init => Balanced
  BY InitInv
<1>2. Balanced /\ [Next]_vars => Balanced'
  BY StepInv
<1>3. Balanced => InjAccounted
  <2> SUFFICES ASSUME Balanced PROVE InjAccounted
    OBVIOUS
  <2>1. /\ balance \in Nat /\ lost \in Nat /\ arrived \in Nat /\ surplus \in Nat
        /\ donated \in Nat
        /\ Owed \in Int /\ Staked \in Nat
    BY LpFacts, BidFacts DEF DaoInv, DaoTypeOK
  <2> QED BY <2>1 DEF Excess, InjAccounted
<1> QED BY <1>1, <1>2, <1>3, PTL DEF Spec

\* Under the same assumption the contract can pay its users whenever no bid is
\* recorded, unless it lost more on bids than won baskets and others brought in beside.
THEOREM Solvency ==
  ASSUME SwapTargets \subseteq {INJ}
  PROVE  Spec => []Solvent
<1>1. DaoInv /\ InjAccounted => Solvent
  <2> SUFFICES ASSUME DaoInv, InjAccounted, bid_attempt = None,
                      lost <= surplus + donated
               PROVE  balance >= Owed
    BY DEF Solvent
  <2>1. stake = None
    BY BidFacts
  <2>2. Staked = 0 /\ arrived = 0
    BY <2>1 DEF Staked, DaoInv, PurseAgrees
  <2>3. /\ balance \in Nat /\ lost \in Nat /\ surplus \in Nat /\ donated \in Nat
        /\ Owed \in Int
    BY LpFacts DEF DaoInv, DaoTypeOK
  <2> QED BY <2>2, <2>3 DEF InjAccounted
<1> QED BY <1>1, DaoInvariant, InjConserved, PTL


\* Nobody joins or leaves while INJ of the contract is out for a bid.
THEOREM BackersStay == Spec => BackersFixed
<1>1. ASSUME DaoInv, [Next]_vars, stake # None
      PROVE  Lp!deposited' = Lp!deposited
  <2>1. bid_attempt # None
    BY <1>1, BidFacts
  <2>2. ASSUME NEW u \in Users, Harvest(u)
        PROVE  Lp!deposited' = Lp!deposited
    <3>1. LpP!Harvest(u) /\ LpP!LpInv
      BY <1>1, <2>2, SameLp DEF Harvest, DaoInv
    <3>2. LpP!deposited' = LpP!deposited
      BY <3>1, LpAssumed, LpP!HarvestEffect DEF LpP!HarvestEffect
    <3> QED BY <3>2 DEF Lp!deposited, LpP!deposited
  <2>3. CASE UNCHANGED lp_vars
    BY <2>3 DEF lp_vars, Lp!deposited
  <2>4. ASSUME NEW sender \in Bidders, NEW routed \in SUBSET Assets,
               NEW liquid \in SUBSET Assets, NEW taken \in [Assets -> 0..MaxBasket],
               NEW proceeds \in [Assets -> Prices],
               TrySettle(sender, routed, liquid, taken, proceeds),
               UNCHANGED config
        PROVE  Lp!deposited' = Lp!deposited
    BY <1>1, <2>4, TrySettleStep
  <2>5. ASSUME NEW admin \in Admins, NEW asset \in Assets, NEW target \in SwapTargets,
               NEW amount \in 1..MaxBasket, NEW received \in Prices,
               ManualSwap(admin, asset, target, amount, received), UNCHANGED config
        PROVE  Lp!deposited' = Lp!deposited
    BY <1>1, <2>5, ManualSwapStep
  <2>6. ASSUME NEW u \in Users, NEW amount,
               Withdraw(u, amount) \/ \E max_tokens \in Caps : Deposit(u, amount, max_tokens)
        PROVE  FALSE
    BY <2>1, <2>6 DEF Withdraw, Deposit, Lp!Withdraw, Lp!Deposit
  <2>7. \/ \E u \in Users, amount \in 1..MaxAmount, max_tokens \in Caps :
             Deposit(u, amount, max_tokens)
        \/ \E u \in Users, amount \in 0..MaxAmount : Withdraw(u, amount)
        \/ \E u \in Users : Harvest(u)
        \/ \E sender \in Bidders, routed, liquid \in SUBSET Assets,
              taken \in [Assets -> 0..MaxBasket], proceeds \in [Assets -> Prices] :
             TrySettle(sender, routed, liquid, taken, proceeds) /\ UNCHANGED config
        \/ \E admin \in Admins, asset \in Assets, target \in SwapTargets,
              amount \in 1..MaxBasket, received \in Prices :
             ManualSwap(admin, asset, target, amount, received) /\ UNCHANGED config
        \/ UNCHANGED lp_vars
    BY <1>1 DEF Next, Step, UpdateConfig, FundsArrive, TryBid, RivalBid,
       TryClearCurrentBid, CloseRound, ChainStep, vars
  <2> QED BY <2>2, <2>3, <2>4, <2>5, <2>6, <2>7
<1>2. DaoInv /\ [Next]_vars => [stake # None => Lp!deposited' = Lp!deposited]_vars
  BY <1>1
<1> QED BY <1>2, DaoInvariant, PTL DEF BackersFixed, Spec

\* A reward goes to the submitter of a won bid, when it is settled.
THEOREM RewardToSubmitter == Spec => SubmitterRewarded
<1> DEFINE Sent == \A b \in Bidders :
                     bidder_rewards'[b] # bidder_rewards[b]
                       => /\ stake # None /\ stake.spent /\ stake' = None
                          /\ stake.bid.submitted_by = b
<1>1. ASSUME DaoInv, [Next]_vars
      PROVE  Sent
  <2>1. ASSUME NEW sender \in Bidders, NEW routed \in SUBSET Assets,
               NEW liquid \in SUBSET Assets, NEW taken \in [Assets -> 0..MaxBasket],
               NEW proceeds \in [Assets -> Prices],
               TrySettle(sender, routed, liquid, taken, proceeds),
               UNCHANGED config
        PROVE  Sent
    BY <1>1, <2>1, TrySettleStep
  <2>2. CASE bidder_rewards' = bidder_rewards
    BY <2>2
  <2>3. \/ \E sender \in Bidders, routed, liquid \in SUBSET Assets,
              taken \in [Assets -> 0..MaxBasket], proceeds \in [Assets -> Prices] :
             TrySettle(sender, routed, liquid, taken, proceeds) /\ UNCHANGED config
        \/ bidder_rewards' = bidder_rewards
    BY <1>1 DEF Next, Step, UpdateConfig, Deposit, Withdraw, Harvest, FundsArrive, TryBid,
       RivalBid, TryClearCurrentBid, CloseRound, ChainStep, ManualSwap, vars, purse
  <2> QED BY <2>1, <2>2, <2>3
<1>2. DaoInv /\ [Next]_vars => [Sent]_vars
  BY <1>1
<1> QED BY <1>2, DaoInvariant, PTL DEF SubmitterRewarded, Spec


-------------------------------------------------------------------------------
(* The whole is an instance of each of its parts. *)

\* What the contract does to its liquidity providers is what lp.rs and callback.rs do.
LEMMA LpMoves ==
  ASSUME DaoInv, [Next]_vars
  PROVE  [Lp!Next]_(Lp!vars)
<1>1. ASSUME NEW u \in Users, NEW amount \in 1..MaxAmount, NEW max_tokens \in Caps,
             Deposit(u, amount, max_tokens)
      PROVE  Lp!Next
  BY <1>1, (bid_attempt # None) \in BOOLEAN DEF Deposit, Lp!Next
<1>2. ASSUME NEW u \in Users, NEW amount \in 0..MaxAmount, Withdraw(u, amount)
      PROVE  Lp!Next
  <2>1. /\ now \in Nat /\ auction.closing \in Nat
        /\ config.withdraw_time_buffer_secs \in Nat
    BY BidFacts, ConfigFacts DEF BidP!CurrentAuction
  <2> QED BY <1>2, <2>1, (bid_attempt # None) \in BOOLEAN DEF Withdraw, Lp!Next
<1>3. ASSUME NEW u \in Users, Harvest(u)
      PROVE  Lp!Next
  BY <1>3 DEF Harvest, Lp!Next
<1>4. ASSUME NEW sender \in Bidders, NEW routed \in SUBSET Assets,
             NEW liquid \in SUBSET Assets, NEW taken \in [Assets -> 0..MaxBasket],
             NEW proceeds \in [Assets -> Prices],
             TrySettle(sender, routed, liquid, taken, proceeds), UNCHANGED config
      PROVE  Lp!Next \/ UNCHANGED lp_vars
  BY <1>4, TrySettleStep
<1>5. ASSUME NEW admin \in Admins, NEW asset \in Assets, NEW target \in SwapTargets,
             NEW amount \in 1..MaxBasket, NEW received \in Prices,
             ManualSwap(admin, asset, target, amount, received), UNCHANGED config
      PROVE  Lp!Next
  BY <1>5, ManualSwapStep
<1>6. \/ \E u \in Users, amount \in 1..MaxAmount, max_tokens \in Caps :
           Deposit(u, amount, max_tokens)
      \/ \E u \in Users, amount \in 0..MaxAmount : Withdraw(u, amount)
      \/ \E u \in Users : Harvest(u)
      \/ \E sender \in Bidders, routed, liquid \in SUBSET Assets,
            taken \in [Assets -> 0..MaxBasket], proceeds \in [Assets -> Prices] :
           TrySettle(sender, routed, liquid, taken, proceeds) /\ UNCHANGED config
      \/ \E admin \in Admins, asset \in Assets, target \in SwapTargets,
            amount \in 1..MaxBasket, received \in Prices :
           ManualSwap(admin, asset, target, amount, received) /\ UNCHANGED config
      \/ UNCHANGED lp_vars
  BY DEF Next, Step, UpdateConfig, FundsArrive, TryBid, RivalBid,
       TryClearCurrentBid, CloseRound, ChainStep, vars
<1>7. UNCHANGED lp_vars => UNCHANGED Lp!vars
  BY DEF lp_vars, Lp!vars
<1> QED BY <1>1, <1>2, <1>3, <1>4, <1>5, <1>6, <1>7

\* What it does to its bid is what auction.rs and the auction do.
LEMMA BidMoves ==
  ASSUME DaoInv, [Next]_vars
  PROVE  [Bid!Next]_(Bid!vars)
<1>1. ASSUME NEW sender \in Bidders, NEW round \in Bid!Rounds, NEW value \in Values,
             TryBid(sender, round, value)
      PROVE  Bid!Next
  <2>1. /\ value \in Nat /\ balance \in Nat
        /\ config.bid_time_buffer_secs \in Nat
    BY DaoAssumption, ConfigFacts DEF DaoInv, DaoTypeOK
  <2> QED BY <1>1, <2>1 DEF TryBid, Bid!Next
<1>2. ASSUME \/ \E amount \in 1..MaxBid : RivalBid(amount)
             \/ TryClearCurrentBid
             \/ CloseRound
             \/ ChainStep
      PROVE  Bid!Next
  BY <1>2 DEF RivalBid, TryClearCurrentBid, CloseRound, ChainStep, Bid!Next
<1>3. ASSUME NEW sender \in Bidders, NEW routed \in SUBSET Assets,
             NEW liquid \in SUBSET Assets, NEW taken \in [Assets -> 0..MaxBasket],
             NEW proceeds \in [Assets -> Prices],
             TrySettle(sender, routed, liquid, taken, proceeds), UNCHANGED config
      PROVE  Bid!Next
  BY <1>3 DEF TrySettle, Bid!Next, Bid!Settle, Assets
<1>4. \/ \E sender \in Bidders, round \in Bid!Rounds, value \in Values :
           TryBid(sender, round, value)
      \/ \E amount \in 1..MaxBid : RivalBid(amount)
      \/ TryClearCurrentBid \/ CloseRound \/ ChainStep
      \/ \E sender \in Bidders, routed, liquid \in SUBSET Assets,
            taken \in [Assets -> 0..MaxBasket], proceeds \in [Assets -> Prices] :
           TrySettle(sender, routed, liquid, taken, proceeds) /\ UNCHANGED config
      \/ UNCHANGED bid_vars
  BY DEF Next, Step, UpdateConfig, Deposit, Withdraw, Harvest, FundsArrive, ManualSwap, vars
<1>5. UNCHANGED bid_vars => UNCHANGED Bid!vars
  BY DEF bid_vars, Bid!vars, Bid!chain, Bid!history
<1> QED BY <1>1, <1>2, <1>3, <1>4, <1>5

\* Each part, seen alone, behaves in the contract as its own module says, so that the
\* theorems about Lp and Auction, their refinements included, hold of the contract.
THEOREM PartsKept == Spec => Lp!Spec /\ Bid!Spec
<1>1. Init => Lp!Init /\ Bid!Init
  BY DEF Init
<1>2. DaoInv /\ [Next]_vars => [Lp!Next]_(Lp!vars) /\ [Bid!Next]_(Bid!vars)
  BY LpMoves, BidMoves
<1> QED BY <1>1, <1>2, DaoInvariant, PTL DEF Spec, Lp!Spec, Bid!Spec

\* LpP and BidP take the steps of Lp and Bid.
LEMMA SameParts ==
  /\ Lp!Init <=> LpP!Init
  /\ [Lp!Next]_(Lp!vars) <=> [LpP!Next]_(LpP!vars)
  /\ Bid!Init <=> BidP!Init
  /\ [Bid!Next]_(Bid!vars) <=> [BidP!Next]_(BidP!vars)
<1>1. Lp!Init <=> LpP!Init
  BY DEF Lp!Init, LpP!Init, Lp!DefaultAccount, LpP!DefaultAccount
<1>2. Lp!Next <=> LpP!Next
  BY SameLp DEF Lp!Next, LpP!Next
<1>3. Lp!vars = LpP!vars /\ Lp!vars' = LpP!vars'
  BY DEF Lp!vars, LpP!vars
<1>4. Bid!Init <=> BidP!Init
  BY DEF Bid!Init, BidP!Init, Bid!EmptyBasket, BidP!EmptyBasket, Bid!Rounds, BidP!Rounds
<1>5. Bid!Next <=> BidP!Next
  BY SameBid DEF Bid!Next, BidP!Next, Bid!Settle, BidP!Settle, Bid!Rounds, BidP!Rounds
<1>6. Bid!vars = BidP!vars /\ Bid!vars' = BidP!vars'
  BY DEF Bid!vars, BidP!vars, Bid!chain, BidP!chain, Bid!history, BidP!history
<1>7. [Lp!Next]_(Lp!vars) <=> [LpP!Next]_(LpP!vars)
  BY <1>2, <1>3
<1>8. [Bid!Next]_(Bid!vars) <=> [BidP!Next]_(BidP!vars)
  BY <1>5, <1>6
<1> QED BY <1>1, <1>4, <1>7, <1>8

\* The whole contract keeps the promises of its parts: what it owes its providers is what
\* a ledger that credits every profit at once says, and their INJ backs one bid at a time.
THEOREM PromisesKept == Spec => LpP!RefinesLedger /\ BidP!RefinesEscrow
<1>1. Lp!Spec => LpP!Spec
  BY SameParts, PTL DEF Lp!Spec, LpP!Spec
<1>2. Bid!Spec => BidP!Spec
  BY SameParts, PTL DEF Bid!Spec, BidP!Spec
<1>3. LpP!Spec => LpP!RefinesLedger
  BY LpAssumed, LpP!Refinement
<1>4. BidP!Spec => BidP!RefinesEscrow
  BY BidAssumed, BidP!EscrowRefinement
<1> QED BY <1>1, <1>2, <1>3, <1>4, PartsKept, PTL

===============================================================================

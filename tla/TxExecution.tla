------------------------------ MODULE TxExecution -----------------------------
(***************************************************************************)
(* A transaction of the contract step by step (contract.rs, auction.rs,    *)
(* admins.rs, callback.rs).  The handler runs and returns messages; they   *)
(* are executed in order, the reply of a message right after it and the    *)
(* messages that a handler or a reply returns before those that wait.      *)
(* Nothing else happens in between, but any step may be the last one: when *)
(* a message is refused or the gas runs out, all of it is undone.          *)
(*                                                                         *)
(* The variables of AuctionDao and the transient items are what the chain  *)
(* has stored.  A transaction works on a copy of what it may change, which *)
(* is written back when it commits.                                        *)
(***************************************************************************)
EXTENDS AuctionDao, Sequences, Functions

ASSUME TxAssumption ==
  /\ Contract \notin Bidders   \* the contract never sends TryBid
  /\ Prices # {}

VARIABLES
  bid_attempt_transient,      \* BID_ATTEMPT_TRANSIENT, or None
  settled_amount_transient,   \* SETTLED_AMOUNT_TRANSIENT, or None
  tx                          \* the transaction that runs, or None: its copy of the store
                              \* and the messages that wait

transients == <<bid_attempt_transient, settled_amount_transient>>
tx_vars == <<vars, transients, tx>>

\* What a transaction may change; the rest is left alone by all that have several steps.
Store ==
  [bid_attempt |-> bid_attempt, auction |-> auction, stake |-> stake, payouts |-> payouts,
   global |-> global, profit_earned |-> profit_earned,
   balance |-> balance, holdings |-> holdings, arrived |-> arrived,
   surplus |-> surplus, lost |-> lost, bidder_rewards |-> bidder_rewards,
   bid_attempt_transient |-> bid_attempt_transient,
   settled_amount_transient |-> settled_amount_transient]

\* A handler returns its messages.
Begin(store, messages) ==
  /\ tx = None
  /\ tx' = [store |-> store, queue |-> messages]
  /\ UNCHANGED <<vars, transients>>

\* The first message that waits is of this type.
Waits(type) == tx # None /\ tx.queue # <<>> /\ Head(tx.queue).type = type

Message == Head(tx.queue)

\* The first message is done; those that it gave rise to come before the others.
Done(store, messages) ==
  /\ tx' = [store |-> store, queue |-> messages \o Tail(tx.queue)]
  /\ UNCHANGED <<vars, transients>>

TxInit ==
  /\ Init
  /\ bid_attempt_transient = None
  /\ settled_amount_transient = None
  /\ tx = None

-------------------------------------------------------------------------------
(* Handlers. *)

BeginTryBid(sender, round, value) ==
  LET amount == Bid!MinBidSize(auction.highestBidAmount) IN
  /\ round = auction.round
  /\ auction.highestBidder # Contract
  /\ Bid!PreviousBidSettled
  /\ Bid!InBidTime(config.bid_time_buffer_secs)
  /\ Bid!RouterValue(value)
  /\ value > amount
  /\ Begin([Store EXCEPT !.bid_attempt_transient = Bid!Attempt(sender, round, amount)],
           <<[type |-> "bid", round |-> round, amount |-> amount]>>)

OrderMsg(d, amount, target) ==
  [type |-> "order", denom |-> d, amount |-> amount, target |-> target]

CallbackMsg(sender, attempt) ==
  [type |-> "callback", sender |-> sender, bid_attempt |-> attempt]

\* Mutant: the response is returned without the callback.
CallbackForgotten(orders, attempt) == orders

\* The orders are submessages of the response, the callback is a message after them.
SettleMessages(orders, attempt) == Append(orders, CallbackMsg(Contract, attempt))

\* The ways in which the assets of a basket may be listed.
Listings(S) == Bijection(1..Cardinality(S), S)

\* All the orders are made before the first of them is executed.
BeginTrySettle(routed, liquid) ==
  LET sold    == Bid!Sold(bid_attempt.basket, routed)
      cleared == [Store EXCEPT !.bid_attempt_transient = None, !.bid_attempt = None]
  IN
  /\ Bid!ResultKnown
  /\ \/ /\ last_result.winner # Contract
        /\ Begin(cleared, <<>>)
     \/ /\ last_result.winner = Contract
        /\ sold \subseteq liquid
        /\ \E list \in Listings(sold) :
             Begin([cleared EXCEPT !.settled_amount_transient = InitialAmount(bid_attempt)],
                   SettleMessages(
                     [i \in 1..Cardinality(sold) |->
                        OrderMsg(list[i], bid_attempt.basket[list[i]], INJ)],
                     bid_attempt))

\* BidAttempt::manual_swap
manual_swap_attempt ==
  [round |-> 0, amount |-> 0, submitted_by |-> Contract, basket |-> Bid!EmptyBasket]

BeginManualSwap(sender, asset, target, amount) ==
  /\ sender = config.admin
  /\ asset # target
  /\ Begin([Store EXCEPT !.settled_amount_transient = 0],
           SettleMessages(<<OrderMsg(asset, amount, target)>>, manual_swap_attempt))

\* Anyone may send the message that the contract sends to itself, with any attempt.
BeginForgedCallback(sender) ==
  Begin(Store, <<CallbackMsg(sender, [manual_swap_attempt EXCEPT !.submitted_by = sender])>>)

-------------------------------------------------------------------------------
(* Messages and replies. *)

\* MsgBid takes the INJ; the bidder that it refunds is another one.
ExecuteBid ==
  LET store == tx.store IN
  /\ Waits("bid")
  /\ Message.amount <= store.balance
  /\ Message.round = store.auction.round
  /\ Bid!Outbids(Message.amount, store.auction.highestBidAmount)
  /\ store.auction.round <= MaxRound /\ Message.amount <= MaxBid   \* bounds
  /\ Done([store EXCEPT
             !.auction = [store.auction EXCEPT !.highestBidder = Contract,
                                               !.highestBidAmount = Message.amount],
             !.balance = @ - Message.amount,
             !.stake   = [bid |-> store.bid_attempt_transient, spent |-> FALSE]],
          <<[type |-> "bid_reply"]>>)

\* Mutant: the transient attempt stays behind.
ReplyKeepsTransient ==
  /\ Waits("bid_reply")
  /\ tx.store.bid_attempt_transient # None
  /\ Done([tx.store EXCEPT !.bid_attempt = tx.store.bid_attempt_transient], <<>>)

ReplyTryBid ==
  /\ Waits("bid_reply")
  /\ tx.store.bid_attempt_transient # None
  /\ Done([tx.store EXCEPT !.bid_attempt = tx.store.bid_attempt_transient,
                           !.bid_attempt_transient = None], <<>>)

\* The exchange takes at most the amount of the order and pays in the other
\* denomination of the market.
ExecuteOrder(taken, received) ==
  LET store == tx.store IN
  /\ Waits("order")
  /\ taken <= Message.amount
  /\ taken <= store.holdings[Message.denom]
  /\ Done([store EXCEPT
             !.holdings = Swapped(@, Message.denom, Message.target, taken, received),
             !.balance  = IF Message.target = INJ THEN @ + received ELSE @],
          <<[type |-> "order_reply", received |-> received]>>)

\* Mutant: a reply replaces the amount settled so far.
Replaced(settled, received) == received

Added(settled, received) == settled + received

ReplySellAsset ==
  /\ Waits("order_reply")
  /\ tx.store.settled_amount_transient # None
  /\ Done([tx.store EXCEPT !.settled_amount_transient = Added(@, Message.received)], <<>>)

\* What the callback changes in the store.
Credited(store, dao_profit) ==
  [store EXCEPT
     !.settled_amount_transient = None,
     !.profit_earned = @ + dao_profit,
     !.global = Lp!update_global_index(
                  [store.global EXCEPT !.profit_to_distribute = @ + dao_profit])]

\* The history of a settlement.
Resolved(store, attempt, settled) ==
  [store EXCEPT
     !.payouts = [store.payouts EXCEPT ![attempt.round] = @ + 1],
     !.stake   = IF @ # None /\ @.bid.round = attempt.round THEN None ELSE @,
     !.arrived = 0,
     !.surplus = @ + store.arrived - InitialAmount(attempt),
     !.lost    = @ + Lp!Profit(attempt.amount, settled)]

\* The callback, which only the contract may send.
ExecuteCallback ==
  LET attempt     == Message.bid_attempt
      settled     == tx.store.settled_amount_transient
      by_contract == attempt.submitted_by = Contract
      profit      == Lp!Profit(settled, attempt.amount)
      reward      == Lp!WinningReward(profit, config.winning_bidder_reward_bps, by_contract)
      credited    == Credited(tx.store, profit - reward)
  IN
  /\ Waits("callback")
  /\ Message.sender = Contract
  /\ settled # None
  /\ Lp!Share(profit, config.winning_bidder_reward_bps) <= profit
  /\ tx.store.profit_earned + (profit - reward) <= MaxProfit   \* bound
  /\ Done(IF by_contract THEN credited ELSE Resolved(credited, attempt, settled),
          IF reward > 0
          THEN <<[type |-> "send", to |-> attempt.submitted_by, amount |-> reward]>>
          ELSE <<>>)

\* The bank sends the reward.
ExecuteSend ==
  LET store == tx.store IN
  /\ Waits("send")
  /\ Message.amount <= store.balance
  /\ Done([store EXCEPT
             !.balance        = @ - Message.amount,
             !.bidder_rewards =
               [store.bidder_rewards EXCEPT ![Message.to] = @ + Message.amount]],
          <<>>)

Commit ==
  /\ tx # None
  /\ tx.queue = <<>>
  /\ bid_attempt' = tx.store.bid_attempt
  /\ auction' = tx.store.auction
  /\ stake' = tx.store.stake
  /\ payouts' = tx.store.payouts
  /\ global' = tx.store.global
  /\ profit_earned' = tx.store.profit_earned
  /\ balance' = tx.store.balance
  /\ holdings' = tx.store.holdings
  /\ arrived' = tx.store.arrived
  /\ surplus' = tx.store.surplus
  /\ lost' = tx.store.lost
  /\ bidder_rewards' = tx.store.bidder_rewards
  /\ bid_attempt_transient' = tx.store.bid_attempt_transient
  /\ settled_amount_transient' = tx.store.settled_amount_transient
  /\ tx' = None
  /\ UNCHANGED <<config, user_accounts, rewards_paid, last_result, now, won, donated>>

\* A message is refused, or the gas runs out.
Revert ==
  /\ tx # None
  /\ tx' = None
  /\ UNCHANGED <<vars, transients>>

\* Transactions with one step, and the chain.
SimpleStep ==
  /\ tx = None
  /\ \/ /\ \/ \E u \in Users, amount \in 1..MaxAmount, max_tokens \in Caps :
                Deposit(u, amount, max_tokens)
           \/ \E u \in Users, amount \in 0..MaxAmount : Withdraw(u, amount)
           \/ \E u \in Users : Harvest(u)
           \/ \E amount \in 1..MaxBid : RivalBid(amount)
           \/ TryClearCurrentBid
           \/ CloseRound
           \/ ChainStep
           \/ \E d \in Donations, amount \in 1..MaxDonated : FundsArrive(d, amount)
        /\ UNCHANGED config
     \/ \E sender \in Admins, new_config \in Configs : UpdateConfig(sender, new_config)
  /\ UNCHANGED <<transients, tx>>

TxNext ==
  \/ SimpleStep
  \/ \E sender \in Bidders, round \in Bid!Rounds, value \in Values :
       BeginTryBid(sender, round, value)
  \/ \E routed, liquid \in SUBSET Assets : BeginTrySettle(routed, liquid)
  \/ \E sender \in Admins, asset \in Assets, target \in SwapTargets, amount \in 1..MaxBasket :
       BeginManualSwap(sender, asset, target, amount)
  \/ \E sender \in Bidders : BeginForgedCallback(sender)
  \/ ExecuteBid
  \/ ReplyTryBid
  \/ \E taken \in 1..MaxBasket, received \in Prices : ExecuteOrder(taken, received)
  \/ ReplySellAsset
  \/ ExecuteCallback
  \/ ExecuteSend
  \/ Commit
  \/ Revert

TxSpec == TxInit /\ [][TxNext]_tx_vars

-------------------------------------------------------------------------------
(* Properties. *)

\* However a transaction is interrupted, what it stores is one step of AuctionDao: the
\* bid with its record, the whole sale with its callback and its reward, or nothing.
RefinesDao == Spec

\* No transaction leaves a transient item for a later one to find: an attempt that was
\* not bid, an amount that was settled before.
TransientsEmpty == transients = <<None, None>>

\* INJ that came in with an order whose reply has not run.
Unanswered == IF Waits("order_reply") THEN Message.received ELSE 0

\* While a sale runs, the settled amount is the INJ of the basket and the INJ that the
\* orders of this transaction brought in, each counted once.
SettledCounted ==
  tx # None /\ tx.store.settled_amount_transient # None
    => tx.store.settled_amount_transient + Unanswered
         = InitialAmount(tx.queue[Len(tx.queue)].bid_attempt)
             + (tx.store.balance - balance)

===============================================================================

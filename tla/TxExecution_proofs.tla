--------------------------- MODULE TxExecution_proofs --------------------------
(***************************************************************************)
(* What a transaction stores is one step of AuctionDao.  The invariant     *)
(* says, for every transaction that runs, how far it got: what its copy of *)
(* the store holds by then and which messages are left.                    *)
(***************************************************************************)
EXTENDS TxExecution, AuctionDao_proofs, SequenceTheorems

-------------------------------------------------------------------------------
(* The first message of a queue is replaced by those it gave rise to. *)

\* A queue of one message: it is done, or replaced by another one.
LEMMA OneMessage ==
  ASSUME NEW m, NEW n
  PROVE  /\ Head(<<m>>) = m
         /\ <<>> \o Tail(<<m>>) = <<>>
         /\ <<n>> \o Tail(<<m>>) = <<n>>
         /\ <<m>> # <<>>
OBVIOUS

\* A sequence is given by its elements.
LEMMA SeqOfOne ==
  ASSUME NEW S, NEW s \in Seq(S), Len(s) = 1
  PROVE  s = <<s[1]>>
<1> DEFINE t == <<s[1]>>
<1>1. s[1] \in S
  BY ElementOfSeq
<1>2. t \in Seq(S) /\ Len(t) = 1 /\ t[1] = s[1]
  BY <1>1
<1> HIDE DEF t
<1>3. Len(s) = Len(t) /\ \A i \in 1..Len(s) : s[i] = t[i]
  BY <1>2
<1>4. s = t
  BY <1>2, <1>3, SeqEqual, Zenon
<1> QED BY <1>4 DEF t

\* The same for two elements.
LEMMA SeqOfTwo ==
  ASSUME NEW S, NEW s \in Seq(S), Len(s) = 2
  PROVE  s = <<s[1], s[2]>>
<1> DEFINE t == <<s[1], s[2]>>
<1>1. s[1] \in S /\ s[2] \in S
  BY ElementOfSeq
<1>2. t \in Seq(S) /\ Len(t) = 2 /\ t[1] = s[1] /\ t[2] = s[2]
  BY <1>1
<1> HIDE DEF t
<1>3. Len(s) = Len(t) /\ \A i \in 1..Len(s) : s[i] = t[i]
  BY <1>2
<1>4. s = t
  BY <1>2, <1>3, SeqEqual, Zenon
<1> QED BY <1>4 DEF t

\* The head of a queue is replaced by its reply.
LEMMA Replied ==
  ASSUME NEW S, NEW q \in Seq(S), q # <<>>, NEW m
  PROVE  LET r == <<m>> \o Tail(q) IN
         /\ r \in Seq(S \cup {m})
         /\ Len(r) = Len(q)
         /\ r[1] = m
         /\ \A i \in 2..Len(q) : r[i] = q[i]
OBVIOUS

\* The head of a queue is done and leaves nothing.
LEMMA Finished ==
  ASSUME NEW S, NEW q \in Seq(S), q # <<>>
  PROVE  LET r == <<>> \o Tail(q) IN
         /\ r \in Seq(S)
         /\ Len(r) = Len(q) - 1
         /\ \A i \in 1..(Len(q) - 1) : r[i] = q[i + 1]
OBVIOUS

\* The response of manual_swap: the order, then the callback.
LEMMA AppendedTwo ==
  ASSUME NEW m, NEW k
  PROVE  Append(<<m>>, k) = <<m, k>>
<1> DEFINE q == <<m>>
           r == Append(q, k)
           S == {m, k}
<1>1. q \in Seq(S) /\ k \in S /\ Len(q) = 1 /\ q[1] = m
  OBVIOUS
<1> HIDE DEF q, S
<1>2. /\ r \in Seq(S) /\ Len(r) = Len(q) + 1 /\ r[Len(q) + 1] = k
      /\ \A i \in 1..Len(q) : r[i] = q[i]
  BY <1>1
<1>3. 1 \in 1..Len(q)
  BY <1>1
<1> HIDE DEF r
<1>4. r = <<m, k>>
  BY <1>1, <1>2, <1>3, SeqOfTwo
<1> QED BY <1>4 DEF q, r

\* A queue of two messages: the first is done, or replaced by another one.
LEMMA TwoMessages ==
  ASSUME NEW m, NEW k, NEW n
  PROVE  /\ Head(<<m, k>>) = m
         /\ <<>> \o Tail(<<m, k>>) = <<k>>
         /\ <<n>> \o Tail(<<m, k>>) = <<n, k>>
         /\ <<m, k>> # <<>>
<1> DEFINE q == <<m, k>>
           r == <<>> \o Tail(q)
           t == <<n>> \o Tail(q)
<1>1. /\ q \in Seq({m, k}) /\ Len(q) = 2 /\ q[1] = m /\ q[2] = k
      /\ q # <<>> /\ Head(q) = m
  OBVIOUS
<1> HIDE DEF q
<1>2. r \in Seq({m, k}) /\ Len(r) = 1 /\ r[1] = k
  BY <1>1, Finished
<1>3. t \in Seq({m, k} \cup {n}) /\ Len(t) = 2 /\ t[1] = n /\ t[2] = k
  <2>1. 2 \in 2..Len(q)
    BY <1>1
  <2>2. /\ t \in Seq({m, k} \cup {n}) /\ Len(t) = Len(q) /\ t[1] = n
        /\ \A i \in 2..Len(q) : t[i] = q[i]
    BY <1>1, Replied
  <2> HIDE DEF t
  <2> QED BY <1>1, <2>1, <2>2
<1> HIDE DEF r, t
<1>4. r = <<k>> /\ t = <<n, k>>
  BY <1>2, <1>3, SeqOfOne, SeqOfTwo
<1> QED BY <1>1, <1>4 DEF q, r, t

-------------------------------------------------------------------------------
(* A bid that is being placed. *)

BidGuards(round, value) ==
  /\ round = auction.round
  /\ auction.highestBidder # Contract
  /\ Bid!PreviousBidSettled
  /\ Bid!InBidTime(config.bid_time_buffer_secs)
  /\ Bid!RouterValue(value)
  /\ value > Bid!MinBidSize(auction.highestBidAmount)

Accepted(amount) ==
  /\ amount <= balance
  /\ Bid!Outbids(amount, auction.highestBidAmount)
  /\ auction.round <= MaxRound /\ amount <= MaxBid

Asked(bid) == [Store EXCEPT !.bid_attempt_transient = bid]

Bidden(bid) ==
  [Asked(bid) EXCEPT
     !.auction = [auction EXCEPT !.highestBidder = Contract, !.highestBidAmount = bid.amount],
     !.balance = @ - bid.amount,
     !.stake   = [bid |-> bid, spent |-> FALSE]]

Recorded(bid) ==
  [Bidden(bid) EXCEPT !.bid_attempt = bid, !.bid_attempt_transient = None]

Bidding ==
  \E sender \in Bidders, round \in Bid!Rounds, value \in Values :
    LET amount == Bid!MinBidSize(auction.highestBidAmount)
        bid    == Bid!Attempt(sender, round, amount)
    IN
    /\ BidGuards(round, value)
    /\ \/ /\ tx.store = Asked(bid)
          /\ tx.queue = <<[type |-> "bid", round |-> round, amount |-> amount]>>
       \/ /\ Accepted(amount)
          /\ tx.store = Bidden(bid)
          /\ tx.queue = <<[type |-> "bid_reply"]>>
       \/ /\ Accepted(amount)
          /\ tx.store = Recorded(bid)
          /\ tx.queue = <<>>

-------------------------------------------------------------------------------
(* A manual swap. *)

SwapReply(received) == [type |-> "order_reply", received |-> received]

SwapCallback == CallbackMsg(Contract, manual_swap_attempt)

Sold(asset, target, taken, received, settled) ==
  [Store EXCEPT
     !.settled_amount_transient = settled,
     !.holdings = Swapped(@, asset, target, taken, received),
     !.balance  = IF target = INJ THEN @ + received ELSE @]

Swapping ==
  \E sender \in Admins, asset \in Assets, target \in SwapTargets :
    /\ sender = config.admin
    /\ asset # target
    /\ \/ \E amount \in 1..MaxBasket :
            /\ tx.store = [Store EXCEPT !.settled_amount_transient = 0]
            /\ tx.queue = <<OrderMsg(asset, amount, target), SwapCallback>>
       \/ \E taken \in 1..MaxBasket, received \in Prices :
            /\ taken <= holdings[asset]
            /\ \/ /\ tx.store = Sold(asset, target, taken, received, 0)
                  /\ tx.queue = <<SwapReply(received), SwapCallback>>
               \/ /\ tx.store = Sold(asset, target, taken, received, received)
                  /\ tx.queue = <<SwapCallback>>
               \/ /\ Lp!Share(received, config.winning_bidder_reward_bps) <= received
                  /\ profit_earned + received <= MaxProfit
                  /\ tx.store =
                       Credited(Sold(asset, target, taken, received, received), received)
                  /\ tx.queue = <<>>

-------------------------------------------------------------------------------
(* A settlement. *)

Forgetting ==
  /\ Bid!ResultKnown
  /\ last_result.winner # Contract
  /\ tx.store = [Store EXCEPT !.bid_attempt = None]
  /\ tx.queue = <<>>

SettleGuards(routed, liquid) ==
  /\ Bid!ResultKnown
  /\ last_result.winner = Contract
  /\ Bid!Sold(bid_attempt.basket, routed) \subseteq liquid

\* What the sale took and brought in so far; 0 for an order that waits.
Sales(sold, taken, proceeds) ==
  /\ taken \in [Assets -> 0..MaxBasket]
  /\ proceeds \in [Assets -> Nat]
  /\ \A d \in Assets \ sold : taken[d] = 0
  /\ \A d \in sold : taken[d] <= bid_attempt.basket[d] /\ taken[d] <= holdings[d]

Income(sold, proceeds) == Total([d \in sold |-> proceeds[d]])

Selling(sold, taken, proceeds, settled) ==
  [Store EXCEPT
     !.bid_attempt = None,
     !.settled_amount_transient = settled,
     !.holdings = [d \in Assets |-> holdings[d] - taken[d]],
     !.balance  = balance + Income(sold, proceeds)]

SaleOrder(d) == OrderMsg(d, bid_attempt.basket[d], INJ)

\* The queue ends with the callback; before it are the orders that wait, each once, and
\* at its head may be the reply of the order that was made.
SaleQueue(q, sold, taken, proceeds) ==
  /\ \E S : q \in Seq(S)
  /\ q # <<>>
  /\ q[Len(q)] = CallbackMsg(Contract, bid_attempt)
  /\ \A i \in 1..(Len(q) - 1) :
       \/ \E d \in sold : q[i] = SaleOrder(d) /\ taken[d] = 0 /\ proceeds[d] = 0
       \/ i = 1 /\ \E received \in Prices : q[i] = SwapReply(received)
  /\ \A i, j \in 1..(Len(q) - 1) : q[i].type = "order" /\ q[i] = q[j] => i = j
  /\ \A d \in sold : \/ proceeds[d] \in Prices
                     \/ \E i \in 1..(Len(q) - 1) : q[i] = SaleOrder(d)

\* What the head of the queue is about to add to the settled amount.
Pending(q) == IF Head(q).type = "order_reply" THEN Head(q).received ELSE 0

\* The split of what was settled.
Gross(settled)  == Lp!Profit(settled, bid_attempt.amount)
Reward(settled) ==
  Lp!WinningReward(Gross(settled), config.winning_bidder_reward_bps, FALSE)

SoldOff(sold, taken, proceeds) ==
  LET settled == Settled(bid_attempt, sold, proceeds) IN
  Resolved(Credited(Selling(sold, taken, proceeds, settled), Gross(settled) - Reward(settled)),
           bid_attempt, settled)

PaidOff(store, reward) ==
  [store EXCEPT
     !.balance = @ - reward,
     !.bidder_rewards =
       [store.bidder_rewards EXCEPT ![bid_attempt.submitted_by] = @ + reward]]

RewardMsg(reward) == [type |-> "send", to |-> bid_attempt.submitted_by, amount |-> reward]

\* Orders wait, or only the callback.
SaleGoesOn(sold, taken, proceeds) ==
  /\ SaleQueue(tx.queue, sold, taken, proceeds)
  /\ \E n \in Nat : /\ n + Pending(tx.queue) = Settled(bid_attempt, sold, proceeds)
                    /\ tx.store = Selling(sold, taken, proceeds, n)

\* The callback was executed, and the reward may have been sent.
SaleOver(sold, taken, proceeds) ==
  LET settled == Settled(bid_attempt, sold, proceeds)
      reward  == Reward(settled)
  IN
  /\ \A d \in sold : proceeds[d] \in Prices
  /\ Lp!Share(Gross(settled), config.winning_bidder_reward_bps) <= Gross(settled)
  /\ profit_earned + (Gross(settled) - reward) <= MaxProfit
  /\ \/ /\ tx.store = SoldOff(sold, taken, proceeds)
        /\ tx.queue = IF reward > 0 THEN <<RewardMsg(reward)>> ELSE <<>>
     \/ /\ reward <= balance + Income(sold, proceeds)
        /\ tx.store = PaidOff(SoldOff(sold, taken, proceeds), reward)
        /\ tx.queue = <<>>

Settling ==
  \E routed, liquid \in SUBSET Assets, taken \in [Assets -> 0..MaxBasket],
     proceeds \in [Assets -> Nat] :
    LET sold == Bid!Sold(bid_attempt.basket, routed) IN
    /\ SettleGuards(routed, liquid)
    /\ Sales(sold, taken, proceeds)
    /\ SaleGoesOn(sold, taken, proceeds) \/ SaleOver(sold, taken, proceeds)

-------------------------------------------------------------------------------
(* The invariant. *)

\* A callback that the contract did not send finds no settled amount.
Forging ==
  /\ tx.store = Store
  /\ \E m : tx.queue = <<m>> /\ m.type = "callback"

Running == Bidding \/ Swapping \/ Forgetting \/ Settling \/ Forging

TxInv ==
  /\ DaoInv
  /\ TransientsEmpty
  /\ tx # None => Running

\* While a transaction runs, what is stored stays as it is.
LEMMA Unmoved ==
  ASSUME UNCHANGED <<vars, transients>>
  PROVE  /\ UNCHANGED vars
         /\ Store' = Store
         /\ UNCHANGED <<config, lp_vars, bid_vars, purse>>
BY DEF vars, transients, lp_vars, bid_vars, purse, Store

-------------------------------------------------------------------------------
(* The type of the message that is next tells which transaction it is. *)

HeadIn(types) == tx.queue = <<>> \/ Head(tx.queue).type \in types

\* try_bid has MsgBid and its reply.
LEMMA BiddingHead == ASSUME Bidding PROVE HeadIn({"bid", "bid_reply"})
BY OneMessage DEF Bidding, HeadIn

\* manual_swap has an order, its reply and the callback.
LEMMA SwappingHead == ASSUME Swapping PROVE HeadIn({"order", "order_reply", "callback"})
<1>1. \/ \E asset, amount, target :
              tx.queue = <<OrderMsg(asset, amount, target), SwapCallback>>
      \/ \E received : tx.queue = <<SwapReply(received), SwapCallback>>
      \/ tx.queue \in {<<SwapCallback>>, <<>>}
  BY DEF Swapping
<1>2. CASE \E m : /\ tx.queue = <<m, SwapCallback>>
                  /\ m.type \in {"order", "order_reply"}
  BY <1>2, TwoMessages DEF HeadIn
<1>3. CASE tx.queue \in {<<SwapCallback>>, <<>>}
  BY <1>3, OneMessage DEF HeadIn, SwapCallback, CallbackMsg
<1>4. /\ \A asset, amount, target : OrderMsg(asset, amount, target).type = "order"
      /\ \A received : SwapReply(received).type = "order_reply"
  BY DEF OrderMsg, SwapReply
<1> QED BY <1>1, <1>2, <1>3, <1>4

\* The head of the queue of a sale: an order that waits, a reply, or the callback when
\* nothing else is left.
LEMMA SaleHead ==
  ASSUME NEW q, NEW sold, NEW taken, NEW proceeds, SaleQueue(q, sold, taken, proceeds)
  PROVE  /\ q # <<>> /\ Head(q) = q[1] /\ Len(q) \in Nat /\ Len(q) >= 1
         /\ \/ Len(q) = 1 /\ Head(q) = CallbackMsg(Contract, bid_attempt)
            \/ /\ Len(q) > 1
               /\ \E d \in sold : /\ Head(q) = SaleOrder(d)
                                  /\ taken[d] = 0 /\ proceeds[d] = 0
            \/ /\ Len(q) > 1
               /\ \E received \in Prices : Head(q) = SwapReply(received)
<1>1. PICK S : q \in Seq(S)
  BY DEF SaleQueue
<1>2. q # <<>> /\ Head(q) = q[1] /\ Len(q) \in Nat /\ Len(q) >= 1
  <2>1. q # <<>>
    BY DEF SaleQueue
  <2> QED BY <1>1, <2>1, EmptySeq
<1>3. CASE Len(q) = 1
  BY <1>2, <1>3 DEF SaleQueue
<1>4. CASE Len(q) > 1
  <2>1. 1 \in 1..(Len(q) - 1)
    BY <1>2, <1>4
  <2>2. \/ \E d \in sold : q[1] = SaleOrder(d) /\ taken[d] = 0 /\ proceeds[d] = 0
        \/ \E received \in Prices : q[1] = SwapReply(received)
    BY <2>1 DEF SaleQueue
  <2> QED BY <1>2, <1>4, <2>2
<1>5. Len(q) = 1 \/ Len(q) > 1
  BY <1>2
<1> QED BY <1>2, <1>3, <1>4, <1>5, Zenon

\* try_settle has orders, their replies, the callback and the reward.
LEMMA SettlingHead ==
  ASSUME Settling PROVE HeadIn({"order", "order_reply", "callback", "send"})
<1>3. \/ \E sold, taken, proceeds : SaleQueue(tx.queue, sold, taken, proceeds)
      \/ \E reward : tx.queue \in {<<>>, <<RewardMsg(reward)>>}
  BY DEF Settling, SaleGoesOn, SaleOver
<1>1. CASE \E sold, taken, proceeds : SaleQueue(tx.queue, sold, taken, proceeds)
  BY <1>1, SaleHead DEF HeadIn, CallbackMsg, SaleOrder, OrderMsg, SwapReply
<1>2. CASE \E reward : tx.queue \in {<<>>, <<RewardMsg(reward)>>}
  BY <1>2, OneMessage DEF HeadIn, RewardMsg
<1> QED BY <1>1, <1>2, <1>3

\* The message that waits tells which transaction runs.
LEMMA WhatRuns ==
  ASSUME TxInv, tx # None
  PROVE  /\ Waits("bid") \/ Waits("bid_reply") => Bidding
         /\ Waits("order") \/ Waits("order_reply") => Swapping \/ Settling
         /\ Waits("callback") => Swapping \/ Settling \/ Forging
         /\ Waits("send") => Settling
<1>1. Forgetting => tx.queue = <<>>
  BY DEF Forgetting
<1>2. Forging => HeadIn({"callback"})
  BY OneMessage DEF Forging, HeadIn
<1> QED BY <1>1, <1>2, BiddingHead, SwappingHead, SettlingHead
  DEF TxInv, Running, HeadIn, Waits

-------------------------------------------------------------------------------
(* The steps of a bid. *)

\* While the bid runs, what it was begun with stays.
LEMMA BidFrame ==
  ASSUME UNCHANGED <<vars, transients>>
  PROVE  /\ Bid!MinBidSize(auction.highestBidAmount)'
              = Bid!MinBidSize(auction.highestBidAmount)
         /\ \A round, value : BidGuards(round, value)' = BidGuards(round, value)
         /\ \A amount : Accepted(amount)' = Accepted(amount)
         /\ \A sender, round, amount :
              Bid!Attempt(sender, round, amount)' = Bid!Attempt(sender, round, amount)
         /\ \A bid : /\ Asked(bid)' = Asked(bid)
                     /\ Bidden(bid)' = Bidden(bid)
                     /\ Recorded(bid)' = Recorded(bid)
<1>1. /\ Store' = Store /\ config' = config /\ auction' = auction /\ balance' = balance
      /\ now' = now /\ bid_attempt' = bid_attempt
  BY Unmoved DEF bid_vars, purse
<1> QED BY <1>1
  DEF BidGuards, Accepted, Asked, Bidden, Recorded, Bid!RouterValue, Bid!MinBidSize, Bid!Attempt,
      Bid!PreviousBidSettled, Bid!InBidTime, Bid!Outbids

\* MsgBid is accepted: the INJ is in the auction, the attempt still transient.
LEMMA ExecuteBidStep ==
  ASSUME TxInv, ExecuteBid
  PROVE  Bidding'
<1>1. Waits("bid") /\ tx # None /\ UNCHANGED <<vars, transients>>
  BY DEF ExecuteBid, Waits, Done
<1>3. Bidding
  BY <1>1, WhatRuns
<1> DEFINE amount == Bid!MinBidSize(auction.highestBidAmount)
           Attempt(sender, round) == Bid!Attempt(sender, round, amount)
<1>4. PICK sender \in Bidders, round \in Bid!Rounds, value \in Values :
        /\ BidGuards(round, value)
        /\ tx.store = Asked(Attempt(sender, round))
        /\ tx.queue = <<[type |-> "bid", round |-> round, amount |-> amount]>>
  <2>1. \A n : tx.queue # <<[type |-> "bid_reply"]>> /\ tx.queue # <<>>
    BY <1>1, OneMessage DEF Waits
  <2> QED BY <1>3, <2>1 DEF Bidding
<1>5. /\ tx.store.bid_attempt_transient = Attempt(sender, round)
      /\ tx.store.auction = auction
      /\ tx.store.balance = balance
      /\ Message.amount = amount
  BY <1>4, OneMessage DEF Asked, Store, Message
<1>6. Accepted(amount)
  BY <1>5 DEF ExecuteBid, Accepted
<1>7. tx'.queue = <<[type |-> "bid_reply"]>>
  BY <1>4, OneMessage DEF ExecuteBid, Done
<1>8. tx'.store = Bidden(Attempt(sender, round))
  BY <1>4, <1>5 DEF ExecuteBid, Done, Bidden, Asked, Store, Bid!Attempt
<1> QED BY <1>1, <1>4, <1>6, <1>7, <1>8, BidFrame DEF Bidding

\* The reply records the attempt.
LEMMA ReplyTryBidStep ==
  ASSUME TxInv, ReplyTryBid
  PROVE  Bidding'
<1>1. Waits("bid_reply") /\ tx # None /\ UNCHANGED <<vars, transients>>
  BY DEF ReplyTryBid, Waits, Done
<1>2. Bidding
  BY <1>1, WhatRuns
<1> DEFINE amount == Bid!MinBidSize(auction.highestBidAmount)
           Attempt(sender, round) == Bid!Attempt(sender, round, amount)
<1>3. PICK sender \in Bidders, round \in Bid!Rounds, value \in Values :
        /\ BidGuards(round, value)
        /\ Accepted(amount)
        /\ tx.store = Bidden(Attempt(sender, round))
        /\ tx.queue = <<[type |-> "bid_reply"]>>
  <2>1. \A n, r : tx.queue # <<[type |-> "bid", round |-> r, amount |-> n]>> /\ tx.queue # <<>>
    BY <1>1, OneMessage DEF Waits
  <2> QED BY <1>2, <2>1 DEF Bidding
<1>4. tx.store.bid_attempt_transient = Attempt(sender, round)
  BY <1>3 DEF Bidden, Asked, Store
<1>5. tx'.queue = <<>>
  BY <1>3, OneMessage DEF ReplyTryBid, Done
<1>6. tx'.store = Recorded(Attempt(sender, round))
  BY <1>3, <1>4 DEF ReplyTryBid, Done, Recorded, Bidden, Asked, Store
<1> QED BY <1>1, <1>3, <1>5, <1>6, BidFrame DEF Bidding

\* try_bid saves the attempt for the reply.
LEMMA BeginTryBidStep ==
  ASSUME TxInv, NEW sender \in Bidders, NEW round \in Bid!Rounds, NEW value \in Values,
         BeginTryBid(sender, round, value)
  PROVE  Bidding'
<1>1. UNCHANGED <<vars, transients>>
  BY DEF BeginTryBid, Begin
<1> DEFINE amount == Bid!MinBidSize(auction.highestBidAmount)
<1>2. /\ BidGuards(round, value)
      /\ tx'.store = Asked(Bid!Attempt(sender, round, amount))
      /\ tx'.queue = <<[type |-> "bid", round |-> round, amount |-> amount]>>
  BY DEF BeginTryBid, Begin, BidGuards, Asked
<1> QED BY <1>1, <1>2, BidFrame DEF Bidding

\* The stored bid is a bid of AuctionDao.
LEMMA CommitBid ==
  ASSUME TxInv, Bidding, Commit
  PROVE  Next /\ UNCHANGED transients
<1> DEFINE amount == Bid!MinBidSize(auction.highestBidAmount)
           Attempt(sender, round) == Bid!Attempt(sender, round, amount)
<1>1. PICK sender \in Bidders, round \in Bid!Rounds, value \in Values :
        /\ BidGuards(round, value)
        /\ Accepted(amount)
        /\ tx.store = Recorded(Attempt(sender, round))
  <2>1. \A m : tx.queue # <<m>>
    BY OneMessage DEF Commit
  <2> QED BY <2>1 DEF Bidding
<1> DEFINE bid == Attempt(sender, round)
<1>2. bid.amount = amount
  BY DEF Bid!Attempt
<1>3. /\ bid_attempt' = bid
      /\ auction' = [auction EXCEPT !.highestBidder = Contract, !.highestBidAmount = amount]
      /\ stake' = [bid |-> bid, spent |-> FALSE]
      /\ balance' = balance - amount
      /\ UNCHANGED <<payouts, global, profit_earned, holdings, arrived, surplus, lost,
                     bidder_rewards, settled_amount_transient>>
      /\ bid_attempt_transient' = None
      /\ UNCHANGED <<config, user_accounts, rewards_paid, last_result, now, won, donated>>
  BY <1>1, <1>2 DEF Commit, Recorded, Bidden, Asked, Store
<1>4. UNCHANGED transients
  BY <1>3 DEF TxInv, TransientsEmpty, transients
<1>5. Bid!TryBid(sender, round, value, balance, config.bid_time_buffer_secs)
  BY <1>1, <1>3 DEF Bid!TryBid, Bid!MsgBid, Bid!ReplyTryBid, BidGuards, Accepted
<1>6. TryBid(sender, round, value)
  BY <1>3, <1>5 DEF TryBid, lp_vars
<1> QED BY <1>3, <1>4, <1>6 DEF Next, Step

-------------------------------------------------------------------------------
(* The steps of a manual swap. *)

\* While the swap runs, what it was begun with stays.
LEMMA SwapFrame ==
  ASSUME UNCHANGED <<vars, transients>>
  PROVE  /\ config' = config /\ holdings' = holdings /\ profit_earned' = profit_earned
         /\ Store' = Store
         /\ \A asset, target, taken, received, settled :
              Sold(asset, target, taken, received, settled)'
                = Sold(asset, target, taken, received, settled)
<1>1. /\ config' = config /\ holdings' = holdings /\ profit_earned' = profit_earned
      /\ Store' = Store
  BY Unmoved DEF lp_vars, purse
<1> QED BY <1>1 DEF Sold

\* manual_swap starts to count from nothing.
LEMMA BeginManualSwapStep ==
  ASSUME TxInv, NEW sender \in Admins, NEW asset \in Assets, NEW target \in SwapTargets,
         NEW amount \in 1..MaxBasket, BeginManualSwap(sender, asset, target, amount)
  PROVE  Swapping'
<1>1. UNCHANGED <<vars, transients>>
  BY DEF BeginManualSwap, Begin
<1>2. /\ sender = config.admin /\ asset # target
      /\ tx'.store = [Store EXCEPT !.settled_amount_transient = 0]
      /\ tx'.queue = SettleMessages(<<OrderMsg(asset, amount, target)>>, manual_swap_attempt)
  BY DEF BeginManualSwap, Begin
<1>4. tx'.queue = <<OrderMsg(asset, amount, target), SwapCallback>>
  BY <1>2, AppendedTwo DEF SettleMessages, SwapCallback
<1> QED BY <1>1, <1>2, <1>4, SwapFrame DEF Swapping

\* The order of manual_swap is executed, its reply waits.
LEMMA SwapOrderStep ==
  ASSUME TxInv, Swapping, NEW taken \in 1..MaxBasket, NEW received \in Prices,
         ExecuteOrder(taken, received)
  PROVE  Swapping'
<1>1. Waits("order") /\ UNCHANGED <<vars, transients>>
  BY DEF ExecuteOrder, Done
<1>2. PICK sender \in Admins, asset \in Assets, target \in SwapTargets, amount \in 1..MaxBasket :
        /\ sender = config.admin
        /\ asset # target
        /\ tx.store = [Store EXCEPT !.settled_amount_transient = 0]
        /\ tx.queue = <<OrderMsg(asset, amount, target), SwapCallback>>
  <2>1. \A n : /\ tx.queue # <<SwapReply(n), SwapCallback>>
               /\ tx.queue # <<SwapCallback>> /\ tx.queue # <<>>
    BY <1>1, OneMessage, TwoMessages DEF Waits, SwapReply, SwapCallback, CallbackMsg
  <2> QED BY <2>1 DEF Swapping
<1>3. /\ Message.denom = asset /\ Message.target = target
      /\ tx.store.holdings = holdings
  BY <1>2, TwoMessages DEF Message, OrderMsg, Store
<1>4. taken <= holdings[asset]
  BY <1>3 DEF ExecuteOrder
<1>5. tx'.queue = <<SwapReply(received), SwapCallback>>
  BY <1>2, TwoMessages DEF ExecuteOrder, Done, SwapReply
<1>6. tx'.store = Sold(asset, target, taken, received, 0)
  BY <1>2, <1>3 DEF ExecuteOrder, Done, Sold, Store
<1>7. /\ (sender = config.admin)' /\ taken <= holdings'[asset]
      /\ tx'.store = Sold(asset, target, taken, received, 0)'
  BY <1>1, <1>2, <1>4, <1>6, SwapFrame
<1> QED BY <1>2, <1>5, <1>7 DEF Swapping

\* The reply counts what came in.
LEMMA SwapReplyStep ==
  ASSUME TxInv, Swapping, ReplySellAsset
  PROVE  Swapping'
<1>1. Waits("order_reply") /\ UNCHANGED <<vars, transients>>
  BY DEF ReplySellAsset, Done
<1>2. PICK sender \in Admins, asset \in Assets, target \in SwapTargets,
           taken \in 1..MaxBasket, received \in Prices :
        /\ sender = config.admin
        /\ asset # target
        /\ taken <= holdings[asset]
        /\ tx.store = Sold(asset, target, taken, received, 0)
        /\ tx.queue = <<SwapReply(received), SwapCallback>>
  <2>1. \A a, n, t : /\ tx.queue # <<OrderMsg(a, n, t), SwapCallback>>
                     /\ tx.queue # <<SwapCallback>> /\ tx.queue # <<>>
    BY <1>1, OneMessage, TwoMessages DEF Waits, OrderMsg, SwapCallback, CallbackMsg
  <2> QED BY <2>1 DEF Swapping
<1>3. Message.received = received /\ tx.store.settled_amount_transient = 0
  BY <1>2, TwoMessages DEF Message, SwapReply, Sold, Store
<1>4. Added(0, received) = received
  BY DaoAssumption DEF Added
<1>5. tx'.queue = <<SwapCallback>>
  BY <1>2, TwoMessages DEF ReplySellAsset, Done
<1>6. tx'.store = Sold(asset, target, taken, received, received)
  BY <1>2, <1>3, <1>4 DEF ReplySellAsset, Done, Sold, Store
<1>7. /\ (sender = config.admin)' /\ taken <= holdings'[asset]
      /\ tx'.store = Sold(asset, target, taken, received, received)'
  BY <1>1, <1>2, <1>6, SwapFrame
<1> QED BY <1>2, <1>5, <1>7 DEF Swapping

\* The callback credits all of it; there is nobody to reward.
LEMMA SwapCallbackStep ==
  ASSUME TxInv, Swapping, ExecuteCallback
  PROVE  Swapping'
<1>1. Waits("callback") /\ UNCHANGED <<vars, transients>>
  BY DEF ExecuteCallback, Done
<1>2. PICK sender \in Admins, asset \in Assets, target \in SwapTargets,
           taken \in 1..MaxBasket, received \in Prices :
        /\ sender = config.admin
        /\ asset # target
        /\ taken <= holdings[asset]
        /\ tx.store = Sold(asset, target, taken, received, received)
        /\ tx.queue = <<SwapCallback>>
  <2>1. \A a, n, t : /\ tx.queue # <<OrderMsg(a, n, t), SwapCallback>>
                     /\ tx.queue # <<SwapReply(n), SwapCallback>> /\ tx.queue # <<>>
    BY <1>1, TwoMessages DEF Waits, OrderMsg, SwapReply
  <2> QED BY <2>1 DEF Swapping
<1> DEFINE bps == config.winning_bidder_reward_bps
<1>3. received \in Nat
  BY DaoAssumption
<1>4. /\ Message.bid_attempt.submitted_by = Contract /\ Message.bid_attempt.amount = 0
      /\ tx.store.settled_amount_transient = received
      /\ tx.store.profit_earned = profit_earned
  BY <1>2, OneMessage
  DEF Message, SwapCallback, CallbackMsg, manual_swap_attempt, Sold, Store
<1>5. Lp!Profit(received, 0) = received /\ Lp!WinningReward(received, bps, TRUE) = 0
  BY <1>3 DEF Lp!Profit, Lp!WinningReward
<1>6. received - 0 = received /\ ~(0 > 0)
  BY <1>3
<1>7. /\ Lp!Share(received, bps) <= received
      /\ profit_earned + received <= MaxProfit
      /\ Done(Credited(tx.store, received), <<>>)
  BY <1>4, <1>5, <1>6 DEF ExecuteCallback
<1>8. tx'.queue = <<>> /\ tx'.store = Credited(tx.store, received)
  BY <1>2, <1>7, OneMessage DEF Done
<1>9. /\ (sender = config.admin)' /\ taken <= holdings'[asset]
      /\ Lp!Share(received, config'.winning_bidder_reward_bps) <= received
      /\ profit_earned' + received <= MaxProfit
      /\ tx'.store = Credited(Sold(asset, target, taken, received, received)', received)
  BY <1>1, <1>2, <1>7, <1>8, SwapFrame
<1>10. Credited(Sold(asset, target, taken, received, received)', received)
         = Credited(Sold(asset, target, taken, received, received), received)'
  BY DEF Credited, Lp!update_global_index
<1> QED BY <1>2, <1>8, <1>9, <1>10 DEF Swapping, Lp!Share

\* The stored swap is a manual swap of AuctionDao.
LEMMA CommitSwap ==
  ASSUME TxInv, Swapping, Commit
  PROVE  Next /\ UNCHANGED transients
<1> DEFINE bps == config.winning_bidder_reward_bps
<1>1. PICK sender \in Admins, asset \in Assets, target \in SwapTargets,
           taken \in 1..MaxBasket, received \in Prices :
        /\ sender = config.admin
        /\ asset # target
        /\ taken <= holdings[asset]
        /\ Lp!Share(received, bps) <= received
        /\ profit_earned + received <= MaxProfit
        /\ tx.store = Credited(Sold(asset, target, taken, received, received), received)
  <2>1. \A m, k : tx.queue # <<m, k>> /\ tx.queue # <<m>>
    BY OneMessage, TwoMessages DEF Commit
  <2> QED BY <2>1 DEF Swapping
<1>2. /\ UNCHANGED <<bid_attempt, auction, stake, payouts, arrived, surplus, lost,
                     bidder_rewards, bid_attempt_transient>>
      /\ global' = Lp!update_global_index(
                     [global EXCEPT !.profit_to_distribute = @ + received])
      /\ profit_earned' = profit_earned + received
      /\ holdings' = Swapped(holdings, asset, target, taken, received)
      /\ balance' = IF target = INJ THEN balance + received ELSE balance
      /\ settled_amount_transient' = None
      /\ UNCHANGED <<config, user_accounts, rewards_paid, last_result, now, won, donated>>
  BY <1>1 DEF Commit, Credited, Sold, Store
<1>3. received \in Nat
  BY DaoAssumption
<1>4. Lp!Profit(received, 0) = received /\ Lp!WinningReward(received, bps, TRUE) = 0
      /\ received - 0 = received
  BY <1>3 DEF Lp!Profit, Lp!WinningReward
<1>5. Lp!Callback(received, 0, bps, TRUE)
  BY <1>1, <1>2, <1>4 DEF Lp!Callback
<1>6. ManualSwap(sender, asset, target, taken, received)
  BY <1>1, <1>2, <1>5 DEF ManualSwap, bid_vars
<1>7. UNCHANGED transients
  BY <1>2 DEF TxInv, TransientsEmpty, transients
<1> QED BY <1>2, <1>6, <1>7 DEF Next, Step

-------------------------------------------------------------------------------
(* The steps of a settlement. *)

\* While the sale runs, what it was begun with stays.
LEMMA SettleFrame ==
  ASSUME UNCHANGED <<vars, transients>>
  PROVE  /\ Store' = Store /\ bid_attempt' = bid_attempt /\ balance' = balance
         /\ profit_earned' = profit_earned /\ config' = config
         /\ \A routed, liquid : SettleGuards(routed, liquid)' = SettleGuards(routed, liquid)
         /\ \A sold, taken, proceeds :
              /\ Sales(sold, taken, proceeds)' = Sales(sold, taken, proceeds)
              /\ SoldOff(sold, taken, proceeds)' = SoldOff(sold, taken, proceeds)
              /\ \A q : SaleQueue(q, sold, taken, proceeds)' = SaleQueue(q, sold, taken, proceeds)
              /\ \A n : Selling(sold, taken, proceeds, n)' = Selling(sold, taken, proceeds, n)
         /\ \A settled : Gross(settled)' = Gross(settled) /\ Reward(settled)' = Reward(settled)
         /\ \A store, n : PaidOff(store, n)' = PaidOff(store, n)
         /\ \A n : RewardMsg(n)' = RewardMsg(n)
<1>1. /\ Store' = Store /\ bid_attempt' = bid_attempt /\ last_result' = last_result
      /\ config' = config /\ holdings' = holdings /\ balance' = balance
      /\ profit_earned' = profit_earned
  BY Unmoved DEF bid_vars, purse, lp_vars
<1>2. \A routed, liquid : SettleGuards(routed, liquid)' = SettleGuards(routed, liquid)
  BY <1>1 DEF SettleGuards, Bid!ResultKnown, Bid!Sold
<1>3. ASSUME NEW sold, NEW taken, NEW proceeds
      PROVE  /\ Sales(sold, taken, proceeds)' = Sales(sold, taken, proceeds)
             /\ \A q : SaleQueue(q, sold, taken, proceeds)' = SaleQueue(q, sold, taken, proceeds)
             /\ \A n : Selling(sold, taken, proceeds, n)' = Selling(sold, taken, proceeds, n)
  BY <1>1 DEF Sales, SaleQueue, SaleOrder, Selling
<1>4. \A settled : Gross(settled)' = Gross(settled) /\ Reward(settled)' = Reward(settled)
  BY <1>1 DEF Gross, Reward
<1>5. ASSUME NEW sold, NEW taken, NEW proceeds
      PROVE  SoldOff(sold, taken, proceeds)' = SoldOff(sold, taken, proceeds)
  BY <1>1 DEF SoldOff, Selling, Income, Gross, Reward, Settled, InitialAmount,
     Credited, Resolved, Lp!update_global_index, Lp!Profit, Lp!WinningReward, Lp!Share
<1>6. /\ \A store, n : PaidOff(store, n)' = PaidOff(store, n)
      /\ \A n : RewardMsg(n)' = RewardMsg(n)
  BY <1>1 DEF PaidOff, RewardMsg
<1> QED BY <1>1, <1>2, <1>3, <1>4, <1>5, <1>6

\* What a settlement starts from.
LEMMA SaleFacts ==
  ASSUME TxInv, NEW routed, Bid!ResultKnown
  PROVE  LET sold == Bid!Sold(bid_attempt.basket, routed) IN
         /\ sold \in SUBSET Assets /\ IsFiniteSet(sold)
         /\ bid_attempt.amount \in Nat
         /\ bid_attempt.submitted_by \in Bidders /\ bid_attempt.submitted_by # Contract
         /\ \A d \in Denoms : bid_attempt.basket[d] \in Nat
         /\ holdings \in [Assets -> Nat] /\ balance \in Nat
         /\ INJ \notin Assets
         /\ bidder_rewards \in [Bidders -> Nat]
<1>1. Bid!Sold(bid_attempt.basket, routed) \in SUBSET Assets
  BY DEF Bid!Sold, Assets
<1>2. IsFiniteSet(Bid!Sold(bid_attempt.basket, routed))
  <2>1. IsFiniteSet(Denoms) /\ Bid!Sold(bid_attempt.basket, routed) \in SUBSET Denoms
    BY <1>1, DaoAssumption DEF Assets
  <2> QED BY <2>1, FS_Subset
<1>3. bid_attempt \in BidP!BidAttempt
  BY BidFacts DEF TxInv, Bid!ResultKnown
<1>4. holdings \in [Assets -> Nat] /\ balance \in Nat /\ bidder_rewards \in [Bidders -> Nat]
  BY DEF TxInv, DaoInv, DaoTypeOK
<1> QED BY <1>1, <1>2, <1>3, <1>4, TxAssumption DEF BidP!BidAttempt, BidP!Basket, Assets

\* What the orders brought in: nothing at first, and what each of them adds.
LEMMA IncomeZero ==
  ASSUME NEW sold \in SUBSET Assets, NEW proceeds \in [Assets -> Nat],
         \A d \in sold : proceeds[d] = 0
  PROVE  Income(sold, proceeds) = 0
<1> DEFINE f == [d \in sold |-> proceeds[d]]
<1>1. f \in [sold -> Nat] /\ \A d \in sold : f[d] = 0
  OBVIOUS
<1> QED BY <1>1, TotalZero DEF Income

\* An order adds what it brings in.
LEMMA IncomeAdds ==
  ASSUME NEW sold \in SUBSET Assets, IsFiniteSet(sold), NEW proceeds \in [Assets -> Nat],
         NEW d \in sold, NEW n \in Nat, proceeds[d] = 0,
         NEW more, more = [proceeds EXCEPT ![d] = n]
  PROVE  /\ Income(sold, proceeds) \in Nat
         /\ Income(sold, more) = Income(sold, proceeds) + n
<1> DEFINE f == [e \in sold |-> proceeds[e]]
<1>1. f \in [sold -> Nat]
  OBVIOUS
<1>2. [e \in sold |-> more[e]] = [f EXCEPT ![d] = n]
  OBVIOUS
<1>3. Total([f EXCEPT ![d] = n]) = Total(f) - f[d] + n
  BY <1>1, TotalUpdate
<1>4. f[d] = 0 /\ Total(f) \in Nat
  BY <1>1, TotalType
<1> QED BY <1>2, <1>3, <1>4 DEF Income

\* A sale that goes on after a step is recognised by what is left of it.
LEMMA SaleContinues ==
  ASSUME TxInv, UNCHANGED <<vars, transients>>,
         NEW routed \in SUBSET Assets, NEW liquid \in SUBSET Assets,
         NEW taken \in [Assets -> 0..MaxBasket], NEW proceeds \in [Assets -> Nat],
         NEW sold, sold = Bid!Sold(bid_attempt.basket, routed),
         SettleGuards(routed, liquid), Sales(sold, taken, proceeds),
         SaleQueue(tx'.queue, sold, taken, proceeds),
         NEW n \in Nat, n + Pending(tx'.queue) = Settled(bid_attempt, sold, proceeds),
         tx'.store = Selling(sold, taken, proceeds, n)
  PROVE  Settling'
<1>1. PICK q : q = tx'.queue
  OBVIOUS
<1>2. /\ SettleGuards(routed, liquid)' /\ bid_attempt' = bid_attempt
      /\ Sales(sold, taken, proceeds)'
      /\ SaleQueue(q, sold, taken, proceeds)'
      /\ tx'.store = Selling(sold, taken, proceeds, n)'
  BY <1>1, SettleFrame
<1>3. n + Pending(q) = Settled(bid_attempt, sold, proceeds)'
  BY <1>1, <1>2 DEF Settled, InitialAmount
<1>4. SaleGoesOn(sold, taken, proceeds)'
  BY <1>1, <1>2, <1>3 DEF SaleGoesOn
<1> QED BY <1>2, <1>4 DEF Settling

\* The orders of a basket differ in their denomination.
LEMMA OrderFacts ==
  ASSUME NEW d
  PROVE  SaleOrder(d).type = "order" /\ SaleOrder(d).denom = d
BY DEF SaleOrder, OrderMsg

\* The queue that a settlement starts with has every order once.
LEMMA OrdersQueue ==
  ASSUME NEW sold, NEW n \in Nat, NEW list \in Bijection(1..n, sold),
         NEW none, \A d \in sold : none[d] = 0
  PROVE  LET q == SettleMessages([i \in 1..n |-> SaleOrder(list[i])], bid_attempt) IN
         SaleQueue(q, sold, none, none) /\ Pending(q) = 0
<1>1. /\ list \in [1..n -> sold]
      /\ \A i, j \in 1..n : list[i] = list[j] => i = j
      /\ \A d \in sold : \E i \in 1..n : list[i] = d
  BY DEF Bijection, Injection, Surjection, IsInjective
<1>2. PICK callback : callback = CallbackMsg(Contract, bid_attempt)
  OBVIOUS
<1>3. PICK S : S = {SaleOrder(d) : d \in sold} \cup {callback}
  OBVIOUS
<1>4. PICK orders : orders = [i \in 1..n |-> SaleOrder(list[i])]
  OBVIOUS
<1>5. orders \in Seq(S) /\ Len(orders) = n /\ callback \in S
  BY <1>1, <1>3, <1>4
<1>6. \A i \in 1..n : orders[i] = SaleOrder(list[i])
  BY <1>4
<1>7. PICK q : q = Append(orders, callback)
  OBVIOUS
<1>8. /\ q \in Seq(S) /\ q # <<>> /\ Len(q) = n + 1
      /\ \A i \in 1..n : q[i] = orders[i]
      /\ q[n + 1] = callback
  BY <1>5, <1>7, AppendProperties
<1>9. \A i \in 1..n : q[i] = SaleOrder(list[i])
  BY <1>6, <1>8
<1>10. \A i, j \in 1..n : q[i] = q[j] => i = j
  <2> SUFFICES ASSUME NEW i \in 1..n, NEW j \in 1..n, q[i] = q[j]
               PROVE  i = j
    OBVIOUS
  <2>1. SaleOrder(list[i]).denom = SaleOrder(list[j]).denom
    BY <1>9
  <2>2. list[i] = list[j]
    BY <2>1, OrderFacts
  <2> QED BY <1>1, <2>2
<1>11. SaleQueue(q, sold, none, none)
  <2>1. Len(q) - 1 = n
    BY <1>8
  <2>2. \A i \in 1..n : \E d \in sold : q[i] = SaleOrder(d) /\ none[d] = 0
    BY <1>1, <1>9
  <2>3. \A d \in sold : \E i \in 1..n : q[i] = SaleOrder(d)
    BY <1>1, <1>9
  <2>4. q[Len(q)] = CallbackMsg(Contract, bid_attempt)
    BY <1>2, <1>8
  <2>5. (\E T : q \in Seq(T)) /\ q # <<>>
    BY <1>8
  <2> QED BY <2>1, <2>2, <2>3, <2>4, <2>5, <1>10 DEF SaleQueue
<1>12. Pending(q) = 0
  <2>1. q[1] = callback \/ q[1] = SaleOrder(list[1])
    <3>1. CASE n = 0
      BY <1>8, <3>1
    <3>2. CASE n # 0
      BY <1>9, <3>2
    <3> QED BY <3>1, <3>2
  <2>2. Head(q).type # "order_reply"
    BY <1>2, <1>8, <2>1, OrderFacts DEF CallbackMsg
  <2> QED BY <2>2 DEF Pending
<1> QED BY <1>2, <1>4, <1>7, <1>11, <1>12 DEF SettleMessages

\* try_settle removes a lost bid, or orders the sale of a won basket.
LEMMA BeginSettleStep ==
  ASSUME TxInv, NEW routed \in SUBSET Assets, NEW liquid \in SUBSET Assets,
         BeginTrySettle(routed, liquid)
  PROVE  Forgetting' \/ Settling'
<1> DEFINE cleared == [Store EXCEPT !.bid_attempt = None]
<1>0. PICK sold : sold = Bid!Sold(bid_attempt.basket, routed)
  OBVIOUS
<1>1. Bid!ResultKnown /\ UNCHANGED <<vars, transients>>
  BY DEF BeginTrySettle, Begin
<1>2. [Store EXCEPT !.bid_attempt_transient = None, !.bid_attempt = None] = cleared
  <2>1. bid_attempt_transient = None
    BY DEF TxInv, TransientsEmpty, transients
  <2>2. [Store EXCEPT !.bid_attempt_transient = None] = Store
    BY <2>1 DEF Store
  <2>3. [Store EXCEPT !.bid_attempt_transient = None, !.bid_attempt = None]
          = [[Store EXCEPT !.bid_attempt_transient = None] EXCEPT !.bid_attempt = None]
    BY DEF Store
  <2> QED BY <2>2, <2>3
<1> HIDE DEF cleared
<1>3. CASE last_result.winner # Contract
  <2>1. tx'.store = cleared /\ tx'.queue = <<>>
    BY <1>2, <1>3 DEF BeginTrySettle, Begin
  <2>2. Store' = Store /\ last_result' = last_result /\ bid_attempt' = bid_attempt
    BY <1>1, Unmoved DEF bid_vars
  <2> QED BY <1>1, <1>3, <2>1, <2>2 DEF Forgetting, Bid!ResultKnown, cleared
<1>4. CASE last_result.winner = Contract
  <2>0. PICK initial, n, zero :
          /\ initial = InitialAmount(bid_attempt)
          /\ n = Cardinality(sold)
          /\ zero = [d \in Assets |-> 0]
    OBVIOUS
  <2>1. PICK list \in Bijection(1..n, sold) :
          /\ sold \subseteq liquid
          /\ tx'.store = [cleared EXCEPT !.settled_amount_transient = initial]
          /\ tx'.queue = SettleMessages([i \in 1..n |-> SaleOrder(list[i])], bid_attempt)
    <3>1. /\ sold \subseteq liquid
          /\ \E list \in Bijection(1..n, sold) :
               Begin([[Store EXCEPT !.bid_attempt_transient = None, !.bid_attempt = None]
                        EXCEPT !.settled_amount_transient = initial],
                     SettleMessages([i \in 1..n |-> SaleOrder(list[i])], bid_attempt))
      BY <1>0, <1>4, <2>0 DEF BeginTrySettle, Listings, SaleOrder
    <3>2. PICK list \in Bijection(1..n, sold) :
               Begin([cleared EXCEPT !.settled_amount_transient = initial],
                     SettleMessages([i \in 1..n |-> SaleOrder(list[i])], bid_attempt))
      BY <1>2, <3>1
    <3>3. /\ tx'.store = [cleared EXCEPT !.settled_amount_transient = initial]
          /\ tx'.queue = SettleMessages([i \in 1..n |-> SaleOrder(list[i])], bid_attempt)
      BY <3>2 DEF Begin
    <3> QED BY <3>1, <3>3
  <2>2. /\ sold \in SUBSET Assets /\ IsFiniteSet(sold) /\ n \in Nat
        /\ \A d \in Denoms : bid_attempt.basket[d] \in Nat
        /\ holdings \in [Assets -> Nat] /\ balance \in Nat
    BY <1>0, <1>1, <2>0, SaleFacts, FS_CardinalityType
  <2>3. /\ zero \in [Assets -> 0..MaxBasket] /\ zero \in [Assets -> Nat]
        /\ \A d \in Assets : zero[d] = 0
    BY <2>0, DaoAssumption
  <2>4. PICK q : q = SettleMessages([i \in 1..n |-> SaleOrder(list[i])], bid_attempt)
    OBVIOUS
  <2>5. SaleQueue(q, sold, zero, zero) /\ Pending(q) = 0
    BY <2>2, <2>3, <2>4, OrdersQueue
  <2>6. Sales(sold, zero, zero)
    BY <2>2, <2>3 DEF Sales, Assets
  <2>7. Income(sold, zero) = 0
    BY <2>2, <2>3, IncomeZero
  <2>8. initial \in Nat
    BY <2>0, <2>2, DaoAssumption DEF InitialAmount
  <2>9. initial + Pending(q) = Settled(bid_attempt, sold, zero)
    BY <2>0, <2>5, <2>7, <2>8 DEF Settled, Income
  <2>10. tx'.store = Selling(sold, zero, zero, initial)
    <3>1. [d \in Assets |-> holdings[d] - zero[d]] = holdings
      BY <2>2, <2>3
    <3>2. balance + Income(sold, zero) = balance
      BY <2>2, <2>7
    <3>3. Selling(sold, zero, zero, initial)
            = [Store EXCEPT !.bid_attempt = None, !.settled_amount_transient = initial,
                            !.holdings = holdings, !.balance = balance]
      BY <3>1, <3>2 DEF Selling
    <3>4. [cleared EXCEPT !.settled_amount_transient = initial]
            = [Store EXCEPT !.bid_attempt = None, !.settled_amount_transient = initial,
                            !.holdings = holdings, !.balance = balance]
      <4> DEFINE begun == [cleared EXCEPT !.settled_amount_transient = initial]
      <4>1. begun.holdings = holdings /\ begun.balance = balance
        BY DEF cleared, Store
      <4>2. begun = [begun EXCEPT !.holdings = holdings]
        BY <4>1 DEF cleared, Store
      <4>3. begun = [begun EXCEPT !.balance = balance]
        BY <4>1 DEF cleared, Store
      <4>4. begun = [begun EXCEPT !.holdings = holdings, !.balance = balance]
        <5> HIDE DEF begun
        <5> QED BY <4>2, <4>3
      <4> QED BY <4>4 DEF cleared
    <3> QED BY <2>1, <3>3, <3>4
  <2>11. SettleGuards(routed, liquid)
    BY <1>0, <1>1, <1>4, <2>1 DEF SettleGuards
  <2>12. tx'.queue = q
    BY <2>1, <2>4
  <2> QED
    BY <1>0, <1>1, <2>3, <2>5, <2>6, <2>8, <2>9, <2>10, <2>11, <2>12, SaleContinues
<1> QED BY <1>3, <1>4

\* What is left while the sale goes on, with its parts named.
LEMMA SaleParts ==
  ASSUME TxInv, Settling, Waits("order") \/ Waits("order_reply") \/ Waits("callback")
  PROVE  \E routed, liquid \in SUBSET Assets, taken \in [Assets -> 0..MaxBasket],
            proceeds \in [Assets -> Nat], sold \in SUBSET Assets :
           /\ sold = Bid!Sold(bid_attempt.basket, routed)
           /\ SettleGuards(routed, liquid)
           /\ Sales(sold, taken, proceeds)
           /\ SaleGoesOn(sold, taken, proceeds)
<1>1. \A n : tx.queue # <<RewardMsg(n)>> /\ tx.queue # <<>>
  BY OneMessage DEF Waits, RewardMsg
<1>2. \A sold, taken, proceeds : ~SaleOver(sold, taken, proceeds)
  BY <1>1 DEF SaleOver
<1>3. \A routed : Bid!Sold(bid_attempt.basket, routed) \in SUBSET Assets
  BY DEF Bid!Sold, Assets
<1> QED BY <1>2, <1>3 DEF Settling

\* An order of the sale is executed: its income waits in the reply.
LEMMA SettleOrderStep ==
  ASSUME TxInv, Settling, NEW amount \in 1..MaxBasket, NEW received \in Prices,
         ExecuteOrder(amount, received)
  PROVE  Settling'
<1>1. Waits("order") /\ UNCHANGED <<vars, transients>>
  BY DEF ExecuteOrder, Done
<1>2. PICK routed \in SUBSET Assets, liquid \in SUBSET Assets,
           taken \in [Assets -> 0..MaxBasket], proceeds \in [Assets -> Nat], sold \in SUBSET Assets :
        /\ sold = Bid!Sold(bid_attempt.basket, routed)
        /\ SettleGuards(routed, liquid)
        /\ Sales(sold, taken, proceeds)
        /\ SaleGoesOn(sold, taken, proceeds)
  BY <1>1, SaleParts
<1>3a. PICK n \in Nat : /\ n + Pending(tx.queue) = Settled(bid_attempt, sold, proceeds)
                        /\ tx.store = Selling(sold, taken, proceeds, n)
  BY <1>2 DEF SaleGoesOn
<1>3b. PICK q : q = tx.queue
  OBVIOUS
<1>3. /\ q = tx.queue
      /\ SaleQueue(q, sold, taken, proceeds)
      /\ n + Pending(q) = Settled(bid_attempt, sold, proceeds)
      /\ tx.store = Selling(sold, taken, proceeds, n)
  BY <1>2, <1>3a, <1>3b DEF SaleGoesOn
<1>4. Bid!ResultKnown
  BY <1>2 DEF SettleGuards
<1>5. /\ sold \in SUBSET Assets /\ IsFiniteSet(sold)
      /\ \A e \in Denoms : bid_attempt.basket[e] \in Nat
      /\ holdings \in [Assets -> Nat] /\ balance \in Nat /\ INJ \notin Assets
  BY <1>2, <1>4, SaleFacts
<1>6. Head(q).type = "order" /\ received \in Nat
  BY <1>1, <1>3, DaoAssumption DEF Waits
<1>7. PICK d \in sold :
        /\ Len(q) > 1 /\ Head(q) = q[1] /\ q # <<>>
        /\ q[1] = SaleOrder(d) /\ taken[d] = 0 /\ proceeds[d] = 0
  BY <1>3, <1>6, SaleHead DEF CallbackMsg, SwapReply
<1>8. PICK taken1, proceeds1, r :
        /\ taken1 = [taken EXCEPT ![d] = amount]
        /\ proceeds1 = [proceeds EXCEPT ![d] = received]
        /\ r = <<SwapReply(received)>> \o Tail(q)
  OBVIOUS
<1>9. tx'.queue = r
  BY <1>3, <1>8 DEF ExecuteOrder, Done, SwapReply
<1>10. /\ Message.denom = d /\ Message.target = INJ /\ Message.amount = bid_attempt.basket[d]
  BY <1>3, <1>7 DEF Message, SaleOrder, OrderMsg
<1>11. /\ tx.store.holdings = [e \in Assets |-> holdings[e] - taken[e]]
       /\ tx.store.balance = balance + Income(sold, proceeds)
  BY <1>3 DEF Selling, Store
<1>12. amount <= bid_attempt.basket[d] /\ amount <= holdings[d]
  <2>1. tx.store.holdings[d] = holdings[d]
    BY <1>5, <1>7, <1>11
  <2> QED BY <1>10, <2>1 DEF ExecuteOrder
<1>13. /\ taken1 \in [Assets -> 0..MaxBasket] /\ proceeds1 \in [Assets -> Nat]
       /\ taken1[d] = amount /\ proceeds1[d] = received
       /\ \A e \in Assets \ {d} : taken1[e] = taken[e] /\ proceeds1[e] = proceeds[e]
  BY <1>5, <1>6, <1>8, DaoAssumption
<1>14. Sales(sold, taken1, proceeds1)
  BY <1>2, <1>5, <1>12, <1>13 DEF Sales
<1>15. SaleQueue(r, sold, taken1, proceeds1) /\ Pending(r) = received
  <2>1. PICK S : q \in Seq(S)
    BY <1>3 DEF SaleQueue
  <2>2. /\ r \in Seq(S \cup {SwapReply(received)})
        /\ Len(r) = Len(q) /\ r[1] = SwapReply(received)
        /\ \A i \in 2..Len(q) : r[i] = q[i]
    BY <1>7, <1>8, <2>1, Replied
  <2>3. Len(q) \in Nat
    BY <2>1
  <2>4. r # <<>> /\ Head(r) = r[1]
    BY <1>7, <2>2, <2>3, EmptySeq
  <2>5. /\ q[Len(q)] = CallbackMsg(Contract, bid_attempt)
        /\ \A i \in 1..(Len(q) - 1) :
             \/ \E e \in sold : q[i] = SaleOrder(e) /\ taken[e] = 0 /\ proceeds[e] = 0
             \/ i = 1 /\ \E m \in Prices : q[i] = SwapReply(m)
        /\ \A i, j \in 1..(Len(q) - 1) : q[i].type = "order" /\ q[i] = q[j] => i = j
        /\ \A e \in sold : \/ proceeds[e] \in Prices
                           \/ \E i \in 1..(Len(q) - 1) : q[i] = SaleOrder(e)
    BY <1>3 DEF SaleQueue
  <2>6. r[Len(r)] = CallbackMsg(Contract, bid_attempt)
    BY <1>7, <2>2, <2>3, <2>5
  <2>7. ASSUME NEW i \in 2..(Len(q) - 1)
        PROVE  \E e \in sold : r[i] = SaleOrder(e) /\ taken1[e] = 0 /\ proceeds1[e] = 0
    <3>1. i \in 1..(Len(q) - 1) /\ 1 \in 1..(Len(q) - 1) /\ i # 1 /\ i \in 2..Len(q)
      BY <1>7, <2>3
    <3>2. PICK e \in sold : q[i] = SaleOrder(e) /\ taken[e] = 0 /\ proceeds[e] = 0
      BY <2>5, <3>1
    <3>3. e # d
      <4>1. q[1].type = "order"
        BY <1>7, OrderFacts
      <4> QED BY <1>7, <2>5, <3>1, <3>2, <4>1
    <3> QED BY <1>5, <1>13, <2>2, <3>1, <3>2, <3>3
  <2>8. \A i \in 1..(Len(r) - 1) :
          \/ \E e \in sold : r[i] = SaleOrder(e) /\ taken1[e] = 0 /\ proceeds1[e] = 0
          \/ i = 1 /\ \E m \in Prices : r[i] = SwapReply(m)
    <3> SUFFICES ASSUME NEW i \in 1..(Len(r) - 1)
                 PROVE  \/ \E e \in sold : r[i] = SaleOrder(e) /\ taken1[e] = 0
                                                               /\ proceeds1[e] = 0
                        \/ i = 1 /\ \E m \in Prices : r[i] = SwapReply(m)
      OBVIOUS
    <3>1. i = 1 \/ i \in 2..(Len(q) - 1)
      BY <2>2, <2>3
    <3> QED BY <2>2, <2>7, <3>1
  <2>9. \A i, j \in 1..(Len(r) - 1) : r[i].type = "order" /\ r[i] = r[j] => i = j
    <3> SUFFICES ASSUME NEW i \in 1..(Len(r) - 1), NEW j \in 1..(Len(r) - 1),
                        r[i].type = "order", r[i] = r[j]
                 PROVE  i = j
      OBVIOUS
    <3>1. r[1].type # "order"
      BY <2>2 DEF SwapReply
    <3>2. i # 1 /\ j # 1
      BY <3>1
    <3>3. /\ i \in 2..Len(q) /\ j \in 2..Len(q)
          /\ i \in 1..(Len(q) - 1) /\ j \in 1..(Len(q) - 1)
      BY <2>2, <2>3, <3>2
    <3> QED BY <2>2, <2>5, <3>3
  <2>10. \A e \in sold : \/ proceeds1[e] \in Prices
                        \/ \E i \in 1..(Len(r) - 1) : r[i] = SaleOrder(e)
    <3> SUFFICES ASSUME NEW e \in sold, e # d, proceeds1[e] \notin Prices
                 PROVE  \E i \in 1..(Len(r) - 1) : r[i] = SaleOrder(e)
      BY <1>13
    <3>1. proceeds[e] \notin Prices
      BY <1>5, <1>13
    <3>2. PICK i \in 1..(Len(q) - 1) : q[i] = SaleOrder(e)
      BY <2>5, <3>1
    <3>3. i # 1
      BY <1>7, <3>2, OrderFacts
    <3>4. i \in 2..Len(q) /\ i \in 1..(Len(r) - 1)
      BY <2>2, <2>3, <3>3
    <3> QED BY <2>2, <3>2, <3>4
  <2>11. SaleQueue(r, sold, taken1, proceeds1)
    BY <2>2, <2>4, <2>6, <2>8, <2>9, <2>10 DEF SaleQueue
  <2>12. Pending(r) = received
    BY <2>2, <2>4 DEF Pending, SwapReply
  <2> QED BY <2>11, <2>12
<1>16. Income(sold, proceeds1) = Income(sold, proceeds) + received /\ Income(sold, proceeds) \in Nat
  <2>1. /\ proceeds[d] = 0 /\ received \in Nat /\ proceeds1 = [proceeds EXCEPT ![d] = received]
        /\ sold \in SUBSET Assets /\ IsFiniteSet(sold)
    BY <1>5, <1>6, <1>7, <1>8
  <2> QED BY <2>1, IncomeAdds
<1>17. n + Pending(r) = Settled(bid_attempt, sold, proceeds1)
  <2>1. Pending(q) = 0
    BY <1>6 DEF Pending
  <2>2. InitialAmount(bid_attempt) \in Nat
    BY <1>5, DaoAssumption DEF InitialAmount
  <2>3. n = InitialAmount(bid_attempt) + Income(sold, proceeds)
    BY <1>3, <2>1 DEF Settled, Income
  <2>4. Settled(bid_attempt, sold, proceeds1)
          = InitialAmount(bid_attempt) + Income(sold, proceeds1)
    BY DEF Settled, Income
  <2> QED BY <1>6, <1>15, <1>16, <2>2, <2>3, <2>4
<1>18. tx'.store = Selling(sold, taken1, proceeds1, n)
  <2>1. Swapped(tx.store.holdings, d, INJ, amount, received)
          = [e \in Assets |-> holdings[e] - taken1[e]]
    <3>1. \A e \in Assets :
            (IF e = d THEN tx.store.holdings[e] - amount
             ELSE IF e = INJ THEN tx.store.holdings[e] + received
             ELSE tx.store.holdings[e]) = holdings[e] - taken1[e]
      <4> SUFFICES ASSUME NEW e \in Assets
                   PROVE  (IF e = d THEN tx.store.holdings[e] - amount
                           ELSE IF e = INJ THEN tx.store.holdings[e] + received
                           ELSE tx.store.holdings[e]) = holdings[e] - taken1[e]
        OBVIOUS
      <4>1. tx.store.holdings[e] = holdings[e] - taken[e] /\ holdings[e] \in Nat
        BY <1>5, <1>11
      <4> QED BY <1>5, <1>7, <1>13, <4>1
    <3> QED BY <1>7, <3>1 DEF Swapped
  <2>2. tx.store.balance + received = balance + Income(sold, proceeds1)
    BY <1>5, <1>6, <1>11, <1>16
  <2>3. tx'.store = [tx.store EXCEPT !.holdings = [e \in Assets |-> holdings[e] - taken1[e]],
                                     !.balance  = balance + Income(sold, proceeds1)]
    BY <1>10, <2>1, <2>2 DEF ExecuteOrder, Done
  <2> QED BY <1>3, <2>3 DEF Selling, Store
<1> QED BY <1>1, <1>2, <1>9, <1>13, <1>14, <1>15, <1>17, <1>18, SaleContinues

\* The reply adds the income of its order, and of no other one.
LEMMA SettleReplyStep ==
  ASSUME TxInv, Settling, ReplySellAsset
  PROVE  Settling'
<1>1. Waits("order_reply") /\ UNCHANGED <<vars, transients>>
  BY DEF ReplySellAsset, Done
<1>2. PICK routed \in SUBSET Assets, liquid \in SUBSET Assets,
           taken \in [Assets -> 0..MaxBasket], proceeds \in [Assets -> Nat], sold \in SUBSET Assets :
        /\ sold = Bid!Sold(bid_attempt.basket, routed)
        /\ SettleGuards(routed, liquid)
        /\ Sales(sold, taken, proceeds)
        /\ SaleGoesOn(sold, taken, proceeds)
  BY <1>1, SaleParts
<1>3. PICK n \in Nat : /\ n + Pending(tx.queue) = Settled(bid_attempt, sold, proceeds)
                       /\ tx.store = Selling(sold, taken, proceeds, n)
  BY <1>2 DEF SaleGoesOn
<1>4. PICK q, r : q = tx.queue /\ r = <<>> \o Tail(q)
  OBVIOUS
<1>5. SaleQueue(q, sold, taken, proceeds)
  BY <1>2, <1>4 DEF SaleGoesOn
<1>6. Head(q).type = "order_reply"
  BY <1>1, <1>4 DEF Waits
<1>7. PICK received \in Prices :
        Len(q) > 1 /\ Head(q) = q[1] /\ q # <<>> /\ q[1] = SwapReply(received)
  BY <1>5, <1>6, SaleHead, OrderFacts DEF CallbackMsg
<1>8. received \in Nat /\ Message.received = received /\ Pending(q) = received
  BY <1>4, <1>6, <1>7, DaoAssumption DEF Message, SwapReply, Pending
<1>9. tx'.queue = r
  BY <1>4 DEF ReplySellAsset, Done
<1>10. tx'.store = Selling(sold, taken, proceeds, n + received)
  <2>1. tx.store.settled_amount_transient = n
    BY <1>3 DEF Selling, Store
  <2>2. tx'.store = [tx.store EXCEPT !.settled_amount_transient = n + received]
    BY <1>8, <2>1 DEF ReplySellAsset, Done, Added
  <2> QED BY <1>3, <2>2 DEF Selling, Store
<1>11. SaleQueue(r, sold, taken, proceeds) /\ Pending(r) = 0
  <2>1. PICK S : q \in Seq(S)
    BY <1>5 DEF SaleQueue
  <2>2. /\ r \in Seq(S) /\ Len(r) = Len(q) - 1
        /\ \A i \in 1..(Len(q) - 1) : r[i] = q[i + 1]
    BY <1>4, <1>7, <2>1, Finished
  <2>3. Len(q) \in Nat
    BY <2>1
  <2>4. r # <<>> /\ Head(r) = r[1]
    BY <1>7, <2>2, <2>3, EmptySeq
  <2>5. /\ q[Len(q)] = CallbackMsg(Contract, bid_attempt)
        /\ \A i \in 1..(Len(q) - 1) :
             \/ \E e \in sold : q[i] = SaleOrder(e) /\ taken[e] = 0 /\ proceeds[e] = 0
             \/ i = 1 /\ \E m \in Prices : q[i] = SwapReply(m)
        /\ \A i, j \in 1..(Len(q) - 1) : q[i].type = "order" /\ q[i] = q[j] => i = j
        /\ \A e \in sold : \/ proceeds[e] \in Prices
                           \/ \E i \in 1..(Len(q) - 1) : q[i] = SaleOrder(e)
    BY <1>5 DEF SaleQueue
  <2>6. r[Len(r)] = CallbackMsg(Contract, bid_attempt)
    BY <1>7, <2>2, <2>3, <2>5
  <2>7. \A i \in 1..(Len(r) - 1) : /\ i + 1 \in 1..(Len(q) - 1) /\ i + 1 # 1
                                  /\ r[i] = q[i + 1]
    BY <2>2, <2>3
  <2>8. \A i \in 1..(Len(r) - 1) :
          \E e \in sold : r[i] = SaleOrder(e) /\ taken[e] = 0 /\ proceeds[e] = 0
    <3> SUFFICES ASSUME NEW i \in 1..(Len(r) - 1)
                 PROVE  \E e \in sold : r[i] = SaleOrder(e) /\ taken[e] = 0 /\ proceeds[e] = 0
      OBVIOUS
    <3>1. PICK j \in 1..(Len(q) - 1) : j # 1 /\ r[i] = q[j]
      BY <2>7
    <3> QED BY <2>5, <3>1
  <2>9. \A i, j \in 1..(Len(r) - 1) : r[i].type = "order" /\ r[i] = r[j] => i = j
    <3> SUFFICES ASSUME NEW i \in 1..(Len(r) - 1), NEW j \in 1..(Len(r) - 1),
                        r[i].type = "order", r[i] = r[j]
                 PROVE  i = j
      OBVIOUS
    <3>1. i + 1 = j + 1
      BY <2>5, <2>7
    <3> QED BY <3>1
  <2>10. \A e \in sold : \/ proceeds[e] \in Prices
                        \/ \E i \in 1..(Len(r) - 1) : r[i] = SaleOrder(e)
    <3> SUFFICES ASSUME NEW e \in sold, proceeds[e] \notin Prices
                 PROVE  \E i \in 1..(Len(r) - 1) : r[i] = SaleOrder(e)
      OBVIOUS
    <3>1. PICK i \in 1..(Len(q) - 1) : q[i] = SaleOrder(e)
      BY <2>5
    <3>2. i # 1
      BY <1>6, <1>7, <3>1, OrderFacts
    <3>3. i - 1 \in 1..(Len(r) - 1) /\ r[i - 1] = q[(i - 1) + 1] /\ (i - 1) + 1 = i
      BY <2>2, <2>3, <3>2
    <3> QED BY <3>1, <3>3
  <2>11. SaleQueue(r, sold, taken, proceeds)
    BY <2>2, <2>4, <2>6, <2>8, <2>9, <2>10 DEF SaleQueue
  <2>12. Pending(r) = 0
    <3>1. r[1].type # "order_reply"
      <4>1. CASE Len(r) = 1
        BY <2>6, <4>1 DEF CallbackMsg
      <4>2. CASE Len(r) # 1
        <5>1. 1 \in 1..(Len(r) - 1)
          BY <1>7, <2>2, <2>3, <4>2
        <5> QED BY <2>8, <5>1, OrderFacts
      <4> QED BY <4>1, <4>2
    <3> QED BY <2>4, <3>1 DEF Pending
  <2> QED BY <2>11, <2>12
<1>12. /\ n + received \in Nat
       /\ (n + received) + Pending(r) = Settled(bid_attempt, sold, proceeds)
  BY <1>3, <1>4, <1>8, <1>11
<1> QED BY <1>1, <1>2, <1>9, <1>10, <1>11, <1>12, SaleContinues

\* The split of what was settled.
LEMMA SplitFacts ==
  ASSUME TxInv, Bid!ResultKnown, NEW settled \in Nat
  PROVE  Gross(settled) \in Nat /\ Reward(settled) \in Nat
<1> DEFINE bps == config.winning_bidder_reward_bps
<1>1. bps \in Nat /\ bid_attempt.amount \in Nat
  BY ConfigFacts, SaleFacts DEF TxInv
<1>2. Gross(settled) \in Nat
  BY <1>1 DEF Gross, Lp!Profit
<1>3. Gross(settled) * bps \in Nat
  BY <1>1, <1>2
<1> QED BY <1>2, <1>3 DEF Reward, Lp!WinningReward, Lp!Share

\* The callback comes when every order is counted, and splits the profit.
LEMMA SettleCallbackStep ==
  ASSUME TxInv, Settling, ExecuteCallback
  PROVE  Settling'
<1>1. Waits("callback") /\ UNCHANGED <<vars, transients>>
  BY DEF ExecuteCallback, Done
<1>2. PICK routed \in SUBSET Assets, liquid \in SUBSET Assets,
           taken \in [Assets -> 0..MaxBasket], proceeds \in [Assets -> Nat],
           sold \in SUBSET Assets :
        /\ sold = Bid!Sold(bid_attempt.basket, routed)
        /\ SettleGuards(routed, liquid)
        /\ Sales(sold, taken, proceeds)
        /\ SaleGoesOn(sold, taken, proceeds)
  BY <1>1, SaleParts
<1>3. PICK n \in Nat : /\ n + Pending(tx.queue) = Settled(bid_attempt, sold, proceeds)
                       /\ tx.store = Selling(sold, taken, proceeds, n)
  BY <1>2 DEF SaleGoesOn
<1>4. PICK q : q = tx.queue
  OBVIOUS
<1>5. SaleQueue(q, sold, taken, proceeds)
  BY <1>2, <1>4 DEF SaleGoesOn
<1>6. Head(q).type = "callback"
  BY <1>1, <1>4 DEF Waits
<1>7. Len(q) = 1 /\ q # <<>> /\ Head(q) = CallbackMsg(Contract, bid_attempt)
  BY <1>5, <1>6, SaleHead, OrderFacts DEF SwapReply
<1>8. \A d \in sold : proceeds[d] \in Prices
  BY <1>5, <1>7 DEF SaleQueue
<1>9. \A m : m \o Tail(q) = m \o <<>>
  <2>1. PICK S : q \in Seq(S)
    BY <1>5 DEF SaleQueue
  <2>2. Tail(q) \in Seq(S) /\ Len(Tail(q)) = 0
    BY <1>7, <2>1, HeadTailProperties
  <2>3. Tail(q) = <<>>
    BY <2>2, EmptySeq
  <2> QED BY <2>3
<1>10. PICK settled : settled = Settled(bid_attempt, sold, proceeds)
  OBVIOUS
<1>11. n = settled /\ settled \in Nat
  BY <1>3, <1>4, <1>6, <1>10 DEF Pending
<1>12. Bid!ResultKnown
  BY <1>2 DEF SettleGuards
<1>13. PICK gross, reward : gross = Gross(settled) /\ reward = Reward(settled)
  OBVIOUS
<1>14. /\ Message.bid_attempt = bid_attempt
       /\ tx.store.settled_amount_transient = settled
       /\ tx.store.profit_earned = profit_earned
       /\ (bid_attempt.submitted_by = Contract) = FALSE
  BY <1>3, <1>4, <1>7, <1>11, <1>12, SaleFacts DEF Message, CallbackMsg, Selling, Store
<1>15. /\ Lp!Profit(settled, bid_attempt.amount) = gross
       /\ Lp!WinningReward(gross, config.winning_bidder_reward_bps, FALSE) = reward
  BY <1>13 DEF Gross, Reward
<1>16. /\ Lp!Share(gross, config.winning_bidder_reward_bps) <= gross
       /\ profit_earned + (gross - reward) <= MaxProfit
       /\ Done(Resolved(Credited(tx.store, gross - reward), bid_attempt, settled),
               IF reward > 0
               THEN <<[type |-> "send", to |-> bid_attempt.submitted_by, amount |-> reward]>>
               ELSE <<>>)
  BY <1>14, <1>15 DEF ExecuteCallback
<1>17. tx'.store = SoldOff(sold, taken, proceeds)
  BY <1>3, <1>10, <1>11, <1>13, <1>16 DEF Done, SoldOff
<1>18. tx'.queue = IF reward > 0 THEN <<RewardMsg(reward)>> ELSE <<>>
  <2>1. \A m : <<m>> \o <<>> = <<m>>
    OBVIOUS
  <2>2. <<>> \o <<>> = <<>>
    OBVIOUS
  <2> QED BY <1>4, <1>9, <1>16, <2>1, <2>2 DEF Done, RewardMsg
<1>19. /\ SettleGuards(routed, liquid)' /\ bid_attempt' = bid_attempt /\ config' = config
       /\ profit_earned' = profit_earned
       /\ Sales(sold, taken, proceeds)'
       /\ tx'.store = SoldOff(sold, taken, proceeds)'
       /\ Gross(settled)' = gross /\ Reward(settled)' = reward
       /\ RewardMsg(reward)' = RewardMsg(reward)
  BY <1>1, <1>2, <1>13, <1>17, SettleFrame
<1>20. Settled(bid_attempt, sold, proceeds)' = settled
  BY <1>10, <1>19 DEF Settled, InitialAmount
<1>21. SaleOver(sold, taken, proceeds)'
  <2>1. Lp!Share(gross, config.winning_bidder_reward_bps)'
          = Lp!Share(gross, config.winning_bidder_reward_bps)
    BY <1>19 DEF Lp!Share
  <2> QED BY <1>8, <1>16, <1>18, <1>19, <1>20, <2>1 DEF SaleOver
<1> QED BY <1>2, <1>19, <1>21 DEF Settling

\* The bank pays the reward.
LEMMA SettleSendStep ==
  ASSUME TxInv, Settling, ExecuteSend
  PROVE  Settling'
<1>1. Waits("send") /\ UNCHANGED <<vars, transients>>
  BY DEF ExecuteSend, Done
<1>2. ASSUME NEW sold, NEW taken, NEW proceeds, SaleGoesOn(sold, taken, proceeds)
      PROVE  FALSE
  <2>1. Head(tx.queue).type # "send"
    BY <1>2, SaleHead, OrderFacts DEF SaleGoesOn, CallbackMsg, SwapReply
  <2> QED BY <1>1, <2>1 DEF Waits
<1>3. PICK routed \in SUBSET Assets, liquid \in SUBSET Assets,
           taken \in [Assets -> 0..MaxBasket], proceeds \in [Assets -> Nat],
           sold \in SUBSET Assets :
        /\ sold = Bid!Sold(bid_attempt.basket, routed)
        /\ SettleGuards(routed, liquid)
        /\ Sales(sold, taken, proceeds)
        /\ SaleOver(sold, taken, proceeds)
  <2>1. \A routed : Bid!Sold(bid_attempt.basket, routed) \in SUBSET Assets
    BY DEF Bid!Sold, Assets
  <2> QED BY <1>2, <2>1 DEF Settling
<1>4. PICK settled, gross, reward, store :
        /\ settled = Settled(bid_attempt, sold, proceeds)
        /\ gross = Gross(settled) /\ reward = Reward(settled)
        /\ store = SoldOff(sold, taken, proceeds)
  OBVIOUS
<1>5. /\ \A d \in sold : proceeds[d] \in Prices
      /\ Lp!Share(gross, config.winning_bidder_reward_bps) <= gross
      /\ profit_earned + (gross - reward) <= MaxProfit
      /\ tx.store = store
      /\ tx.queue = <<RewardMsg(reward)>>
  BY <1>1, <1>3, <1>4 DEF SaleOver, Waits
<1>6. /\ Message.to = bid_attempt.submitted_by /\ Message.amount = reward
  BY <1>5, OneMessage DEF Message, RewardMsg
<1>7. tx'.queue = <<>>
  BY <1>5, OneMessage DEF ExecuteSend, Done
<1>8. store.balance = balance + Income(sold, proceeds)
  BY <1>4 DEF SoldOff, Resolved, Credited, Selling, Store
<1>9. reward <= balance + Income(sold, proceeds) /\ tx'.store = PaidOff(store, reward)
  BY <1>5, <1>6, <1>8 DEF ExecuteSend, Done, PaidOff
<1>10. /\ SettleGuards(routed, liquid)' /\ bid_attempt' = bid_attempt /\ config' = config
       /\ profit_earned' = profit_earned /\ balance' = balance
       /\ Sales(sold, taken, proceeds)'
       /\ SoldOff(sold, taken, proceeds)' = store
       /\ PaidOff(store, reward)' = PaidOff(store, reward)
       /\ Gross(settled)' = gross /\ Reward(settled)' = reward
  BY <1>1, <1>3, <1>4, SettleFrame
<1>11. Settled(bid_attempt, sold, proceeds)' = settled
  BY <1>4, <1>10 DEF Settled, InitialAmount
<1>12. Income(sold, proceeds)' = Income(sold, proceeds)
  BY DEF Income
<1>13. SaleOver(sold, taken, proceeds)'
  <2>1. Lp!Share(gross, config.winning_bidder_reward_bps)'
          = Lp!Share(gross, config.winning_bidder_reward_bps)
    BY <1>10 DEF Lp!Share
  <2> QED BY <1>5, <1>7, <1>9, <1>10, <1>11, <1>12, <2>1 DEF SaleOver
<1> QED BY <1>3, <1>10, <1>13 DEF Settling

\* The stored settlement is a settlement of AuctionDao.
LEMMA CommitSettle ==
  ASSUME TxInv, Settling, Commit
  PROVE  Next /\ UNCHANGED transients
<1>1. ASSUME NEW sold, NEW taken, NEW proceeds
      PROVE  ~SaleGoesOn(sold, taken, proceeds)
  BY DEF SaleGoesOn, SaleQueue, Commit
<1>2. PICK routed \in SUBSET Assets, liquid \in SUBSET Assets,
           taken \in [Assets -> 0..MaxBasket], proceeds \in [Assets -> Nat],
           sold \in SUBSET Assets :
        /\ sold = Bid!Sold(bid_attempt.basket, routed)
        /\ SettleGuards(routed, liquid)
        /\ Sales(sold, taken, proceeds)
        /\ SaleOver(sold, taken, proceeds)
  <2>1. \A routed : Bid!Sold(bid_attempt.basket, routed) \in SUBSET Assets
    BY DEF Bid!Sold, Assets
  <2> QED BY <1>1, <2>1 DEF Settling
<1>3. PICK settled, gross, reward, store, bps :
        /\ settled = Settled(bid_attempt, sold, proceeds)
        /\ gross = Gross(settled) /\ reward = Reward(settled)
        /\ store = SoldOff(sold, taken, proceeds)
        /\ bps = config.winning_bidder_reward_bps
  OBVIOUS
<1>4. Bid!ResultKnown
  BY <1>2 DEF SettleGuards
<1>5. /\ IsFiniteSet(sold) /\ bid_attempt.submitted_by \in Bidders
      /\ bid_attempt.basket[INJ] \in Nat
      /\ balance \in Nat /\ bidder_rewards \in [Bidders -> Nat]
      /\ holdings \in [Assets -> Nat]
  BY <1>2, <1>4, SaleFacts, DaoAssumption
<1>6. Income(sold, proceeds) \in Nat
  BY <1>2, <1>5, TotalType DEF Income
<1>7. settled \in Nat /\ gross \in Nat /\ reward \in Nat
  <2>1. settled = bid_attempt.basket[INJ] + Income(sold, proceeds)
    BY <1>3 DEF Settled, InitialAmount, Income
  <2>2. settled \in Nat
    BY <1>5, <1>6, <2>1
  <2> QED BY <1>3, <1>4, <2>2, SplitFacts
<1>8. /\ \A d \in sold : proceeds[d] \in Prices
      /\ Lp!Share(gross, bps) <= gross
      /\ profit_earned + (gross - reward) <= MaxProfit
  BY <1>2, <1>3 DEF SaleOver
<1>9. /\ store.bid_attempt = None
      /\ store.auction = auction
      /\ store.stake = IF stake # None /\ stake.bid.round = bid_attempt.round
                       THEN None ELSE stake
      /\ store.payouts = [payouts EXCEPT ![bid_attempt.round] = @ + 1]
      /\ store.global = Lp!update_global_index(
                          [global EXCEPT !.profit_to_distribute = @ + (gross - reward)])
      /\ store.profit_earned = profit_earned + (gross - reward)
      /\ store.balance = balance + Income(sold, proceeds)
      /\ store.holdings = [d \in Assets |-> holdings[d] - taken[d]]
      /\ store.arrived = 0
      /\ store.surplus = surplus + arrived - InitialAmount(bid_attempt)
      /\ store.lost = lost + Lp!Profit(bid_attempt.amount, settled)
      /\ store.bidder_rewards = bidder_rewards
      /\ store.bid_attempt_transient = bid_attempt_transient
      /\ store.settled_amount_transient = None
  BY <1>3 DEF SoldOff, Resolved, Credited, Selling, Store
<1>10. /\ reward <= balance + Income(sold, proceeds)
       /\ tx.store = PaidOff(store, reward)
  <2>1. CASE /\ tx.store = store
             /\ tx.queue = IF reward > 0 THEN <<RewardMsg(reward)>> ELSE <<>>
    <3>1. reward = 0
      <4>1. tx.queue = <<>> /\ <<RewardMsg(reward)>> # <<>>
        BY OneMessage DEF Commit
      <4>2. ~(reward > 0)
        BY <2>1, <4>1
      <4> QED BY <1>7, <4>2
    <3>2. store.balance - reward = store.balance
      BY <1>5, <1>6, <1>9, <3>1
    <3>3. [store.bidder_rewards EXCEPT ![bid_attempt.submitted_by] = @ + reward]
            = store.bidder_rewards
      BY <1>5, <1>9, <3>1
    <3>4. PaidOff(store, reward)
            = [store EXCEPT !.balance = store.balance, !.bidder_rewards = store.bidder_rewards]
      BY <3>2, <3>3 DEF PaidOff
    <3>5. [store EXCEPT !.balance = store.balance, !.bidder_rewards = store.bidder_rewards]
            = store
      <4>1. PICK u : store = Resolved(u, bid_attempt, settled)
        BY <1>3 DEF SoldOff
      <4>2. [store EXCEPT !.balance = store.balance] = store
        BY <4>1 DEF Resolved
      <4>3. [store EXCEPT !.bidder_rewards = store.bidder_rewards] = store
        BY <4>1 DEF Resolved
      <4> QED BY <4>2, <4>3
    <3> QED BY <1>5, <1>6, <2>1, <3>1, <3>4, <3>5
  <2>2. CASE /\ reward <= balance + Income(sold, proceeds)
             /\ tx.store = PaidOff(store, reward)
    BY <2>2
  <2> QED BY <1>2, <1>3, <2>1, <2>2 DEF SaleOver
<1>11. /\ tx.store.bid_attempt = store.bid_attempt
       /\ tx.store.auction = store.auction
       /\ tx.store.stake = store.stake
       /\ tx.store.payouts = store.payouts
       /\ tx.store.global = store.global
       /\ tx.store.profit_earned = store.profit_earned
       /\ tx.store.holdings = store.holdings
       /\ tx.store.arrived = store.arrived
       /\ tx.store.surplus = store.surplus
       /\ tx.store.lost = store.lost
       /\ tx.store.bid_attempt_transient = store.bid_attempt_transient
       /\ tx.store.settled_amount_transient = store.settled_amount_transient
       /\ tx.store.balance = store.balance - reward
       /\ tx.store.bidder_rewards
            = [store.bidder_rewards EXCEPT ![bid_attempt.submitted_by] = @ + reward]
  BY <1>3, <1>10 DEF PaidOff, SoldOff, Resolved, Credited, Selling, Store
<1>12. /\ bid_attempt' = None
       /\ auction' = auction
       /\ stake' = IF stake # None /\ stake.bid.round = bid_attempt.round
                   THEN None ELSE stake
       /\ payouts' = [payouts EXCEPT ![bid_attempt.round] = @ + 1]
       /\ global' = Lp!update_global_index(
                      [global EXCEPT !.profit_to_distribute = @ + (gross - reward)])
       /\ profit_earned' = profit_earned + (gross - reward)
       /\ balance' = (balance + Income(sold, proceeds)) - reward
       /\ holdings' = [d \in Assets |-> holdings[d] - taken[d]]
       /\ arrived' = 0
       /\ surplus' = surplus + arrived - InitialAmount(bid_attempt)
       /\ lost' = lost + Lp!Profit(bid_attempt.amount, settled)
       /\ bidder_rewards' = [bidder_rewards EXCEPT ![bid_attempt.submitted_by] = @ + reward]
       /\ bid_attempt_transient' = bid_attempt_transient
       /\ settled_amount_transient' = None
       /\ UNCHANGED <<config, user_accounts, rewards_paid, last_result, now, won, donated>>
  BY <1>9, <1>11 DEF Commit
<1>13. PICK paid : paid = [d \in Assets |-> IF d \in sold THEN proceeds[d]
                                            ELSE CHOOSE x \in Prices : TRUE]
  OBVIOUS
<1>14. /\ paid \in [Assets -> Prices]
       /\ Settled(bid_attempt, sold, paid) = settled
       /\ Total([d \in sold |-> paid[d]]) = Income(sold, proceeds)
  <2>1. paid \in [Assets -> Prices]
    BY <1>8, <1>13, TxAssumption
  <2>2. [d \in sold |-> paid[d]] = [d \in sold |-> proceeds[d]]
    BY <1>13
  <2> QED BY <1>3, <2>1, <2>2 DEF Settled, Income
<1>15. Lp!Callback(settled, bid_attempt.amount, bps, FALSE)
  <2>1. Lp!Profit(settled, bid_attempt.amount) = gross
        /\ Lp!WinningReward(gross, bps, FALSE) = reward
    BY <1>3 DEF Gross, Reward
  <2> QED BY <1>8, <1>12, <2>1 DEF Lp!Callback
<1>16. BidSettledSuccess(bid_attempt.submitted_by, sold, paid)
  <2>1. Lp!WinningReward(Lp!Profit(settled, bid_attempt.amount), bps, FALSE) = reward
    BY <1>3 DEF Gross, Reward
  <2>2. Rewarded(bid_attempt.submitted_by, bid_attempt) = bid_attempt.submitted_by
    BY DEF Rewarded
  <2> QED BY <1>3, <1>10, <1>12, <1>14, <1>15, <2>1, <2>2 DEF BidSettledSuccess
<1>17. Bid!TrySettle(routed, liquid)
  BY <1>2, <1>12 DEF SettleGuards, Bid!TrySettle, Bid!BidSettledSuccess, Bid!chain
<1>18. holdings' = [d \in Assets |-> IF d \in sold THEN holdings[d] - taken[d] ELSE holdings[d]]
  <2>1. \A d \in Assets : d \notin sold => holdings[d] - taken[d] = holdings[d]
    BY <1>2, <1>5 DEF Sales
  <2> QED BY <1>12, <2>1
<1>19. TrySettle(bid_attempt.submitted_by, routed, liquid, taken, paid)
  BY <1>2, <1>16, <1>17, <1>18 DEF TrySettle, SettleGuards, Sales
<1>20. UNCHANGED transients
  BY <1>12 DEF TxInv, TransientsEmpty, transients
<1> QED BY <1>5, <1>12, <1>14, <1>19, <1>20 DEF Next, Step

\* A lost bid is forgotten by a settlement of AuctionDao that sells nothing.
LEMMA CommitForget ==
  ASSUME TxInv, Forgetting, Commit
  PROVE  Next /\ UNCHANGED transients
<1>1. /\ Bid!ResultKnown
      /\ last_result.winner # Contract
      /\ tx.store = [Store EXCEPT !.bid_attempt = None]
  BY DEF Forgetting
<1>2. /\ bid_attempt' = None
      /\ UNCHANGED <<auction, stake, payouts, global, profit_earned, balance, holdings,
                     arrived, surplus, lost, bidder_rewards>>
      /\ UNCHANGED <<bid_attempt_transient, settled_amount_transient>>
      /\ UNCHANGED <<config, user_accounts, rewards_paid, last_result, now, won, donated>>
  BY <1>1 DEF Commit, Store
<1>3. bid_attempt.submitted_by \in Bidders
  BY <1>1, SaleFacts
<1>4. PICK taken \in [Assets -> 0..MaxBasket], paid \in [Assets -> Prices] : TRUE
  <2>1. [d \in Assets |-> 0] \in [Assets -> 0..MaxBasket]
    BY DaoAssumption
  <2>2. [d \in Assets |-> CHOOSE x \in Prices : TRUE] \in [Assets -> Prices]
    BY TxAssumption
  <2> QED BY <2>1, <2>2
<1>5. TrySettle(bid_attempt.submitted_by, {}, {}, taken, paid)
  BY <1>1, <1>2 DEF TrySettle, Bid!TrySettle, Bid!chain, lp_vars, purse
<1> QED BY <1>2, <1>3, <1>4, <1>5 DEF Next, Step, transients

-------------------------------------------------------------------------------
(* Every step. *)

\* Nothing is settled when a callback comes that the contract did not send.
LEMMA ForgedStep ==
  ASSUME TxInv
  PROVE  /\ \A sender : BeginForgedCallback(sender) => Forging'
         /\ Forging /\ tx # None => ~ExecuteCallback /\ ~Commit
<1>1. ASSUME NEW sender, BeginForgedCallback(sender)
      PROVE  Forging'
  <2>1. Store' = Store /\ tx'.store = Store
    BY <1>1, Unmoved DEF BeginForgedCallback, Begin
  <2>2. PICK m : m = CallbackMsg(sender, [manual_swap_attempt EXCEPT !.submitted_by = sender])
    OBVIOUS
  <2>3. tx'.queue = <<m>> /\ m.type = "callback"
    BY <1>1, <2>2 DEF BeginForgedCallback, Begin, CallbackMsg
  <2> QED BY <2>1, <2>3 DEF Forging
<1>2. ASSUME Forging
      PROVE  ~ExecuteCallback /\ ~Commit
  <2>1. tx.store.settled_amount_transient = None
    BY <1>2 DEF Forging, Store, TxInv, TransientsEmpty, transients
  <2>2. tx.queue # <<>>
    BY <1>2, OneMessage DEF Forging
  <2> QED BY <2>1, <2>2 DEF ExecuteCallback, Commit
<1> QED BY <1>1, <1>2

\* A transaction that waits gets no further.
LEMMA RunningStays ==
  ASSUME UNCHANGED tx_vars, Running
  PROVE  Running'
<1>1. UNCHANGED <<vars, transients>> /\ tx' = tx
  BY DEF tx_vars
<1>2. CASE Bidding
  BY <1>1, <1>2, BidFrame DEF Bidding, Running
<1>3. CASE Swapping
  <2>1. /\ config' = config /\ holdings' = holdings /\ profit_earned' = profit_earned
        /\ Store' = Store
    BY <1>1, SwapFrame
  <2>2. /\ \A asset, target, taken, received, settled :
             Sold(asset, target, taken, received, settled)'
               = Sold(asset, target, taken, received, settled)
        /\ \A store, n : Credited(store, n)' = Credited(store, n)
        /\ \A n : Lp!Share(n, config.winning_bidder_reward_bps)'
                    = Lp!Share(n, config.winning_bidder_reward_bps)
    BY <1>1, <2>1, SwapFrame DEF Credited, Lp!update_global_index, Lp!Share
  <2>3. PICK sender \in Admins, asset \in Assets, target \in SwapTargets :
          /\ sender = config.admin
          /\ asset # target
          /\ \/ \E amount \in 1..MaxBasket :
                  /\ tx.store = [Store EXCEPT !.settled_amount_transient = 0]
                  /\ tx.queue = <<OrderMsg(asset, amount, target), SwapCallback>>
             \/ \E taken \in 1..MaxBasket, received \in Prices :
                  /\ taken <= holdings[asset]
                  /\ \/ /\ tx.store = Sold(asset, target, taken, received, 0)
                        /\ tx.queue = <<SwapReply(received), SwapCallback>>
                     \/ /\ tx.store = Sold(asset, target, taken, received, received)
                        /\ tx.queue = <<SwapCallback>>
                     \/ /\ Lp!Share(received, config.winning_bidder_reward_bps) <= received
                        /\ profit_earned + received <= MaxProfit
                        /\ tx.store =
                             Credited(Sold(asset, target, taken, received, received), received)
                        /\ tx.queue = <<>>
    BY <1>3 DEF Swapping
  <2>4. CASE \E amount \in 1..MaxBasket :
                  /\ tx.store = [Store EXCEPT !.settled_amount_transient = 0]
                  /\ tx.queue = <<OrderMsg(asset, amount, target), SwapCallback>>
    BY <1>1, <2>1, <2>3, <2>4 DEF Swapping, Running
  <2>5. ASSUME NEW taken \in 1..MaxBasket, NEW received \in Prices,
               taken <= holdings[asset],
               \/ /\ tx.store = Sold(asset, target, taken, received, 0)
                  /\ tx.queue = <<SwapReply(received), SwapCallback>>
               \/ /\ tx.store = Sold(asset, target, taken, received, received)
                  /\ tx.queue = <<SwapCallback>>
        PROVE  Running'
    BY <1>1, <2>1, <2>2, <2>3, <2>5 DEF Swapping, Running
  <2>6. ASSUME NEW taken \in 1..MaxBasket, NEW received \in Prices,
               taken <= holdings[asset],
               Lp!Share(received, config.winning_bidder_reward_bps) <= received,
               profit_earned + received <= MaxProfit,
               tx.store = Credited(Sold(asset, target, taken, received, received), received),
               tx.queue = <<>>
        PROVE  Running'
    <3>1. Lp!Share(received, config'.winning_bidder_reward_bps) <= received
      BY <2>1, <2>6
    <3>2. tx'.store = Credited(Sold(asset, target, taken, received, received), received)'
      <4>1. PICK sold : sold = Sold(asset, target, taken, received, received)
        OBVIOUS
      <4>2. Sold(asset, target, taken, received, received)' = sold
        BY <2>2, <4>1
      <4>3. Credited(Sold(asset, target, taken, received, received), received)'
              = Credited(sold, received)
        BY <4>2 DEF Credited, Lp!update_global_index
      <4> QED BY <1>1, <2>6, <4>1, <4>3
    <3> QED BY <1>1, <2>1, <2>3, <2>6, <3>1, <3>2 DEF Swapping, Running, Lp!Share
  <2> QED BY <2>3, <2>4, <2>5, <2>6
<1>4. CASE Forgetting
  <2>1. Store' = Store /\ last_result' = last_result /\ bid_attempt' = bid_attempt
    BY <1>1, Unmoved DEF bid_vars
  <2> QED BY <1>1, <1>4, <2>1 DEF Forgetting, Running, Bid!ResultKnown
<1>5. CASE Settling
  <2>1. PICK routed \in SUBSET Assets, liquid \in SUBSET Assets,
             taken \in [Assets -> 0..MaxBasket], proceeds \in [Assets -> Nat],
             sold \in SUBSET Assets :
          /\ sold = Bid!Sold(bid_attempt.basket, routed)
          /\ SettleGuards(routed, liquid)
          /\ Sales(sold, taken, proceeds)
          /\ SaleGoesOn(sold, taken, proceeds) \/ SaleOver(sold, taken, proceeds)
    <3>1. \A routed : Bid!Sold(bid_attempt.basket, routed) \in SUBSET Assets
      BY DEF Bid!Sold, Assets
    <3> QED BY <1>5, <3>1 DEF Settling
  <2>2. /\ SettleGuards(routed, liquid)' /\ bid_attempt' = bid_attempt
        /\ Sales(sold, taken, proceeds)'
        /\ config' = config /\ profit_earned' = profit_earned /\ balance' = balance
    BY <1>1, <2>1, SettleFrame
  <2>3. CASE SaleGoesOn(sold, taken, proceeds)
    <3>1. PICK n \in Nat : /\ n + Pending(tx.queue) = Settled(bid_attempt, sold, proceeds)
                           /\ tx.store = Selling(sold, taken, proceeds, n)
      BY <2>3 DEF SaleGoesOn
    <3>2. PICK q : q = tx.queue
      OBVIOUS
    <3>3. SaleQueue(q, sold, taken, proceeds)' /\ tx'.queue = q
      BY <1>1, <2>3, <3>2, SettleFrame DEF SaleGoesOn
    <3>4. tx'.store = Selling(sold, taken, proceeds, n)'
      BY <1>1, <3>1, SettleFrame
    <3>5. n + Pending(q) = Settled(bid_attempt, sold, proceeds)'
      BY <2>2, <3>1, <3>2 DEF Settled, InitialAmount
    <3>6. SaleGoesOn(sold, taken, proceeds)'
      BY <3>1, <3>3, <3>4, <3>5 DEF SaleGoesOn
    <3> QED BY <2>1, <2>2, <3>6 DEF Settling, Running
  <2>4. CASE SaleOver(sold, taken, proceeds)
    <3>1. PICK settled, gross, reward, store, over :
            /\ settled = Settled(bid_attempt, sold, proceeds)
            /\ gross = Gross(settled) /\ reward = Reward(settled)
            /\ store = SoldOff(sold, taken, proceeds)
            /\ over = PaidOff(store, reward)
      OBVIOUS
    <3>2. /\ \A d \in sold : proceeds[d] \in Prices
          /\ Lp!Share(gross, config.winning_bidder_reward_bps) <= gross
          /\ profit_earned + (gross - reward) <= MaxProfit
          /\ \/ /\ tx.store = store
                /\ tx.queue = IF reward > 0 THEN <<RewardMsg(reward)>> ELSE <<>>
             \/ /\ reward <= balance + Income(sold, proceeds)
                /\ tx.store = over
                /\ tx.queue = <<>>
      BY <2>4, <3>1 DEF SaleOver
    <3>3. Settled(bid_attempt, sold, proceeds)' = settled
      BY <2>2, <3>1 DEF Settled, InitialAmount
    <3>4. /\ SoldOff(sold, taken, proceeds)' = store
          /\ PaidOff(store, reward)' = over
          /\ Gross(settled)' = gross /\ Reward(settled)' = reward
          /\ RewardMsg(reward)' = RewardMsg(reward)
      BY <1>1, <3>1, SettleFrame
    <3>5. Income(sold, proceeds)' = Income(sold, proceeds)
          /\ Lp!Share(gross, config.winning_bidder_reward_bps)'
               = Lp!Share(gross, config.winning_bidder_reward_bps)
      BY <2>2 DEF Income, Lp!Share
    <3>6. CASE /\ tx.store = store
               /\ tx.queue = IF reward > 0 THEN <<RewardMsg(reward)>> ELSE <<>>
      <4>1. SaleOver(sold, taken, proceeds)'
        BY <1>1, <2>2, <3>2, <3>3, <3>4, <3>5, <3>6 DEF SaleOver
      <4> QED BY <2>1, <2>2, <4>1 DEF Settling, Running
    <3>7. CASE /\ reward <= balance + Income(sold, proceeds)
               /\ tx.store = over
               /\ tx.queue = <<>>
      <4>1. SaleOver(sold, taken, proceeds)'
        BY <1>1, <2>2, <3>2, <3>3, <3>4, <3>5, <3>7 DEF SaleOver
      <4> QED BY <2>1, <2>2, <4>1 DEF Settling, Running
    <3> QED BY <3>2, <3>6, <3>7
  <2> QED BY <2>1, <2>3, <2>4
<1>6. CASE Forging
  BY <1>1, <1>6, Unmoved DEF Forging, Running
<1> QED BY <1>2, <1>3, <1>4, <1>5, <1>6 DEF Running

\* Inside a transaction.
LEMMA InnerStep ==
  ASSUME TxInv,
         \/ \E sender \in Bidders, round \in Bid!Rounds, value \in Values :
              BeginTryBid(sender, round, value)
         \/ \E routed, liquid \in SUBSET Assets : BeginTrySettle(routed, liquid)
         \/ \E sender \in Admins, asset \in Assets, target \in SwapTargets,
               amount \in 1..MaxBasket :
              BeginManualSwap(sender, asset, target, amount)
         \/ \E sender \in Bidders : BeginForgedCallback(sender)
         \/ ExecuteBid
         \/ ReplyTryBid
         \/ \E taken \in 1..MaxBasket, received \in Prices : ExecuteOrder(taken, received)
         \/ ReplySellAsset
         \/ ExecuteCallback
         \/ ExecuteSend
  PROVE  UNCHANGED <<vars, transients>> /\ Running'
<1>1. UNCHANGED <<vars, transients>>
  BY DEF BeginTryBid, BeginTrySettle, BeginManualSwap, BeginForgedCallback, Begin,
         ExecuteBid, ReplyTryBid, ExecuteOrder, ReplySellAsset, ExecuteCallback,
         ExecuteSend, Done
<1>2. Running'
  <2>1. CASE \E sender \in Bidders, round \in Bid!Rounds, value \in Values :
               BeginTryBid(sender, round, value)
    BY <2>1, BeginTryBidStep DEF Running
  <2>2. CASE \E routed, liquid \in SUBSET Assets : BeginTrySettle(routed, liquid)
    BY <2>2, BeginSettleStep DEF Running
  <2>3. CASE \E sender \in Admins, asset \in Assets, target \in SwapTargets,
                amount \in 1..MaxBasket :
               BeginManualSwap(sender, asset, target, amount)
    BY <2>3, BeginManualSwapStep DEF Running
  <2>4. CASE \E sender \in Bidders : BeginForgedCallback(sender)
    BY <2>4, ForgedStep DEF Running
  <2>5. CASE ExecuteBid
    BY <2>5, ExecuteBidStep DEF Running
  <2>6. CASE ReplyTryBid
    BY <2>6, ReplyTryBidStep DEF Running
  <2>7. CASE \E taken \in 1..MaxBasket, received \in Prices : ExecuteOrder(taken, received)
    <3>1. Swapping \/ Settling
      BY <2>7, WhatRuns DEF ExecuteOrder, Waits
    <3> QED BY <2>7, <3>1, SwapOrderStep, SettleOrderStep DEF Running
  <2>8. CASE ReplySellAsset
    <3>1. Swapping \/ Settling
      BY <2>8, WhatRuns DEF ReplySellAsset, Waits
    <3> QED BY <2>8, <3>1, SwapReplyStep, SettleReplyStep DEF Running
  <2>9. CASE ExecuteCallback
    <3>1. (Swapping \/ Settling \/ Forging) /\ tx # None
      BY <2>9, WhatRuns DEF ExecuteCallback, Waits
    <3> QED BY <2>9, <3>1, SwapCallbackStep, SettleCallbackStep, ForgedStep DEF Running
  <2>10. CASE ExecuteSend
    <3>1. Settling
      BY <2>10, WhatRuns DEF ExecuteSend, Waits
    <3> QED BY <2>10, <3>1, SettleSendStep DEF Running
  <2> QED
    BY <2>1, <2>2, <2>3, <2>4, <2>5, <2>6, <2>7, <2>8, <2>9, <2>10
<1> QED BY <1>1, <1>2

\* What a transaction stores when it ends.
LEMMA CommitStep ==
  ASSUME TxInv, Commit
  PROVE  Next /\ UNCHANGED transients /\ tx' = None
<1>1. tx # None /\ tx' = None /\ tx.queue = <<>>
  BY DEF Commit
<1>2. Running
  BY <1>1 DEF TxInv
<1> QED BY <1>1, <1>2, CommitBid, CommitSwap, CommitSettle, CommitForget, ForgedStep
  DEF Running

\* Every step keeps the invariant and is a step of AuctionDao or none.
LEMMA TxStep ==
  ASSUME TxInv, [TxNext]_tx_vars
  PROVE  TxInv' /\ [Next]_vars
<1>1. ASSUME [Next]_vars, UNCHANGED transients, tx' # None => Running'
      PROVE  TxInv' /\ [Next]_vars
  <2>1. DaoInv'
    BY <1>1, StepInv DEF TxInv
  <2>2. TransientsEmpty'
    BY <1>1 DEF TxInv, TransientsEmpty, transients
  <2> QED BY <1>1, <2>1, <2>2 DEF TxInv
<1>2. CASE SimpleStep
  <2>1. Next
    BY <1>2 DEF SimpleStep, Next, Step
  <2>2. UNCHANGED transients /\ tx' = None
    BY <1>2 DEF SimpleStep
  <2> QED BY <1>1, <2>1, <2>2
<1>3. CASE Commit
  BY <1>1, <1>3, CommitStep
<1>4. CASE Revert
  BY <1>1, <1>4 DEF Revert
<1>5. CASE UNCHANGED tx_vars
  <2>1. UNCHANGED <<vars, transients>> /\ tx' = tx
    BY <1>5 DEF tx_vars
  <2>2. tx' # None => Running
    BY <2>1 DEF TxInv
  <2>3. tx' # None => Running'
    BY <1>5, <2>2, RunningStays
  <2> QED BY <1>1, <2>1, <2>3
<1>6. CASE ~SimpleStep /\ ~Commit /\ ~Revert /\ TxNext
  <2>1. UNCHANGED <<vars, transients>> /\ Running'
    BY <1>6, InnerStep DEF TxNext
  <2> QED BY <1>1, <2>1
<1> QED BY <1>2, <1>3, <1>4, <1>5, <1>6

\* At every point of a transaction, what its copy of the store holds and the messages that
\* wait are those that its handler and replies have produced so far.
THEOREM TxInvariant == TxSpec => []TxInv
<1>1. TxInit => TxInv
  BY InitInv DEF TxInit, TxInv, TransientsEmpty, transients
<1>2. TxInv /\ [TxNext]_tx_vars => TxInv'
  BY TxStep
<1> QED BY <1>1, <1>2, PTL DEF TxSpec

\* Every transaction of AuctionDao is stored as a whole or not at all: the bid with its
\* record, the sale with its callback and its reward.  With this every theorem about
\* AuctionDao, and through PartsKept about Lp and Auction, holds of the contract that runs
\* message by message.
THEOREM TxRefinesDao == TxSpec => RefinesDao
<1>1. TxInit => Init
  BY DEF TxInit
<1>2. TxInv /\ [TxNext]_tx_vars => [Next]_vars
  BY TxStep
<1> QED BY <1>1, <1>2, TxInvariant, PTL DEF TxSpec, RefinesDao, Spec

\* No transaction leaves a transient item behind.
THEOREM TransientsCleared == TxSpec => []TransientsEmpty
<1>1. TxInv => TransientsEmpty
  BY DEF TxInv
<1> QED BY <1>1, TxInvariant, PTL

\* Every order that was executed is counted once, if what the admin sells is sold for INJ.
THEOREM SalesCounted ==
  ASSUME SwapTargets \subseteq {INJ}
  PROVE  TxSpec => []SettledCounted
<1>1. ASSUME TxInv
      PROVE  SettledCounted
  <2> DEFINE Counted == tx.store.settled_amount_transient + Unanswered
                          = InitialAmount(tx.queue[Len(tx.queue)].bid_attempt)
                              + (tx.store.balance - balance)
  <2> SUFFICES ASSUME tx # None, tx.store.settled_amount_transient # None
               PROVE  Counted
    BY DEF SettledCounted
  <2>1. settled_amount_transient = None
    BY <1>1 DEF TxInv, TransientsEmpty, transients
  <2>2. ~Bidding /\ ~Forgetting /\ ~Forging
    <3>1. \A bid : /\ Asked(bid).settled_amount_transient = None
                   /\ Bidden(bid).settled_amount_transient = None
                   /\ Recorded(bid).settled_amount_transient = None
      BY <2>1 DEF Recorded, Bidden, Asked, Store
    <3>2. /\ Store.settled_amount_transient = None
          /\ [Store EXCEPT !.bid_attempt = None].settled_amount_transient = None
      BY <2>1 DEF Store
    <3> QED BY <3>1, <3>2 DEF Bidding, Forgetting, Forging
  <2>3. CASE Swapping
    <3>1. \/ \E asset, amount, target :
                /\ tx.store = [Store EXCEPT !.settled_amount_transient = 0]
                /\ tx.queue = <<OrderMsg(asset, amount, target), SwapCallback>>
          \/ \E asset \in Assets, target \in SwapTargets, taken \in 1..MaxBasket,
                received \in Prices :
               \/ /\ tx.store = Sold(asset, target, taken, received, 0)
                  /\ tx.queue = <<SwapReply(received), SwapCallback>>
               \/ /\ tx.store = Sold(asset, target, taken, received, received)
                  /\ tx.queue = <<SwapCallback>>
      <4>1. ASSUME NEW a, NEW b, NEW c, NEW d, NEW n
            PROVE  Credited(Sold(a, b, c, d, d), n) # tx.store
        <5>1. Credited(Sold(a, b, c, d, d), n).settled_amount_transient = None
          BY DEF Credited, Sold, Store
        <5> QED BY <5>1
      <4> QED BY <2>3, <4>1 DEF Swapping
    <3>3. SwapCallback.bid_attempt = manual_swap_attempt
          /\ InitialAmount(manual_swap_attempt) = 0
      BY DaoAssumption
      DEF SwapCallback, CallbackMsg, manual_swap_attempt, InitialAmount, Bid!EmptyBasket
    <3>4. \A m : /\ <<m, SwapCallback>>[Len(<<m, SwapCallback>>)] = SwapCallback
                 /\ <<SwapCallback>>[Len(<<SwapCallback>>)] = SwapCallback
      OBVIOUS
    <3>5. balance \in Nat
      BY <1>1 DEF TxInv, DaoInv, DaoTypeOK
    <3>6. ASSUME NEW asset, NEW amount, NEW target,
                 tx.store = [Store EXCEPT !.settled_amount_transient = 0],
                 tx.queue = <<OrderMsg(asset, amount, target), SwapCallback>>
          PROVE  Counted
      <4>1. tx.store.settled_amount_transient = 0 /\ tx.store.balance = balance
        BY <3>6 DEF Store
      <4>2. Unanswered = 0
        BY <3>6, TwoMessages DEF Unanswered, Waits, OrderMsg
      <4> QED BY <3>3, <3>4, <3>5, <3>6, <4>1, <4>2
    <3>7. ASSUME NEW asset, NEW target \in SwapTargets, NEW taken, NEW received \in Prices,
                 tx.store = Sold(asset, target, taken, received, 0),
                 tx.queue = <<SwapReply(received), SwapCallback>>
          PROVE  Counted
      <4>1. tx.store.settled_amount_transient = 0 /\ tx.store.balance = balance + received
        BY <3>7 DEF Sold, Store
      <4>2. Unanswered = received
        BY <3>7, TwoMessages DEF Unanswered, Waits, SwapReply, Message
      <4>3. received \in Nat
        BY <3>7, DaoAssumption
      <4> QED BY <3>3, <3>4, <3>5, <3>7, <4>1, <4>2, <4>3
    <3>8. ASSUME NEW asset, NEW target \in SwapTargets, NEW taken, NEW received \in Prices,
                 tx.store = Sold(asset, target, taken, received, received),
                 tx.queue = <<SwapCallback>>
          PROVE  Counted
      <4>1. /\ tx.store.settled_amount_transient = received
            /\ tx.store.balance = balance + received
        BY <3>8 DEF Sold, Store
      <4>2. Unanswered = 0
        BY <3>8, OneMessage DEF Unanswered, Waits, SwapCallback, CallbackMsg
      <4>3. received \in Nat
        BY <3>8, DaoAssumption
      <4> QED BY <3>3, <3>4, <3>5, <3>8, <4>1, <4>2, <4>3
    <3> QED BY <3>1, <3>6, <3>7, <3>8
  <2>4. CASE Settling
    <3>1. PICK routed \in SUBSET Assets, liquid \in SUBSET Assets,
               taken \in [Assets -> 0..MaxBasket], proceeds \in [Assets -> Nat],
               sold \in SUBSET Assets :
            /\ sold = Bid!Sold(bid_attempt.basket, routed)
            /\ SettleGuards(routed, liquid)
            /\ SaleGoesOn(sold, taken, proceeds) \/ SaleOver(sold, taken, proceeds)
      <4>1. \A routed : Bid!Sold(bid_attempt.basket, routed) \in SUBSET Assets
        BY DEF Bid!Sold, Assets
      <4> QED BY <2>4, <4>1 DEF Settling
    <3>2. ~SaleOver(sold, taken, proceeds)
      <4>1. SoldOff(sold, taken, proceeds).settled_amount_transient = None
        BY DEF SoldOff, Resolved, Credited, Selling, Store
      <4>2. \A n : PaidOff(SoldOff(sold, taken, proceeds), n).settled_amount_transient = None
        BY <4>1 DEF PaidOff, SoldOff, Resolved, Credited, Selling, Store
      <4> QED BY <4>1, <4>2 DEF SaleOver
    <3>3. PICK n \in Nat : /\ n + Pending(tx.queue) = Settled(bid_attempt, sold, proceeds)
                           /\ tx.store = Selling(sold, taken, proceeds, n)
      BY <3>1, <3>2 DEF SaleGoesOn
    <3>4. tx.queue # <<>> /\ tx.queue[Len(tx.queue)] = CallbackMsg(Contract, bid_attempt)
      BY <3>1, <3>2 DEF SaleGoesOn, SaleQueue
    <3>5. Unanswered = Pending(tx.queue)
      BY <3>4 DEF Unanswered, Waits, Message, Pending
    <3>6. /\ tx.store.settled_amount_transient = n
          /\ tx.store.balance = balance + Income(sold, proceeds)
      BY <3>3 DEF Selling, Store
    <3>7. balance \in Nat /\ Income(sold, proceeds) \in Nat
      <4>1. balance \in Nat /\ IsFiniteSet(sold) /\ sold \in SUBSET Assets
        BY <1>1, <3>1, SaleFacts DEF SettleGuards
      <4> QED BY <4>1, TotalType DEF Income
    <3>8. CallbackMsg(Contract, bid_attempt).bid_attempt = bid_attempt
      BY DEF CallbackMsg
    <3>9. Settled(bid_attempt, sold, proceeds)
            = InitialAmount(bid_attempt) + Income(sold, proceeds)
      BY DEF Settled, Income
    <3> QED BY <3>3, <3>4, <3>5, <3>6, <3>7, <3>8, <3>9
  <2> QED BY <1>1, <2>2, <2>3, <2>4 DEF TxInv, Running
<1> QED BY <1>1, TxInvariant, PTL

\* From the message to the ledger: however its transactions are interrupted, the contract
\* implements the ledger of the providers' rewards and the escrow of their INJ, and can pay
\* them what it owes, unless it lost more on bids than its won baskets and others brought
\* in beside; every INJ is accounted for, that which others send with a message included.
THEOREM MessagesKeepPromises ==
  ASSUME SwapTargets \subseteq {INJ}
  PROVE  TxSpec => /\ LpP!RefinesLedger /\ BidP!RefinesEscrow
                   /\ [](InjAccounted /\ Solvent)
                   /\ BackersFixed
<1>1. TxSpec => Spec
  BY TxRefinesDao, PTL DEF RefinesDao
<1>2. Spec => [](InjAccounted /\ Solvent)
  BY InjConserved, Solvency, PTL
<1> QED BY <1>1, <1>2, PromisesKept, BackersStay, PTL

===============================================================================

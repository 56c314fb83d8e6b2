-------------------------------- MODULE Auction -------------------------------
(***************************************************************************)
(* The life of a bid (auction.rs, the TRY_BID reply of contract.rs) next   *)
(* to the auction module of the chain it bids in.  Anyone may ask the      *)
(* contract to bid, to settle or to clear its bid, at any time; rivals     *)
(* bid, fees arrive, blocks come early or late, and the chain closes a     *)
(* round in the first block whose time has reached the closing time, after *)
(* that block's transactions.                                              *)
(*                                                                         *)
(* An action is a whole transaction: the handler, its submessages, their   *)
(* replies and the callback, which the chain commits or reverts together.  *)
(***************************************************************************)
EXTENDS Integers

CONSTANTS
  Bidders,               \* accounts that send TryBid
  Contract, Rival,       \* the two sides that bid in the auction
  Nobody,                \* the highest bidder of a round without bids
  None,                  \* nothing stored
  Denoms, INJ,           \* denominations of a basket; INJ is Config.accepted_denom
  BidBuffers,            \* values of Config.bid_time_buffer_secs
  IncrementBps,          \* auction parameter min_next_bid_increment_rate
  Period,                \* length of a round
  Steps,                 \* how far the time of one block may be from the last
  Values,                \* values of a basket, and balances, in INJ
  PromptSettlement,      \* whether a bid is settled before the next round closes
  MaxRound, MaxBid, MaxBasket

ASSUME AuctionAssumption ==
  /\ Contract # Rival /\ Contract # Nobody /\ Rival # Nobody
  /\ INJ \in Denoms
  /\ BidBuffers \subseteq Nat
  /\ IncrementBps \in Nat
  /\ Period \in Nat \ {0}
  /\ Steps \subseteq Nat \ {0}
  /\ Values \subseteq Nat
  /\ PromptSettlement \in BOOLEAN
  /\ MaxRound \in Nat /\ MaxBid \in Nat /\ MaxBasket \in Nat

Rounds == 1..MaxRound
Basket == [Denoms -> Nat]
EmptyBasket == [d \in Denoms |-> 0]

BidAttempt ==
  [round : Rounds, amount : Nat, submitted_by : Bidders, basket : Basket]

\* The contract's INJ that is out for a bid: held by the auction or, once spent,
\* turned into a basket that is not yet settled.
Stake == [bid : BidAttempt, spent : BOOLEAN]

CurrentAuction ==
  [round : 1..(MaxRound + 1), closing : Nat, highestBidder : {Contract, Rival, Nobody},
   highestBidAmount : Nat, basket : Basket]

LastResult == [round : Rounds, winner : {Contract, Rival}, amount : Nat]

ASSUME NoneAssumption == None \notin BidAttempt \cup Stake \cup LastResult

VARIABLES
  bid_attempt,   \* BID_ATTEMPT, or None
  auction,       \* the current auction: round, closing, highest bid, basket
  last_result,   \* the result of the last round that had a bid, or None
  now,           \* the time of the current block
  stake,         \* history: the contract's INJ that is out for a bid, or None
  won,           \* history: the rounds the contract won
  payouts        \* history: how often the profit of each round was shared out

chain == <<auction, last_result, now>>
history == <<stake, won, payouts>>
vars == <<bid_attempt, chain, history>>

Init ==
  /\ bid_attempt = None
  /\ auction = [round |-> 1, closing |-> Period, highestBidder |-> Nobody,
                highestBidAmount |-> 0, basket |-> EmptyBasket]
  /\ last_result = None
  /\ now = 0
  /\ stake = None
  /\ won = {}
  /\ payouts = [r \in Rounds |-> 0]

-------------------------------------------------------------------------------
(* The auction module of the chain. *)

\* Whether the auction accepts a bid over the highest one.
Outbids(amount, highest) ==
  amount > 0 /\ amount * 10000 >= highest * (10000 + IncrementBps)

\* The highest bid is replaced, and the bidder it belonged to is refunded.
MsgBid(bidder, round, amount) ==
  /\ round = auction.round
  /\ Outbids(amount, auction.highestBidAmount)
  /\ auction.round <= MaxRound /\ amount <= MaxBid   \* bounds
  /\ auction' = [auction EXCEPT !.highestBidder = bidder, !.highestBidAmount = amount]
  /\ UNCHANGED <<last_result, now>>

RivalBid(amount) ==
  /\ MsgBid(Rival, auction.round, amount)
  /\ stake' = IF auction.highestBidder = Contract THEN None ELSE stake
  /\ UNCHANGED <<bid_attempt, won, payouts>>

\* Exchange fees are added to the basket of the running auction.
FeesArrive(d) ==
  /\ auction.basket[d] < MaxBasket   \* bound
  /\ auction' = [auction EXCEPT !.basket = [auction.basket EXCEPT ![d] = @ + 1]]
  /\ UNCHANGED <<bid_attempt, last_result, now, history>>

\* The next block, once the round that was due is closed.
NextBlock(step) ==
  /\ now < auction.closing
  /\ auction.round <= MaxRound   \* bound
  /\ now' = now + step
  /\ UNCHANGED <<bid_attempt, auction, last_result, history>>

\* A round without bids leaves the last result alone and its basket in the auction.
CloseRound ==
  LET bids == auction.highestBidder # Nobody
      wins == auction.highestBidder = Contract
  IN
  /\ now >= auction.closing
  /\ auction.round <= MaxRound   \* bound
  /\ PromptSettlement /\ bid_attempt # None => bid_attempt.round = auction.round
  /\ auction' = [round            |-> auction.round + 1,
                 closing          |-> auction.closing + Period,
                 highestBidder    |-> Nobody,
                 highestBidAmount |-> 0,
                 basket           |-> IF bids THEN EmptyBasket ELSE auction.basket]
  /\ last_result' = IF bids THEN [round  |-> auction.round,
                                  winner |-> auction.highestBidder,
                                  amount |-> auction.highestBidAmount]
                    ELSE last_result
  /\ won' = IF wins THEN won \cup {auction.round} ELSE won
  /\ stake' = IF wins THEN [stake EXCEPT !.spent = TRUE] ELSE stake
  /\ UNCHANGED <<bid_attempt, now, payouts>>

-------------------------------------------------------------------------------
(* Handlers of the contract. *)

\* Bids start this long before the auction closes.
InBidTime(bid_time_buffer_secs) == now + bid_time_buffer_secs >= auction.closing

\* Mutant: try_bid does not look for a bid of the previous round.
BidAnyway == TRUE

\* A bid of the previous round has to be settled first.
PreviousBidSettled == bid_attempt # None => bid_attempt.round >= auction.round

\* Mutant: the product is rounded down.
BidRoundedDown(highest) ==
  IF highest = 0 THEN 1 ELSE (highest * (10000 + IncrementBps)) \div 10000

\* The highest bid and the increment, rounded up; the first bid is 1.
MinBidSize(highest) ==
  IF highest = 0 THEN 1 ELSE (highest * (10000 + IncrementBps) + 9999) \div 10000

\* What get_current_auction_value_using_router may answer: INJ counts as it is, and
\* what the other assets of the basket are worth is up to the router.
RouterValue(value) ==
  IF \E d \in Denoms \ {INJ} : auction.basket[d] > 0
  THEN value >= auction.basket[INJ]
  ELSE value = auction.basket[INJ]

\* Mutant: the attempt names the contract, which sends the bid, as its submitter.
SubmittedByContract(sender, round, amount) ==
  [round |-> round, amount |-> amount, submitted_by |-> Contract,
   basket |-> auction.basket]

\* What try_bid writes to BID_ATTEMPT_TRANSIENT.
Attempt(sender, round, amount) ==
  [round |-> round, amount |-> amount, submitted_by |-> sender,
   basket |-> auction.basket]

\* Mutant: an attempt that is already stored is kept when the contract bids again.
AttemptKept(bid) == bid_attempt' = IF bid_attempt = None THEN bid ELSE bid_attempt

\* The TRY_BID reply: BID_ATTEMPT_TRANSIENT becomes BID_ATTEMPT.
ReplyTryBid(bid) == bid_attempt' = bid

\* Mutant: the reply is asked for whether the bid succeeds or fails, and the
\* attempt is stored without looking at the outcome.
BidReplyAlways(sender, round, value, balance, buffer) ==
  LET amount == MinBidSize(auction.highestBidAmount)
      bid    == Attempt(sender, round, amount)
  IN
  /\ round = auction.round
  /\ auction.highestBidder # Contract
  /\ PreviousBidSettled
  /\ InBidTime(buffer)
  /\ RouterValue(value)
  /\ value > amount
  /\ ReplyTryBid(bid)
  /\ \/ /\ amount <= balance
        /\ MsgBid(Contract, round, amount)
        /\ stake' = [bid |-> bid, spent |-> FALSE]
     \/ /\ amount > balance
        /\ auction.round <= MaxRound   \* bound
        /\ UNCHANGED <<chain, stake>>
  /\ UNCHANGED <<won, payouts>>

\* try_bid, its MsgBid and the reply: nothing is stored unless MsgBid succeeds.
TryBid(sender, round, value, balance, buffer) ==
  LET amount == MinBidSize(auction.highestBidAmount)
      bid    == Attempt(sender, round, amount)
  IN
  /\ round = auction.round
  /\ auction.highestBidder # Contract
  /\ PreviousBidSettled
  /\ InBidTime(buffer)
  /\ RouterValue(value)
  /\ value > amount
  /\ amount <= balance
  /\ MsgBid(Contract, round, amount)
  /\ ReplyTryBid(bid)
  /\ stake' = [bid |-> bid, spent |-> FALSE]
  /\ UNCHANGED <<won, payouts>>

\* What try_settle sells of a basket: it skips INJ, empty amounts and every asset
\* without a route.
Sold(basket, routed) == {d \in (Denoms \ {INJ}) \cap routed : basket[d] # 0}

\* Mutant: any later result settles the bid, whoever won its own round.
SettleLate ==
  bid_attempt # None /\ last_result # None /\ bid_attempt.round <= last_result.round

\* The auction has published the result of the round the contract bid in.
ResultKnown ==
  bid_attempt # None /\ last_result # None /\ bid_attempt.round = last_result.round

\* The profit of the round of the attempt is shared out; see Callback of Lp.
BidSettledSuccess ==
  /\ payouts' = [payouts EXCEPT ![bid_attempt.round] = @ + 1]
  /\ stake' = IF stake # None /\ stake.bid.round = bid_attempt.round THEN None ELSE stake

\* Mutant: BID_ATTEMPT is removed only when the bid was lost.
WonBidKept(routed, liquid) ==
  /\ ResultKnown
  /\ \/ /\ last_result.winner # Contract
        /\ bid_attempt' = None
        /\ UNCHANGED <<stake, payouts>>
     \/ /\ last_result.winner = Contract
        /\ payouts[bid_attempt.round] < 2   \* bound
        /\ bid_attempt' = bid_attempt
        /\ BidSettledSuccess
  /\ UNCHANGED <<chain, won>>

\* A basket with an asset that has a route and no buyer cannot be settled.
TrySettle(routed, liquid) ==
  /\ ResultKnown
  /\ bid_attempt' = None
  /\ \/ /\ last_result.winner # Contract
        /\ UNCHANGED <<stake, payouts>>
     \/ /\ last_result.winner = Contract
        /\ Sold(bid_attempt.basket, routed) \subseteq liquid
        /\ BidSettledSuccess
  /\ UNCHANGED <<chain, won>>

\* Mutant: the bid is cleared although it is the highest one.
ClearHighest ==
  /\ bid_attempt # None
  /\ bid_attempt.round = auction.round
  /\ bid_attempt' = None
  /\ UNCHANGED <<chain, history>>

\* Mutant: the bid is cleared whatever round it was for.
ClearAnyRound ==
  /\ bid_attempt # None
  /\ auction.highestBidder # Contract
  /\ bid_attempt' = None
  /\ UNCHANGED <<chain, history>>

TryClearCurrentBid ==
  /\ bid_attempt # None
  /\ bid_attempt.round = auction.round
  /\ auction.highestBidder # Contract
  /\ bid_attempt' = None
  /\ UNCHANGED <<chain, history>>

Settle == \E routed, liquid \in SUBSET (Denoms \ {INJ}) : TrySettle(routed, liquid)

Next ==
  \/ \E sender \in Bidders, round \in Rounds, value, balance \in Values,
        buffer \in BidBuffers :
       TryBid(sender, round, value, balance, buffer)
  \/ Settle
  \/ TryClearCurrentBid
  \/ \E amount \in 1..MaxBid : RivalBid(amount)
  \/ \E d \in Denoms : FeesArrive(d)
  \/ \E step \in Steps : NextBlock(step)
  \/ CloseRound

Spec == Init /\ [][Next]_vars

\* Blocks are produced, rounds are closed, and someone keeps asking to settle in
\* a state where every routed asset of the basket finds a buyer.
FairSpec ==
  /\ Spec
  /\ WF_vars(\E step \in Steps : NextBlock(step))
  /\ WF_vars(CloseRound)
  /\ WF_vars(Settle)

-------------------------------------------------------------------------------
(* Properties. *)

AuctionTypeOK ==
  /\ bid_attempt \in BidAttempt \cup {None}
  /\ auction \in CurrentAuction
  /\ last_result \in LastResult \cup {None}
  /\ now \in Nat
  /\ stake \in Stake \cup {None}
  /\ won \subseteq Rounds
  /\ payouts \in [Rounds -> Nat]

\* The bid that try_bid computes is the least one the auction accepts: no bid of the
\* contract is refused for its amount, and none is higher than it has to be.
MinBidTight ==
  LET amount == MinBidSize(auction.highestBidAmount) IN
  /\ Outbids(amount, auction.highestBidAmount)
  /\ ~Outbids(amount - 1, auction.highestBidAmount)

\* As long as INJ of the contract is out for a bid, BID_ATTEMPT is that bid, with
\* the amount, submitter and basket to settle it with: deposits and withdrawals,
\* which only look at BID_ATTEMPT, are refused the whole time.
StakeRecorded == stake # None => bid_attempt = stake.bid

\* The profit of a round is shared out once, after the contract won it, and a
\* won round is not shared out only while its bid waits to be settled.
PaidOncePerWin ==
  \A r \in Rounds :
    payouts[r] = IF r \in won /\ ~(bid_attempt # None /\ bid_attempt.round = r)
                 THEN 1 ELSE 0

\* During the whole round after its own a recorded bid passes the round check of
\* try_settle: it is never recorded for a round that may end without a result.
SettleWindow ==
  bid_attempt # None /\ auction.round = bid_attempt.round + 1
    => last_result # None /\ last_result.round = bid_attempt.round

\* The auction has a later result than the one the recorded bid waits for.
Stuck ==
  bid_attempt # None /\ last_result # None /\ last_result.round > bid_attempt.round

\* A bid that was not settled in time stays recorded for good, and no bid is
\* placed any more: none of try_settle, try_clear_current_bid and try_bid gets
\* past its check of the round.
StuckIsPermanent ==
  [][Stuck => Stuck' /\ bid_attempt' = bid_attempt /\ stake' = stake]_vars

\* Bidding, refunds, wins and settlements implement the escrow: the INJ of the
\* providers backs one bid at a time, and no other before a win is shared out.
Escrow == INSTANCE BidEscrow WITH Bids <- BidAttempt
RefinesEscrow == Escrow!Spec

\* error.rs says of the refusal of try_settle: "Bid attempt round not finished".
RefusalMeansUnfinished ==
  bid_attempt # None /\ last_result # None /\ bid_attempt.round # last_result.round
    => bid_attempt.round >= auction.round

\* With prompt settlement, every recorded bid is resolved, so that deposits and
\* withdrawals open again.
BidResolved == bid_attempt # None ~> bid_attempt = None

\* With prompt settlement, the profit of every won round is shared out.
WinsPaid == \A r \in Rounds : r \in won ~> payouts[r] = 1

===============================================================================

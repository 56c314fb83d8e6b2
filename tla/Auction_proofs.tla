---------------------------- MODULE Auction_proofs ----------------------------
(***************************************************************************)
(* Theorems about the life of a bid, for every number of rounds, every     *)
(* timing of the blocks and every choice of the other constants.           *)
(*                                                                         *)
(* None of the properties is inductive: which of BID_ATTEMPT, the running  *)
(* auction and its last result speak of the same round is said nowhere in  *)
(* the contract.  AuctionInv says it.                                      *)
(***************************************************************************)
EXTENDS Auction, TLAPS

\* Nothing is known about rounds that are still to come, and nothing is decided
\* about the running one; a bid recorded for it left a bid in it.
OpenRound ==
  /\ bid_attempt # None => bid_attempt.round <= auction.round
  /\ last_result # None => last_result.round < auction.round
  /\ \A r \in won : r < auction.round
  /\ bid_attempt # None /\ bid_attempt.round = auction.round
       => auction.highestBidder # Nobody

\* The contract is the highest bidder exactly while the auction holds its INJ; INJ
\* that is spent was spent on a win, which is not forgotten before it is settled.
StakeHeld ==
  /\ auction.highestBidder = Contract <=> stake # None /\ ~stake.spent
  /\ stake # None /\ ~stake.spent => stake.bid.round = auction.round
  /\ stake # None /\ stake.spent => stake.bid.round \in won
  /\ bid_attempt # None /\ bid_attempt.round \in won => stake # None

\* The published result names the contract when it won.
ResultAgrees ==
  last_result # None => (last_result.winner = Contract <=> last_result.round \in won)

AuctionInv ==
  /\ AuctionTypeOK
  /\ OpenRound
  /\ StakeHeld
  /\ ResultAgrees
  /\ StakeRecorded
  /\ PaidOncePerWin
  /\ SettleWindow

\* The types are expanded wherever a proof needs AuctionTypeOK.
USE DEF Rounds, CurrentAuction, LastResult

-------------------------------------------------------------------------------
(* The size of a bid. *)

\* The size of a bid is an amount of tokens.
LEMMA MinBidSizeType ==
  ASSUME NEW highest \in Nat
  PROVE  MinBidSize(highest) \in Nat
<1> DEFINE p == highest * (10000 + IncrementBps)
<1>1. p \in Nat
  BY AuctionAssumption DEF AuctionAssumption
<1>2. (p + 9999) \div 10000 \in Nat
  <2> HIDE DEF p
  <2> QED BY <1>1
<1> QED BY <1>2 DEF MinBidSize

\* try_bid offers the smallest amount that the auction accepts: rounding up neither
\* gives a token away nor leaves the bid below the increment.
THEOREM MinBidSizeLeast ==
  ASSUME NEW highest \in Nat, NEW amount \in Nat
  PROVE  Outbids(amount, highest) <=> amount >= MinBidSize(highest)
<1> DEFINE p == highest * (10000 + IncrementBps)
           q == (p + 9999) \div 10000
<1>1. p \in Nat
  BY AuctionAssumption DEF AuctionAssumption
<1>2. highest = 0 => p = 0
  BY AuctionAssumption DEF AuctionAssumption
<1>3. highest # 0 => p >= 10000
  <2>1. p = highest * 10000 + highest * IncrementBps
    BY AuctionAssumption DEF AuctionAssumption
  <2>2. highest * IncrementBps \in Nat
    BY AuctionAssumption DEF AuctionAssumption
  <2> HIDE DEF p
  <2> QED BY <2>1, <2>2
<1>4. q \in Nat /\ 10000 * q <= p + 9999 /\ p + 9999 < 10000 * q + 10000
  <2> HIDE DEF p
  <2> QED BY <1>1
<1>5. Outbids(amount, highest) <=> amount > 0 /\ amount * 10000 >= p
  BY DEF Outbids
<1>6. MinBidSize(highest) = IF highest = 0 THEN 1 ELSE q
  BY DEF MinBidSize
<1> HIDE DEF p, q
<1> QED BY <1>1, <1>2, <1>3, <1>4, <1>5, <1>6

-------------------------------------------------------------------------------
(* Each action keeps the invariant.  The escrow's view of a step is proved with *)
(* it, since both need the same facts about which round everything is in.       *)

\* Nothing is recorded, held or decided in the first round.
LEMMA InitInv ==
  ASSUME Init
  PROVE  AuctionInv
<1>1. AuctionTypeOK
  BY AuctionAssumption
     DEF Init, AuctionTypeOK, CurrentAuction, AuctionAssumption, Basket, EmptyBasket
<1>2. OpenRound /\ StakeHeld /\ ResultAgrees /\ StakeRecorded
  BY AuctionAssumption DEF Init, OpenRound, StakeHeld, ResultAgrees, StakeRecorded,
     AuctionAssumption
<1>3. PaidOncePerWin /\ SettleWindow
  BY DEF Init, PaidOncePerWin, SettleWindow
<1> QED BY <1>1, <1>2, <1>3 DEF AuctionInv

\* The contract bids only while none of its INJ is out: INJ held by the auction
\* would make it the highest bidder, and INJ that is spent belongs to a bid of an
\* earlier round, which try_bid refuses to replace.
LEMMA NothingOut ==
  ASSUME AuctionInv, auction.highestBidder # Contract, PreviousBidSettled
  PROVE  stake = None
<1>1. CASE stake # None /\ ~stake.spent
  BY <1>1 DEF AuctionInv, StakeHeld
<1>2. CASE stake # None /\ stake.spent
  <2>1. bid_attempt = stake.bid /\ stake.bid.round < auction.round
    BY <1>2 DEF AuctionInv, StakeHeld, StakeRecorded, OpenRound
  <2>2. bid_attempt # None
    BY <1>2, <2>1, NoneAssumption DEF AuctionInv, AuctionTypeOK, Stake
  <2>3. bid_attempt.round \in Nat /\ auction.round \in Nat
    BY <2>2 DEF AuctionInv, AuctionTypeOK, BidAttempt
  <2> QED BY <2>1, <2>2, <2>3 DEF PreviousBidSettled
<1> QED BY <1>1, <1>2

\* TryBid places a bid in the escrow and records it.
LEMMA BidStep ==
  ASSUME AuctionInv,
         NEW sender \in Bidders, NEW round \in Rounds, NEW value, NEW balance,
         NEW buffer, TryBid(sender, round, value, balance, buffer)
  PROVE  AuctionInv' /\ Escrow!Place
<1> DEFINE amount == MinBidSize(auction.highestBidAmount)
           bid    == Attempt(sender, round, amount)
<1>1. bid \in BidAttempt /\ bid.round = auction.round /\ bid # None
  <2>1. amount \in Nat
    BY MinBidSizeType DEF AuctionInv, AuctionTypeOK
  <2> HIDE DEF amount
  <2> QED BY <2>1, NoneAssumption
          DEF TryBid, Attempt, BidAttempt, AuctionInv, AuctionTypeOK
<1>2. /\ bid_attempt' = bid
      /\ stake' = [bid |-> bid, spent |-> FALSE]
      /\ auction' = [auction EXCEPT !.highestBidder = Contract,
                                    !.highestBidAmount = amount]
      /\ UNCHANGED <<last_result, now, won, payouts>>
  BY DEF TryBid, MsgBid, ReplyTryBid
<1>3. stake' \in Stake /\ stake' # None
  <2>1. stake' = [bid |-> bid, spent |-> FALSE]
    BY <1>2
  <2> HIDE DEF bid
  <2>2. stake' \in Stake
    BY <1>1, <2>1 DEF Stake
  <2> QED BY <2>2, NoneAssumption
<1>4. stake = None
  BY NothingOut DEF TryBid
<1>5. /\ auction'.round = auction.round
      /\ auction'.highestBidder = Contract
  BY <1>2 DEF AuctionInv, AuctionTypeOK
<1>6. bid_attempt # None => bid_attempt.round \notin won
  <2>1. bid_attempt # None => bid_attempt.round >= auction.round
    BY DEF TryBid, PreviousBidSettled
  <2> QED BY <2>1 DEF AuctionInv, AuctionTypeOK, OpenRound, BidAttempt
<1>7. AuctionTypeOK'
  <2>1. amount \in Nat
    BY MinBidSizeType DEF AuctionInv, AuctionTypeOK
  <2> HIDE DEF amount, bid
  <2> QED BY <1>1, <1>2, <1>3, <2>1 DEF AuctionInv, AuctionTypeOK
<1>8. bid.round \notin won
  BY <1>1 DEF AuctionInv, OpenRound, AuctionTypeOK
<1> HIDE DEF bid, amount
<1>9. OpenRound'
  BY <1>1, <1>2, <1>5, AuctionAssumption
     DEF AuctionInv, OpenRound, AuctionTypeOK, AuctionAssumption, BidAttempt
<1>10. StakeHeld' /\ StakeRecorded'
  BY <1>1, <1>2, <1>3, <1>5, <1>8 DEF StakeHeld, StakeRecorded
<1>11. ResultAgrees'
  BY <1>2 DEF AuctionInv, ResultAgrees
<1>12. PaidOncePerWin'
  BY <1>2, <1>6, <1>8 DEF AuctionInv, PaidOncePerWin
<1>13. SettleWindow'
  BY <1>1, <1>2, <1>5 DEF SettleWindow, BidAttempt
<1>14. Escrow!Place
  BY <1>1, <1>2, <1>4, <1>8 DEF Escrow!Place
<1> QED
  BY <1>7, <1>9, <1>10, <1>11, <1>12, <1>13, <1>14 DEF AuctionInv

\* When a rival outbids the contract the escrow is refunded.
LEMMA RivalStep ==
  ASSUME AuctionInv, NEW amount \in 1..MaxBid, RivalBid(amount)
  PROVE  AuctionInv' /\ (Escrow!Refund \/ UNCHANGED Escrow!vars)
<1>1. /\ auction' = [auction EXCEPT !.highestBidder = Rival,
                                    !.highestBidAmount = amount]
      /\ stake' = IF auction.highestBidder = Contract THEN None ELSE stake
      /\ UNCHANGED <<bid_attempt, last_result, now, won, payouts>>
  BY DEF RivalBid, MsgBid
<1>2. /\ auction'.round = auction.round
      /\ auction'.highestBidder = Rival
      /\ auction' \in CurrentAuction
  <2>1. amount \in Nat /\ auction \in CurrentAuction
    BY DEF AuctionInv, AuctionTypeOK
  <2>2. auction' = [auction EXCEPT !.highestBidder = Rival,
                                   !.highestBidAmount = amount]
    BY <1>1
  <2> QED BY <2>1, <2>2
<1>3. Rival # Contract /\ Rival # Nobody
  BY AuctionAssumption DEF AuctionAssumption
<1>4. AuctionTypeOK'
  BY <1>1, <1>2 DEF AuctionInv, AuctionTypeOK
<1>5. OpenRound'
  BY <1>1, <1>2, <1>3 DEF AuctionInv, OpenRound
<1>6. StakeHeld'
  <2>1. stake' # None => stake' = stake /\ stake.spent
    BY <1>1 DEF AuctionInv, StakeHeld
  <2>2. bid_attempt # None /\ bid_attempt.round \in won => stake' = stake
    <3> SUFFICES ASSUME bid_attempt # None, bid_attempt.round \in won,
                        auction.highestBidder = Contract
                 PROVE  FALSE
      BY <1>1
    <3>1. stake.bid.round = auction.round /\ bid_attempt = stake.bid
      BY DEF AuctionInv, StakeHeld, StakeRecorded
    <3>2. auction.round < auction.round
      BY <3>1 DEF AuctionInv, OpenRound
    <3> QED BY <3>2 DEF AuctionInv, AuctionTypeOK
  <2> QED BY <1>1, <1>2, <1>3, <2>1, <2>2 DEF AuctionInv, StakeHeld
<1>7. StakeRecorded'
  BY <1>1 DEF AuctionInv, StakeRecorded
<1>8. ResultAgrees' /\ PaidOncePerWin'
  BY <1>1 DEF AuctionInv, ResultAgrees, PaidOncePerWin
<1>9. SettleWindow'
  BY <1>1, <1>2 DEF AuctionInv, SettleWindow
<1>10. Escrow!Refund \/ UNCHANGED Escrow!vars
  BY <1>1 DEF AuctionInv, StakeHeld, Escrow!Refund, Escrow!vars
<1> QED
  BY <1>4, <1>5, <1>6, <1>7, <1>8, <1>9, <1>10 DEF AuctionInv

\* Closing a round that the contract leads spends the escrow on a win; nothing
\* else about the bid changes, and the result is published with the new round.
LEMMA CloseStep ==
  ASSUME AuctionInv, CloseRound
  PROVE  AuctionInv' /\ (Escrow!Win \/ UNCHANGED Escrow!vars)
<1> DEFINE bids == auction.highestBidder # Nobody
           wins == auction.highestBidder = Contract
<1>1. /\ auction.round <= MaxRound
      /\ auction' = [round            |-> auction.round + 1,
                     closing          |-> auction.closing + Period,
                     highestBidder    |-> Nobody,
                     highestBidAmount |-> 0,
                     basket           |-> IF bids THEN EmptyBasket ELSE auction.basket]
      /\ last_result' = IF bids THEN [round  |-> auction.round,
                                      winner |-> auction.highestBidder,
                                      amount |-> auction.highestBidAmount]
                        ELSE last_result
      /\ won' = IF wins THEN won \cup {auction.round} ELSE won
      /\ stake' = IF wins THEN [stake EXCEPT !.spent = TRUE] ELSE stake
      /\ UNCHANGED <<bid_attempt, now, payouts>>
  BY DEF CloseRound
<1>2. /\ auction.round \in Rounds
      /\ auction'.round = auction.round + 1
      /\ auction'.highestBidder = Nobody
  BY <1>1 DEF AuctionInv, AuctionTypeOK
<1>3. Nobody # Contract
  BY AuctionAssumption DEF AuctionAssumption
<1>4. wins => /\ stake # None /\ ~stake.spent /\ stake \in Stake
              /\ stake.bid.round = auction.round
              /\ bid_attempt = stake.bid
              /\ stake' = [bid |-> stake.bid, spent |-> TRUE]
              /\ stake' \in Stake /\ stake' # None
  <2> SUFFICES ASSUME wins
               PROVE  /\ stake # None /\ ~stake.spent /\ stake \in Stake
                      /\ stake.bid.round = auction.round
                      /\ bid_attempt = stake.bid
                      /\ stake' = [bid |-> stake.bid, spent |-> TRUE]
                      /\ stake' \in Stake /\ stake' # None
    OBVIOUS
  <2>1. stake # None /\ ~stake.spent /\ stake.bid.round = auction.round
    BY DEF AuctionInv, StakeHeld
  <2>2. stake \in Stake /\ bid_attempt = stake.bid
    BY <2>1 DEF AuctionInv, AuctionTypeOK, StakeRecorded
  <2>3. stake' = [bid |-> stake.bid, spent |-> TRUE]
    BY <1>1, <2>2 DEF Stake
  <2>4. stake' \in Stake
    BY <2>2, <2>3 DEF Stake
  <2> QED BY <2>1, <2>2, <2>3, <2>4, NoneAssumption
<1>5. ~wins => (stake # None => stake.spent) /\ stake' = stake
  BY <1>1 DEF AuctionInv, StakeHeld
<1>6. AuctionTypeOK'
  <2>1. auction' \in CurrentAuction
    <3>1. (IF bids THEN EmptyBasket ELSE auction.basket) \in Basket
      BY DEF AuctionInv, AuctionTypeOK, EmptyBasket, Basket
    <3>2. auction.closing + Period \in Nat /\ auction.round + 1 \in 1..(MaxRound + 1)
      BY <1>1, AuctionAssumption DEF AuctionInv, AuctionTypeOK, AuctionAssumption
    <3> QED BY <1>1, <3>1, <3>2
  <2>2. last_result' \in LastResult \cup {None}
    BY <1>1, <1>2 DEF AuctionInv, AuctionTypeOK
  <2>3. stake' \in Stake \cup {None}
    BY <1>4, <1>5 DEF AuctionInv, AuctionTypeOK
  <2>4. won' \subseteq Rounds
    BY <1>1, <1>2 DEF AuctionInv, AuctionTypeOK
  <2> QED BY <1>1, <2>1, <2>2, <2>3, <2>4 DEF AuctionInv, AuctionTypeOK
<1>7. auction.round \in Nat
  BY <1>2
<1>8. bid_attempt # None => bid_attempt.round \in Nat /\ bid_attempt.round <= auction.round
  BY DEF AuctionInv, AuctionTypeOK, BidAttempt, OpenRound
<1>9. auction.round \notin won
  BY <1>7 DEF AuctionInv, OpenRound
<1>10. bid_attempt # None /\ bid_attempt.round = auction.round => bids
  BY DEF AuctionInv, OpenRound
<1>11. bids => last_result' = [round  |-> auction.round,
                               winner |-> auction.highestBidder,
                               amount |-> auction.highestBidAmount]
  BY <1>1
<1>12. won' = IF wins THEN won \cup {auction.round} ELSE won
  BY <1>1
<1>13. bid_attempt' = bid_attempt /\ payouts' = payouts
  BY <1>1
<1>14. ~bids => last_result' = last_result
  BY <1>1
<1>15. wins => bids
  BY <1>3
<1>16. OpenRound'
  <2>1. \A r \in won' : r < auction'.round
    BY <1>2, <1>7, <1>12 DEF AuctionInv, AuctionTypeOK, OpenRound
  <2>2. last_result' # None => last_result'.round < auction'.round
    BY <1>2, <1>7, <1>11, <1>14 DEF AuctionInv, AuctionTypeOK, OpenRound
  <2>3. bid_attempt' # None => bid_attempt'.round < auction'.round
    BY <1>2, <1>7, <1>8, <1>13
  <2> QED BY <1>2, <1>7, <1>8, <1>13, <2>1, <2>2, <2>3 DEF OpenRound
<1>17. StakeHeld'
  <2>1. CASE wins
    BY <1>2, <1>3, <1>4, <1>12, <2>1 DEF StakeHeld
  <2>2. CASE ~wins
    BY <1>2, <1>3, <1>5, <1>12, <1>13, <2>2 DEF AuctionInv, StakeHeld
  <2> QED BY <2>1, <2>2
<1>18. StakeRecorded'
  BY <1>4, <1>5, <1>13 DEF AuctionInv, StakeRecorded
<1>19. ResultAgrees'
  <2>1. CASE bids
    BY <1>9, <1>11, <1>12, <2>1 DEF ResultAgrees
  <2>2. CASE ~bids
    BY <1>12, <1>14, <1>15, <2>2 DEF AuctionInv, ResultAgrees
  <2> QED BY <2>1, <2>2
<1>20. PaidOncePerWin'
  <2>1. CASE wins
    <3>1. bid_attempt # None /\ bid_attempt.round = auction.round
      BY <1>4, <2>1, NoneAssumption DEF Stake
    <3> QED BY <1>9, <1>12, <1>13, <2>1, <3>1 DEF AuctionInv, PaidOncePerWin
  <2>2. CASE ~wins
    BY <1>12, <1>13, <2>2 DEF AuctionInv, PaidOncePerWin
  <2> QED BY <2>1, <2>2
<1>21. SettleWindow'
  <2> SUFFICES ASSUME bid_attempt # None, auction'.round = bid_attempt.round + 1
               PROVE  last_result' # None /\ last_result'.round = bid_attempt.round
    BY <1>13 DEF SettleWindow
  <2>1. bid_attempt.round = auction.round
    BY <1>2, <1>7, <1>8
  <2>2. bids
    BY <1>10, <2>1
  <2>3. last_result' = [round  |-> auction.round,
                        winner |-> auction.highestBidder,
                        amount |-> auction.highestBidAmount]
    BY <1>11, <2>2
  <2>4. last_result' \in LastResult
    BY <1>2, <2>2, <2>3 DEF LastResult, AuctionInv, AuctionTypeOK, CurrentAuction
  <2> QED BY <2>1, <2>3, <2>4, NoneAssumption
<1>22. Escrow!Win \/ UNCHANGED Escrow!vars
  BY <1>1, <1>4, <1>5 DEF Escrow!Win, Escrow!vars
<1> QED
  BY <1>6, <1>16, <1>17, <1>18, <1>19, <1>20, <1>21, <1>22 DEF AuctionInv

\* The round of a recorded bid, and whether it was won, when the auction has its
\* result: only a won bid is in the escrow, and it is the one that is settled.
LEMMA KnownResult ==
  ASSUME AuctionInv, ResultKnown
  PROVE  /\ bid_attempt \in BidAttempt
         /\ last_result.winner = Contract =>
              /\ bid_attempt.round \in won
              /\ stake # None /\ stake.spent /\ stake.bid = bid_attempt
              /\ payouts[bid_attempt.round] = 0
         /\ last_result.winner # Contract => bid_attempt.round \notin won
<1>1. bid_attempt \in BidAttempt /\ last_result # None
      /\ bid_attempt.round = last_result.round
  BY DEF ResultKnown, AuctionInv, AuctionTypeOK
<1>2. last_result.winner = Contract <=> bid_attempt.round \in won
  BY <1>1 DEF AuctionInv, ResultAgrees
<1>3. CASE last_result.winner = Contract
  <2>1. bid_attempt.round \in won /\ stake # None /\ bid_attempt # None
    BY <1>1, <1>2, <1>3, NoneAssumption DEF AuctionInv, StakeHeld
  <2>2. stake.bid = bid_attempt
    BY <2>1 DEF AuctionInv, StakeRecorded
  <2>3. stake.spent
    <3>1. bid_attempt.round < auction.round
      BY <2>1 DEF AuctionInv, OpenRound
    <3>2. bid_attempt.round \in Nat
      BY <1>1 DEF BidAttempt
    <3> QED BY <2>1, <2>2, <3>1, <3>2 DEF AuctionInv, StakeHeld
  <2>4. payouts[bid_attempt.round] = 0
    BY <1>1, <2>1 DEF AuctionInv, PaidOncePerWin, BidAttempt
  <2> QED BY <1>1, <1>3, <2>1, <2>2, <2>3, <2>4
<1>4. CASE last_result.winner # Contract
  BY <1>1, <1>2, <1>4
<1> QED BY <1>3, <1>4

\* Settling a win shares out what the escrow was spent on; settling a loss only
\* forgets the bid.
LEMMA SettleStep ==
  ASSUME AuctionInv, NEW routed, NEW liquid, TrySettle(routed, liquid)
  PROVE  AuctionInv' /\ (Escrow!ShareOut \/ UNCHANGED Escrow!vars)
<1>1. /\ bid_attempt' = None
      /\ UNCHANGED <<auction, last_result, now, won>>
      /\ ResultKnown
  BY DEF TrySettle, chain
<1>2. /\ last_result.winner # Contract
      /\ UNCHANGED <<stake, payouts>>
      \/
      /\ last_result.winner = Contract
      /\ payouts' = [payouts EXCEPT ![bid_attempt.round] = 1]
      /\ stake' = None
  <2>1. CASE last_result.winner # Contract
    BY <2>1 DEF TrySettle
  <2>2. CASE last_result.winner = Contract
    BY <2>2, <1>1, KnownResult DEF TrySettle, BidSettledSuccess
  <2> QED BY <2>1, <2>2
<1>3. bid_attempt \in BidAttempt /\ bid_attempt.round \in Rounds
  BY <1>1, KnownResult DEF BidAttempt
<1>4. AuctionTypeOK'
  BY <1>1, <1>2, <1>3 DEF AuctionInv, AuctionTypeOK
<1>5. OpenRound'
  BY <1>1 DEF AuctionInv, OpenRound
<1>6. (stake # None => stake.spent) => StakeHeld'
  BY <1>1, <1>2 DEF AuctionInv, StakeHeld
<1>7. stake # None => stake.spent
  <2> SUFFICES ASSUME stake # None, ~stake.spent
               PROVE  FALSE
    OBVIOUS
  <2>1. bid_attempt.round = auction.round
    BY DEF AuctionInv, StakeHeld, StakeRecorded
  <2>2. last_result.round < auction.round
    BY <1>1 DEF ResultKnown, AuctionInv, OpenRound
  <2> QED BY <1>1, <1>3, <2>1, <2>2 DEF ResultKnown
<1>8. StakeRecorded'
  <2>1. CASE last_result.winner # Contract
    <3>1. stake = None
      <4> SUFFICES ASSUME stake # None
                   PROVE  FALSE
        OBVIOUS
      <4>1. bid_attempt.round \in won
        BY <1>7 DEF AuctionInv, StakeHeld, StakeRecorded
      <4> QED BY <1>1, <2>1, <4>1, KnownResult
    <3> QED BY <1>2, <2>1, <3>1 DEF StakeRecorded
  <2>2. CASE last_result.winner = Contract
    BY <1>2, <2>2 DEF StakeRecorded
  <2> QED BY <2>1, <2>2
<1>9. ResultAgrees' /\ SettleWindow'
  BY <1>1 DEF AuctionInv, ResultAgrees, SettleWindow
<1>10. PaidOncePerWin'
  <2>1. CASE last_result.winner # Contract
    <3>1. payouts' = payouts /\ bid_attempt.round \notin won
      BY <1>1, <1>2, <2>1, KnownResult
    <3> QED BY <1>1, <3>1 DEF AuctionInv, PaidOncePerWin
  <2>2. CASE last_result.winner = Contract
    <3>1. bid_attempt.round \in won /\ payouts' = [payouts EXCEPT ![bid_attempt.round] = 1]
      BY <1>1, <1>2, <2>2, KnownResult
    <3> QED BY <1>1, <1>3, <3>1 DEF AuctionInv, AuctionTypeOK, PaidOncePerWin
  <2> QED BY <2>1, <2>2
<1>11. Escrow!ShareOut \/ UNCHANGED Escrow!vars
  <2>1. CASE last_result.winner # Contract
    BY <1>1, <1>2, <2>1 DEF Escrow!vars
  <2>2. CASE last_result.winner = Contract
    BY <1>1, <1>2, <2>2, KnownResult DEF Escrow!ShareOut
  <2> QED BY <2>1, <2>2
<1> QED
  BY <1>4, <1>5, <1>6, <1>7, <1>8, <1>9, <1>10, <1>11 DEF AuctionInv

\* A bid can be cleared only when it is outbid and its round is running, and then
\* nothing is in the escrow.
LEMMA ClearStep ==
  ASSUME AuctionInv, TryClearCurrentBid
  PROVE  AuctionInv' /\ UNCHANGED Escrow!vars
<1>1. /\ bid_attempt' = None
      /\ UNCHANGED <<auction, last_result, now, stake, won, payouts>>
      /\ bid_attempt # None /\ bid_attempt.round = auction.round
      /\ auction.highestBidder # Contract
  BY DEF TryClearCurrentBid, chain, history
<1>2. stake = None
  BY <1>1, NothingOut DEF PreviousBidSettled, AuctionInv, AuctionTypeOK
<1>3. bid_attempt.round \notin won
  BY <1>1 DEF AuctionInv, AuctionTypeOK, OpenRound
<1>4. AuctionTypeOK' /\ OpenRound'
  BY <1>1 DEF AuctionInv, AuctionTypeOK, OpenRound
<1>5. StakeHeld' /\ StakeRecorded'
  BY <1>1, <1>2 DEF StakeHeld, StakeRecorded
<1>6. ResultAgrees' /\ SettleWindow'
  BY <1>1 DEF AuctionInv, ResultAgrees, SettleWindow
<1>7. PaidOncePerWin'
  BY <1>1, <1>3 DEF AuctionInv, PaidOncePerWin
<1>8. UNCHANGED Escrow!vars
  BY <1>1 DEF Escrow!vars
<1> QED BY <1>4, <1>5, <1>6, <1>7, <1>8 DEF AuctionInv

\* Fees and blocks change neither the bid nor whom the auction speaks of.
LEMMA ChainStep ==
  ASSUME AuctionInv,
         \/ \E d \in Denoms : FeesArrive(d)
         \/ \E step \in Steps : NextBlock(step)
  PROVE  AuctionInv' /\ UNCHANGED Escrow!vars
<1>1. /\ UNCHANGED <<bid_attempt, last_result, stake, won, payouts>>
      /\ auction'.round = auction.round
      /\ auction'.highestBidder = auction.highestBidder
  BY DEF FeesArrive, NextBlock, history, AuctionInv, AuctionTypeOK
<1>2. auction' \in CurrentAuction /\ now' \in Nat
  <2>1. CASE \E d \in Denoms : FeesArrive(d)
    <3>1. PICK d \in Denoms : FeesArrive(d)
      BY <2>1
    <3>2. auction' = [auction EXCEPT !.basket = [auction.basket EXCEPT ![d] = @ + 1]]
          /\ now' = now
      BY <3>1 DEF FeesArrive
    <3>3. auction \in CurrentAuction /\ now \in Nat
      BY DEF AuctionInv, AuctionTypeOK
    <3> DEFINE basket == [auction.basket EXCEPT ![d] = @ + 1]
    <3>4. auction.basket \in Basket
      BY <3>3
    <3>5. basket \in Basket
      BY <3>4 DEF Basket
    <3>6. auction' = [auction EXCEPT !.basket = basket]
      BY <3>2
    <3> HIDE DEF basket
    <3> QED BY <3>2, <3>3, <3>5, <3>6
  <2>2. CASE \E step \in Steps : NextBlock(step)
    BY <2>2, AuctionAssumption
       DEF NextBlock, AuctionInv, AuctionTypeOK, AuctionAssumption
  <2> QED BY <2>1, <2>2
<1>3. AuctionTypeOK'
  BY <1>1, <1>2 DEF AuctionInv, AuctionTypeOK
<1>4. OpenRound' /\ StakeHeld' /\ ResultAgrees'
  BY <1>1 DEF AuctionInv, OpenRound, StakeHeld, ResultAgrees
<1>5. StakeRecorded' /\ PaidOncePerWin' /\ SettleWindow'
  BY <1>1 DEF AuctionInv, StakeRecorded, PaidOncePerWin, SettleWindow
<1>6. UNCHANGED Escrow!vars
  BY <1>1 DEF Escrow!vars
<1> QED BY <1>3, <1>4, <1>5, <1>6 DEF AuctionInv

-------------------------------------------------------------------------------
(* The theorems. *)

\* A step of the specification is a step of one of the actions.
LEMMA StepInv ==
  ASSUME AuctionInv, [Next]_vars
  PROVE  AuctionInv' /\ [Escrow!Next]_(Escrow!vars)
<1>1. CASE \E sender \in Bidders, round \in Rounds, value, balance \in Values,
              buffer \in BidBuffers :
             TryBid(sender, round, value, balance, buffer)
  BY <1>1, BidStep DEF Escrow!Next
<1>2. CASE Settle
  BY <1>2, SettleStep DEF Settle, Escrow!Next
<1>3. CASE TryClearCurrentBid
  BY <1>3, ClearStep
<1>4. CASE \E amount \in 1..MaxBid : RivalBid(amount)
  BY <1>4, RivalStep DEF Escrow!Next
<1>5. CASE \/ \E d \in Denoms : FeesArrive(d)
           \/ \E step \in Steps : NextBlock(step)
  BY <1>5, ChainStep
<1>6. CASE CloseRound
  BY <1>6, CloseStep DEF Escrow!Next
<1>7. CASE UNCHANGED vars
  <2>1. UNCHANGED <<bid_attempt, auction, last_result, now, stake, won, payouts>>
    BY <1>7 DEF vars, chain, history
  <2>2. AuctionTypeOK' /\ OpenRound' /\ StakeHeld' /\ ResultAgrees'
    BY <2>1 DEF AuctionInv, AuctionTypeOK, OpenRound, StakeHeld, ResultAgrees
  <2>3. StakeRecorded' /\ PaidOncePerWin' /\ SettleWindow'
    BY <2>1 DEF AuctionInv, StakeRecorded, PaidOncePerWin, SettleWindow
  <2> QED BY <2>1, <2>2, <2>3 DEF AuctionInv, Escrow!vars
<1> QED BY <1>1, <1>2, <1>3, <1>4, <1>5, <1>6, <1>7 DEF Next

\* The inductive invariant holds in every reachable state.
THEOREM AuctionInvariant == Spec => []AuctionInv
<1>1. Init => AuctionInv
  BY InitInv
<1>2. AuctionInv /\ [Next]_vars => AuctionInv'
  BY StepInv
<1> QED BY <1>1, <1>2, PTL DEF Spec

\* Whatever is recorded or published is well formed: above all, the submitter that
\* is rewarded is one who sent TryBid.
THEOREM AuctionTypeCorrect == Spec => []AuctionTypeOK
<1>1. AuctionInv => AuctionTypeOK
  BY DEF AuctionInv
<1> QED BY <1>1, AuctionInvariant, PTL

\* While the contract's INJ is out for a bid, BID_ATTEMPT is that bid.
THEOREM BidAlwaysRecorded == Spec => []StakeRecorded
<1>1. AuctionInv => StakeRecorded
  BY DEF AuctionInv
<1> QED BY <1>1, AuctionInvariant, PTL

\* Each won round is shared out once, and waits for nothing but its settlement.
THEOREM EachWinPaidOnce == Spec => []PaidOncePerWin
<1>1. AuctionInv => PaidOncePerWin
  BY DEF AuctionInv
<1> QED BY <1>1, AuctionInvariant, PTL

\* A recorded bid can be settled throughout the round after its own.
THEOREM RoundToSettle == Spec => []SettleWindow
<1>1. AuctionInv => SettleWindow
  BY DEF AuctionInv
<1> QED BY <1>1, AuctionInvariant, PTL

\* No action gets a bid unstuck: its round is neither that of the last result nor
\* the running one, and each handler that could replace or remove it looks there.
LEMMA StuckStep ==
  ASSUME AuctionInv, [Next]_vars, Stuck
  PROVE  Stuck' /\ bid_attempt' = bid_attempt /\ stake' = stake
<1>1. /\ bid_attempt \in BidAttempt /\ bid_attempt # None
      /\ last_result \in LastResult /\ last_result # None
      /\ bid_attempt.round \in Nat /\ last_result.round \in Nat /\ auction.round \in Nat
  BY DEF Stuck, AuctionInv, AuctionTypeOK, BidAttempt
<1>2. bid_attempt.round < last_result.round /\ last_result.round < auction.round
  BY <1>1 DEF Stuck, AuctionInv, OpenRound
<1>3. auction.highestBidder # Contract
  <2> SUFFICES ASSUME auction.highestBidder = Contract
               PROVE  FALSE
    OBVIOUS
  <2>1. bid_attempt.round = auction.round
    BY DEF AuctionInv, StakeHeld, StakeRecorded
  <2> QED BY <1>1, <1>2, <2>1
<1>4. ~TryClearCurrentBid /\ ~Settle
  BY <1>1, <1>2 DEF TryClearCurrentBid, Settle, TrySettle, ResultKnown
<1>5. ~\E sender \in Bidders, round \in Rounds, value, balance \in Values,
          buffer \in BidBuffers :
         TryBid(sender, round, value, balance, buffer)
  BY <1>1, <1>2 DEF TryBid, PreviousBidSettled
<1>6. /\ bid_attempt' = bid_attempt /\ stake' = stake
      /\ \/ last_result' = last_result
         \/ last_result' # None /\ last_result'.round = auction.round
  <2>1. CASE \E amount \in 1..MaxBid : RivalBid(amount)
    BY <1>3, <2>1 DEF RivalBid, MsgBid
  <2>2. CASE \E d \in Denoms : FeesArrive(d)
    BY <2>2 DEF FeesArrive, history
  <2>3. CASE \E step \in Steps : NextBlock(step)
    BY <2>3 DEF NextBlock, history
  <2>4. CASE CloseRound
    <3>1. /\ bid_attempt' = bid_attempt /\ stake' = stake
          /\ \/ last_result' = last_result
             \/ last_result' = [round  |-> auction.round,
                                winner |-> auction.highestBidder,
                                amount |-> auction.highestBidAmount]
      BY <1>3, <2>4 DEF CloseRound
    <3>2. last_result' \in LastResult \cup {None}
      BY <2>4, CloseStep DEF AuctionInv, AuctionTypeOK
    <3>3. CASE last_result' = last_result
      BY <3>1, <3>3
    <3>4. CASE last_result' = [round  |-> auction.round,
                               winner |-> auction.highestBidder,
                               amount |-> auction.highestBidAmount]
               /\ auction.highestBidder # Nobody
      <4>1. auction.round \in Rounds
        BY <1>1, <2>4 DEF CloseRound, AuctionInv, AuctionTypeOK
      <4>2. last_result' \in LastResult
        BY <3>4, <4>1 DEF AuctionInv, AuctionTypeOK
      <4> QED BY <3>1, <3>4, <4>2, NoneAssumption
    <3> QED BY <2>4, <3>1, <3>3, <3>4 DEF CloseRound
  <2>5. CASE UNCHANGED vars
    BY <2>5 DEF vars, chain, history
  <2> QED BY <1>4, <1>5, <2>1, <2>2, <2>3, <2>4, <2>5 DEF Next
<1> QED BY <1>1, <1>2, <1>6 DEF Stuck

\* The bid that try_bid computes is the least one that the auction accepts.
THEOREM BidTight == Spec => []MinBidTight
<1>1. AuctionInv => MinBidTight
  <2> SUFFICES ASSUME AuctionInv PROVE MinBidTight
    OBVIOUS
  <2> DEFINE highest == auction.highestBidAmount
             amount  == MinBidSize(highest)
  <2>1. highest \in Nat
    BY DEF AuctionInv, AuctionTypeOK, CurrentAuction
  <2> HIDE DEF highest
  <2>2. amount \in Nat
    BY <2>1, MinBidSizeType
  <2>3. Outbids(amount, highest)
    BY <2>1, <2>2, MinBidSizeLeast
  <2>4. CASE amount = 0
    BY <2>3, <2>4 DEF Outbids
  <2>5. CASE amount # 0
    <3>1. amount - 1 \in Nat /\ ~(amount - 1 >= amount)
      BY <2>2, <2>5
    <3>2. ~Outbids(amount - 1, highest)
      BY <2>1, <3>1, MinBidSizeLeast
    <3> QED BY <2>3, <3>2 DEF MinBidTight, highest
  <2> QED BY <2>4, <2>5
<1> QED BY <1>1, AuctionInvariant, PTL

\* A bid that is not settled before the next result stays recorded for good.
THEOREM StuckForever == Spec => StuckIsPermanent
<1>1. AuctionInv /\ [Next]_vars
        => [Stuck => Stuck' /\ bid_attempt' = bid_attempt /\ stake' = stake]_vars
  BY StuckStep
<1> QED BY <1>1, AuctionInvariant, PTL DEF Spec, StuckIsPermanent

\* The contract and the auction implement the escrow: one bid at a time, refunded
\* or spent, and every win shared out once before the next bid.
THEOREM EscrowRefinement == Spec => RefinesEscrow
<1>1. Init => Escrow!Init
  BY DEF Init, Escrow!Init
<1>2. AuctionInv /\ [Next]_vars => [Escrow!Next]_(Escrow!vars)
  BY StepInv
<1> QED BY <1>1, <1>2, AuctionInvariant, PTL DEF Spec, RefinesEscrow, Escrow!Spec

===============================================================================

------------------------------- MODULE BidEscrow ------------------------------
(***************************************************************************)
(* What the bidding side of the contract promises to the liquidity         *)
(* providers whose INJ it bids with: their INJ backs one bid at a time; it *)
(* comes back when the bid is outbid, or is spent when the round is won;   *)
(* and the proceeds of each round won are shared out once, before the INJ  *)
(* of the providers backs another bid.                                     *)
(***************************************************************************)
EXTENDS Naturals

CONSTANTS
  Bids,     \* the bids: their round, their amount and who is to be rewarded
  Rounds,
  None      \* no INJ is out

VARIABLES
  stake,    \* the bid the INJ of the contract is out for, and whether it is spent
  won,      \* the rounds won
  payouts   \* how often the proceeds of each round were shared out

vars == <<stake, won, payouts>>

Init ==
  /\ stake = None
  /\ won = {}
  /\ payouts = [r \in Rounds |-> 0]

\* A bid in a round that is not yet decided.
Place ==
  /\ stake = None
  /\ stake' \in [bid : Bids, spent : {FALSE}]
  /\ stake'.bid.round \notin won
  /\ UNCHANGED <<won, payouts>>

Refund ==
  /\ stake # None
  /\ ~stake.spent
  /\ stake' = None
  /\ UNCHANGED <<won, payouts>>

Win ==
  /\ stake # None
  /\ ~stake.spent
  /\ stake' = [stake EXCEPT !.spent = TRUE]
  /\ won' = won \cup {stake.bid.round}
  /\ UNCHANGED payouts

\* Only what was won is shared out, and only once.
ShareOut ==
  /\ stake # None
  /\ stake.spent
  /\ payouts[stake.bid.round] = 0
  /\ stake' = None
  /\ payouts' = [payouts EXCEPT ![stake.bid.round] = 1]
  /\ UNCHANGED won

Next ==
  \/ Place
  \/ Refund
  \/ Win
  \/ ShareOut

Spec == Init /\ [][Next]_vars

===============================================================================

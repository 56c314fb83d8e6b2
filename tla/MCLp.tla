--------------------------------- MODULE MCLp ---------------------------------
(***************************************************************************)
(* Lp for TLC.  With Scale 3 and up to four tokens deposited, shares are   *)
(* rounded both in the index and in the accounts, and a profit can be too  *)
(* small to move the index at all.                                         *)
(***************************************************************************)
EXTENDS Lp, TLC

CONSTANTS u1, u2

MCUsers == {u1, u2}
MCCaps == {2, 4}
MCTimes == {4, 7}
MCBuffers == {0, 2}
MCBidAmounts == {1}
MCReceipts == 0..4
MCRewardBps == {0, 5000, 20000}

ASSUME TotalIsTheSum ==
  \A f \in [MCUsers -> 0..3] : Total(f) = f[u1] + f[u2]

===============================================================================

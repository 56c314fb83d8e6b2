------------------------------- MODULE MCAuction ------------------------------
(***************************************************************************)
(* Auction for TLC: three rounds of length 3, two submitters, a basket of  *)
(* INJ and one other asset.  A block may advance the time by 1 second or   *)
(* by 4, past the whole bid window and past a whole round.                 *)
(***************************************************************************)
EXTENDS Auction, TLC

CONSTANTS alice, bob, inj, atom

MCBidders == {alice, bob}
MCDenoms == {inj, atom}
MCSteps == {1, 4}
MCValues == {0, 2, 4}
MCBuffers == {0, 1}

===============================================================================

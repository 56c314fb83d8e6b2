----------------------------- MODULE MCAuctionDao -----------------------------
(***************************************************************************)
(* The whole contract for TLC: two rounds, one or two users, two           *)
(* submitters, INJ and one other asset.                                    *)
(***************************************************************************)
EXTENDS AuctionDao, TLC

CONSTANTS u1, u2, alice, bob, dan, eve, inj, atom, usdt

MCUsers == {u1, u2}
MCOneUser == {u1}
MCBidders == {alice, bob}
MCAdmins == {dan, eve}
MCDenoms == {inj, atom}
MCThreeDenoms == {inj, atom, usdt}
MCSteps == {1, 3}
MCValues == {3}
MCCaps == {2}
MCPrices == {0, 3}
MCInjOnly == {inj}
MCOneBidder == {alice}
MCAllTargets == MCThreeDenoms

\* What the first admin configures, and the second one after him: bids at any time of a
\* round, withdrawals until its end, and a reward of the whole profit.
MCConfig ==
  {[admin |-> dan, bid_time_buffer_secs |-> 1, withdraw_time_buffer_secs |-> 1,
    winning_bidder_reward_bps |-> 5000]}
MCConfigs ==
  MCConfig \cup {[admin |-> eve, bid_time_buffer_secs |-> 2, withdraw_time_buffer_secs |-> 0,
                  winning_bidder_reward_bps |-> 10000]}

Symmetry == Permutations(MCUsers) \cup Permutations(MCBidders)

===============================================================================

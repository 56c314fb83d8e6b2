---------------------------- MODULE MCTxExecution -----------------------------
(***************************************************************************)
(* Transactions for TLC: one user, one submitter, one round, and two       *)
(* assets next to INJ, so that a settlement may have two orders.           *)
(***************************************************************************)
EXTENDS TxExecution

CONSTANTS u1, alice, dan, inj, atom, usdt

MCUsers == {u1}
MCBidders == {alice}
MCAdmins == {dan}
MCDenoms == {inj, atom, usdt}
MCSteps == {2}
MCValues == {4}
MCCaps == {3}
MCPrices == {1, 2}
MCInjOnly == {inj}
MCConfig ==
  {[admin |-> dan, bid_time_buffer_secs |-> 1, withdraw_time_buffer_secs |-> 1,
    winning_bidder_reward_bps |-> 5000]}

===============================================================================

---------------------------------- MODULE Lp ----------------------------------
(***************************************************************************)
(* The liquidity-provider side of the contract: deposits, withdrawals,     *)
(* harvests, and the callback that credits the profit of a settled bid     *)
(* (lp.rs, callback.rs).  Rewards are shared lazily: the contract keeps    *)
(* one global index, the reward ever earned by one deposited token, and    *)
(* each account remembers the index it was last brought up to.             *)
(*                                                                         *)
(* What a handler reads from another component (the value of the auction's *)
(* basket, whether a bid is active, the closing time, the proceeds of a    *)
(* sale, the configuration of the moment) is a parameter of its action.    *)
(***************************************************************************)
EXTENDS Integers, Totals

CONSTANTS
  Users,                      \* addresses that may deposit
  Scale,                      \* Decimal256 counts in 1/Scale (10^18 in the code)
  WithdrawBuffers,            \* values of Config.withdraw_time_buffer_secs
  MaxAmount,                  \* bound on the amount of one message
  Caps,                       \* what get_max_tokens may answer
  Times,                      \* block times and closing times
  BidAmounts,                 \* amounts a settled bid may have
  Receipts,                   \* what one basket may be sold for
  RewardBps,                  \* values of Config.winning_bidder_reward_bps
  MaxProfit                   \* bound on the profit ever credited

ASSUME LpAssumption ==
  /\ IsFiniteSet(Users)
  /\ Scale \in Nat \ {0}
  /\ WithdrawBuffers \subseteq Nat
  /\ MaxAmount \in Nat
  /\ Caps \subseteq Nat
  /\ Times \subseteq Nat
  /\ BidAmounts \subseteq Nat
  /\ Receipts \subseteq Nat
  /\ RewardBps \subseteq Nat
  /\ MaxProfit \in Nat

VARIABLES
  global,          \* GLOBAL
  user_accounts,   \* USER_ACCOUNTS: an absent account reads as the default one
  rewards_paid,    \* history: the rewards sent to each user by withdraw and harvest
  profit_earned    \* history: the users' part of the profits of all settled bids

vars == <<global, user_accounts, rewards_paid, profit_earned>>

Global == [index : Nat, profit_to_distribute : Nat,
           accumulated_profit : Nat, total_supply : Nat]

UserAccount == [index : Nat, deposited : Nat, pending_reward : Nat]

\* UserAccount::default(), which is also what a removed account reads as.
DefaultAccount == [index |-> 0, deposited |-> 0, pending_reward |-> 0]

Init ==
  /\ global = [index |-> 0, profit_to_distribute |-> 0,
               accumulated_profit |-> 0, total_supply |-> 0]
  /\ user_accounts = [u \in Users |-> DefaultAccount]
  /\ rewards_paid = [u \in Users |-> 0]
  /\ profit_earned = 0

-------------------------------------------------------------------------------
(* Helpers of lp.rs. *)

\* Mutant: the index is assigned before the reward is computed from it.
RewardAfterIndex(account, global_index) ==
  [account EXCEPT !.index = global_index]

\* The account once the rewards it earned since its index are made pending.
update_user_reward(account, global_index) ==
  LET reward == (account.deposited * (global_index - account.index)) \div Scale IN
  [index          |-> global_index,
   deposited      |-> account.deposited,
   pending_reward |-> account.pending_reward + reward]

increase_supply(amount) == [global EXCEPT !.total_supply = @ + amount]

decrease_supply(amount) == [global EXCEPT !.total_supply = @ - amount]

\* Mutant: the early return forgets the profit.
ProfitDropped(g) ==
  IF g.total_supply = 0 THEN [g EXCEPT !.profit_to_distribute = 0]
  ELSE [g EXCEPT
          !.index = @ + (g.profit_to_distribute * Scale) \div g.total_supply,
          !.accumulated_profit = @ + g.profit_to_distribute,
          !.profit_to_distribute = 0]

\* Mutant: the index is replaced instead of raised.
IndexReplaced(g) ==
  IF g.total_supply = 0 THEN g
  ELSE [g EXCEPT
          !.index = (g.profit_to_distribute * Scale) \div g.total_supply,
          !.accumulated_profit = @ + g.profit_to_distribute,
          !.profit_to_distribute = 0]

\* With nothing deposited the profit waits for the next settlement.
update_global_index(g) ==
  IF g.total_supply = 0 THEN g
  ELSE [index                |-> g.index + (g.profit_to_distribute * Scale) \div g.total_supply,
        profit_to_distribute |-> 0,
        accumulated_profit   |-> g.accumulated_profit + g.profit_to_distribute,
        total_supply         |-> g.total_supply]

\* The account of u as a handler of u works on it.
Updated(u) == update_user_reward(user_accounts[u], global.index)

\* Withdrawals stop this long before the auction closes.
InWithdrawTime(block_time, closing_time, withdraw_time_buffer_secs) ==
  block_time <= closing_time - withdraw_time_buffer_secs

-------------------------------------------------------------------------------
(* Handlers. *)

\* Mutant: a second deposit replaces the first one.
DepositReplaces(u, amount, max_tokens, bid_active) ==
  /\ global.total_supply + amount <= max_tokens
  /\ ~bid_active
  /\ user_accounts' = [user_accounts EXCEPT
                         ![u] = [Updated(u) EXCEPT !.deposited = amount]]
  /\ global' = increase_supply(amount)
  /\ UNCHANGED <<rewards_paid, profit_earned>>

\* Mutant: the supply is increased before the rewards are brought up to date.
DepositBeforeUpdate(u, amount, max_tokens, bid_active) ==
  /\ global.total_supply + amount <= max_tokens
  /\ ~bid_active
  /\ user_accounts' =
       [user_accounts EXCEPT
          ![u] = update_user_reward([@ EXCEPT !.deposited = @ + amount], global.index)]
  /\ global' = increase_supply(amount)
  /\ UNCHANGED <<rewards_paid, profit_earned>>

Deposit(u, amount, max_tokens, bid_active) ==
  /\ global.total_supply + amount <= max_tokens
  /\ ~bid_active
  /\ user_accounts' = [user_accounts EXCEPT
                         ![u] = [Updated(u) EXCEPT !.deposited = @ + amount]]
  /\ global' = increase_supply(amount)
  /\ UNCHANGED <<rewards_paid, profit_earned>>

\* Mutant: the deposited amount is not checked.
WithdrawUnchecked(u, amount, bid_active, block_time, closing_time, buffer) ==
  /\ ~bid_active
  /\ InWithdrawTime(block_time, closing_time, buffer)
  /\ rewards_paid' = [rewards_paid EXCEPT ![u] = @ + Updated(u).pending_reward]
  /\ user_accounts' =
       [user_accounts EXCEPT ![u] = [Updated(u) EXCEPT !.deposited = @ - amount,
                                                       !.pending_reward = 0]]
  /\ global' = decrease_supply(amount)
  /\ UNCHANGED profit_earned

Withdraw(u, amount, bid_active, block_time, closing_time, buffer) ==
  LET account == [index          |-> global.index,
                  deposited      |-> Updated(u).deposited - amount,
                  pending_reward |-> 0]
  IN
  /\ ~bid_active
  /\ amount <= user_accounts[u].deposited
  /\ InWithdrawTime(block_time, closing_time, buffer)
  /\ rewards_paid' = [rewards_paid EXCEPT ![u] = @ + Updated(u).pending_reward]
  /\ user_accounts' =
       [user_accounts EXCEPT
          ![u] = IF account.deposited = 0 THEN DefaultAccount ELSE account]
  /\ global' = decrease_supply(amount)
  /\ UNCHANGED profit_earned

Harvest(u) ==
  /\ rewards_paid' = [rewards_paid EXCEPT ![u] = @ + Updated(u).pending_reward]
  /\ user_accounts' = [user_accounts EXCEPT
                         ![u] = [Updated(u) EXCEPT !.pending_reward = 0]]
  /\ UNCHANGED <<global, profit_earned>>

-------------------------------------------------------------------------------
(* The callback that ends the settlement of a won bid (callback.rs). *)

\* received.saturating_sub(bid_amount)
Profit(received, bid_amount) ==
  IF received > bid_amount THEN received - bid_amount ELSE 0

Share(profit, bps) == (profit * bps) \div 10000

\* What the submitter of the bid is sent: nothing when it is the contract.
WinningReward(profit, bps, by_contract) ==
  IF by_contract THEN 0 ELSE Share(profit, bps)

\* The subtraction profit - winning_reward aborts the transaction on underflow,
\* also when the submitter is the contract and its result is thrown away.
Callback(received, bid_amount, bps, by_contract) ==
  LET profit     == Profit(received, bid_amount)
      dao_profit == profit - WinningReward(profit, bps, by_contract)
  IN
  /\ Share(profit, bps) <= profit
  /\ profit_earned + dao_profit <= MaxProfit   \* bound
  /\ profit_earned' = profit_earned + dao_profit
  /\ global' = update_global_index(
                 [global EXCEPT !.profit_to_distribute = @ + dao_profit])
  /\ UNCHANGED <<user_accounts, rewards_paid>>

Next ==
  \/ \E u \in Users, amount \in 1..MaxAmount, cap \in Caps, bid_active \in BOOLEAN :
       Deposit(u, amount, cap, bid_active)
  \/ \E u \in Users, amount \in 0..MaxAmount, bid_active \in BOOLEAN,
        now, closing \in Times, buffer \in WithdrawBuffers :
       Withdraw(u, amount, bid_active, now, closing, buffer)
  \/ \E u \in Users : Harvest(u)
  \/ \E received \in Receipts, bid_amount \in BidAmounts,
        bps \in RewardBps, by_contract \in BOOLEAN :
       Callback(received, bid_amount, bps, by_contract)

Spec == Init /\ [][Next]_vars

-------------------------------------------------------------------------------
(* Properties. *)

deposited == [u \in Users |-> user_accounts[u].deposited]

\* What u would be paid if rewards were not rounded, in 1/Scale tokens.
Claim(u) ==
  Scale * user_accounts[u].pending_reward
    + user_accounts[u].deposited * (global.index - user_accounts[u].index)

claims == [u \in Users |-> Claim(u)]

\* Profit that was shared out but that no user is owed: lost to rounding.
Dust ==
  Scale * global.accumulated_profit - Scale * Total(rewards_paid) - Total(claims)

\* Every number the contract stores is a natural number: no subtraction of
\* decrease_supply or of update_user_reward underflows.
TypeOK ==
  /\ global \in Global
  /\ user_accounts \in [Users -> UserAccount]
  /\ rewards_paid \in [Users -> Nat]
  /\ profit_earned \in Nat

\* total_supply, by which every profit is divided, is the sum of the deposits,
\* through partial withdrawals and the removal of emptied accounts.
SupplyIsSum == global.total_supply = Total(deposited)

\* No account was brought up to an index the contract has not reached, so that
\* global_index - user_account.index never underflows.
IndexNotAhead == \A u \in Users : user_accounts[u].index <= global.index

\* The rewards paid and still owed never exceed the profit shared out: the lazy
\* index promises nobody money that another user deposited.
NeverOverPaid == Dust >= 0

\* No step hands out what was lost to rounding before, and no step loses a whole
\* token of an account or a whole index unit of every deposited token: nobody's
\* earlier claim disappears when an account is updated, emptied or removed.
DustGrowsSlowly ==
  [][ /\ Dust <= Dust'
      /\ Dust' - Dust < IF global.total_supply > Scale
                        THEN global.total_supply ELSE Scale ]_vars

\* What the lazy accounts are worth at any time is what RewardLedger credits the
\* moment a profit arrives.
Ledger == INSTANCE RewardLedger WITH
  principal   <- deposited,
  claim       <- claims,
  paid        <- rewards_paid,
  earned      <- profit_earned,
  retained    <- global.profit_to_distribute,
  distributed <- global.accumulated_profit,
  MaxDeposit  <- MaxAmount,
  Total       <- Total

\* Deposits, withdrawals, harvests and callbacks implement the ledger that
\* credits every profit at once: a deposit made after a profit has no share in it.
RefinesLedger == Ledger!Spec

===============================================================================

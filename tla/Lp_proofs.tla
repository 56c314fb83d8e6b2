------------------------------- MODULE Lp_proofs ------------------------------
(***************************************************************************)
(* Proofs about Lp, for any set of users, any fixed-point scale and any    *)
(* bounds.  Each handler's effect on the deposits and on the claims is a   *)
(* lemma (DepositEffect, ...); the invariants and the implementation of    *)
(* RewardLedger follow from these effects.                                 *)
(***************************************************************************)
EXTENDS Lp, Totals_proofs

\* The inductive invariant: a claim can only be computed, and a withdrawal only
\* subtracted, when all of its parts hold.
LpInv == TypeOK /\ SupplyIsSum /\ IndexNotAhead

\* Division rounds down: what rounding loses is less than one part.
LEMMA DivFacts ==
  ASSUME NEW n \in Nat, NEW d \in Nat \ {0}
  PROVE  /\ n \div d \in Nat
         /\ d * (n \div d) \in Nat
         /\ d * (n \div d) <= n
         /\ n - d * (n \div d) < d
<1>1. n \div d \in Nat /\ n % d \in 0..(d - 1)
  OBVIOUS
<1>2. n = d * (n \div d) + (n % d)
  OBVIOUS
<1>3. \A q \in Nat : d * q \in Nat
  OBVIOUS
<1> QED  BY <1>1, <1>2, <1>3

\* Whole parts pass through a division unchanged.
LEMMA DivShift ==
  ASSUME NEW p \in Nat, NEW g \in Nat, NEW d \in Nat \ {0}
  PROVE  (d * p + g) \div d = p + g \div d
<1>1. g \div d \in Nat /\ g % d \in 0..(d - 1)
  OBVIOUS
<1>2. g = d * (g \div d) + (g % d)
  OBVIOUS
<1>3. d * p + g = d * (p + g \div d) + (g % d)
  BY <1>1, <1>2
<1>4. d * p + g \in Nat
  <2>1. d * p \in Nat
    OBVIOUS
  <2> QED  BY <2>1
<1>5. \A n, q \in Nat, r \in 0..(d - 1) : n = d * q + r => n \div d = q
  OBVIOUS
<1> QED  BY <1>1, <1>3, <1>4, <1>5

\* Deposits and claims are functions to natural numbers, which can be summed.
LEMMA DerivedTypes ==
  ASSUME LpInv
  PROVE  /\ deposited \in [Users -> Nat]
         /\ claims \in [Users -> Nat]
         /\ rewards_paid \in [Users -> Nat]
         /\ \A u \in Users : claims[u] = Claim(u) /\ deposited[u] = user_accounts[u].deposited
<1>1. deposited \in [Users -> Nat]
  BY DEF LpInv, TypeOK, UserAccount, deposited
<1>2. ASSUME NEW u \in Users  PROVE Claim(u) \in Nat
  <2>1. /\ user_accounts[u].pending_reward \in Nat
        /\ user_accounts[u].deposited \in Nat
        /\ global.index - user_accounts[u].index \in Nat
        /\ Scale \in Nat
    BY LpAssumption DEF LpInv, TypeOK, IndexNotAhead, UserAccount, Global
  <2>2. \A m, n \in Nat : m * n \in Nat
    OBVIOUS
  <2> QED  BY <2>1, <2>2 DEF Claim
<1> QED  BY <1>1, <1>2 DEF claims, deposited, LpInv, TypeOK

\* Bringing an account up to date keeps its deposit and rounds its claim down to
\* whole tokens.
LEMMA UpdatedFacts ==
  ASSUME LpInv, NEW u \in Users
  PROVE  /\ Updated(u) \in UserAccount
         /\ Updated(u).index = global.index
         /\ Updated(u).deposited = deposited[u]
         /\ Updated(u).pending_reward = claims[u] \div Scale
<1> DEFINE a == user_accounts[u]
<1>1. /\ a \in UserAccount
      /\ global.index \in Nat
      /\ global.index - a.index \in Nat
      /\ Scale \in Nat \ {0}
  BY LpAssumption DEF LpInv, TypeOK, IndexNotAhead, UserAccount, Global
<1> DEFINE gain == a.deposited * (global.index - a.index)
<1>2. gain \in Nat
  <2>1. \A m, n \in Nat : m * n \in Nat
    OBVIOUS
  <2> QED  BY <1>1, <2>1 DEF UserAccount
<1>3. claims[u] = Scale * a.pending_reward + gain
  BY DEF claims, Claim
<1>4. Updated(u) = [index          |-> global.index,
                    deposited      |-> a.deposited,
                    pending_reward |-> a.pending_reward + gain \div Scale]
  BY DEF Updated, update_user_reward
<1> HIDE DEF a, gain
<1>5. gain \div Scale \in Nat
  BY <1>1, <1>2, DivFacts
<1>6. claims[u] \div Scale = a.pending_reward + gain \div Scale
  <2>1. a.pending_reward \in Nat
    BY <1>1 DEF UserAccount
  <2>2. (Scale * a.pending_reward + gain) \div Scale = a.pending_reward + gain \div Scale
    BY <1>1, <1>2, <2>1, DivShift, Zenon
  <2> QED  BY <1>3, <2>2, Zenon
<1>7. deposited[u] = a.deposited
  BY DEF deposited, a
<1> QED  BY <1>1, <1>4, <1>5, <1>6, <1>7 DEF UserAccount

-------------------------------------------------------------------------------
(* What each handler does to the deposits, the claims and the ledger. *)

\* A deposit adds to one user's principal and rounds that user's claim down; the
\* index, and with it everybody else's claim, stays.
LEMMA DepositEffect ==
  ASSUME LpInv, NEW u \in Users, NEW amount \in Nat, NEW cap, NEW bid_active,
         Deposit(u, amount, cap, bid_active)
  PROVE  /\ deposited' = [deposited EXCEPT ![u] = deposited[u] + amount]
         /\ claims' = [claims EXCEPT ![u] = Scale * (claims[u] \div Scale)]
         /\ user_accounts' \in [Users -> UserAccount]
         /\ \A v \in Users : user_accounts'[v].index <= global'.index
         /\ global' \in Global
         /\ global'.total_supply = global.total_supply + amount
         /\ global'.index = global.index
         /\ global'.profit_to_distribute = global.profit_to_distribute
         /\ global'.accumulated_profit = global.accumulated_profit
         /\ UNCHANGED <<rewards_paid, profit_earned>>
<1>1. /\ Updated(u) \in UserAccount
      /\ Updated(u).index = global.index
      /\ Updated(u).deposited = deposited[u]
      /\ Updated(u).pending_reward = claims[u] \div Scale
  BY UpdatedFacts
<1> DEFINE new == [Updated(u) EXCEPT !.deposited = Updated(u).deposited + amount]
<1>2. /\ new \in UserAccount
      /\ new.index = global.index
      /\ new.deposited = deposited[u] + amount
      /\ new.pending_reward = claims[u] \div Scale
  BY <1>1 DEF UserAccount
<1>3. /\ user_accounts' = [user_accounts EXCEPT ![u] = new]
      /\ global' = [global EXCEPT !.total_supply = global.total_supply + amount]
      /\ UNCHANGED <<rewards_paid, profit_earned>>
  BY DEF Deposit, increase_supply
<1> HIDE DEF new
<1>4. user_accounts \in [Users -> UserAccount] /\ global \in Global
  BY DEF LpInv, TypeOK
<1>5. /\ global' \in Global
      /\ global'.total_supply = global.total_supply + amount
      /\ global'.index = global.index
      /\ global'.profit_to_distribute = global.profit_to_distribute
      /\ global'.accumulated_profit = global.accumulated_profit
  BY <1>3, <1>4 DEF Global
<1>6. \A v \in Users : user_accounts'[v] = IF v = u THEN new ELSE user_accounts[v]
  BY <1>3, <1>4
<1>7. user_accounts' \in [Users -> UserAccount]
  BY <1>2, <1>3, <1>4
<1>8. deposited' = [deposited EXCEPT ![u] = deposited[u] + amount]
  BY <1>2, <1>6 DEF deposited
<1>9. claims' = [claims EXCEPT ![u] = Scale * (claims[u] \div Scale)]
  <2>1. ASSUME NEW v \in Users
        PROVE  Claim(v)' = IF v = u THEN Scale * (claims[u] \div Scale) ELSE Claim(v)
    <3>1. CASE v = u
      <4>1. new.deposited \in Nat /\ global.index \in Nat
        BY <1>2, <1>4 DEF UserAccount, Global
      <4>2. new.deposited * (global.index - global.index) = 0
        BY <4>1
      <4>3. Scale * (claims[u] \div Scale) \in Nat
        BY DerivedTypes, DivFacts, LpAssumption
      <4> QED  BY <1>2, <1>5, <1>6, <3>1, <4>2, <4>3 DEF Claim
    <3>2. CASE v # u
      BY <1>5, <1>6, <3>2 DEF Claim
    <3> QED  BY <3>1, <3>2
  <2> QED  BY <2>1 DEF claims
<1>10. \A v \in Users : user_accounts'[v].index <= global'.index
  BY <1>2, <1>4, <1>5, <1>6 DEF LpInv, IndexNotAhead, Global
<1> QED  BY <1>3, <1>5, <1>7, <1>8, <1>9, <1>10

\* A withdrawal pays one user's claim, rounded down, and takes from that user's
\* principal no more than is there; removing an emptied account loses nothing else.
LEMMA WithdrawEffect ==
  ASSUME LpInv, NEW u \in Users, NEW amount \in Nat, NEW bid_active,
         NEW now, NEW closing, NEW buffer,
         Withdraw(u, amount, bid_active, now, closing, buffer)
  PROVE  /\ amount <= deposited[u]
         /\ deposited' = [deposited EXCEPT ![u] = deposited[u] - amount]
         /\ claims' = [claims EXCEPT ![u] = 0]
         /\ rewards_paid' = [rewards_paid EXCEPT
                               ![u] = rewards_paid[u] + claims[u] \div Scale]
         /\ user_accounts' \in [Users -> UserAccount]
         /\ \A v \in Users : user_accounts'[v].index <= global'.index
         /\ global' = [global EXCEPT !.total_supply = global.total_supply - amount]
         /\ UNCHANGED profit_earned
<1>1. /\ Updated(u) \in UserAccount
      /\ Updated(u).deposited = deposited[u]
      /\ Updated(u).pending_reward = claims[u] \div Scale
  BY UpdatedFacts
<1>2. user_accounts \in [Users -> UserAccount] /\ global \in Global
  BY DEF LpInv, TypeOK
<1>3. amount <= deposited[u] /\ deposited[u] \in Nat
  BY <1>2 DEF Withdraw, deposited, UserAccount
<1> DEFINE account == [index          |-> global.index,
                       deposited      |-> Updated(u).deposited - amount,
                       pending_reward |-> 0]
           new == IF account.deposited = 0 THEN DefaultAccount ELSE account
<1>4. /\ new \in UserAccount
      /\ new.deposited = deposited[u] - amount
      /\ new.pending_reward = 0
      /\ new.deposited * (global.index - new.index) = 0
      /\ new.index <= global.index
  <2>1. /\ account \in UserAccount
        /\ DefaultAccount \in UserAccount
        /\ global.index \in Nat
    BY <1>1, <1>2, <1>3 DEF UserAccount, DefaultAccount, Global
  <2>2. CASE account.deposited = 0
    BY <1>1, <2>1, <2>2 DEF DefaultAccount
  <2>3. CASE account.deposited # 0
    BY <1>1, <1>3, <2>1, <2>3
  <2> QED  BY <2>2, <2>3
<1>5. /\ user_accounts' = [user_accounts EXCEPT ![u] = new]
      /\ global' = [global EXCEPT !.total_supply = global.total_supply - amount]
      /\ rewards_paid' = [rewards_paid EXCEPT
                            ![u] = rewards_paid[u] + Updated(u).pending_reward]
      /\ UNCHANGED profit_earned
  BY DEF Withdraw, decrease_supply
<1> HIDE DEF new
<1>6. /\ user_accounts' \in [Users -> UserAccount]
      /\ \A v \in Users : user_accounts'[v] = IF v = u THEN new ELSE user_accounts[v]
      /\ global'.index = global.index
  BY <1>2, <1>4, <1>5 DEF Global
<1>7. deposited' = [deposited EXCEPT ![u] = deposited[u] - amount]
  BY <1>4, <1>6 DEF deposited
<1>8. claims' = [claims EXCEPT ![u] = 0]
  <2>1. ASSUME NEW v \in Users
        PROVE  Claim(v)' = IF v = u THEN 0 ELSE Claim(v)
    <3>1. CASE v = u
      BY <1>4, <1>6, <3>1, LpAssumption DEF Claim
    <3>2. CASE v # u
      BY <1>6, <3>2 DEF Claim
    <3> QED  BY <3>1, <3>2
  <2> QED  BY <2>1 DEF claims
<1>9. \A v \in Users : user_accounts'[v].index <= global'.index
  BY <1>2, <1>4, <1>6 DEF LpInv, IndexNotAhead
<1> QED  BY <1>1, <1>3, <1>5, <1>6, <1>7, <1>8, <1>9

\* A harvest pays one user's claim, rounded down, and moves no principal.
LEMMA HarvestEffect ==
  ASSUME LpInv, NEW u \in Users, Harvest(u)
  PROVE  /\ deposited' = deposited
         /\ claims' = [claims EXCEPT ![u] = 0]
         /\ rewards_paid' = [rewards_paid EXCEPT
                               ![u] = rewards_paid[u] + claims[u] \div Scale]
         /\ user_accounts' \in [Users -> UserAccount]
         /\ \A v \in Users : user_accounts'[v].index <= global'.index
         /\ UNCHANGED <<global, profit_earned>>
<1>1. /\ Updated(u) \in UserAccount
      /\ Updated(u).index = global.index
      /\ Updated(u).deposited = deposited[u]
      /\ Updated(u).pending_reward = claims[u] \div Scale
  BY UpdatedFacts
<1>2. user_accounts \in [Users -> UserAccount] /\ global \in Global
  BY DEF LpInv, TypeOK
<1> DEFINE new == [Updated(u) EXCEPT !.pending_reward = 0]
<1>3. /\ new \in UserAccount
      /\ new.deposited = deposited[u]
      /\ new.pending_reward = 0
      /\ new.index = global.index
  BY <1>1 DEF UserAccount
<1>4. new.deposited * (global.index - new.index) = 0
  BY <1>2, <1>3 DEF UserAccount, Global
<1>5. /\ user_accounts' = [user_accounts EXCEPT ![u] = new]
      /\ rewards_paid' = [rewards_paid EXCEPT
                            ![u] = rewards_paid[u] + Updated(u).pending_reward]
      /\ UNCHANGED <<global, profit_earned>>
  BY DEF Harvest
<1> HIDE DEF new
<1>6. /\ user_accounts' \in [Users -> UserAccount]
      /\ \A v \in Users : user_accounts'[v] = IF v = u THEN new ELSE user_accounts[v]
  BY <1>2, <1>3, <1>5
<1>7. deposited' = deposited
  BY <1>3, <1>6 DEF deposited
<1>8. claims' = [claims EXCEPT ![u] = 0]
  <2>1. ASSUME NEW v \in Users
        PROVE  Claim(v)' = IF v = u THEN 0 ELSE Claim(v)
    <3>1. CASE v = u
      BY <1>3, <1>4, <1>5, <1>6, <3>1, LpAssumption DEF Claim
    <3>2. CASE v # u
      BY <1>5, <1>6, <3>2 DEF Claim
    <3> QED  BY <3>1, <3>2
  <2> QED  BY <2>1 DEF claims
<1>9. \A v \in Users : user_accounts'[v].index <= global'.index
  BY <1>2, <1>3, <1>5, <1>6 DEF LpInv, IndexNotAhead, Global
<1> QED  BY <1>1, <1>5, <1>6, <1>7, <1>8, <1>9

\* The users' part of the profit, and what update_global_index adds to the index.
UsersPart(received, bid_amount, bps, by_contract) ==
  Profit(received, bid_amount)
    - WinningReward(Profit(received, bid_amount), bps, by_contract)

PerToken(profit) ==
  ((global.profit_to_distribute + profit) * Scale) \div global.total_supply

\* A profit waits when nothing is deposited; otherwise it raises every user's claim
\* by that user's principal times the same amount per token.
LEMMA CallbackEffect ==
  ASSUME LpInv, NEW received \in Receipts, NEW bid_amount \in BidAmounts,
         NEW bps \in RewardBps, NEW by_contract \in BOOLEAN,
         Callback(received, bid_amount, bps, by_contract)
  PROVE  LET profit == UsersPart(received, bid_amount, bps, by_contract) IN
         /\ profit \in 0..MaxProfit
         /\ profit_earned' = profit_earned + profit
         /\ UNCHANGED <<user_accounts, rewards_paid>>
         /\ global' = IF global.total_supply = 0
                      THEN [global EXCEPT !.profit_to_distribute =
                                            global.profit_to_distribute + profit]
                      ELSE [index |-> global.index + PerToken(profit),
                            profit_to_distribute |-> 0,
                            accumulated_profit |->
                              global.accumulated_profit
                                + (global.profit_to_distribute + profit),
                            total_supply |-> global.total_supply]
<1> DEFINE gross == Profit(received, bid_amount)
           profit == UsersPart(received, bid_amount, bps, by_contract)
<1>1. global \in Global /\ profit_earned \in Nat
  BY DEF LpInv, TypeOK
<1>2. gross \in Nat
  BY LpAssumption DEF Profit
<1>3. Share(gross, bps) \in Nat
  <2>1. gross * bps \in Nat
    BY <1>2, LpAssumption
  <2> QED  BY <2>1, DivFacts, 10000 \in Nat \ {0} DEF Share
<1>4. Share(gross, bps) <= gross
  BY DEF Callback
<1>5. profit \in Nat
  BY <1>2, <1>3, <1>4 DEF UsersPart, WinningReward
<1>6. /\ profit_earned + profit <= MaxProfit
      /\ profit_earned' = profit_earned + profit
      /\ UNCHANGED <<user_accounts, rewards_paid>>
      /\ global' = update_global_index(
                     [global EXCEPT !.profit_to_distribute =
                                      global.profit_to_distribute + profit])
  BY DEF Callback, UsersPart
<1>7. profit \in 0..MaxProfit
  BY <1>1, <1>5, <1>6, LpAssumption
<1> DEFINE g == [global EXCEPT !.profit_to_distribute =
                                 global.profit_to_distribute + profit]
<1>8. /\ g.index = global.index
      /\ g.profit_to_distribute = global.profit_to_distribute + profit
      /\ g.accumulated_profit = global.accumulated_profit
      /\ g.total_supply = global.total_supply
  BY <1>1 DEF Global
<1> HIDE DEF g, profit
<1>9. global' = IF g.total_supply = 0 THEN g
                ELSE [index |-> g.index + (g.profit_to_distribute * Scale) \div g.total_supply,
                      profit_to_distribute |-> 0,
                      accumulated_profit |-> g.accumulated_profit + g.profit_to_distribute,
                      total_supply |-> g.total_supply]
  BY <1>6 DEF update_global_index, g
<1> USE DEF g, profit
<1> QED
  <2>1. global' = IF global.total_supply = 0 THEN g
                  ELSE [index |-> global.index + PerToken(profit),
                        profit_to_distribute |-> 0,
                        accumulated_profit |->
                          global.accumulated_profit
                            + (global.profit_to_distribute + profit),
                        total_supply |-> global.total_supply]
    <3> HIDE DEF g, profit
    <3> QED  BY <1>8, <1>9 DEF PerToken
  <2> QED  BY <1>6, <1>7, <2>1

\* What a deposit a gains when the index c rises by d.
LEMMA IndexRaise ==
  ASSUME NEW e \in Nat, NEW a \in Nat, NEW b \in Nat, NEW c \in Nat, NEW d \in Nat
  PROVE  e + a * (c + d - b) = e + a * (c - b) + a * d
OBVIOUS

\* With something deposited, a profit raises every claim by the same amount per
\* deposited token, and what is shared out falls short of the profit by less
\* than one index unit for each deposited token.
LEMMA ShareOutEffect ==
  ASSUME LpInv, NEW profit \in Nat, global.total_supply # 0,
         global' \in Global,
         global'.index = global.index + PerToken(profit),
         UNCHANGED user_accounts
  PROVE  /\ PerToken(profit) \in Nat
         /\ claims' = [u \in Users |-> claims[u] + deposited[u] * PerToken(profit)]
         /\ Total(claims') = Total(claims) + PerToken(profit) * global.total_supply
         /\ PerToken(profit) * global.total_supply
              <= Scale * (global.profit_to_distribute + profit)
         /\ Scale * (global.profit_to_distribute + profit)
              - PerToken(profit) * global.total_supply < global.total_supply
<1> DEFINE d == PerToken(profit)
           p == global.profit_to_distribute + profit
<1>1. /\ global \in Global
      /\ user_accounts \in [Users -> UserAccount]
      /\ p \in Nat /\ p * Scale \in Nat
      /\ global.total_supply \in Nat \ {0}
      /\ Scale \in Nat /\ IsFiniteSet(Users)
  <2>1. global \in Global /\ user_accounts \in [Users -> UserAccount]
    BY DEF LpInv, TypeOK
  <2>2. p \in Nat /\ global.total_supply \in Nat \ {0} /\ Scale \in Nat
    BY <2>1, LpAssumption DEF Global
  <2>3. \A m, n \in Nat : m * n \in Nat
    OBVIOUS
  <2> QED  BY <2>1, <2>2, <2>3, LpAssumption
<1>2. d = (p * Scale) \div global.total_supply
  BY DEF PerToken
<1>3. /\ d \in Nat
      /\ global.total_supply * d <= p * Scale
      /\ p * Scale - global.total_supply * d < global.total_supply
  <2> HIDE DEF d, p
  <2> QED  BY <1>1, <1>2, DivFacts
<1>4. claims' = [u \in Users |-> claims[u] + deposited[u] * d]
  <2> HIDE DEF d
  <2>1. global'.index = global.index + d
    BY DEF d
  <2>2. ASSUME NEW u \in Users
        PROVE  Claim(u)' = Claim(u) + deposited[u] * d
    <3>2. /\ user_accounts[u].deposited \in Nat
          /\ user_accounts[u].index \in Nat
          /\ user_accounts[u].pending_reward \in Nat
          /\ global.index \in Nat
          /\ user_accounts[u].index <= global.index
      BY <1>1 DEF UserAccount, Global, LpInv, IndexNotAhead
    <3>3. user_accounts'[u] = user_accounts[u]
      OBVIOUS
    <3>4. Scale * user_accounts[u].pending_reward
            + user_accounts[u].deposited * (global.index + d - user_accounts[u].index)
          = Scale * user_accounts[u].pending_reward
              + user_accounts[u].deposited * (global.index - user_accounts[u].index)
              + user_accounts[u].deposited * d
      <4>1. Scale * user_accounts[u].pending_reward \in Nat
        BY <1>1, <3>2
      <4> QED  BY <1>3, <3>2, <4>1, IndexRaise
    <3>5. Claim(u)' = Scale * user_accounts[u].pending_reward
                + user_accounts[u].deposited * (global.index + d - user_accounts[u].index)
      <4>1. Claim(u)' = Scale * user_accounts'[u].pending_reward
                + user_accounts'[u].deposited * (global'.index - user_accounts'[u].index)
        BY DEF Claim
      <4> QED  BY <1>1, <1>3, <2>1, <3>2, <3>3, <4>1
    <3>6. deposited[u] = user_accounts[u].deposited
      BY DEF deposited
    <3> QED  BY <3>4, <3>5, <3>6, Zenon DEF Claim
  <2> QED  BY <2>2 DEF claims
<1>5. Total(claims') = Total(claims) + d * global.total_supply
  <2> HIDE DEF d
  <2>1. deposited \in [Users -> Nat] /\ claims \in [Users -> Nat]
    BY DerivedTypes
  <2> DEFINE gain == [u \in Users |-> deposited[u] * d]
  <2>2. gain \in [Users -> Nat]
    <3>1. \A m, n \in Nat : m * n \in Nat
      OBVIOUS
    <3> QED  BY <1>3, <2>1, <3>1
  <2>3. Total(gain) = d * Total(deposited)
    BY <1>1, <1>3, <2>1, TotalTimes
  <2>4. claims' = [u \in Users |-> claims[u] + gain[u]]
    BY <1>4
  <2> HIDE DEF gain
  <2>5. Total(claims') = Total(claims) + Total(gain)
    BY <1>1, <2>1, <2>2, <2>4, TotalPlus
  <2> QED  BY <2>3, <2>5 DEF LpInv, SupplyIsSum
<1>6. /\ d * global.total_supply = global.total_supply * d
      /\ p * Scale = Scale * p
  BY <1>1, <1>3
<1> QED
  <2> HIDE DEF p
  <2>1. d * global.total_supply <= Scale * p
    BY <1>3, <1>6
  <2>2. Scale * p - d * global.total_supply < global.total_supply
    BY <1>3, <1>6
  <2> QED  BY <1>3, <1>4, <1>5, <2>1, <2>2 DEF p

-------------------------------------------------------------------------------
(* The inductive invariant. *)

\* The bounds of Next, as the effects of the handlers need them.
LEMMA NextCases ==
  ASSUME Next
  PROVE  \/ \E u \in Users, amount \in 1..MaxAmount, cap \in Caps, bid_active \in BOOLEAN :
              Deposit(u, amount, cap, bid_active)
         \/ \E u \in Users, amount \in 0..MaxAmount, bid_active \in BOOLEAN,
               now, closing \in Times, buffer \in WithdrawBuffers :
              Withdraw(u, amount, bid_active, now, closing, buffer)
         \/ \E u \in Users : Harvest(u)
         \/ \E received \in Receipts, bid_amount \in BidAmounts,
               bps \in RewardBps, by_contract \in BOOLEAN :
              Callback(received, bid_amount, bps, by_contract)
BY DEF Next

\* Nothing is deposited or owed in the first state.
LEMMA InitInv == Init => LpInv
<1> SUFFICES ASSUME Init PROVE LpInv
  OBVIOUS
<1>1. TypeOK
  BY DEF Init, TypeOK, Global, UserAccount, DefaultAccount
<1>2. IndexNotAhead
  BY DEF Init, IndexNotAhead, DefaultAccount
<1>3. SupplyIsSum
  <2>1. deposited \in [Users -> Nat] /\ \A u \in Users : deposited[u] = 0
    BY DEF Init, deposited, DefaultAccount
  <2>2. Total(deposited) = 0
    BY <2>1, TotalZero
  <2> QED  BY <2>2 DEF Init, SupplyIsSum
<1> QED  BY <1>1, <1>2, <1>3 DEF LpInv

\* The sums of what a handler changes for one user.
LEMMA DepositedTotal ==
  ASSUME LpInv, NEW u \in Users, NEW n \in Nat, deposited' = [deposited EXCEPT ![u] = n]
  PROVE  Total(deposited') = Total(deposited) - deposited[u] + n
BY DerivedTypes, LpAssumption, TotalUpdate

\* The sum of the claims when one of them changes.
LEMMA ClaimsTotal ==
  ASSUME LpInv, NEW u \in Users, NEW n \in Nat, claims' = [claims EXCEPT ![u] = n]
  PROVE  Total(claims') = Total(claims) - claims[u] + n
BY DerivedTypes, LpAssumption, TotalUpdate

\* The sum of the rewards paid when one of them changes.
LEMMA PaidTotal ==
  ASSUME LpInv, NEW u \in Users, NEW n \in Nat,
         rewards_paid' = [rewards_paid EXCEPT ![u] = n]
  PROVE  Total(rewards_paid') = Total(rewards_paid) - rewards_paid[u] + n
BY DerivedTypes, LpAssumption, TotalUpdate

\* Every handler keeps LpInv.
LEMMA StepInv == LpInv /\ [Next]_vars => LpInv'
<1> SUFFICES ASSUME LpInv, [Next]_vars PROVE LpInv'
  OBVIOUS
<1>t. /\ IsFiniteSet(Users)
      /\ deposited \in [Users -> Nat]
      /\ claims \in [Users -> Nat]
      /\ rewards_paid \in [Users -> Nat]
      /\ global \in Global /\ profit_earned \in Nat
      /\ global.total_supply = Total(deposited)
  BY DerivedTypes, LpAssumption DEF LpInv, TypeOK, SupplyIsSum
<1>p. \A u \in Users : claims[u] \div Scale \in Nat
  BY <1>t, DivFacts, LpAssumption
<1>1. ASSUME NEW u \in Users, NEW amount \in 1..MaxAmount, NEW cap \in Caps,
             NEW bid_active \in BOOLEAN, Deposit(u, amount, cap, bid_active)
      PROVE  LpInv'
  <2>1. /\ deposited' = [deposited EXCEPT ![u] = deposited[u] + amount]
        /\ user_accounts' \in [Users -> UserAccount]
        /\ \A v \in Users : user_accounts'[v].index <= global'.index
        /\ global' \in Global
        /\ global'.total_supply = global.total_supply + amount
        /\ UNCHANGED <<rewards_paid, profit_earned>>
    BY <1>1, amount \in Nat, DepositEffect
  <2>2. deposited[u] + amount \in Nat /\ Total(deposited) \in Nat
    BY <1>t, TotalType
  <2>3. Total(deposited') = Total(deposited) - deposited[u] + (deposited[u] + amount)
    BY <2>1, <2>2, DepositedTotal
  <2>4. SupplyIsSum'
    BY <1>t, <2>1, <2>2, <2>3 DEF SupplyIsSum
  <2> QED  BY <1>t, <2>1, <2>4 DEF LpInv, TypeOK, IndexNotAhead
<1>2. ASSUME NEW u \in Users, NEW amount \in 0..MaxAmount, NEW bid_active \in BOOLEAN,
             NEW now \in Times, NEW closing \in Times, NEW buffer \in WithdrawBuffers,
             Withdraw(u, amount, bid_active, now, closing, buffer)
      PROVE  LpInv'
  <2>1. /\ amount <= deposited[u]
        /\ deposited' = [deposited EXCEPT ![u] = deposited[u] - amount]
        /\ rewards_paid' = [rewards_paid EXCEPT
                              ![u] = rewards_paid[u] + claims[u] \div Scale]
        /\ user_accounts' \in [Users -> UserAccount]
        /\ \A v \in Users : user_accounts'[v].index <= global'.index
        /\ global' = [global EXCEPT !.total_supply = global.total_supply - amount]
        /\ UNCHANGED profit_earned
    BY <1>2, amount \in Nat, WithdrawEffect
  <2>2. deposited[u] - amount \in Nat /\ Total(deposited) \in Nat
    BY <1>t, <2>1, TotalType
  <2>3. deposited[u] <= Total(deposited)
    BY <1>t, TotalBound
  <2>4. Total(deposited') = Total(deposited) - deposited[u] + (deposited[u] - amount)
    BY <2>1, <2>2, DepositedTotal
  <2>5. global.total_supply - amount \in Nat
    BY <1>t, <2>1, <2>2, <2>3
  <2>6. global' \in Global /\ global'.total_supply = global.total_supply - amount
    BY <1>t, <2>1, <2>5 DEF Global
  <2>7. SupplyIsSum'
    BY <1>t, <2>2, <2>4, <2>6 DEF SupplyIsSum
  <2>8. rewards_paid' \in [Users -> Nat]
    BY <1>t, <1>p, <2>1
  <2> QED  BY <1>t, <2>1, <2>6, <2>7, <2>8 DEF LpInv, TypeOK, IndexNotAhead
<1>3. ASSUME NEW u \in Users, Harvest(u)
      PROVE  LpInv'
  <2>1. /\ deposited' = deposited
        /\ rewards_paid' = [rewards_paid EXCEPT
                              ![u] = rewards_paid[u] + claims[u] \div Scale]
        /\ user_accounts' \in [Users -> UserAccount]
        /\ \A v \in Users : user_accounts'[v].index <= global'.index
        /\ UNCHANGED <<global, profit_earned>>
    BY <1>3, HarvestEffect
  <2>2. rewards_paid' \in [Users -> Nat]
    BY <1>t, <1>p, <2>1
  <2> QED  BY <1>t, <2>1, <2>2 DEF LpInv, TypeOK, IndexNotAhead, SupplyIsSum
<1>4. ASSUME NEW received \in Receipts, NEW bid_amount \in BidAmounts,
             NEW bps \in RewardBps, NEW by_contract \in BOOLEAN,
             Callback(received, bid_amount, bps, by_contract)
      PROVE  LpInv'
  <2> DEFINE profit == UsersPart(received, bid_amount, bps, by_contract)
  <2>1. /\ profit \in 0..MaxProfit
        /\ profit_earned' = profit_earned + profit
        /\ UNCHANGED <<user_accounts, rewards_paid>>
        /\ global' = IF global.total_supply = 0
                     THEN [global EXCEPT !.profit_to_distribute =
                                           global.profit_to_distribute + profit]
                     ELSE [index |-> global.index + PerToken(profit),
                           profit_to_distribute |-> 0,
                           accumulated_profit |->
                             global.accumulated_profit
                               + (global.profit_to_distribute + profit),
                           total_supply |-> global.total_supply]
    BY <1>4, CallbackEffect
  <2> HIDE DEF profit
  <2>2. profit \in Nat
    BY <2>1
  <2>3. /\ global' \in Global
        /\ global'.total_supply = global.total_supply
        /\ global'.index >= global.index
    <3>1. CASE global.total_supply = 0
      BY <1>t, <2>1, <2>2, <3>1 DEF Global
    <3>2. CASE global.total_supply # 0
      <4>1. PerToken(profit) \in Nat
        <5>1. /\ (global.profit_to_distribute + profit) * Scale \in Nat
              /\ global.total_supply \in Nat \ {0}
          <6>1. \A m, n \in Nat : m * n \in Nat
            OBVIOUS
          <6> QED  BY <1>t, <2>2, <3>2, <6>1, LpAssumption DEF Global
        <5> QED  BY <5>1, DivFacts DEF PerToken
      <4> QED  BY <1>t, <2>1, <2>2, <3>2, <4>1 DEF Global
    <3> QED  BY <3>1, <3>2
  <2>4. deposited' = deposited
    BY <2>1 DEF deposited
  <2>5. IndexNotAhead'
    BY <1>t, <2>1, <2>3 DEF LpInv, TypeOK, IndexNotAhead, UserAccount, Global
  <2> QED  BY <1>t, <2>1, <2>2, <2>3, <2>4, <2>5 DEF LpInv, TypeOK, SupplyIsSum
<1>5. CASE UNCHANGED vars
  BY <1>5 DEF vars, LpInv, TypeOK, SupplyIsSum, IndexNotAhead, deposited
<1> QED  BY <1>1, <1>2, <1>3, <1>4, <1>5, NextCases

\* LpInv is an invariant of the specification.
THEOREM Invariant == Spec => []LpInv
<1> QED  BY InitInv, StepInv, PTL DEF Spec

\* No stored number ever underflows.
THEOREM TypeCorrect == Spec => []TypeOK
<1>1. LpInv => TypeOK
  BY DEF LpInv
<1> QED  BY <1>1, Invariant, PTL

\* The divisor of every profit is the sum of the deposits.
THEOREM SupplyCorrect == Spec => []SupplyIsSum
<1>1. LpInv => SupplyIsSum
  BY DEF LpInv
<1> QED  BY <1>1, Invariant, PTL

-------------------------------------------------------------------------------
(* Rewards: what is paid and owed against what was earned. *)

\* Paying the claim of u, rounded down to whole tokens, loses less than a token.
LEMMA PayOut ==
  ASSUME LpInv, NEW u \in Users,
         claims' = [claims EXCEPT ![u] = 0],
         rewards_paid' = [rewards_paid EXCEPT
                            ![u] = rewards_paid[u] + claims[u] \div Scale],
         global'.accumulated_profit = global.accumulated_profit
  PROVE  Dust <= Dust' /\ Dust' - Dust < Scale
<1> DEFINE whole == claims[u] \div Scale
<1>1. /\ claims \in [Users -> Nat] /\ rewards_paid \in [Users -> Nat]
      /\ Scale \in Nat \ {0} /\ IsFiniteSet(Users)
      /\ global.accumulated_profit \in Nat
  BY DerivedTypes, LpAssumption DEF LpInv, TypeOK, Global
<1>2. /\ whole \in Nat /\ Scale * whole \in Nat
      /\ Scale * whole <= claims[u] /\ claims[u] - Scale * whole < Scale
  BY <1>1, DivFacts
<1>3. Total(claims') = Total(claims) - claims[u] + 0
  BY ClaimsTotal, 0 \in Nat
<1> HIDE DEF whole
<1>4. rewards_paid[u] + whole \in Nat
      /\ rewards_paid' = [rewards_paid EXCEPT ![u] = rewards_paid[u] + whole]
  BY <1>1, <1>2 DEF whole
<1>5. Total(rewards_paid') = Total(rewards_paid) - rewards_paid[u] + (rewards_paid[u] + whole)
  BY <1>4, PaidTotal
<1>6. Total(claims) \in Nat /\ Total(rewards_paid) \in Nat
  BY <1>1, TotalType
<1>7. Total(rewards_paid') = Total(rewards_paid) + whole
  BY <1>1, <1>2, <1>5, <1>6
<1>8. Scale * (Total(rewards_paid) + whole) = Scale * Total(rewards_paid) + Scale * whole
  BY <1>1, <1>2, <1>6
<1>9. Dust' = Dust + claims[u] - Scale * whole
  <2>1. Dust' = Scale * global.accumulated_profit
                  - Scale * Total(rewards_paid') - Total(claims')
    BY DEF Dust
  <2>2. /\ Scale * global.accumulated_profit \in Int
        /\ Scale * Total(rewards_paid) \in Int
    BY <1>1, <1>6
  <2> QED  BY <1>1, <1>2, <1>3, <1>6, <1>7, <1>8, <2>1, <2>2 DEF Dust
<1>10. Dust \in Int
  <2>1. /\ Scale * global.accumulated_profit \in Int
        /\ Scale * Total(rewards_paid) \in Int
    BY <1>1, <1>6
  <2> QED  BY <1>6, <2>1 DEF Dust
<1> QED  BY <1>1, <1>2, <1>9, <1>10

DustIsInt == Dust \in Int

\* The dust is an integer, ...
LEMMA DustType == LpInv => DustIsInt
<1> SUFFICES ASSUME LpInv PROVE Dust \in Int
  BY DEF DustIsInt
<1>1. /\ Scale \in Nat /\ global.accumulated_profit \in Nat
      /\ Total(claims) \in Nat /\ Total(rewards_paid) \in Nat
  BY DerivedTypes, LpAssumption, TotalType DEF LpInv, TypeOK, Global
<1>2. \A m, n \in Nat : m * n \in Nat
  OBVIOUS
<1>3. /\ Scale * global.accumulated_profit \in Nat
      /\ Scale * Total(rewards_paid) \in Nat
  BY <1>1, <1>2
<1> QED  BY <1>1, <1>3 DEF Dust

\* ... also after a step.
LEMMA DustTypeNext == LpInv' => DustIsInt'
BY DustType, PTL

\* What a step loses to rounding: nothing is taken back, a claim loses less than a
\* whole token, an index increment less than one unit per deposited token.
LEMMA DustStep ==
  ASSUME LpInv, [Next]_vars
  PROVE  /\ Dust \in Int
         /\ Dust <= Dust'
         /\ Dust' - Dust < IF global.total_supply > Scale
                           THEN global.total_supply ELSE Scale
<1>t. /\ IsFiniteSet(Users) /\ Scale \in Nat \ {0}
      /\ deposited \in [Users -> Nat]
      /\ claims \in [Users -> Nat]
      /\ rewards_paid \in [Users -> Nat]
      /\ global \in Global
      /\ Total(claims) \in Nat /\ Total(rewards_paid) \in Nat
  BY DerivedTypes, LpAssumption, TotalType DEF LpInv, TypeOK
<1>n. \A m, n \in Nat : m * n \in Nat
  OBVIOUS
<1>d. Dust \in Int /\ Dust' \in Int
  BY DustType, DustTypeNext, StepInv DEF DustIsInt
<1>s. global.total_supply \in Nat
  BY <1>t DEF Global
<1>1. ASSUME NEW u \in Users, NEW amount \in 1..MaxAmount, NEW cap \in Caps,
             NEW bid_active \in BOOLEAN, Deposit(u, amount, cap, bid_active)
      PROVE  Dust <= Dust' /\ Dust' - Dust < Scale
  <2>1. /\ claims' = [claims EXCEPT ![u] = Scale * (claims[u] \div Scale)]
        /\ global'.accumulated_profit = global.accumulated_profit
        /\ rewards_paid' = rewards_paid
    BY <1>1, amount \in Nat, DepositEffect
  <2> DEFINE rounded == Scale * (claims[u] \div Scale)
  <2>2. rounded \in Nat /\ rounded <= claims[u] /\ claims[u] - rounded < Scale
    BY <1>t, DivFacts
  <2> HIDE DEF rounded
  <2>3. claims' = [claims EXCEPT ![u] = rounded]
    BY <2>1 DEF rounded
  <2>4. Total(claims') = Total(claims) - claims[u] + rounded
    BY <2>2, <2>3, ClaimsTotal
  <2>5. Dust' = Scale * global.accumulated_profit
                  - Scale * Total(rewards_paid) - Total(claims')
    BY <2>1 DEF Dust
  <2>6. /\ Scale * global.accumulated_profit \in Nat
        /\ Scale * Total(rewards_paid) \in Nat
    BY <1>t, <1>n DEF Global
  <2>7. Dust' = Dust + claims[u] - rounded
    BY <1>t, <2>2, <2>4, <2>5, <2>6 DEF Dust
  <2> QED  BY <1>t, <1>d, <2>2, <2>7
<1>2. ASSUME NEW u \in Users, NEW amount \in 0..MaxAmount, NEW bid_active \in BOOLEAN,
             NEW now \in Times, NEW closing \in Times, NEW buffer \in WithdrawBuffers,
             Withdraw(u, amount, bid_active, now, closing, buffer)
      PROVE  Dust <= Dust' /\ Dust' - Dust < Scale
  <2>1. /\ claims' = [claims EXCEPT ![u] = 0]
        /\ rewards_paid' = [rewards_paid EXCEPT
                              ![u] = rewards_paid[u] + claims[u] \div Scale]
        /\ global' = [global EXCEPT !.total_supply = global.total_supply - amount]
    BY <1>2, amount \in Nat, WithdrawEffect
  <2>2. global'.accumulated_profit = global.accumulated_profit
    BY <1>t, <2>1 DEF Global
  <2> QED  BY <2>1, <2>2, PayOut
<1>3. ASSUME NEW u \in Users, Harvest(u)
      PROVE  Dust <= Dust' /\ Dust' - Dust < Scale
  <2>1. /\ claims' = [claims EXCEPT ![u] = 0]
        /\ rewards_paid' = [rewards_paid EXCEPT
                              ![u] = rewards_paid[u] + claims[u] \div Scale]
        /\ global' = global
    BY <1>3, HarvestEffect
  <2> QED  BY <2>1, PayOut
<1>4. ASSUME NEW received \in Receipts, NEW bid_amount \in BidAmounts,
             NEW bps \in RewardBps, NEW by_contract \in BOOLEAN,
             Callback(received, bid_amount, bps, by_contract)
      PROVE  /\ Dust <= Dust'
             /\ Dust' - Dust < IF global.total_supply > Scale
                               THEN global.total_supply ELSE Scale
  <2> DEFINE profit == UsersPart(received, bid_amount, bps, by_contract)
  <2>1. /\ profit \in 0..MaxProfit
        /\ UNCHANGED <<user_accounts, rewards_paid>>
        /\ global' = IF global.total_supply = 0
                     THEN [global EXCEPT !.profit_to_distribute =
                                           global.profit_to_distribute + profit]
                     ELSE [index |-> global.index + PerToken(profit),
                           profit_to_distribute |-> 0,
                           accumulated_profit |->
                             global.accumulated_profit
                               + (global.profit_to_distribute + profit),
                           total_supply |-> global.total_supply]
    BY <1>4, CallbackEffect
  <2>2. profit \in Nat /\ global' \in Global
    BY <1>4, <2>1, StepInv DEF LpInv, TypeOK, Next
  <2> HIDE DEF profit
  <2>3. CASE global.total_supply = 0
    <3>1. /\ global'.index = global.index
          /\ global'.accumulated_profit = global.accumulated_profit
      BY <1>t, <2>1, <2>3 DEF Global
    <3>2. claims' = claims
      BY <2>1, <3>1 DEF claims, Claim
    <3>3. Dust' = Dust
      BY <2>1, <3>1, <3>2 DEF Dust
    <3> QED  BY <1>t, <1>d, <2>3, <3>3
  <2>4. CASE global.total_supply # 0
    <3> DEFINE shared == PerToken(profit) * global.total_supply
               income == global.profit_to_distribute + profit
    <3>1. /\ global'.index = global.index + PerToken(profit)
          /\ global'.accumulated_profit = global.accumulated_profit + income
      BY <2>1, <2>4
    <3>2. /\ PerToken(profit) \in Nat
          /\ Total(claims') = Total(claims) + shared
          /\ shared <= Scale * income
          /\ Scale * income - shared < global.total_supply
      BY <2>1, <2>2, <2>4, <3>1, ShareOutEffect
    <3>3. shared \in Nat /\ income \in Nat
      BY <1>t, <1>n, <2>2, <3>2 DEF Global
    <3> HIDE DEF shared, income
    <3>4. Scale * (global.accumulated_profit + income)
            = Scale * global.accumulated_profit + Scale * income
      BY <1>t, <3>3 DEF Global
    <3>5. /\ Scale * global.accumulated_profit \in Nat
          /\ Scale * Total(rewards_paid) \in Nat
          /\ Scale * income \in Nat
      BY <1>t, <1>n, <3>3 DEF Global
    <3>6. Dust' = Scale * (global.accumulated_profit + income)
                    - Scale * Total(rewards_paid) - Total(claims')
      BY <2>1, <3>1 DEF Dust
    <3>7. Dust' = Dust + Scale * income - shared
      BY <1>t, <3>2, <3>3, <3>4, <3>5, <3>6 DEF Dust
    <3> QED  BY <1>t, <1>d, <1>s, <3>2, <3>3, <3>5, <3>7
  <2> QED  BY <2>3, <2>4
<1>5. CASE UNCHANGED vars
  <2>1. Dust' = Dust
    BY <1>5 DEF vars, Dust, claims, Claim
  <2> QED  BY <1>d, <1>s, <1>t, <2>1
<1> DEFINE Good == /\ Dust <= Dust'
                   /\ Dust' - Dust < IF global.total_supply > Scale
                                     THEN global.total_supply ELSE Scale
<1>6. (Dust <= Dust' /\ Dust' - Dust < Scale) => Good
  <2>1. \A m, n, k, l \in Int : m - n < k /\ k <= l => m - n < l
    OBVIOUS
  <2>2. /\ global.total_supply \in Int /\ Scale \in Int
        /\ (IF global.total_supply > Scale THEN global.total_supply ELSE Scale) \in Int
        /\ Scale <= (IF global.total_supply > Scale THEN global.total_supply ELSE Scale)
    BY <1>s, <1>t
  <2> QED  BY <1>d, <2>1, <2>2
<1>7. Good
  <2> HIDE DEF Good
  <2>1. \A u \in Users, amount \in 1..MaxAmount, cap \in Caps, bid_active \in BOOLEAN :
          Deposit(u, amount, cap, bid_active) => Good
    BY <1>1, <1>6
  <2>2. \A u \in Users, amount \in 0..MaxAmount, bid_active \in BOOLEAN,
           now, closing \in Times, buffer \in WithdrawBuffers :
          Withdraw(u, amount, bid_active, now, closing, buffer) => Good
    BY <1>2, <1>6
  <2>3. \A u \in Users : Harvest(u) => Good
    BY <1>3, <1>6
  <2>4. \A received \in Receipts, bid_amount \in BidAmounts,
           bps \in RewardBps, by_contract \in BOOLEAN :
          Callback(received, bid_amount, bps, by_contract) => Good
    BY <1>4 DEF Good
  <2>5. UNCHANGED vars => Good
    BY <1>5 DEF Good
  <2> QED  BY <2>1, <2>2, <2>3, <2>4, <2>5, NextCases
<1> QED  BY <1>d, <1>7

\* No account is ahead of the global index.
THEOREM IndexCorrect == Spec => []IndexNotAhead
<1>1. LpInv => IndexNotAhead
  BY DEF LpInv
<1> QED  BY <1>1, Invariant, PTL

\* The rewards paid and owed never exceed the profit shared out.
THEOREM RewardsCovered == Spec => []NeverOverPaid
<1>1. Init => NeverOverPaid
  <2> SUFFICES ASSUME Init PROVE Dust >= 0
    BY DEF NeverOverPaid
  <2>1. LpInv
    BY InitInv
  <2>2. \A u \in Users : claims[u] = 0 /\ rewards_paid[u] = 0
    BY LpAssumption DEF Init, claims, Claim, DefaultAccount
  <2>3. Total(claims) = 0 /\ Total(rewards_paid) = 0
    BY <2>1, <2>2, DerivedTypes, TotalZero
  <2> QED  BY <2>3, LpAssumption DEF Dust, Init
<1>2. LpInv /\ NeverOverPaid /\ [Next]_vars => NeverOverPaid'
  <2> SUFFICES ASSUME LpInv, NeverOverPaid, [Next]_vars PROVE NeverOverPaid'
    OBVIOUS
  <2>1. Dust \in Int /\ Dust <= Dust' /\ Dust >= 0
    BY DustStep DEF NeverOverPaid
  <2>2. Dust' \in Int
    BY StepInv, DustTypeNext DEF DustIsInt
  <2> QED  BY <2>1, <2>2 DEF NeverOverPaid
<1> QED  BY <1>1, <1>2, InitInv, StepInv, PTL DEF Spec

\* No step takes back what rounding lost before, or loses a whole token.
THEOREM RoundingBounded == Spec => DustGrowsSlowly
<1>1. LpInv /\ [Next]_vars =>
        [ /\ Dust <= Dust'
          /\ Dust' - Dust < IF global.total_supply > Scale
                            THEN global.total_supply ELSE Scale ]_vars
  BY DustStep
<1> QED  BY <1>1, Invariant, PTL DEF Spec, DustGrowsSlowly

-------------------------------------------------------------------------------
(* The lazy index implements the ledger that credits every profit at once. *)

\* The ledger starts empty.
LEMMA LedgerInit == Init => Ledger!Init
<1> SUFFICES ASSUME Init PROVE Ledger!Init
  OBVIOUS
<1>1. deposited = [u \in Users |-> 0]
  BY DEF Init, deposited, DefaultAccount
<1>2. claims = [u \in Users |-> 0]
  BY LpAssumption DEF Init, claims, Claim, DefaultAccount
<1> QED  BY <1>1, <1>2 DEF Init, Ledger!Init

\* Each handler is the ledger's action of the same kind: Deposit, Withdraw (also for
\* Harvest), and Distribute or Retain for Callback.
LEMMA LedgerStep == LpInv /\ [Next]_vars => [Ledger!Next]_(Ledger!vars)
<1> SUFFICES ASSUME LpInv, [Next]_vars PROVE [Ledger!Next]_(Ledger!vars)
  OBVIOUS
<1>t. /\ global \in Global
      /\ deposited \in [Users -> Nat]
      /\ claims \in [Users -> Nat]
      /\ rewards_paid \in [Users -> Nat]
      /\ global.total_supply = Total(deposited)
  BY DerivedTypes DEF LpInv, TypeOK, SupplyIsSum
<1>1. ASSUME NEW u \in Users, NEW amount \in 1..MaxAmount, NEW cap \in Caps,
             NEW bid_active \in BOOLEAN, Deposit(u, amount, cap, bid_active)
      PROVE  Ledger!Next
  <2>1. /\ deposited' = [deposited EXCEPT ![u] = deposited[u] + amount]
        /\ claims' = [claims EXCEPT ![u] = Scale * (claims[u] \div Scale)]
        /\ global'.profit_to_distribute = global.profit_to_distribute
        /\ global'.accumulated_profit = global.accumulated_profit
        /\ rewards_paid' = rewards_paid /\ profit_earned' = profit_earned
    BY <1>1, amount \in Nat, DepositEffect
  <2>2. Ledger!Deposit(u)
    BY <2>1 DEF Ledger!Deposit, Ledger!WholeTokens
  <2> QED  BY <2>2 DEF Ledger!Next
<1>2. ASSUME NEW u \in Users, NEW amount \in 0..MaxAmount, NEW bid_active \in BOOLEAN,
             NEW now \in Times, NEW closing \in Times, NEW buffer \in WithdrawBuffers,
             Withdraw(u, amount, bid_active, now, closing, buffer)
      PROVE  Ledger!Next
  <2>1. /\ amount <= deposited[u]
        /\ deposited' = [deposited EXCEPT ![u] = deposited[u] - amount]
        /\ claims' = [claims EXCEPT ![u] = 0]
        /\ rewards_paid' = [rewards_paid EXCEPT
                              ![u] = rewards_paid[u] + claims[u] \div Scale]
        /\ global' = [global EXCEPT !.total_supply = global.total_supply - amount]
        /\ profit_earned' = profit_earned
    BY <1>2, amount \in Nat, WithdrawEffect
  <2>2. /\ global'.profit_to_distribute = global.profit_to_distribute
        /\ global'.accumulated_profit = global.accumulated_profit
    BY <1>t, <2>1 DEF Global
  <2>3. amount \in 0..deposited[u]
    BY <1>t, <2>1
  <2>4. Ledger!Withdraw(u)
    BY <2>1, <2>2, <2>3 DEF Ledger!Withdraw, Ledger!WholeTokens
  <2> QED  BY <2>4 DEF Ledger!Next
<1>3. ASSUME NEW u \in Users, Harvest(u)
      PROVE  Ledger!Next
  <2>1. /\ deposited' = deposited
        /\ claims' = [claims EXCEPT ![u] = 0]
        /\ rewards_paid' = [rewards_paid EXCEPT
                              ![u] = rewards_paid[u] + claims[u] \div Scale]
        /\ global' = global /\ profit_earned' = profit_earned
    BY <1>3, HarvestEffect
  <2>2. 0 \in 0..deposited[u] /\ deposited' = [deposited EXCEPT ![u] = deposited[u] - 0]
    BY <1>t, <2>1
  <2>3. Ledger!Withdraw(u)
    BY <2>1, <2>2 DEF Ledger!Withdraw, Ledger!WholeTokens
  <2> QED  BY <2>3 DEF Ledger!Next
<1>4. ASSUME NEW received \in Receipts, NEW bid_amount \in BidAmounts,
             NEW bps \in RewardBps, NEW by_contract \in BOOLEAN,
             Callback(received, bid_amount, bps, by_contract)
      PROVE  Ledger!Next
  <2> DEFINE profit == UsersPart(received, bid_amount, bps, by_contract)
  <2>1. /\ profit \in 0..MaxProfit
        /\ profit_earned' = profit_earned + profit
        /\ UNCHANGED <<user_accounts, rewards_paid>>
        /\ global' = IF global.total_supply = 0
                     THEN [global EXCEPT !.profit_to_distribute =
                                           global.profit_to_distribute + profit]
                     ELSE [index |-> global.index + PerToken(profit),
                           profit_to_distribute |-> 0,
                           accumulated_profit |->
                             global.accumulated_profit
                               + (global.profit_to_distribute + profit),
                           total_supply |-> global.total_supply]
    BY <1>4, CallbackEffect
  <2>2. profit \in Nat /\ global' \in Global
    BY <1>4, <2>1, StepInv DEF LpInv, TypeOK, Next
  <2> HIDE DEF profit
  <2>3. deposited' = deposited
    BY <2>1 DEF deposited
  <2>4. CASE global.total_supply = 0
    <3>1. /\ global'.index = global.index
          /\ global'.profit_to_distribute = global.profit_to_distribute + profit
          /\ global'.accumulated_profit = global.accumulated_profit
      BY <1>t, <2>1, <2>4 DEF Global
    <3>2. claims' = claims
      BY <2>1, <3>1 DEF claims, Claim
    <3>3. Ledger!Retain(profit)
      BY <1>t, <2>1, <2>3, <2>4, <3>1, <3>2 DEF Ledger!Retain
    <3> QED  BY <2>1, <3>3 DEF Ledger!Next
  <2>5. CASE global.total_supply # 0
    <3>1. /\ global'.index = global.index + PerToken(profit)
          /\ global'.profit_to_distribute = 0
          /\ global'.accumulated_profit
               = global.accumulated_profit + (global.profit_to_distribute + profit)
      BY <2>1, <2>5
    <3>2. claims' = [u \in Users |-> claims[u] + deposited[u] * PerToken(profit)]
      BY <2>1, <2>2, <2>5, <3>1, ShareOutEffect
    <3>3. global'.accumulated_profit
            = global.accumulated_profit + global.profit_to_distribute + profit
      BY <1>t, <2>2, <3>1 DEF Global
    <3>4. Ledger!Distribute(profit)
      BY <1>t, <2>1, <2>3, <2>5, <3>1, <3>2, <3>3 DEF Ledger!Distribute, PerToken
    <3> QED  BY <2>1, <3>4 DEF Ledger!Next
  <2> QED  BY <2>4, <2>5
<1>5. CASE UNCHANGED vars
  <2>1. deposited' = deposited /\ claims' = claims
    BY <1>5 DEF vars, deposited, claims, Claim
  <2> QED  BY <1>5, <2>1 DEF vars, Ledger!vars
<1> QED  BY <1>1, <1>2, <1>3, <1>4, <1>5, NextCases

\* A profit belongs to those who had a deposit when it arrived, in proportion:
\* deposits and withdrawals made later do not change its distribution.
THEOREM Refinement == Spec => RefinesLedger
<1> QED
  BY LedgerInit, LedgerStep, Invariant, PTL DEF Spec, RefinesLedger, Ledger!Spec

===============================================================================

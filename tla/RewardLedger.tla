----------------------------- MODULE RewardLedger -----------------------------
(***************************************************************************)
(* What the liquidity-provider side of the contract promises its users: a  *)
(* profit is shared the moment it arrives, among the users who have        *)
(* principal in the contract at that moment, each unit of principal        *)
(* earning the same.  A later deposit or withdrawal moves its owner's      *)
(* principal and changes nobody else's claim.                              *)
(*                                                                         *)
(* Claims are counted in Scale-ths of a token.  A user who touches the     *)
(* ledger has the claim rounded down to whole tokens.                      *)
(***************************************************************************)
EXTENDS Naturals

CONSTANTS
  Users,
  Scale,        \* a claim is counted in 1/Scale tokens
  MaxDeposit,   \* bound on one deposit
  MaxProfit,    \* bound on one profit
  Total(_)      \* the sum of a function over the users: Total of module Totals

VARIABLES
  principal,    \* tokens of each user in the contract
  claim,        \* what each user has earned and not been paid, in 1/Scale tokens
  paid,         \* rewards each user was paid, in tokens
  earned,       \* profit that arrived so far
  retained,     \* profit that arrived while nobody had any principal
  distributed   \* profit shared among the users so far

vars == <<principal, claim, paid, earned, retained, distributed>>

WholeTokens(c) == c \div Scale

Init ==
  /\ principal = [u \in Users |-> 0]
  /\ claim = [u \in Users |-> 0]
  /\ paid = [u \in Users |-> 0]
  /\ earned = 0
  /\ retained = 0
  /\ distributed = 0

Deposit(u) ==
  /\ \E amount \in 1..MaxDeposit : principal' = [principal EXCEPT ![u] = @ + amount]
  /\ claim' = [claim EXCEPT ![u] = Scale * WholeTokens(@)]
  /\ UNCHANGED <<paid, earned, retained, distributed>>

\* A withdrawal, and a harvest as the withdrawal of nothing, pays the claim.
Withdraw(u) ==
  /\ \E amount \in 0..principal[u] :
       principal' = [principal EXCEPT ![u] = @ - amount]
  /\ paid' = [paid EXCEPT ![u] = @ + WholeTokens(claim[u])]
  /\ claim' = [claim EXCEPT ![u] = 0]
  /\ UNCHANGED <<earned, retained, distributed>>

Retain(profit) ==
  /\ Total(principal) = 0
  /\ earned' = earned + profit
  /\ retained' = retained + profit
  /\ UNCHANGED <<principal, claim, paid, distributed>>

\* Everything retained is shared together with the profit that arrives.
Distribute(profit) ==
  LET perToken == ((retained + profit) * Scale) \div Total(principal) IN
  /\ Total(principal) # 0
  /\ claim' = [u \in Users |-> claim[u] + principal[u] * perToken]
  /\ earned' = earned + profit
  /\ distributed' = distributed + retained + profit
  /\ retained' = 0
  /\ UNCHANGED <<principal, paid>>

Next ==
  \/ \E u \in Users : Deposit(u) \/ Withdraw(u)
  \/ \E profit \in 0..MaxProfit : Retain(profit) \/ Distribute(profit)

Spec == Init /\ [][Next]_vars

===============================================================================

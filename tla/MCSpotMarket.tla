----------------------------- MODULE MCSpotMarket -----------------------------
(***************************************************************************)
(* A market between INJ and USDT for TLC, with decimals of one digit: a    *)
(* taker fee of 0.1 that counts twice for an atomic order, a price tick    *)
(* that no whole amount is a multiple of, a quantity tick of two tokens,   *)
(* and every one-sided book of up to three levels with the prices and the  *)
(* quantities below.                                                       *)
(***************************************************************************)
EXTENDS SpotMarket

CONSTANTS inj, usdt

MCMarket ==
  [base_denom |-> inj, quote_denom |-> usdt, taker_fee_rate |-> 1,
   min_price_tick_size |-> 3, min_quantity_tick_size |-> 20]

MCPrices == {6, 9, 15}
MCLevels == [p : MCPrices, q : {15, 20, 45}]
Sides == UNION {[1..n -> MCLevels] : n \in 0..3}

\* The best level first: sells from the lowest price, buys from the highest.
Sells == {s \in Sides : \A i, j \in 1..Len(s) : i < j => s[i].p < s[j].p}
Buys  == {s \in Sides : \A i, j \in 1..Len(s) : i < j => s[i].p > s[j].p}

MCBooks == [buys : Buys, sells : {<<>>}] \cup [buys : {<<>>}, sells : Sells]
MCAmounts == 0..9

===============================================================================

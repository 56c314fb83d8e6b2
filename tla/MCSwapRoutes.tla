----------------------------- MODULE MCSwapRoutes -----------------------------
(***************************************************************************)
(* Routes for TLC: two accounts that may be the admin, INJ and two assets, *)
(* and the three markets among them, each with an empty book, a thin one,  *)
(* one with a single deep level and one with two levels.  A bid is placed  *)
(* on one book, and two markets trade the same assets.                     *)
(***************************************************************************)
EXTENDS SwapRoutes

CONSTANTS alice, bob, inj, usdt, hinj

MCAccounts == {alice, bob}
MCDenoms == {inj, usdt, hinj}
MCMarkets == {"inj/usdt", "hinj/inj", "hinj/usdt"}

Ticks(base, quote) ==
  [base_denom |-> base, quote_denom |-> quote, taker_fee_rate |-> 1,
   min_price_tick_size |-> 1, min_quantity_tick_size |-> 20]

MCMarket == [id \in MCMarkets |-> CASE id = "inj/usdt"  -> Ticks(inj, usdt)
                                    [] id = "hinj/inj"  -> Ticks(hinj, inj)
                                    [] id = "hinj/usdt" -> Ticks(hinj, usdt)]

MCBidMarkets == {"inj/usdt", "hinj/inj", "inj/hinj"}
MCBidMarket ==
  [id \in MCBidMarkets |-> IF id = "inj/hinj" THEN Ticks(inj, hinj) ELSE MCMarket[id]]

Book(buys, sells) == [buys |-> buys, sells |-> sells]

MCBooks ==
  {Book(<<>>, <<>>),
   Book(<<[p |-> 6, q |-> 20]>>, <<[p |-> 15, q |-> 20]>>),
   Book(<<[p |-> 15, q |-> 90]>>, <<[p |-> 6, q |-> 90]>>),
   Book(<<[p |-> 15, q |-> 20], [p |-> 6, q |-> 60]>>,
        <<[p |-> 6, q |-> 15], [p |-> 9, q |-> 60]>>)}

MCOneBook == {Book(<<[p |-> 15, q |-> 90]>>, <<[p |-> 6, q |-> 90]>>)}

MCBaskets == [MCDenoms -> {0, 3, 6}]
MCOffsetBps == {5000, 9999}
MCOneOffset == {5000}
MCBidBaskets == [MCDenoms -> {0, 3}]
MCNoBids == {}
MCBidAmounts == {1, 4}
MCAnswers == [MCDenoms -> {0, 3}]

===============================================================================

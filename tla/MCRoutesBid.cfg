SPECIFICATION Spec
CONSTANTS
  alice = alice
  bob = bob
  inj = inj
  usdt = usdt
  hinj = hinj
  One = 10
  spot_atomic_market_order_fee_multiplier = 20
  Denoms <- MCDenoms
  INJ = inj
  Accounts <- MCAccounts
  Markets <- MCBidMarkets
  market <- MCBidMarket
  Books <- MCOneBook
  Baskets <- MCBidBaskets
  OffsetBps <- MCOneOffset
  BidAmounts <- MCBidAmounts
  Answers <- MCAnswers
  None = None
INVARIANTS
  BidBacked

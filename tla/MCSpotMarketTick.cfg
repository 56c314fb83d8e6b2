SPECIFICATION Spec
CONSTANTS
  inj = inj
  usdt = usdt
  None = None
  One = 10
  spot_atomic_market_order_fee_multiplier = 20
  market <- MCMarket
  Books <- MCBooks
  Amounts <- MCAmounts
INVARIANTS
  OrderOnTick

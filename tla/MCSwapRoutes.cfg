SPECIFICATION Spec
CONSTANTS
  alice = alice
  bob = bob
  inj = inj
  usdt = usdt
  hinj = hinj
  One = 10
  spot_atomic_market_order_fee_multiplier = 20
  Denoms <- MCDenoms
  INJ = inj
  Accounts <- MCAccounts
  Markets <- MCMarkets
  market <- MCMarket
  Books <- MCBooks
  Baskets <- MCBaskets
  OffsetBps <- MCOffsetBps
  BidAmounts <- MCNoBids
  Answers <- MCAnswers
  None = None
INVARIANTS
  RoutesTypeOK
  RoutesConnect
  OrdersIndependent
  LimitRealised
PROPERTIES
  RouteKept

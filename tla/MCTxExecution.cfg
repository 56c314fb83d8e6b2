SPECIFICATION TxSpec
CONSTANTS
  u1 = u1
  alice = alice
  dan = dan
  inj = inj
  atom = atom
  usdt = usdt
  Contract = Contract
  Rival = Rival
  Nobody = Nobody
  None = None
  Users <- MCUsers
  Bidders <- MCBidders
  Denoms <- MCDenoms
  INJ = inj
  Scale = 2
  Admins <- MCAdmins
  Configs <- MCConfig
  IncrementBps = 250
  Period = 2
  Steps <- MCSteps
  Values <- MCValues
  Caps <- MCCaps
  Prices <- MCPrices
  Donations <- MCInjOnly
  SwapTargets <- MCInjOnly
  MaxRound = 1
  MaxBid = 3
  MaxBasket = 1
  MaxAmount = 3
  MaxProfit = 3
  MaxDonated = 1
\* The model stops after the last round it is bounded to.
CHECK_DEADLOCK FALSE
INVARIANTS
  TransientsEmpty
  SettledCounted
PROPERTIES
  RefinesDao

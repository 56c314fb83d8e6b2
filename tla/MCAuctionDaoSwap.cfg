SPECIFICATION Spec
CONSTANTS
  u1 = u1
  u2 = u2
  alice = alice
  dan = dan
  eve = eve
  bob = bob
  inj = inj
  atom = atom
  usdt = usdt
  Contract = Contract
  Rival = Rival
  Nobody = Nobody
  None = None
  Users <- MCUsers
  Bidders <- MCBidders
  Denoms <- MCThreeDenoms
  INJ = inj
  Scale = 2
  Admins <- MCAdmins
  Configs <- MCConfig
  IncrementBps = 250
  Period = 2
  Steps <- MCSteps
  Values <- MCValues
  Caps <- MCCaps
  Prices <- MCPrices
  Donations <- MCInjOnly
  SwapTargets <- MCAllTargets
  MaxRound = 2
  MaxBid = 2
  MaxBasket = 1
  MaxAmount = 1
  MaxProfit = 3
  MaxDonated = 1
\* The model stops after the last round it is bounded to.
CHECK_DEADLOCK FALSE
PROPERTY
  ReceivedIsInj

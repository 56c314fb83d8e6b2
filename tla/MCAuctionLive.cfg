SPECIFICATION FairSpec
CONSTANTS
  alice = alice
  bob = bob
  inj = inj
  atom = atom
  Contract = Contract
  Rival = Rival
  Nobody = Nobody
  None = None
  Bidders <- MCBidders
  Denoms <- MCDenoms
  INJ = inj
  BidBuffers <- MCBuffers
  IncrementBps = 250
  Period = 3
  Steps <- MCSteps
  Values <- MCValues
  PromptSettlement = TRUE
  MaxRound = 2
  MaxBid = 2
  MaxBasket = 1
\* The model stops after the last round it is bounded to.
CHECK_DEADLOCK FALSE
PROPERTIES
  BidResolved
  WinsPaid

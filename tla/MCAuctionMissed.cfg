SPECIFICATION Spec
CONSTANTS
  alice = alice
  bob = bob
  inj = inj
  atom = atom
  Contract = Contract
  Rival = Rival
  Nobody = Nobody
  None = None
  Bidders <- MCBidders
  Denoms <- MCDenoms
  INJ = inj
  BidBuffers <- MCBuffers
  IncrementBps = 250
  Period = 3
  Steps <- MCSteps
  Values <- MCValues
  PromptSettlement = FALSE
  MaxRound = 3
  MaxBid = 3
  MaxBasket = 1
\* The model stops after the last round it is bounded to.
CHECK_DEADLOCK FALSE
INVARIANTS
  RefusalMeansUnfinished

SPECIFICATION Spec
CONSTANTS
  u1 = u1
  u2 = u2
  Users <- MCUsers
  Scale = 3
  WithdrawBuffers <- MCBuffers
  MaxAmount = 3
  Caps <- MCCaps
  Times <- MCTimes
  BidAmounts <- MCBidAmounts
  Receipts <- MCReceipts
  RewardBps <- MCRewardBps
  MaxProfit = 4
INVARIANTS
  TypeOK
  SupplyIsSum
  IndexNotAhead
  NeverOverPaid
PROPERTIES
  DustGrowsSlowly
  RefinesLedger

SPECIFICATION Spec
CONSTANTS
  u1 = u1
  u2 = u2
  d1 = d1
  a1 = a1
  a2 = a2
  t1 = t1
  o1 = o1
  h1 = h1
  h2 = h2
  h3 = h3
  h4 = h4
  Users <- MCUsers
  Days <- MCDays
  Ads <- MCAds
  RewardDay <- MCRewardDay
  Txns <- MCTxns
  Amount <- MCAmount
  Orders <- MCOrders
  Percentages <- MCPercentages
  Handlers <- MCHandlers
  Requests <- MCRequests
  MAX_DELTA = 3
  DAILY_REWARD_LIMIT = 1
  MaxAttempts = 2
SYMMETRY Symmetry
CHECK_DEADLOCK FALSE
INVARIANTS
  AnswersAreTrue
PROPERTY ImplementsLedger

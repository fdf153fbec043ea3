SPECIFICATION Spec
CONSTANTS
  u1 = u1
  u2 = u2
  d1 = d1
  a1 = a1
  a2 = a2
  t1 = t1
  o1 = o1
  Users <- MCUsers
  Days <- MCDays
  Ads <- MCAds
  RewardDay <- MCRewardDay
  Txns <- MCTxns
  Amount <- MCAmount
  Orders <- MCOrders
  Percentages <- MCPercentages
  MAX_DELTA = 3
  DAILY_REWARD_LIMIT = 1
SYMMETRY Symmetry
INVARIANTS
  TypeOK
  LedgerExplainsWallets
  QuotaCountsRewards
  ClaimsMatchCredits
  RefundsAgree
  GuestClaimsBalance
PROPERTY AppendOnly

SPECIFICATION AdsFairSpec
CONSTANTS
  u1 = u1
  d1 = d1
  a1 = a1
  a2 = a2
  r1 = r1
  r2 = r2
  Absent = Absent
  Users = {u1}
  Days = {d1}
  Ads <- MCAds
  RewardDay <- MCRewardDay
  Txns = {}
  Amount <- MCAmount
  Orders = {}
  Percentages = {}
  MAX_DELTA = 1
  DAILY_REWARD_LIMIT = 1
  Viewer <- MCViewer
  Expected <- MCAds
  Elsewhere = {a2}
  CONTEXT_LIFETIME = 1
  KeyIds = {1, 2}
  Threads = {r1, r2}
  TTL = 2
  MIN_REFRESH = 1
  MaxRestarts = 1
INVARIANTS
  SettledIsFair
PROPERTIES
  WatchedIsSettled

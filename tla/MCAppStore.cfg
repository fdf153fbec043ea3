SPECIFICATION AppStoreFairSpec
CONSTANTS
  guest = guest
  account = account
  t1 = t1
  t2 = t2
  o1 = o1
  NoUser = NoUser
  NoTxn = NoTxn
  Users <- MCUsers
  Guests = {guest}
  Days = {}
  Ads = {}
  RewardDay <- MCRewardDay
  Txns <- MCTxns
  Amount <- MCAmount
  Orders = {o1}
  Percentages <- MCPercentages
  MAX_DELTA = 2
  DAILY_REWARD_LIMIT = 1
  Token <- MCToken
  Ours <- MCOurs
  Sold <- MCTxns
  Revocations <- MCRevocations
  Notices <- MCNotices
  Turns <- MCTurns
INVARIANTS
  AcknowledgedIsDone
  RefusedIsFinal
  MovedAsAppleSaid
PROPERTIES
  NoticesAreFollowed

SPECIFICATION Spec
CONSTANTS
  Users = {u1, u2, u3}
  Listings = {l1, l2}
  Titles = {"t1"}
  Sources = {"s1"}
  NoSource = NoSource
  Prices = {0, 2}
  StartBalance = 3
  Fee = 3
  MODERATION_COMPENSATION = 1
SYMMETRY Symmetry
INVARIANTS
  TypeOK
  LedgerExplainsBalances
  FeeFlagMatchesLedger
  EverySaleIsPaid
  CountersMatchDocuments
  ClaimsArePublished
  BlocksAreExplained
PROPERTY RightsStay
CHECK_DEADLOCK FALSE

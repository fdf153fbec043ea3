SPECIFICATION StorefrontSpec
CONSTANTS
  Users = {u1, u2, u3}
  Listings = {l1, l2}
  Titles = {"t1"}
  Sources = {"s1"}
  NoSource = NoSource
  Prices = {0}
  StartBalance = 1
  Fee = 1
  MODERATION_COMPENSATION = 1
  Snapshots = {"x1"}
  Packages <- MCPackages
  AssetIds = {a1, a2}
  a1 = a1
  a2 = a2
  NoAsset = NoAsset
  MAX_ASSETS = 2
  DELETED_OWNER = "deleted"
  MaxDeletions = 2
SYMMETRY Symmetry
INVARIANTS
  BuyersReceive
  LikeCountsMatch
PROPERTY RetiredStays
CHECK_DEADLOCK FALSE

--------------------------- MODULE MCRewardedAds ---------------------------
(***************************************************************************)
(* A small instance of RewardedAds for TLC: two ads of one user and day,   *)
(* of which one may be paid.  This process, which is replaced once, hears  *)
(* of a1 in two threads, and another process of a2.                        *)
(***************************************************************************)
EXTENDS RewardedAds, TLC

CONSTANTS u1, d1, a1, a2, r1, r2

MCAds == {a1, a2}
MCRewardDay == a1 :> d1 @@ a2 :> d1
MCAmount == <<>>
MCViewer == a1 :> u1 @@ a2 :> u1

=============================================================================

---------------------------- MODULE MCStorefront ----------------------------
(***************************************************************************)
(* A small instance of Storefront for TLC.  Users upload a mirror with two *)
(* images, which takes four objects; a sticker whose final image was       *)
(* forgotten, and one that is called a mirror, are refused.  The snapshot  *)
(* is sold, or liked, as two listings under one title.                     *)
(***************************************************************************)
EXTENDS Storefront, TLC

CONSTANTS a1, a2

Mirror == [kind |-> "mirror", wrapped |-> FALSE, photos |-> {a1}, artworks |-> {a2},
           finalAssetID |-> NoAsset, source |-> "s1", sound |-> TRUE, assets |-> {a1, a2}]
Sticker == [Mirror EXCEPT !.kind = "sticker", !.wrapped = TRUE, !.artworks = {},
                          !.finalAssetID = a2]

MCPackages == {Mirror, [Mirror EXCEPT !.wrapped = TRUE], [Sticker EXCEPT !.assets = {a1}]}

Symmetry == Permutations(Users) \cup Permutations(Listings)

ASSUME MCPackages \subseteq Package

=============================================================================

--------------------------- MODULE MCMarketplace ---------------------------
(***************************************************************************)
(* A small instance of Marketplace for TLC.  Three users, so that a        *)
(* listing has two buyers, and two listings that compete for one title and *)
(* may come from one source; a user can pay one fee, or one price, before  *)
(* a sale brings more.  Users are interchangeable, and so are listings.    *)
(***************************************************************************)
EXTENDS Marketplace, TLC

Symmetry == Permutations(Users) \cup Permutations(Listings)

=============================================================================

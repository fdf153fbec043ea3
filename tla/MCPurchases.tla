---------------------------- MODULE MCPurchases ----------------------------
EXTENDS Purchases, TLC

Symmetry ==
    Permutations(Users) \cup Permutations(Requests)
    \cup Permutations(Templates) \cup Permutations(Operations)
=============================================================================

------------------------------ MODULE MCDigest ------------------------------
EXTENDS Digest, TLC

Symmetry ==
    Permutations(Users) \cup Permutations(Jobs)
=============================================================================

------------------------- MODULE MCAccountDeletion -------------------------
EXTENDS AccountDeletion, TLC

CONSTANTS account, guest, other, apple1, apple2, tokenG, token1

MCUsers == {account, guest, other}
MCSubjects == {apple1, apple2}
MCSessions == {tokenG, token1}
MCRegistered == apple1 :> account
MCGuests == {guest}
MCHeld == tokenG :> guest

Symmetry == Permutations(Names) \cup Permutations(Requests)
=============================================================================

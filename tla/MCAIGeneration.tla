--------------------------- MODULE MCAIGeneration ---------------------------
(***************************************************************************)
(* Three requests for one generation: the worker that creates it and two   *)
(* that recover it, one of which may take over from the other.             *)
(***************************************************************************)
EXTENDS AIGeneration, TLC

CONSTANTS w1, w2, w3

MCWorkers == {w1, w2, w3}

Symmetry == Permutations(MCWorkers)

=============================================================================

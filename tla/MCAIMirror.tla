----------------------------- MODULE MCAIMirror -----------------------------
(***************************************************************************)
(* Up to three requests at a time for one mirror, and three faults.        *)
(***************************************************************************)
EXTENDS AIMirror

=============================================================================

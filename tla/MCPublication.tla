--------------------------- MODULE MCPublication ---------------------------
(* A small instance of Publication for TLC.                                *)
EXTENDS Publication, TLC

CONSTANTS p1, p2

\* The processes run the same script.
Symmetric == Permutations({p1, p2})
=============================================================================

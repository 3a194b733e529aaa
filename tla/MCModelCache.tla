---------------------------- MODULE MCModelCache ----------------------------
(***************************************************************************)
(* ModelCache for TLC.                                                     *)
(***************************************************************************)
EXTENDS ModelCache, TLC

CONSTANTS k0, k1, k2, p1, p2, r1, r2, r3

Requests == Permutations(Request)
=============================================================================

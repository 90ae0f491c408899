------------------------------ MODULE MCSockmap ------------------------------
(***************************************************************************)
(* Two connections.                                                        *)
(***************************************************************************)
EXTENDS Sockmap, TLC

CONSTANTS c1, c2

(* The connections are alike.                                              *)
Symmetry == Permutations({c1, c2})
=============================================================================

---------------------------- MODULE MCFileLogger ----------------------------
(***************************************************************************)
(* Two goroutines that log twice each.                                     *)
(***************************************************************************)
EXTENDS FileLogger, TLC

CONSTANTS c1, c2

(* No property tells the goroutines apart.                                 *)
Symmetry == Permutations({c1, c2})
=============================================================================

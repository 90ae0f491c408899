------------------------------ MODULE MCShutdown ------------------------------
(***************************************************************************)
(* Any two of two transactions and two web handlers, alike but for names.  *)
(***************************************************************************)
EXTENDS Shutdown

CONSTANTS t1, t2, c1, c2

MCLoads == {{t1, t2}, {t1, c1}, {c1, c2}}
=============================================================================

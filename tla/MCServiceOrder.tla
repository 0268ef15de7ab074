--------------------------- MODULE MCServiceOrder ---------------------------
(***************************************************************************)
(* ServiceOrder for TLC: three services, every list of them and every set  *)
(* of dependencies, those of a service on itself included.                 *)
(***************************************************************************)
EXTENDS ServiceOrder

CONSTANTS a, b, c
=============================================================================

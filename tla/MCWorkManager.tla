--------------------------- MODULE MCWorkManager ---------------------------
(***************************************************************************)
(* WorkManager for TLC: two managed nodes, or three.                       *)
(***************************************************************************)
EXTENDS WorkManager

CONSTANTS n1, n2, n3
=============================================================================

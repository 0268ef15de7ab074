--------------------------- MODULE MCTaskManager ---------------------------
(***************************************************************************)
(* TaskManager for TLC: at most one repeating task r, two scheduled ones o *)
(* and p, one submitted at once s and one with a calendar k.               *)
(***************************************************************************)
EXTENDS TaskManager

CONSTANTS r, o, p, s, k
=============================================================================

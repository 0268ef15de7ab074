----------------------------- MODULE MCLeftNav -----------------------------
(***************************************************************************)
(* LeftNav for TLC: a VM on one of two hosts, which begin in one pool; a   *)
(* transfer brings one to the other pool.                                  *)
(***************************************************************************)
EXTENDS LeftNav

CONSTANTS p1, p2, h1, h2, v1

MCInit == Init /\ parent = [i \in Items |-> IF i = v1 THEN h1 ELSE p1]
MCSpec == MCInit /\ [][Next]_vars /\ WF_vars(Progress)
=============================================================================

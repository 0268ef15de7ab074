---------------------------- MODULE MCMigration ----------------------------
(***************************************************************************)
(* Migration for TLC, two instances in one: either one task migrates all   *)
(* VMs of a node, or two tasks migrate the same VM and the other VM stays  *)
(* as it is.                                                               *)
(***************************************************************************)
EXTENDS Migration

CONSTANTS n1, n2, v1, v2

All == all[1]
Small == /\ \A t \in Tasks \ {1} : ~all[t] /\ (All => pc[t] = "none")
         /\ All \/ \A t \in Tasks : Doms(t) \subseteq {v1}

MCInit == Init /\ parent = [v \in Vms |-> n1]
MCNext == Next /\ Small' /\ (All \/ runs'[v2] = runs[v2])
MCSpec == MCInit /\ [][MCNext]_vars /\ Fairness
=============================================================================

------------------------------ MODULE WorkPool ------------------------------
(***************************************************************************)
(* What the Execution Service promises to those who submit work to it,     *)
(* without threads, locks, the busy flag or the map of running tasks: it   *)
(* never has more works in hand than workers, an accepted work is carried  *)
(* out at most once, and it is given up only when the pool is stopped.     *)
(* ExecutionService implements this specification; TaskManager relies on   *)
(* it.                                                                     *)
(***************************************************************************)
EXTENDS FiniteSets, Integers

CONSTANTS NumSlots,  \* how many works the pool can have in hand
          Jobs       \* the works that are ever submitted

VARIABLES status,    \* how far each job is
          stopping   \* the pool has been told to stop

vars == <<status, stopping>>

Init == /\ status = [j \in Jobs |-> "new"]
        /\ stopping = FALSE

Held == {j \in Jobs : status[j] \in {"accepted", "running"}}
Full == Cardinality(Held) >= NumSlots

Becomes(j, from, to) == /\ status[j] = from
                        /\ status' = [status EXCEPT ![j] = to]
                        /\ stopping' = stopping

(* A new job is accepted while the pool is not full; a refused job stays   *)
(* new, and refusing is a stuttering step.                                 *)
Accept(j) == ~Full /\ Becomes(j, "new", "accepted")
Start(j)  == Becomes(j, "accepted", "running")
Finish(j) == Becomes(j, "running", "done")

(* Work that was accepted but not begun may be dropped by a pool that      *)
(* stops, and by no other.                                                 *)
Drop(j) == stopping /\ Becomes(j, "accepted", "lost")

Stop == stopping' = TRUE /\ UNCHANGED status

Next == \/ \E j \in Jobs : Accept(j) \/ Start(j) \/ Finish(j) \/ Drop(j)
        \/ Stop

Spec == Init /\ [][Next]_vars
=============================================================================

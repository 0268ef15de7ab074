------------------------- MODULE MCExecutionService -------------------------
(***************************************************************************)
(* ExecutionService for TLC: the job j1 is quiet where a cfg says so, and  *)
(* every job has a task_id of its own, as when no task is submitted again  *)
(* before its former execution has ended.                                  *)
(***************************************************************************)
EXTENDS ExecutionService, Sequences

CONSTANTS c1, c2, j1, j2, j3

MCCallers == {c1, c2}
MCJobs == {j1, j2, j3}
MCTaskIds == MCJobs
MCTaskId == [j \in MCJobs |-> j]
MCNoQuiet == {}
MCOneQuiet == {j1}

(* Nothing but being quiet tells the jobs apart, so that it is enough to   *)
(* look at the calls in one order.                                         *)
Order == <<j2, j1, j3>>
Submitted(j) == status[j] # "new" \/ \E c \in Callers : cpc[c] # "idle" /\ arg[c] = j
InOrder == \A i \in 2..Len(Order) : Submitted(Order[i]) => Submitted(Order[i - 1])

InOrderFairSpec == Init /\ [][Next /\ InOrder']_vars /\ Fairness
=============================================================================

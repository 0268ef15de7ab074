------------------------------ MODULE TaskLog ------------------------------
(***************************************************************************)
(* What the task_results table tells of the tasks whose executions are     *)
(* recorded, without intervals, sessions, the pool or the service's        *)
(* thread: an execution opens a row and the end of the execution closes    *)
(* it, a task never executes twice at a time or without an open row, and   *)
(* what a crash leaves open is taken up again before the task begins       *)
(* afresh.  TaskManager implements this while the thread of the service    *)
(* lives.                                                                  *)
(***************************************************************************)
CONSTANTS Tasks,     \* all tasks
          Recorded,  \* those whose executions are recorded
          Jobs,      \* executions, and the rows they may open
          None

VARIABLES results,   \* what each row says, or "none"
          owner,     \* the task each row is about, or None
          executing  \* the executions each recorded task is in

vars == <<results, owner, executing>>

Init == /\ results = [i \in Jobs |-> "none"]
        /\ owner = [i \in Jobs |-> None]
        /\ executing = [t \in Recorded |-> {}]

Outcomes == {"FAILED", "SUCCEEDED", "CANCELED"}
Open(t) == {i \in Jobs : owner[i] = t /\ results[i] = "STARTED"}

(* A new row, for a task with none that is open.                           *)
NewRow(i, t, says) == /\ results[i] = "none"
                      /\ Open(t) = {}
                      /\ results' = [results EXCEPT ![i] = says]
                      /\ owner' = [owner EXCEPT ![i] = t]

(* The task is not executing, and now it is.                               *)
Enters(j, t) == /\ executing[t] = {}
                /\ executing' = [executing EXCEPT ![t] = {j}]

Begin(j, t)  == NewRow(j, t, "STARTED") /\ Enters(j, t)
Resume(j, t) == Open(t) # {} /\ Enters(j, t) /\ UNCHANGED <<results, owner>>

End(t, outcome) == /\ executing[t] # {}
                   /\ \E i \in Open(t) : results' = [results EXCEPT ![i] = outcome]
                   /\ executing' = [executing EXCEPT ![t] = {}]
                   /\ UNCHANGED owner

(* The task could not be executed: that is an outcome too.                 *)
Refuse(i, t) == NewRow(i, t, "FAILED") /\ UNCHANGED executing

(* The process ends; the table stays.                                      *)
Crash == executing' = [t \in Recorded |-> {}] /\ UNCHANGED <<results, owner>>

Next == \/ Crash
        \/ \E j \in Jobs, t \in Recorded : Begin(j, t) \/ Resume(j, t)
        \/ \E t \in Recorded, outcome \in Outcomes : End(t, outcome)
        \/ \E i \in Jobs, t \in Tasks : Refuse(i, t)

Spec == Init /\ [][Next]_vars
=============================================================================

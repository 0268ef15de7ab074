-------------------------- MODULE TaskManagerProofs --------------------------
(***************************************************************************)
(* Theorems about the Task Manager and the executions of tasks, for any    *)
(* tasks of each kind, quiet or not, any number of workers, submissions    *)
(* and crashes, and any deaths of the service's thread.                    *)
(***************************************************************************)
EXTENDS TaskManager, FiniteSetTheorems, TLAPS

USE TaskAssumption, KindAssumption, BoundAssumption

(* The steps, by what they do to the jobs and their rows.  A submission    *)
(* takes a number that was not used and writes no row.                     *)
Same == UNCHANGED <<jobVars, results>>

Adds(j, t, m) == /\ task_of[j] = None
                 /\ status' = [status EXCEPT ![j] = "accepted"]
                 /\ task_of' = [task_of EXCEPT ![j] = t]
                 /\ mode' = [mode EXCEPT ![j] = m]
                 /\ UNCHANGED <<stage, row, results>>

AddsRun(j, t) == /\ Adds(j, t, "run")
                 /\ deaths = 0 /\ t \notin Quiet => Idle(t)

AddsResume(j, i) == /\ Adds(j, task_of[i], "resume")
                    /\ results[i] # "none"
                    /\ deaths = 0 => /\ results[i] = "STARTED"
                                     /\ \A h \in Pool!Held : task_of[h] # task_of[i]

Refuses(j, t) == /\ task_fail_start(j, t)
                 /\ deaths = 0 /\ t \notin Quiet => Idle(t)

IdleStep == \/ Same
            \/ \E j \in Jobs, t \in Tasks : AddsRun(j, t) \/ Refuses(j, t)
            \/ \E j, i \in Jobs : AddsResume(j, i)
            \/ \E j \in Jobs : do_work(j)
            \/ Crash

(* The same, when it does not matter that who is refused was idle.         *)
JobStep == \/ Same
           \/ \E j \in Jobs, t \in Tasks : AddsRun(j, t)
           \/ \E j, i \in Jobs : AddsResume(j, i)
           \/ \E j \in Jobs, t \in Tasks : task_fail_start(j, t)
           \/ \E j \in Jobs : do_work(j)
           \/ Crash

-----------------------------------------------------------------------------
(* What a submission to the pool does.                                     *)
LEMMA SubmitAdds ==
  ASSUME NEW j \in Jobs, NEW t \in Tasks, NEW m, Submit(j, t, m), results' = results
  PROVE  Adds(j, t, m)
BY DEF Submit, IsNext, Unused, Pool!Accept, Pool!Becomes, Adds

(* The same of submit_async(), which may leave the row of a failure.       *)
LEMMA AsyncAdds ==
  ASSUME NEW t \in Tasks, submit_async(t), deaths = 0 /\ t \notin Quiet => Idle(t)
  PROVE  \/ \E j \in Jobs : AddsRun(j, t)
         \/ \E j \in Jobs : Refuses(j, t)
BY SubmitAdds DEF submit_async, AddsRun, Refuses

(* A task that was not asked for is idle.                                  *)
LEMMA NewIsIdle ==
  ASSUME RequestsOK, NEW t \in Tasks, request[t] = "submit"
  PROVE  Idle(t) /\ t \in Immediate /\ interval[t] = "none" /\ \A j \in Jobs : task_of[j] # t
BY DEF RequestsOK, Idle

(* Every step of the system is one of these.                               *)
LEMMA IdleSteps ==
  ASSUME IInv, [Next]_vars
  PROVE  IdleStep
<1>1. CASE UNCHANGED vars
  BY <1>1 DEF vars, dbVars, IdleStep, Same
<1>2. ASSUME NEW t \in Tasks, submit_schedule(t) \/ submit_sync(t) \/ ComeDue(t) \/ SyncGiveUp(t)
      PROVE  IdleStep
  BY <1>2 DEF submit_schedule, submit_sync, ComeDue, SyncGiveUp, dbVars, IdleStep, Same
<1>3. ASSUME NEW t \in Tasks, SyncSubmit(t)
      PROVE  IdleStep
  <2>1. Idle(t)
    BY <1>3, NewIsIdle DEF SyncSubmit, IInv
  <2>2. PICK j \in Jobs : Adds(j, t, "run")
    BY <1>3, SubmitAdds DEF SyncSubmit, dbVars
  <2> QED
    BY <2>1, <2>2 DEF IdleStep, AddsRun
<1>4. ASSUME NEW t \in Tasks, IntervalSubmit(t)
      PROVE  IdleStep
  <2>1. deaths = 0 /\ t \notin Quiet => Idle(t)
    BY <1>4 DEF IntervalSubmit, check_prior_execution, IInv, SubmitsIdle
  <2> QED
    BY <1>4, <2>1, AsyncAdds DEF IntervalSubmit, IdleStep
<1>5. ASSUME NEW t \in Tasks, CalendarSubmit(t)
      PROVE  IdleStep
  <2>1. CASE check_prior_execution(t)
    <3>1. deaths = 0 /\ t \notin Quiet => Idle(t)
      BY <1>5, <2>1 DEF CalendarSubmit, check_prior_execution, IInv, SubmitsIdle
    <3> QED
      BY <1>5, <2>1, <3>1, AsyncAdds DEF CalendarSubmit, IdleStep
  <2>2. CASE ~check_prior_execution(t)
    BY <1>5, <2>2 DEF CalendarSubmit, dbVars, IdleStep, Same
  <2> QED
    BY <2>1, <2>2
<1>6. ASSUME NEW t \in Tasks, IntervalDelay(t)
      PROVE  IdleStep
  BY <1>6 DEF IntervalDelay, dbVars, IdleStep, Same
<1>7. ASSUME NEW i \in Jobs, resume_task(i)
      PROVE  IdleStep
  <2>1. CASE UNCHANGED jobVars
    BY <1>7, <2>1 DEF resume_task, dbVars, IdleStep, Same
  <2>2. CASE \E j \in Jobs : Submit(j, task_of[i], "resume")
    <3>1. i \in batch /\ pc = "init" /\ results' = results
      BY <1>7 DEF resume_task, Oldest, dbVars
    <3>2. results[i] # "none"
      BY <3>1 DEF IInv, LoopOK
    <3>3. task_of[i] \in Tasks
      BY <3>2 DEF IInv, TypeOK, JobsOK, JobOK
    <3>4. PICK j \in Jobs : Adds(j, task_of[i], "resume")
      BY <2>2, <3>1, <3>3, SubmitAdds
    <3> QED
      BY <3>1, <3>2, <3>4 DEF IdleStep, AddsResume, IInv, SubmitsIdle
  <2> QED
    BY <1>7, <2>1, <2>2 DEF resume_task
<1>8. CASE LoopBegin \/ LoopEnd \/ StartService \/ InitEnd
  BY <1>8 DEF LoopBegin, LoopEnd, StartService, InitEnd, dbVars, IdleStep, Same
<1>9. CASE CalendarBegin \/ ThreadDies
  BY <1>9 DEF CalendarBegin, ThreadDies, CommitIntervals, dbVars, IdleStep, Same
<1> QED
  BY <1>1, <1>2, <1>3, <1>4, <1>5, <1>6, <1>7, <1>8, <1>9
  DEF Next, Request, RequestGoesOn, Service, IdleStep

LEMMA Steps ==
  ASSUME IInv, [Next]_vars
  PROVE  JobStep
BY IdleSteps DEF IdleStep, JobStep, Refuses

-----------------------------------------------------------------------------
(* What the steps of a worker do.                                          *)
Begins(j) == task_started(j) \/ ResumeStarted(j)
Ends(j)   == ResumeFails(j) \/ \E outcome \in Finished : WorkEnds(j, outcome)

LEMMA Work ==
  ASSUME TypeOK, JobsOK, RowsOK, NEW j \in Jobs, do_work(j)
  PROVE  /\ j \in Pool!Held /\ task_of[j] \in Tasks
         /\ UNCHANGED <<task_of, mode, interval, due, request, loopVars, faults>>
         /\ \A i \in Jobs \ {j} : status'[i] = status[i] /\ stage'[i] = stage[i] /\ row'[i] = row[i]
         /\ mode[j] = "run" => row' = row
         /\ \A i \in Jobs : results'[i] # results[i] =>
              /\ task_of[i] = task_of[j] /\ results'[i] # "none" /\ i = row'[j]
              /\ results'[i] = "STARTED" => task_started(j)
              /\ i # j => results[i] # "none"
         /\ \/ /\ Begins(j) /\ status[j] = "accepted"
               /\ status'[j] = "running" /\ stage'[j] = "exec"
            \/ Ends(j) /\ status'[j] = "done" /\ stage'[j] = "end"
<1>0. task_of[j] = None => status[j] = "new"
  BY DEF JobsOK, JobOK
<1>1. CASE task_started(j)
  BY <1>0, <1>1 DEF task_started, Begins, Pool!Start, Pool!Becomes, Pool!Held, TypeOK, JobsOK, JobOK,
                    Finished
<1>2. CASE ResumeStarted(j)
  <2>1. /\ mode[j] = "resume" /\ status[j] = "accepted"
        /\ status' = [status EXCEPT ![j] = "running"] /\ stage' = [stage EXCEPT ![j] = "exec"]
        /\ UNCHANGED <<results, task_of, mode, interval, due, request, loopVars, faults>>
        /\ \E i : row' = [row EXCEPT ![j] = i]
    BY <1>2 DEF ResumeStarted, Pool!Start, Pool!Becomes, dbVars
  <2> QED
    BY <1>0, <1>2, <2>1 DEF Begins, Pool!Held, TypeOK
<1>3. CASE ResumeFails(j)
  BY <1>0, <1>3 DEF ResumeFails, Ends, Pool!Held, TypeOK, dbVars
<1>4. ASSUME NEW outcome \in Finished, WorkEnds(j, outcome)
      PROVE  /\ status[j] = "running" /\ status' = [status EXCEPT ![j] = "done"]
             /\ stage' = [stage EXCEPT ![j] = "end"]
             /\ UNCHANGED <<interval, due, task_of, mode, row, request, loopVars, faults>>
             /\ \A i \in Jobs : results'[i] # results[i] =>
                  results'[i] = outcome /\ i = row[j] /\ task_of[j] \notin Quiet
  BY <1>4 DEF WorkEnds, Pool!Finish, Pool!Becomes, TypeOK
<1>5. CASE \E outcome \in Finished : WorkEnds(j, outcome)
  <2>1. PICK outcome \in Finished : WorkEnds(j, outcome)
    BY <1>5
  <2>2. outcome # "none" /\ outcome # "STARTED"
    BY DEF Finished
  <2> QED
    BY <1>0, <1>4, <1>5, <2>1, <2>2 DEF Ends, Pool!Held, TypeOK, RowsOK
<1> QED
  BY <1>1, <1>2, <1>3, <1>5 DEF do_work

(* A worker's end writes the job's row and no other.                       *)
LEMMA EndWrites ==
  ASSUME TypeOK, NEW j \in Jobs, NEW outcome \in Finished, WorkEnds(j, outcome)
  PROVE  /\ status[j] = "running" /\ stage[j] = "exec" /\ row' = row
         /\ \A i \in Jobs : results'[i] = IF task_of[j] \notin Quiet /\ i = row[j]
                                          THEN outcome ELSE results[i]
BY DEF WorkEnds, Pool!Finish, Pool!Becomes, TypeOK

(* No row is forgotten, and none begins but that of a job that starts.     *)
LEMMA RowsStay ==
  ASSUME IInv, [Next]_vars, NEW i \in Jobs
  PROVE  /\ task_of[i] # None => task_of'[i] = task_of[i]
         /\ results[i] # "none" => results'[i] # "none" /\ task_of'[i] = task_of[i]
<1> USE DEF IInv
<1>1. results[i] # "none" => task_of[i] # None
  BY DEF JobsOK, JobOK
<1>2. CASE Same
  BY <1>1, <1>2 DEF Same, jobVars
<1>3. ASSUME NEW j \in Jobs, NEW t, NEW m, Adds(j, t, m)
      PROVE  /\ task_of[i] # None => task_of'[i] = task_of[i]
             /\ results[i] # "none" => results'[i] # "none"
  BY <1>3 DEF Adds, TypeOK
<1>4. ASSUME NEW j \in Jobs, NEW t \in Tasks, task_fail_start(j, t)
      PROVE  /\ task_of[i] # None => task_of'[i] = task_of[i]
             /\ results[i] # "none" => results'[i] # "none"
  BY <1>4 DEF task_fail_start, IsNext, Unused, TypeOK
<1>5. ASSUME NEW j \in Jobs, do_work(j)
      PROVE  /\ task_of'[i] = task_of[i]
             /\ results[i] # "none" => results'[i] # "none"
  BY <1>5, Work
<1>6. CASE Crash
  BY <1>1, <1>6 DEF Crash, dbVars
<1> QED
  BY <1>1, <1>2, <1>3, <1>4, <1>5, <1>6, Steps DEF JobStep, AddsRun, AddsResume

-----------------------------------------------------------------------------
(* The parts of the invariant that speak of jobs and rows only.            *)
LEMMA JobsStayOK ==
  ASSUME IInv, [Next]_vars
  PROVE  JobsOK'
<1> SUFFICES ASSUME NEW i \in Jobs
             PROVE  JobOK(i)'
  BY DEF JobsOK
<1>0. JobOK(i) /\ TypeOK /\ JobsOK /\ RowsOK
  BY DEF IInv, JobsOK
<1>1. CASE Same
  BY <1>0, <1>1 DEF Same, jobVars, JobOK
<1>2. ASSUME NEW j \in Jobs, NEW t \in Tasks, NEW m \in {"run", "resume"}, Adds(j, t, m)
      PROVE  JobOK(i)'
  BY <1>0, <1>2 DEF Adds, JobOK, TypeOK, JobsOK
<1>3. ASSUME NEW j \in Jobs, NEW t \in Tasks, task_fail_start(j, t)
      PROVE  JobOK(i)'
  BY <1>0, <1>3 DEF task_fail_start, IsNext, Unused, JobOK, TypeOK, JobsOK
<1>4. ASSUME NEW j \in Jobs, do_work(j)
      PROVE  JobOK(i)'
  <2>1. CASE i # j
    <3>1. /\ task_of' = task_of /\ mode' = mode /\ task_of[j] # None
          /\ status'[i] = status[i] /\ stage'[i] = stage[i] /\ row'[i] = row[i]
          /\ results'[i] # results[i] => task_of[i] = task_of[j] /\ results[i] # "none"
      BY <1>0, <1>4, <2>1, Work
    <3>2. task_started(j) => row'[j] = j
      BY <1>0, <1>4, Work DEF task_started, JobsOK, JobOK
    <3>3. results'[i] = "STARTED" => results[i] = "STARTED"
      BY <1>0, <1>4, <2>1, <3>2, Work
    <3> QED
      BY <1>0, <3>1, <3>3 DEF JobOK
  <2>2. CASE i = j /\ task_started(j)
    BY <1>0, <2>2 DEF JobOK, TypeOK, task_started, Pool!Start, Pool!Becomes
  <2>3. CASE i = j /\ ~task_started(j)
    <3>1. task_of[j] # None /\ mode' = mode /\ task_of' = task_of /\ (mode[j] = "run" => row' = row)
      BY <1>0, <1>4, Work
    <3>2. status'[j] \notin {"new", "accepted"} /\ (status'[j] = "running" => stage'[j] = "exec")
      BY <1>0, <1>4, Work
    <3>3. results'[j] = "STARTED" => results[j] = "STARTED"
      BY <1>0, <1>4, <2>3, Work
    <3> QED
      BY <1>0, <2>3, <3>1, <3>2, <3>3 DEF JobOK
  <2> QED
    BY <2>1, <2>2, <2>3
<1>5. CASE Crash
  BY <1>0, <1>5 DEF Crash, dbVars, JobOK, TypeOK, Pool!Held
<1>6. ASSUME NEW h \in Jobs, results[h] # "none"
      PROVE  task_of[h] \in Tasks
  BY <1>0, <1>6 DEF JobsOK, JobOK, TypeOK
<1> QED
  BY <1>1, <1>2, <1>3, <1>4, <1>5, <1>6, Steps DEF JobStep, AddsRun, AddsResume

LEMMA RowsStayOK ==
  ASSUME IInv, [Next]_vars
  PROVE  RowsOK'
<1>0. TypeOK /\ JobsOK /\ RowsOK
  BY DEF IInv
<1>1. ASSUME NEW j \in Jobs, status'[j] = "running", task_of'[j] \notin Quiet
      PROVE  task_of'[row'[j]] = task_of'[j] /\ results'[row'[j]] # "none"
  <2>1. CASE /\ status[j] = "running" /\ row'[j] = row[j] /\ task_of'[j] = task_of[j]
    <3>1. row[j] \in Jobs /\ task_of[row[j]] = task_of[j] /\ results[row[j]] # "none"
      BY <1>0, <1>1, <2>1 DEF TypeOK, RowsOK
    <3> QED
      BY <2>1, <3>1, RowsStay
  <2>2. ASSUME NEW i \in Jobs, do_work(i)
        PROVE  \/ status[j] = "running" /\ row'[j] = row[j] /\ task_of'[j] = task_of[j]
               \/ task_of'[row'[j]] = task_of'[j] /\ results'[row'[j]] # "none"
    <3>1. CASE i # j
      BY <1>0, <1>1, <2>2, <3>1, Work
    <3>2. CASE i = j /\ task_started(j)
      BY <1>0, <1>1, <3>2 DEF task_started, Pool!Start, Pool!Becomes, TypeOK, JobsOK, JobOK
    <3>3. CASE i = j /\ ResumeStarted(j)
      <4>1. PICK h \in Started(task_of[j]) : row' = [row EXCEPT ![j] = h]
        BY <3>3 DEF ResumeStarted
      <4> QED
        BY <1>0, <3>3, <4>1 DEF ResumeStarted, Started, TypeOK, dbVars
    <3>4. i = j => task_started(j) \/ ResumeStarted(j)
      BY <1>0, <1>1, <2>2, Work DEF Begins
    <3> QED
      BY <3>1, <3>2, <3>3, <3>4
  <2>3. CASE Same \/ Crash
    BY <1>0, <1>1, <2>1, <2>3 DEF Same, jobVars, Crash, TypeOK, Pool!Held
  <2>4. ASSUME NEW i \in Jobs, NEW t \in Tasks, NEW m, Adds(i, t, m)
        PROVE  status[j] = "running" /\ row'[j] = row[j] /\ task_of'[j] = task_of[j]
    BY <1>0, <1>1, <2>4 DEF Adds, TypeOK, JobsOK, JobOK
  <2>5. ASSUME NEW i \in Jobs, NEW t \in Tasks, task_fail_start(i, t)
        PROVE  status[j] = "running" /\ row'[j] = row[j] /\ task_of'[j] = task_of[j]
    BY <1>0, <1>1, <2>5 DEF task_fail_start, IsNext, Unused, TypeOK, JobsOK, JobOK
  <2>6. ASSUME NEW h \in Jobs, results[h] # "none"
        PROVE  task_of[h] \in Tasks
    BY <1>0, <2>6 DEF JobsOK, JobOK, TypeOK
  <2> QED
    BY <2>1, <2>2, <2>3, <2>4, <2>5, <2>6, Steps DEF JobStep, AddsRun, AddsResume
<1>2. ASSUME NEW j \in Jobs, mode'[j] = "resume"
      PROVE  \E i \in Jobs : task_of'[i] = task_of'[j] /\ results'[i] # "none"
  <2>1. ASSUME mode[j] = "resume"
        PROVE  \E i \in Jobs : task_of'[i] = task_of'[j] /\ results'[i] # "none"
    <3>1. PICK i \in Jobs : task_of[i] = task_of[j] /\ results[i] # "none"
      BY <1>0, <2>1 DEF RowsOK
    <3>2. task_of[j] # None
      BY <1>0, <2>1 DEF JobsOK, JobOK
    <3> QED
      BY <3>1, <3>2, RowsStay
  <2>2. ASSUME NEW h \in Jobs, NEW i \in Jobs, AddsResume(h, i)
        PROVE  mode[j] = "resume" \/ \E g \in Jobs : task_of'[g] = task_of'[j] /\ results'[g] # "none"
    BY <1>0, <1>2, <2>2, RowsStay DEF AddsResume, Adds, TypeOK
  <2>3. CASE Same \/ Crash
    BY <1>2, <2>1, <2>3 DEF Same, jobVars, Crash
  <2>4. ASSUME NEW i \in Jobs, do_work(i)
        PROVE  mode' = mode
    BY <1>0, <2>4, Work
  <2>5. ASSUME NEW i \in Jobs, NEW t \in Tasks, AddsRun(i, t) \/ task_fail_start(i, t)
        PROVE  mode[j] = "resume"
    BY <1>0, <1>2, <2>5 DEF AddsRun, Adds, task_fail_start, TypeOK
  <2> QED
    BY <1>2, <2>1, <2>2, <2>3, <2>4, <2>5, Steps DEF JobStep
<1> QED
  BY <1>1, <1>2 DEF RowsOK

-----------------------------------------------------------------------------
(* Failures are only counted.                                              *)
LEMMA FaultsGrow ==
  ASSUME TypeOK, [Next]_vars
  PROVE  /\ crashes \in Nat /\ deaths \in Nat
         /\ crashes' \in 0..MaxCrashes /\ deaths' \in 0..MaxDeaths
         /\ crashes' = 0 => crashes = 0
         /\ deaths' = 0 => deaths = 0
         /\ Crash => crashes' # 0
         /\ ThreadDies => deaths' # 0
<1>1. crashes \in 0..MaxCrashes /\ deaths \in 0..MaxDeaths /\ MaxCrashes \in Nat /\ MaxDeaths \in Nat
  BY DEF TypeOK
<1>2. CASE Crash
  BY <1>1, <1>2 DEF Crash, ThreadDies
<1>3. CASE ThreadDies
  BY <1>1, <1>3 DEF ThreadDies, Crash
<1>4. CASE UNCHANGED faults
  BY <1>1, <1>4 DEF faults, Crash, ThreadDies
<1>5. ASSUME NEW j \in Jobs, do_work(j)
      PROVE  UNCHANGED faults
  BY <1>5 DEF do_work, task_started, ResumeStarted, ResumeFails, WorkEnds
<1>6. ASSUME NEW t \in Tasks, Request(t) \/ RequestGoesOn(t) \/ ComeDue(t)
      PROVE  UNCHANGED faults
  BY <1>6 DEF Request, RequestGoesOn, submit_schedule, submit_sync, SyncSubmit, SyncGiveUp, ComeDue
<1>7. Service => UNCHANGED faults
  BY DEF Service, IntervalSubmit, IntervalDelay, CalendarSubmit, resume_task, LoopBegin,
              CalendarBegin, LoopEnd, StartService, InitEnd
<1>8. UNCHANGED vars => UNCHANGED faults
  BY DEF vars
<1> QED
  BY <1>2, <1>3, <1>4, <1>5, <1>6, <1>7, <1>8 DEF Next

(* The jobs in hand: who becomes one was idle, who is one was one.         *)
LEMMA HeldStep ==
  ASSUME IInv, JobStep, NEW i \in Pool!Held'
  PROVE  /\ i \in Jobs
         /\ \/ i \in Pool!Held /\ task_of'[i] = task_of[i]
            \/ \E t \in Tasks : AddsRun(i, t) /\ task_of'[i] = t /\ mode'[i] = "run"
            \/ \E h \in Jobs : /\ AddsResume(i, h) /\ task_of'[i] = task_of[h]
                               /\ task_of[h] \in Tasks /\ mode'[i] = "resume"
<1>0. TypeOK /\ JobsOK /\ RowsOK /\ i \in Jobs /\ status'[i] \in {"accepted", "running"}
  BY DEF IInv, Pool!Held
<1>1. CASE Same
  BY <1>0, <1>1 DEF Same, jobVars, Pool!Held
<1>2. ASSUME NEW j \in Jobs, NEW t \in Tasks, NEW m, Adds(j, t, m), i # j
      PROVE  i \in Pool!Held /\ task_of'[i] = task_of[i]
  BY <1>0, <1>2 DEF Adds, Pool!Held, TypeOK
<1>3. ASSUME NEW j \in Jobs, NEW t \in Tasks, task_fail_start(j, t)
      PROVE  i \in Pool!Held /\ task_of'[i] = task_of[i]
  BY <1>0, <1>3 DEF task_fail_start, IsNext, Unused, Pool!Held, TypeOK, JobsOK, JobOK
<1>4. ASSUME NEW j \in Jobs, do_work(j)
      PROVE  i \in Pool!Held /\ task_of'[i] = task_of[i]
  BY <1>0, <1>4, Work DEF Pool!Held
<1>5. CASE Crash
  BY <1>0, <1>5 DEF Crash, Pool!Held, TypeOK
<1>6. ASSUME NEW t \in Tasks, AddsRun(i, t)
      PROVE  task_of'[i] = t /\ mode'[i] = "run"
  BY <1>0, <1>6 DEF AddsRun, Adds, TypeOK
<1>7. ASSUME NEW h \in Jobs, AddsResume(i, h)
      PROVE  task_of'[i] = task_of[h] /\ task_of[h] \in Tasks /\ mode'[i] = "resume"
  BY <1>0, <1>7 DEF AddsResume, Adds, TypeOK, JobsOK, JobOK
<1>8. ASSUME NEW h \in Jobs, results[h] # "none"
      PROVE  task_of[h] \in Tasks
  BY <1>0, <1>8 DEF JobsOK, JobOK, TypeOK
<1>9. ASSUME NEW j \in Jobs, NEW t \in Tasks, AddsRun(j, t)
      PROVE  Adds(j, t, "run")
  BY <1>9 DEF AddsRun
<1>10. ASSUME NEW j \in Jobs, NEW h \in Jobs, AddsResume(j, h)
       PROVE  Adds(j, task_of[h], "resume") /\ task_of[h] \in Tasks
  BY <1>8, <1>10 DEF AddsResume
<1>11. CASE \E j \in Jobs, t \in Tasks : AddsRun(j, t)
  <2>1. PICK j \in Jobs, t \in Tasks : AddsRun(j, t)
    BY <1>11
  <2> QED
    BY <1>0, <1>2, <1>6, <1>9, <2>1
<1>12. CASE \E j, h \in Jobs : AddsResume(j, h)
  <2>1. PICK j \in Jobs, h \in Jobs : AddsResume(j, h)
    BY <1>12
  <2> QED
    BY <1>0, <1>2, <1>7, <1>10, <2>1
<1> QED
  BY <1>0, <1>1, <1>3, <1>4, <1>5, <1>11, <1>12 DEF JobStep

(* A task that is idle stays so unless it is submitted.                    *)
LEMMA IdleStays ==
  ASSUME IInv, NEW t \in Tasks, Idle(t), NEW j \in Jobs, do_work(j)
  PROVE  Idle(t)'
<1>0. TypeOK /\ JobsOK /\ RowsOK
  BY DEF IInv
<1>1. j \in Pool!Held /\ task_of' = task_of /\ task_of[j] # t
  BY <1>0, Work DEF Idle
<1>2. \A i \in Jobs : task_of[i] = t => results'[i] = results[i] /\ status'[i] = status[i]
  BY <1>0, <1>1, Work
<1> QED
  BY <1>1, <1>2 DEF Idle, Pool!Held

LEMMA OneJobStays ==
  ASSUME IInv, [Next]_vars
  PROVE  OneJob'
<1>1. JobStep
  BY Steps
<1> SUFFICES ASSUME deaths' = 0, NEW i \in Pool!Held', NEW j \in Pool!Held',
                    task_of'[i] = task_of'[j], task_of'[i] \notin Quiet
             PROVE  i = j
  BY DEF OneJob
<1>2. deaths = 0 /\ OneJob
  BY FaultsGrow DEF IInv
<1>3. ASSUME NEW h \in Jobs, NEW t \in Tasks, AddsRun(h, t),
             NEW g \in Pool!Held', task_of'[g] = t, t \notin Quiet
      PROVE  g = h
  <2>1. Adds(h, t, "run") /\ Idle(t)
    BY <1>2, <1>3 DEF AddsRun
  <2>2. g # h => g \in Pool!Held /\ task_of[g] = t
    BY <1>3, <2>1 DEF Adds, Pool!Held, IInv, TypeOK
  <2>3. g \in Jobs
    BY DEF Pool!Held
  <2> QED
    BY <2>1, <2>2, <2>3 DEF Idle
<1>4. ASSUME NEW h \in Jobs, NEW r \in Jobs, AddsResume(h, r),
             NEW g \in Pool!Held', task_of'[g] = task_of[r]
      PROVE  g = h
  <2>1. Adds(h, task_of[r], "resume") /\ \A f \in Pool!Held : task_of[f] # task_of[r]
    BY <1>2, <1>4 DEF AddsResume
  <2>2. g # h => g \in Pool!Held /\ task_of[g] = task_of[r]
    BY <1>4, <2>1 DEF Adds, Pool!Held, IInv, TypeOK
  <2> QED
    BY <2>1, <2>2
<1>5. CASE i \in Pool!Held /\ task_of'[i] = task_of[i] /\ j \in Pool!Held /\ task_of'[j] = task_of[j]
  BY <1>2, <1>5 DEF OneJob
<1>6. i \in Jobs /\ j \in Jobs
  BY <1>1, HeldStep
<1>7. CASE \E t \in Tasks : (AddsRun(i, t) /\ task_of'[i] = t) \/ (AddsRun(j, t) /\ task_of'[j] = t)
  BY <1>3, <1>6, <1>7
<1>8. CASE \E r \in Jobs : \/ AddsResume(i, r) /\ task_of'[i] = task_of[r]
                           \/ AddsResume(j, r) /\ task_of'[j] = task_of[r]
  BY <1>4, <1>6, <1>8
<1>9. /\ \/ i \in Pool!Held /\ task_of'[i] = task_of[i]
         \/ \E t \in Tasks : AddsRun(i, t) /\ task_of'[i] = t
         \/ \E h \in Jobs : AddsResume(i, h) /\ task_of'[i] = task_of[h]
      /\ \/ j \in Pool!Held /\ task_of'[j] = task_of[j]
         \/ \E t \in Tasks : AddsRun(j, t) /\ task_of'[j] = t
         \/ \E h \in Jobs : AddsResume(j, h) /\ task_of'[j] = task_of[h]
  <2>1. \A g \in Pool!Held' : \/ g \in Pool!Held /\ task_of'[g] = task_of[g]
                              \/ \E t \in Tasks : AddsRun(g, t) /\ task_of'[g] = t
                              \/ \E h \in Jobs : AddsResume(g, h) /\ task_of'[g] = task_of[h]
    BY <1>1, HeldStep
  <2> QED
    BY <2>1, Zenon
<1> QED
  BY <1>5, <1>7, <1>8, <1>9, Zenon

(* A row begins with the execution that writes it, and ends with one that  *)
(* runs.                                                                   *)
LEMMA RowBegins ==
  ASSUME IInv, [Next]_vars, NEW i \in Jobs, results'[i] = "STARTED", results[i] # "STARTED"
  PROVE  task_started(i) /\ task_of[i] \notin Quiet /\ row'[i] = i /\ i \in Pool!Held
<1>0. TypeOK /\ JobsOK /\ RowsOK
  BY DEF IInv
<1>1. ASSUME NEW j \in Jobs, NEW t \in Tasks, task_fail_start(j, t)
      PROVE  results'[i] # "STARTED"
  BY <1>0, <1>1 DEF task_fail_start, TypeOK
<1>2. ASSUME NEW j \in Jobs, do_work(j)
      PROVE  task_started(i) /\ row'[i] = i /\ i \in Pool!Held /\ task_of[i] \notin Quiet
  <2>1. task_started(j) /\ i = row'[j]
    BY <1>0, <1>2, Work
  <2>2. mode[j] = "run" /\ row[j] = j /\ row' = row
    BY <1>0, <1>2, <2>1, Work DEF task_started, JobsOK, JobOK
  <2>3. i = j
    BY <2>1, <2>2
  <2> QED
    BY <1>0, <1>2, <2>1, <2>2, <2>3, Work DEF task_started
<1>3. Same \/ Crash \/ (\E j \in Jobs, t \in Tasks : AddsRun(j, t)) \/ (\E j, h \in Jobs : AddsResume(j, h))
        => results' = results
  BY DEF Same, Crash, dbVars, AddsRun, AddsResume, Adds
<1> QED
  BY <1>1, <1>2, <1>3, Steps DEF JobStep

LEMMA RowEnds ==
  ASSUME IInv, [Next]_vars, NEW i \in Jobs, results[i] # "none", results'[i] # results[i]
  PROVE  \E j \in Pool!Held : /\ do_work(j) /\ status[j] = "running" /\ status'[j] = "done"
                              /\ task_of[j] = task_of[i] /\ task_of[j] \notin Quiet /\ row[j] = i
<1>0. TypeOK /\ JobsOK /\ RowsOK
  BY DEF IInv
<1>1. ASSUME NEW j \in Jobs, NEW t \in Tasks, task_fail_start(j, t)
      PROVE  results'[i] = results[i]
  BY <1>0, <1>1 DEF task_fail_start, IsNext, Unused, TypeOK, JobsOK, JobOK
<1>2. ASSUME NEW j \in Jobs, do_work(j)
      PROVE  /\ j \in Pool!Held /\ status[j] = "running" /\ status'[j] = "done"
             /\ task_of[j] = task_of[i] /\ task_of[j] \notin Quiet /\ row[j] = i
  <2>1. task_of[i] = task_of[j] /\ i = row'[j] /\ j \in Pool!Held
    BY <1>0, <1>2, Work
  <2>2. ~task_started(j)
    <3>1. SUFFICES ASSUME task_started(j)
                   PROVE  FALSE
      OBVIOUS
    <3>2. row[j] = j /\ row' = row /\ status[j] = "accepted"
      BY <1>0, <1>2, <3>1, Work DEF task_started, Pool!Start, Pool!Becomes, JobsOK, JobOK
    <3> QED
      BY <1>0, <2>1, <3>2 DEF JobsOK, JobOK
  <2>3. ~ResumeStarted(j) /\ ~ResumeFails(j)
    BY DEF ResumeStarted, ResumeFails, dbVars
  <2>4. PICK outcome \in Finished : WorkEnds(j, outcome)
    BY <1>2, <2>2, <2>3 DEF do_work
  <2> QED
    BY <1>0, <1>2, <2>1, <2>2, <2>3, <2>4, EndWrites, Work DEF Begins
<1>3. Same \/ Crash \/ (\E j \in Jobs, t \in Tasks : AddsRun(j, t)) \/ (\E j, h \in Jobs : AddsResume(j, h))
        => results' = results
  BY DEF Same, Crash, dbVars, AddsRun, AddsResume, Adds
<1> QED
  BY <1>1, <1>2, <1>3, Steps DEF JobStep

(* A job that runs on, or one that begins by way of a resumption, writes   *)
(* the row it had, or the one row of its task.                             *)
LEMMA WriterStep ==
  ASSUME IInv, [Next]_vars, NEW j \in Pool!Held, j \in Pool!Held'
  PROVE  /\ j \in Jobs /\ task_of'[j] = task_of[j] /\ mode'[j] = mode[j] /\ task_of[j] \in Tasks
         /\ \/ status'[j] = status[j] /\ row'[j] = row[j]
            \/ task_started(j) /\ status[j] = "accepted" /\ status'[j] = "running" /\ row'[j] = j
            \/ /\ ResumeStarted(j) /\ status[j] = "accepted" /\ status'[j] = "running"
               /\ row'[j] \in Started(task_of[j]) /\ results' = results
<1>0. TypeOK /\ JobsOK /\ RowsOK /\ j \in Jobs /\ task_of[j] \in Tasks
  BY DEF IInv, JobsOK, JobOK, TypeOK, Pool!Held
<1>1. CASE Same
  BY <1>0, <1>1 DEF Same, jobVars
<1>2. ASSUME NEW i \in Jobs, NEW t, NEW m, Adds(i, t, m)
      PROVE  status'[j] = status[j] /\ row'[j] = row[j] /\ mode'[j] = mode[j] /\ task_of'[j] = task_of[j]
  BY <1>0, <1>2 DEF Adds, TypeOK, JobsOK, JobOK, Pool!Held
<1>3. ASSUME NEW i \in Jobs, NEW t \in Tasks, task_fail_start(i, t)
      PROVE  status'[j] = status[j] /\ row'[j] = row[j] /\ mode'[j] = mode[j] /\ task_of'[j] = task_of[j]
  BY <1>0, <1>3 DEF task_fail_start, IsNext, Unused, TypeOK, JobsOK, JobOK, Pool!Held
<1>4. CASE Crash
  BY <1>0, <1>4 DEF Crash, Pool!Held, TypeOK
<1>5. ASSUME NEW i \in Jobs, do_work(i), i # j
      PROVE  status'[j] = status[j] /\ row'[j] = row[j] /\ mode'[j] = mode[j] /\ task_of'[j] = task_of[j]
  BY <1>0, <1>5, Work
<1>6. CASE do_work(j)
  <2>1. mode' = mode /\ task_of' = task_of /\ Begins(j) /\ status[j] = "accepted" /\ status'[j] = "running"
    BY <1>0, <1>6, Work DEF Pool!Held
  <2>2. task_started(j) => row'[j] = j
    BY <1>0, <1>6, Work DEF task_started, JobsOK, JobOK
  <2>3. ResumeStarted(j) => row'[j] \in Started(task_of[j]) /\ results' = results
    BY <1>0 DEF ResumeStarted, dbVars, TypeOK
  <2> QED
    BY <1>0, <2>1, <2>2, <2>3 DEF Begins
<1> QED
  BY <1>0, <1>1, <1>2, <1>3, <1>4, <1>5, <1>6, Steps DEF JobStep, AddsRun, AddsResume

LEMMA OneRowStays ==
  ASSUME IInv, [Next]_vars, deaths' = 0
  PROVE  OneRow'
<1>0. TypeOK /\ JobsOK /\ RowsOK /\ OneRow /\ OneJob /\ deaths = 0 /\ JobStep
  BY FaultsGrow, Steps DEF IInv
<1>1. ASSUME NEW i \in Jobs, results[i] = "STARTED"
      PROVE  task_of[i] \in Tasks \ Quiet /\ task_of'[i] = task_of[i]
  BY <1>0, <1>1, RowsStay DEF JobsOK, JobOK, TypeOK
<1>2. ASSUME NEW i \in Jobs, task_started(i)
      PROVE  /\ status[i] = "accepted" /\ mode[i] = "run" /\ task_of' = task_of /\ status'[i] = "running"
             /\ \A j \in Jobs \ {i} : status'[j] = status[j]
  BY <1>0, <1>2 DEF task_started, Pool!Start, Pool!Becomes, TypeOK
<1>3. ASSUME NEW i \in Jobs, NEW j \in Pool!Held, results[i] = "STARTED", task_of[i] = task_of[j]
      PROVE  ~task_started(j)
  <2>1. j \in Jobs /\ IF status[j] = "running" THEN row[j] = i ELSE mode[j] = "resume"
    BY <1>0, <1>3 DEF OneRow, Pool!Held
  <2> QED
    BY <1>2, <2>1
<1>4. ASSUME NEW i \in Jobs, NEW j \in Jobs, results'[i] = "STARTED", results'[j] = "STARTED",
             task_of'[i] = task_of'[j]
      PROVE  i = j
  <2>1. CASE results[i] = "STARTED" /\ results[j] = "STARTED"
    BY <1>0, <1>1, <1>4, <2>1 DEF OneRow
  <2>2. ASSUME NEW a \in Jobs, NEW b \in Jobs, results[a] # "STARTED", results[b] = "STARTED",
               results'[a] = "STARTED", task_of'[a] = task_of'[b]
        PROVE  FALSE
    <3>1. task_started(a) /\ a \in Pool!Held
      BY <2>2, RowBegins
    <3> QED
      BY <1>1, <1>2, <1>3, <2>2, <3>1
  <2>3. CASE results[i] # "STARTED" /\ results[j] # "STARTED"
    BY <1>2, <1>4, <2>3, RowBegins
  <2> QED
    BY <1>4, <2>1, <2>2, <2>3
<1>5. ASSUME NEW i \in Jobs, NEW j \in Pool!Held', results'[i] = "STARTED", task_of'[i] = task_of'[j]
      PROVE  IF status'[j] = "running" THEN row'[j] = i ELSE mode'[j] = "resume"
  <2>1. j \in Jobs /\ status'[j] \in {"accepted", "running"}
    BY DEF Pool!Held
  <2>2. CASE j \in Pool!Held /\ results[i] = "STARTED"
    <3>1. task_of[i] = task_of[j] /\ ~task_started(j)
      BY <1>1, <1>3, <1>5, <2>2, WriterStep
    <3>2. IF status[j] = "running" THEN row[j] = i ELSE mode[j] = "resume"
      BY <1>0, <2>2, <3>1 DEF OneRow
    <3>3. \A h \in Started(task_of[j]) : h = i
      BY <1>0, <2>2, <3>1 DEF OneRow, Started
    <3> QED
      BY <1>5, <2>2, <3>1, <3>2, <3>3, WriterStep
  <2>3. CASE j \in Pool!Held /\ results[i] # "STARTED"
    <3>1. task_started(i) /\ task_of[i] \notin Quiet /\ row'[i] = i /\ i \in Pool!Held
      BY <1>5, <2>3, RowBegins
    <3>2. i = j
      BY <1>0, <1>2, <1>5, <2>3, <3>1 DEF OneJob
    <3> QED
      BY <1>2, <3>1, <3>2
  <2>4. ASSUME NEW t \in Tasks, AddsRun(j, t), task_of'[j] = t
        PROVE  FALSE
    <3>1. results[i] = "STARTED"
      BY <1>5, <2>4 DEF AddsRun, Adds
    <3> QED
      BY <1>0, <1>1, <1>5, <2>4, <3>1 DEF AddsRun, Idle
  <2>5. ASSUME NEW h \in Jobs, AddsResume(j, h)
        PROVE  status'[j] = "accepted" /\ mode'[j] = "resume"
    BY <1>0, <2>1, <2>5 DEF AddsResume, Adds, TypeOK
  <2> QED
    BY <1>0, <2>2, <2>3, <2>4, <2>5, HeldStep
<1>6. ASSUME NEW j \in Jobs, status'[j] = "accepted", mode'[j] = "resume"
      PROVE  \E i \in Jobs : task_of'[i] = task_of'[j] /\ results'[i] = "STARTED"
  <2>0. j \in Pool!Held'
    BY <1>6 DEF Pool!Held
  <2>1. CASE j \in Pool!Held
    <3>1. status[j] = "accepted" /\ mode[j] = "resume" /\ task_of'[j] = task_of[j]
      BY <1>6, <2>0, <2>1, WriterStep
    <3>2. PICK i \in Jobs : task_of[i] = task_of[j] /\ results[i] = "STARTED"
      BY <1>0, <3>1 DEF OneRow
    <3>3. results'[i] = results[i]
      BY <1>0, <2>1, <3>1, <3>2, RowEnds DEF OneJob
    <3> QED
      BY <1>1, <3>1, <3>2, <3>3
  <2>2. ASSUME NEW t \in Tasks, AddsRun(j, t)
        PROVE  FALSE
    BY <1>0, <1>6, <2>2 DEF AddsRun, Adds, TypeOK
  <2>3. ASSUME NEW h \in Jobs, AddsResume(j, h), task_of'[j] = task_of[h]
        PROVE  \E i \in Jobs : task_of'[i] = task_of'[j] /\ results'[i] = "STARTED"
    BY <1>0, <1>1, <2>3 DEF AddsResume, Adds
  <2> QED
    BY <1>0, <2>0, <2>1, <2>2, <2>3, HeldStep
<1> QED
  BY <1>4, <1>5, <1>6 DEF OneRow

LEMMA RecordedStays ==
  ASSUME IInv, [Next]_vars
  PROVE  RunningIsRecorded'
<1> SUFFICES ASSUME deaths' = 0, NEW j \in Jobs, Executing(j)', task_of'[j] \notin Quiet
             PROVE  task_of'[row'[j]] = task_of'[j] /\ results'[row'[j]] = "STARTED"
  BY DEF RunningIsRecorded
<1>0. TypeOK /\ JobsOK /\ RowsOK /\ OneJob /\ RunningIsRecorded /\ deaths = 0 /\ JobStep
  BY FaultsGrow, Steps DEF IInv
<1>1. status'[j] = "running" /\ j \in Pool!Held'
  BY DEF Executing, Pool!Held
<1>2. task_of'[row'[j]] = task_of'[j]
  BY <1>1, RowsStayOK DEF RowsOK
<1>3. j \in Pool!Held
  <2>1. ASSUME NEW t, NEW m, Adds(j, t, m)
        PROVE  FALSE
    BY <1>0, <1>1, <2>1 DEF Adds, TypeOK
  <2> QED
    BY <1>0, <1>1, <2>1, HeldStep DEF AddsRun, AddsResume
<1>4. CASE status[j] = "running" /\ row'[j] = row[j]
  <2>1. row[j] \in Jobs /\ task_of[row[j]] = task_of[j] /\ results[row[j]] = "STARTED"
    BY <1>0, <1>1, <1>3, <1>4, WriterStep DEF RunningIsRecorded, Executing, JobsOK, JobOK, TypeOK
  <2>2. results'[row[j]] = results[row[j]]
    BY <1>0, <1>1, <1>3, <2>1, RowEnds DEF OneJob
  <2> QED
    BY <1>2, <1>4, <2>1, <2>2
<1>5. CASE task_started(j) /\ row'[j] = j
  BY <1>0, <1>2, <1>5 DEF task_started, TypeOK
<1>6. CASE row'[j] \in Started(task_of[j]) /\ results' = results
  BY <1>2, <1>6 DEF Started
<1> QED
  BY <1>1, <1>3, <1>4, <1>5, <1>6, WriterStep

(* A row that says how its execution ended is the row of no job that runs. *)
LEMMA FinalStays ==
  ASSUME IInv, [Next]_vars, deaths = 0, NEW i \in Jobs, results[i] \in Finished
  PROVE  results'[i] = results[i]
<1> SUFFICES ASSUME results'[i] # results[i]
             PROVE  FALSE
  OBVIOUS
<1>1. results[i] # "none" /\ results[i] # "STARTED"
  BY DEF Finished
<1>2. PICK j \in Pool!Held : status[j] = "running" /\ task_of[j] \notin Quiet /\ row[j] = i
  BY <1>1, RowEnds
<1>3. j \in Jobs /\ Executing(j)
  BY <1>2 DEF IInv, JobsOK, JobOK, Executing, Pool!Held
<1> QED
  BY <1>1, <1>2, <1>3 DEF IInv, RunningIsRecorded

-----------------------------------------------------------------------------
(* Types.                                                                  *)
LEMMA JobTypes ==
  ASSUME TypeOK, JobsOK, RowsOK, JobStep
  PROVE  /\ results' \in [Jobs -> Finished \cup {"none", "STARTED"}]
         /\ status' \in [Jobs -> {"new", "accepted", "running", "done", "lost"}]
         /\ task_of' \in [Jobs -> Tasks \cup {None}]
         /\ mode' \in [Jobs -> {"run", "resume"}]
         /\ stage' \in [Jobs -> {"none", "exec", "end"}]
         /\ row' \in [Jobs -> Jobs]
<1>1. CASE Same
  BY <1>1 DEF Same, jobVars, TypeOK
<1>2. ASSUME NEW j \in Jobs, NEW t \in Tasks, AddsRun(j, t)
      PROVE  Adds(j, t, "run")
  BY <1>2 DEF AddsRun
<1>3. ASSUME NEW j \in Jobs, NEW h \in Jobs, AddsResume(j, h)
      PROVE  Adds(j, task_of[h], "resume") /\ task_of[h] \in Tasks
  BY <1>3 DEF AddsResume, TypeOK, JobsOK, JobOK
<1>4. CASE \E j \in Jobs, t \in Tasks, m \in {"run", "resume"} : Adds(j, t, m)
  BY <1>4 DEF Adds, TypeOK
<1>5. CASE \E j \in Jobs, t \in Tasks : task_fail_start(j, t)
  BY <1>5 DEF task_fail_start, Finished, TypeOK
<1>6. ASSUME NEW j \in Jobs, task_started(j) \/ ResumeFails(j)
      PROVE  /\ results' \in [Jobs -> Finished \cup {"none", "STARTED"}]
             /\ status' \in [Jobs -> {"new", "accepted", "running", "done", "lost"}]
             /\ stage' \in [Jobs -> {"none", "exec", "end"}]
             /\ UNCHANGED <<task_of, mode, row>>
  BY <1>6 DEF task_started, ResumeFails, Pool!Start, Pool!Becomes, dbVars, TypeOK
<1>7. ASSUME NEW j \in Jobs, ResumeStarted(j)
      PROVE  /\ status' \in [Jobs -> {"new", "accepted", "running", "done", "lost"}]
             /\ stage' \in [Jobs -> {"none", "exec", "end"}]
             /\ row' \in [Jobs -> Jobs]
             /\ UNCHANGED <<results, task_of, mode>>
  <2>1. PICK i \in Jobs : row' = [row EXCEPT ![j] = i]
    BY <1>7 DEF ResumeStarted, Started
  <2> QED
    BY <1>7, <2>1 DEF ResumeStarted, Pool!Start, Pool!Becomes, dbVars, TypeOK
<1>8. ASSUME NEW j \in Jobs, NEW outcome \in Finished, WorkEnds(j, outcome)
      PROVE  /\ results' \in [Jobs -> Finished \cup {"none", "STARTED"}]
             /\ status' \in [Jobs -> {"new", "accepted", "running", "done", "lost"}]
             /\ stage' \in [Jobs -> {"none", "exec", "end"}]
             /\ UNCHANGED <<task_of, mode, row>>
  BY <1>8 DEF WorkEnds, Pool!Finish, Pool!Becomes, TypeOK
<1>9. CASE \E j \in Jobs : do_work(j)
  BY <1>6, <1>7, <1>8, <1>9 DEF do_work, TypeOK
<1>10. CASE Crash
  BY <1>10 DEF Crash, dbVars, TypeOK
<1>11. CASE \E j \in Jobs, t \in Tasks : AddsRun(j, t)
  BY <1>2, <1>4, <1>11, Zenon
<1>12. CASE \E j, h \in Jobs : AddsResume(j, h)
  BY <1>3, <1>4, <1>12, Zenon
<1> QED
  BY <1>1, <1>5, <1>9, <1>10, <1>11, <1>12 DEF JobStep

LEMMA CommitTypes ==
  ASSUME TypeOK, CommitIntervals
  PROVE  /\ due' = due \ dirty /\ dirty' = {} /\ results' = results
         /\ interval' \in [Tasks -> {"none", "once", "repeat"}]
         /\ \A t \in Tasks : /\ interval'[t] \in {interval[t], "none"}
                             /\ t \notin dirty => interval'[t] = interval[t]
                             /\ interval'[t] # interval[t] => interval[t] = "once"
                             /\ t \in dirty => interval'[t] # "once"
BY DEF CommitIntervals, TypeOK

LEMMA TypeStays ==
  ASSUME IInv, [Next]_vars
  PROVE  TypeOK'
<1>0. TypeOK /\ JobsOK /\ RowsOK
  BY DEF IInv
<1>1. /\ results' \in [Jobs -> Finished \cup {"none", "STARTED"}]
      /\ status' \in [Jobs -> {"new", "accepted", "running", "done", "lost"}]
      /\ task_of' \in [Jobs -> Tasks \cup {None}]
      /\ mode' \in [Jobs -> {"run", "resume"}]
      /\ stage' \in [Jobs -> {"none", "exec", "end"}]
      /\ row' \in [Jobs -> Jobs]
  BY <1>0, Steps, JobTypes
<1>2. crashes' \in 0..MaxCrashes /\ deaths' \in 0..MaxDeaths
  BY <1>0, FaultsGrow
<1> DEFINE DbOK == interval' \in [Tasks -> {"none", "once", "repeat"}] /\ due' \subseteq Tasks
           LoopTypes == /\ request' \in [Tasks -> {"none", "submit", "done", "lost"}]
                        /\ pc' \in {"down", "dead", "init", "idle", "intervals", "calendar"}
                        /\ batch' \in SUBSET (Tasks \cup Jobs)
                        /\ seen' \subseteq Tasks /\ dirty' \subseteq Tasks
<1>3. ASSUME UNCHANGED vars
      PROVE  DbOK /\ LoopTypes
  BY <1>0, <1>3 DEF vars, dbVars, loopVars, TypeOK
<1>4. ASSUME NEW j \in Jobs, do_work(j)
      PROVE  DbOK /\ LoopTypes
  BY <1>0, <1>4, Work DEF loopVars, TypeOK
<1>5. ASSUME NEW t \in Tasks, Request(t) \/ RequestGoesOn(t) \/ ComeDue(t)
      PROVE  DbOK /\ LoopTypes
  BY <1>0, <1>5 DEF Request, RequestGoesOn, submit_schedule, submit_sync, SyncSubmit, SyncGiveUp,
                    ComeDue, dbVars, loopVars, TypeOK
<1>6. ASSUME NEW t \in Tasks, IntervalSubmit(t) \/ IntervalDelay(t) \/ CalendarSubmit(t)
      PROVE  DbOK /\ LoopTypes
  BY <1>0, <1>6 DEF IntervalSubmit, IntervalDelay, CalendarSubmit, dbVars, TypeOK
<1>7. ASSUME CalendarBegin \/ ThreadDies
      PROVE  DbOK /\ LoopTypes
  <2>1. CommitIntervals \/ UNCHANGED <<interval, due>>
    BY <1>7 DEF CalendarBegin, ThreadDies, dbVars
  <2>2. DbOK
    BY <1>0, <2>1, CommitTypes DEF TypeOK
  <2>3. LoopTypes
    BY <1>0, <1>7, CommitTypes DEF CalendarBegin, ThreadDies, StartedTasks, Tasks, TypeOK
  <2> QED
    BY <2>2, <2>3
<1>8. ASSUME LoopBegin \/ LoopEnd \/ StartService \/ InitEnd \/ Crash
      PROVE  DbOK /\ LoopTypes
  BY <1>0, <1>8 DEF LoopBegin, LoopEnd, StartService, InitEnd, Crash, dbVars, StartedTasks, TypeOK
<1>9. ASSUME NEW i \in Jobs, resume_task(i)
      PROVE  DbOK /\ LoopTypes
  BY <1>0, <1>9 DEF resume_task, dbVars, TypeOK
<1>10. DbOK /\ LoopTypes
  BY <1>3, <1>4, <1>5, <1>6, <1>7, <1>8, <1>9 DEF Next, Service, vars, dbVars, loopVars, TypeOK
<1> QED
  BY <1>1, <1>2, <1>10 DEF TypeOK

-----------------------------------------------------------------------------
(* Rows of task_intervals, requests and what the loop has before it.       *)
LEMMA LoopStaysOK ==
  ASSUME IInv, [Next]_vars
  PROVE  LoopOK'
<1>0. TypeOK /\ JobsOK /\ RowsOK /\ LoopOK /\ RequestsOK
  BY DEF IInv
<1>1. CASE UNCHANGED vars
  BY <1>0, <1>1 DEF vars, dbVars, loopVars, LoopOK
<1>2. ASSUME \/ \E j \in Jobs : do_work(j)
             \/ \E t \in Tasks : Request(t) \/ RequestGoesOn(t) \/ ComeDue(t)
      PROVE  LoopOK'
  <2>1. /\ UNCHANGED loopVars /\ due \subseteq due'
        /\ \A t \in Tasks : interval[t] # "none" => interval'[t] # "none"
    BY <1>0, <1>2, Work DEF Request, RequestGoesOn, submit_schedule, submit_sync, SyncSubmit, SyncGiveUp,
                            ComeDue, dbVars, TypeOK
  <2>2. due \subseteq Tasks
    BY <1>0 DEF TypeOK
  <2>3. \A i \in Jobs : results[i] # "none" => results'[i] # "none"
    BY RowsStay
  <2> QED
    BY <1>0, <2>1, <2>2, <2>3 DEF LoopOK, loopVars
<1>3. ASSUME NEW t \in Tasks, IntervalSubmit(t) \/ IntervalDelay(t)
      PROVE  LoopOK'
  BY <1>0, <1>3 DEF IntervalSubmit, IntervalDelay, dbVars, LoopOK
<1>4. ASSUME NEW t \in Tasks, CalendarSubmit(t)
      PROVE  LoopOK'
  BY <1>0, <1>4 DEF CalendarSubmit, LoopOK
<1>5. CASE CalendarBegin
  BY <1>0, <1>5, CommitTypes DEF CalendarBegin, LoopOK
<1>6. CASE ThreadDies
  BY <1>0, <1>6, CommitTypes DEF ThreadDies, LoopOK
<1>7. CASE LoopBegin \/ LoopEnd \/ StartService \/ InitEnd \/ Crash
  BY <1>0, <1>7 DEF LoopBegin, LoopEnd, StartService, InitEnd, Crash, dbVars, LoopOK, TypeOK
<1>8. ASSUME NEW i \in Jobs, resume_task(i)
      PROVE  LoopOK'
  BY <1>0, <1>8 DEF resume_task, dbVars, LoopOK
<1> QED
  BY <1>1, <1>2, <1>3, <1>4, <1>5, <1>6, <1>7, <1>8 DEF Next, Service

(* What changes with a task's interval and with the request for it.        *)
LEMMA TableStep ==
  ASSUME IInv, [Next]_vars, NEW t \in Tasks
  PROVE  /\ \/ interval'[t] = interval[t]
            \/ CommitIntervals /\ t \in dirty /\ interval[t] = "once" /\ interval'[t] = "none"
            \/ submit_schedule(t) \/ SyncGiveUp(t)
         /\ \/ request'[t] = request[t]
            \/ submit_schedule(t) \/ submit_sync(t) \/ SyncSubmit(t) \/ SyncGiveUp(t)
            \/ Crash /\ request[t] = "submit" /\ request'[t] = "lost"
<1>0. TypeOK /\ JobsOK /\ RowsOK
  BY DEF IInv
<1>1. CASE UNCHANGED vars
  BY <1>1 DEF vars, dbVars
<1>2. ASSUME NEW u \in Tasks, Request(u) \/ RequestGoesOn(u) \/ ComeDue(u)
      PROVE  \/ u # t /\ interval'[t] = interval[t] /\ request'[t] = request[t]
             \/ u = t /\ (submit_schedule(t) \/ SyncGiveUp(t))
             \/ u = t /\ interval' = interval /\ (submit_sync(t) \/ SyncSubmit(t))
             \/ UNCHANGED <<interval, request>>
  BY <1>0, <1>2 DEF Request, RequestGoesOn, submit_schedule, submit_sync, SyncSubmit, SyncGiveUp,
                    ComeDue, dbVars, TypeOK
<1>3. ASSUME NEW j \in Jobs, do_work(j)
      PROVE  UNCHANGED <<interval, request>>
  BY <1>0, <1>3, Work
<1>4. CASE CalendarBegin \/ ThreadDies
  BY <1>0, <1>4 DEF CalendarBegin, ThreadDies, CommitIntervals, dbVars, TypeOK
<1>5. CASE Crash
  BY <1>0, <1>5 DEF Crash, dbVars, TypeOK
<1>6. CASE LoopBegin \/ LoopEnd \/ StartService \/ InitEnd
  BY <1>6 DEF LoopBegin, LoopEnd, StartService, InitEnd, dbVars
<1>7. ASSUME NEW u \in Tasks, IntervalSubmit(u) \/ IntervalDelay(u) \/ CalendarSubmit(u)
      PROVE  UNCHANGED <<interval, request>>
  BY <1>7 DEF IntervalSubmit, IntervalDelay, CalendarSubmit, dbVars
<1>8. ASSUME NEW i \in Jobs, resume_task(i)
      PROVE  UNCHANGED <<interval, request>>
  BY <1>8 DEF resume_task, dbVars
<1> QED
  BY <1>1, <1>2, <1>3, <1>4, <1>5, <1>6, <1>7, <1>8 DEF Next, Service

(* One submission gives a task one more job, which stands for it.          *)
LEMMA AddsOne ==
  ASSUME TypeOK, JobsOK, NEW j \in Jobs, NEW t \in Tasks, NEW m,
         Adds(j, t, m) \/ task_fail_start(j, t)
  PROVE  /\ task_of[j] = None /\ task_of'[j] = t
         /\ \A i \in Jobs \ {j} : /\ task_of'[i] = task_of[i] /\ status'[i] = status[i]
                                  /\ results'[i] = results[i] /\ mode'[i] = mode[i]
         /\ status[j] = "new" /\ results[j] = "none" /\ results'[j] # "STARTED"
         /\ \/ status'[j] = "accepted" /\ mode'[j] = m
            \/ status'[j] = "new" /\ results'[j] # "none"
BY DEF Adds, task_fail_start, IsNext, Unused, TypeOK, JobsOK, JobOK

LEMMA AsyncAddsOne ==
  ASSUME NEW t \in Tasks, submit_async(t)
  PROVE  \E j \in Jobs : Adds(j, t, "run") \/ task_fail_start(j, t)
BY SubmitAdds DEF submit_async

LEMMA RequestsStayOK ==
  ASSUME IInv, [Next]_vars
  PROVE  RequestsOK'
<1>0. TypeOK /\ JobsOK /\ RowsOK /\ LoopOK /\ RequestsOK
  BY DEF IInv
<1>1. ASSUME NEW t \in Tasks
      PROVE  /\ request'[t] = "submit" => t \in Immediate
             /\ interval'[t] = "repeat" => t \in Repeating
             /\ interval'[t] # "none" => t \notin Calendar
  BY <1>0, TableStep DEF RequestsOK, submit_schedule, submit_sync, SyncSubmit, SyncGiveUp, TypeOK
<1>2. ASSUME NEW t \in Tasks, request'[t] = "submit"
      PROVE  pc' # "down"
  <2>1. ~Crash
    BY <1>0, <1>2 DEF Crash, TypeOK
  <2>2. pc # "down"
    BY <1>0, <1>2, <2>1, TableStep DEF RequestsOK, submit_schedule, submit_sync, SyncSubmit,
                                      SyncGiveUp, TypeOK
  <2>3. \A j \in Jobs : do_work(j) => pc' = pc
    BY <1>0, Work DEF loopVars
  <2> QED
    BY <2>1, <2>2, <2>3
    DEF Next, vars, loopVars, Request, RequestGoesOn, submit_schedule, submit_sync, SyncSubmit,
        SyncGiveUp, ComeDue, Service, IntervalSubmit, IntervalDelay, CalendarSubmit, resume_task,
        LoopBegin, CalendarBegin, LoopEnd, StartService, InitEnd, ThreadDies
<1>3. ASSUME NEW t \in Scheduled \cup Immediate, request'[t] \in {"none", "submit"}
      PROVE  interval'[t] = "none" /\ \A j \in Jobs : task_of'[j] # t
  <2>0. t \in Tasks
    BY DEF Tasks
  <2>1. /\ request[t] \in {"none", "submit"} /\ interval[t] = "none" /\ \A j \in Jobs : task_of[j] # t
        /\ ~submit_schedule(t) /\ ~SyncGiveUp(t) /\ ~SyncSubmit(t)
    BY <1>0, <1>3, <2>0, TableStep
    DEF RequestsOK, submit_schedule, submit_sync, SyncSubmit, SyncGiveUp, TypeOK
  <2>2. interval'[t] = "none"
    BY <2>0, <2>1, TableStep
  <2>3. ASSUME NEW u \in Tasks, u # t, NEW j \in Jobs, NEW m, Adds(j, u, m) \/ task_fail_start(j, u)
        PROVE  \A i \in Jobs : task_of'[i] # t
    BY <1>0, <2>1, <2>3, AddsOne
  <2>4. CASE UNCHANGED task_of
    BY <2>1, <2>2, <2>4
  <2>5. ASSUME NEW u \in Tasks, IntervalSubmit(u)
        PROVE  \A i \in Jobs : task_of'[i] # t
    BY <1>0, <2>1, <2>3, <2>5, AsyncAddsOne DEF IntervalSubmit, LoopOK
  <2>6. ASSUME NEW u \in Tasks, CalendarSubmit(u)
        PROVE  \A i \in Jobs : task_of'[i] # t
    BY <1>0, <2>1, <2>3, <2>6, AsyncAddsOne DEF CalendarSubmit, LoopOK, jobVars
  <2>7. ASSUME NEW u \in Tasks, SyncSubmit(u)
        PROVE  \A i \in Jobs : task_of'[i] # t
    <3>1. u # t
      BY <2>1, <2>7
    <3> QED
      BY <2>3, <2>7, <3>1, SubmitAdds DEF SyncSubmit, dbVars
  <2>8. ASSUME NEW i \in Jobs, resume_task(i)
        PROVE  \A j \in Jobs : task_of'[j] # t
    <3>1. task_of[i] \in Tasks /\ task_of[i] # t
      BY <1>0, <2>1, <2>8 DEF resume_task, Oldest, LoopOK, JobsOK, JobOK, TypeOK
    <3> QED
      BY <2>1, <2>3, <2>8, <3>1, SubmitAdds DEF resume_task, dbVars, jobVars
  <2>9. ASSUME NEW j \in Jobs, do_work(j)
        PROVE  UNCHANGED task_of
    BY <1>0, <2>9, Work
  <2>10. CASE \/ UNCHANGED vars \/ CalendarBegin \/ ThreadDies \/ Crash
              \/ LoopBegin \/ LoopEnd \/ StartService \/ InitEnd
              \/ \E u \in Tasks : Request(u) \/ SyncGiveUp(u) \/ ComeDue(u) \/ IntervalDelay(u)
    BY <2>4, <2>10
    DEF vars, jobVars, CalendarBegin, ThreadDies, Crash, LoopBegin, LoopEnd, StartService, InitEnd,
        Request, submit_schedule, submit_sync, SyncGiveUp, ComeDue, IntervalDelay
  <2> QED
    BY <2>2, <2>4, <2>5, <2>6, <2>7, <2>8, <2>9, <2>10 DEF Next, Service, RequestGoesOn
<1> QED
  BY <1>1, <1>2, <1>3 DEF RequestsOK

-----------------------------------------------------------------------------
(* While the process lives what stands for a task goes on to do so: the    *)
(* execution leaves a row, or has taken over one.                          *)
LEMMA StandsStays ==
  ASSUME IInv, [Next]_vars, crashes' = 0, NEW t \in Tasks \ Quiet, Stands(t)
  PROVE  Stands(t)'
<1>0. TypeOK /\ JobsOK /\ RowsOK /\ JobStep
  BY Steps DEF IInv
<1>1. ASSUME NEW i \in Jobs, task_of[i] = t, results[i] # "none"
      PROVE  Stands(t)'
  BY <1>1, RowsStay DEF Stands
<1>2. PICK j \in Jobs : task_of[j] = t /\ (j \in Pool!Held \/ results[j] # "none")
  BY DEF Stands
<1>3. CASE j \in Pool!Held /\ j \in Pool!Held'
  BY <1>2, <1>3, WriterStep DEF Stands
<1>4. CASE j \in Pool!Held /\ j \notin Pool!Held'
  <2>1. do_work(j)
    <3>1. ASSUME NEW i \in Jobs, NEW u \in Tasks, NEW m, Adds(i, u, m) \/ task_fail_start(i, u)
          PROVE  FALSE
      BY <1>0, <1>4, <3>1, AddsOne DEF Pool!Held
    <3>2. ~Crash /\ ~Same
      BY <1>4, FaultsGrow DEF IInv, Same, jobVars, Pool!Held
    <3>3. ASSUME NEW i \in Jobs, do_work(i)
          PROVE  i = j
      BY <1>0, <1>4, <3>3, Work DEF Pool!Held
    <3>4. \A i \in Jobs : results[i] # "none" => task_of[i] \in Tasks
      BY <1>0 DEF JobsOK, JobOK, TypeOK
    <3> QED
      BY <1>0, <3>1, <3>2, <3>3, <3>4 DEF JobStep, AddsRun, AddsResume
  <2>2. Ends(j)
    BY <1>0, <1>2, <1>4, <2>1, Work DEF Pool!Held
  <2>3. CASE ResumeFails(j)
    BY <1>0, <1>1, <1>2, <2>3 DEF ResumeFails, RowsOK
  <2>4. ASSUME NEW outcome \in Finished, WorkEnds(j, outcome)
        PROVE  Stands(t)'
    <3>1. row[j] \in Jobs /\ task_of[row[j]] = t /\ results[row[j]] # "none"
      BY <1>0, <1>2, <2>4, EndWrites DEF RowsOK, TypeOK
    <3> QED
      BY <1>1, <3>1
  <2> QED
    BY <2>2, <2>3, <2>4 DEF Ends
<1> QED
  BY <1>1, <1>2, <1>3, <1>4

LEMMA DirtyStays ==
  ASSUME IInv, [Next]_vars
  PROVE  DirtyStands'
<1> SUFFICES ASSUME crashes' = 0, NEW t \in dirty' \ Quiet
             PROVE  Stands(t)'
  BY DEF DirtyStands
<1>0. TypeOK /\ JobsOK /\ RowsOK /\ t \in Tasks
  BY TypeStays DEF IInv, TypeOK
<1>1. CASE t \in dirty
  <2>1. Stands(t)
    BY <1>0, <1>1, FaultsGrow DEF IInv, DirtyStands
  <2> QED
    BY <1>0, <2>1, StandsStays
<1>2. CASE IntervalSubmit(t)
  <2>1. PICK j \in Jobs : Adds(j, t, "run") \/ task_fail_start(j, t)
    BY <1>0, <1>2, AsyncAddsOne DEF IntervalSubmit
  <2> QED
    BY <1>0, <2>1, AddsOne DEF Stands, Pool!Held
<1>3. t \in dirty \/ IntervalSubmit(t)
  <2>1. \A j \in Jobs : do_work(j) => dirty' = dirty
    BY <1>0, Work DEF loopVars
  <2> QED
    BY <2>1
    DEF Next, vars, loopVars, Request, RequestGoesOn, submit_schedule, submit_sync, SyncSubmit,
        SyncGiveUp, ComeDue, Service, IntervalSubmit, IntervalDelay, CalendarSubmit, resume_task,
        LoopBegin, CalendarBegin, CommitIntervals, LoopEnd, StartService, InitEnd, ThreadDies, Crash
<1> QED
  BY <1>1, <1>2, <1>3

LEMMA NotForgottenYet ==
  ASSUME IInv, [Next]_vars
  PROVE  NeverForgotten'
<1> SUFFICES ASSUME crashes' = 0, NEW t \in (Scheduled \cup Immediate) \ Quiet, request'[t] = "done",
                    interval'[t] = "none"
             PROVE  Stands(t)'
  BY DEF NeverForgotten
<1>0. TypeOK /\ JobsOK /\ RowsOK /\ t \in Tasks /\ crashes = 0
  BY FaultsGrow DEF IInv, Tasks
<1>1. ASSUME Stands(t)
      PROVE  Stands(t)'
  BY <1>0, <1>1, StandsStays
<1>2. ~submit_schedule(t) /\ ~SyncGiveUp(t)
  BY <1>0 DEF submit_schedule, SyncGiveUp, TypeOK
<1>3. CASE request[t] = "done"
  BY <1>0, <1>1, <1>2, <1>3, TableStep DEF IInv, NeverForgotten, DirtyStands
<1>4. CASE SyncSubmit(t)
  <2>1. PICK j \in Jobs : Adds(j, t, "run")
    BY <1>0, <1>4, SubmitAdds DEF SyncSubmit, dbVars
  <2> QED
    BY <2>1, <1>0 DEF Adds, Stands, Pool!Held, TypeOK
<1>5. request[t] = "done" \/ SyncSubmit(t)
  BY <1>0, <1>2, TableStep DEF submit_sync, TypeOK
<1> QED
  BY <1>3, <1>4, <1>5

-----------------------------------------------------------------------------
(* A task to run once is submitted by way of the request, when it has no   *)
(* job and no interval, or by way of its interval, which is then changed.  *)
LEMMA OnceStays ==
  ASSUME IInv, [Next]_vars
  PROVE  OnceSubmitted'
<1> SUFFICES ASSUME crashes' = 0, deaths' = 0
             PROVE  /\ pc' \notin {"down", "dead", "init"}
                    /\ \A t \in Scheduled \cup Immediate, j \in Jobs : task_of'[j] = t =>
                         /\ \A i \in Jobs : task_of'[i] = t => i = j
                         /\ interval'[t] = "none" \/ t \in dirty'
  BY DEF OnceSubmitted
<1>0. /\ TypeOK /\ JobsOK /\ RowsOK /\ LoopOK /\ RequestsOK /\ OnceSubmitted
      /\ pc \notin {"down", "dead", "init"} /\ ~Crash /\ ~ThreadDies /\ crashes = 0 /\ deaths = 0
  BY FaultsGrow DEF IInv, OnceSubmitted
<1>1. pc' \notin {"down", "dead", "init"}
  <2>1. \A j \in Jobs : do_work(j) => pc' = pc
    BY <1>0, Work DEF loopVars
  <2> QED
    BY <1>0, <2>1
    DEF Next, vars, loopVars, Request, RequestGoesOn, submit_schedule, submit_sync, SyncSubmit,
        SyncGiveUp, ComeDue, Service, IntervalSubmit, IntervalDelay, CalendarSubmit, resume_task,
        LoopBegin, CalendarBegin, LoopEnd, StartService, InitEnd
<1>2. ASSUME NEW t \in Scheduled \cup Immediate, NEW j \in Jobs, task_of'[j] = t
      PROVE  /\ \A i \in Jobs : task_of'[i] = t => i = j
             /\ interval'[t] = "none" \/ t \in dirty'
  <2> DEFINE Once == /\ \A i \in Jobs : task_of'[i] = t => i = j
                     /\ interval'[t] = "none" \/ t \in dirty'
  <2>0. t \in Tasks \ (Repeating \cup Calendar)
    BY DEF Tasks
  <2>1. ASSUME NEW u \in Tasks, NEW h \in Jobs, NEW m, Adds(h, u, m) \/ task_fail_start(h, u),
               \A i \in Jobs : task_of[i] = t => u # t, interval' = interval,
               dirty \subseteq dirty', u = t => interval[t] = "none" \/ t \in dirty'
        PROVE  Once
    BY <1>0, <1>2, <2>0, <2>1, AddsOne DEF OnceSubmitted
  <2>2. ASSUME UNCHANGED task_of, interval'[t] = interval[t], dirty \subseteq dirty'
        PROVE  Once
    BY <1>0, <1>2, <2>2 DEF OnceSubmitted
  <2>3. ASSUME NEW u \in Tasks, IntervalSubmit(u)
        PROVE  Once
    <3>1. u \in due /\ interval[u] # "none" /\ u \notin dirty
      BY <1>0, <2>3 DEF IntervalSubmit, LoopOK
    <3>2. \A i \in Jobs : task_of[i] = t => u # t
      BY <1>0, <3>1 DEF OnceSubmitted
    <3>3. PICK h \in Jobs : Adds(h, u, "run") \/ task_fail_start(h, u)
      BY <2>3, AsyncAddsOne DEF IntervalSubmit
    <3> QED
      BY <2>1, <2>3, <3>2, <3>3 DEF IntervalSubmit
  <2>4. ASSUME NEW u \in Tasks, CalendarSubmit(u)
        PROVE  Once
    <3>1. u # t
      BY <1>0, <2>0, <2>4 DEF CalendarSubmit, LoopOK
    <3>2. interval' = interval /\ dirty' = dirty
      BY <2>4 DEF CalendarSubmit, dbVars
    <3>3. UNCHANGED task_of \/ submit_async(u)
      BY <2>4 DEF CalendarSubmit, jobVars
    <3> QED
      BY <2>1, <2>2, <3>1, <3>2, <3>3, AsyncAddsOne
  <2>5. ASSUME NEW u \in Tasks, SyncSubmit(u)
        PROVE  Once
    <3>1. interval[u] = "none" /\ \A i \in Jobs : task_of[i] # u
      BY <1>0, <2>5, NewIsIdle DEF SyncSubmit
    <3>2. \E h \in Jobs : Adds(h, u, "run")
      BY <2>5, SubmitAdds DEF SyncSubmit, dbVars
    <3> QED
      BY <2>1, <2>5, <3>1, <3>2 DEF SyncSubmit, dbVars, loopVars
  <2>6. ASSUME NEW u \in Tasks, submit_schedule(u) \/ SyncGiveUp(u)
        PROVE  Once
    <3>1. u \in Scheduled \cup Immediate /\ UNCHANGED task_of /\ \A i \in Jobs : task_of[i] # u
      BY <1>0, <2>6, NewIsIdle DEF submit_schedule, SyncGiveUp, RequestsOK, jobVars
    <3>2. u # t /\ dirty' = dirty
      BY <1>2, <2>6, <3>1 DEF submit_schedule, SyncGiveUp, loopVars
    <3>3. interval'[t] = interval[t]
      BY <1>0, <2>0, <2>6, <3>2 DEF submit_schedule, SyncGiveUp, TypeOK
    <3> QED
      BY <2>2, <3>1, <3>2, <3>3
  <2>7. ASSUME CalendarBegin
        PROVE  Once
    <3>1. UNCHANGED task_of /\ CommitIntervals
      BY <2>7 DEF CalendarBegin, jobVars
    <3>2. t \notin dirty => interval[t] = "none"
      BY <1>0, <1>2, <3>1 DEF OnceSubmitted
    <3>3. interval'[t] = "none"
      <4>1. interval[t] # "repeat"
        BY <1>0, <2>0 DEF RequestsOK
      <4>2. interval[t] \in {"none", "once", "repeat"}
        BY <1>0, <2>0 DEF TypeOK
      <4> QED
        BY <2>0, <3>1, <3>2, <4>1, <4>2 DEF CommitIntervals
    <3> QED
      BY <1>0, <1>2, <3>1, <3>3 DEF OnceSubmitted
  <2>8. ASSUME NEW h \in Jobs, do_work(h)
        PROVE  Once
    BY <1>0, <2>2, <2>8, Work DEF loopVars
  <2>9. ASSUME UNCHANGED vars \/ LoopBegin \/ LoopEnd
        PROVE  Once
    BY <1>0, <2>2, <2>9 DEF vars, dbVars, jobVars, loopVars, LoopBegin, LoopEnd, LoopOK
  <2>10. ASSUME NEW u \in Tasks, submit_sync(u) \/ ComeDue(u) \/ IntervalDelay(u)
         PROVE  Once
    BY <2>2, <2>10 DEF submit_sync, ComeDue, IntervalDelay, dbVars, jobVars, loopVars
  <2> QED
    BY <1>0, <2>3, <2>4, <2>5, <2>6, <2>7, <2>8, <2>9, <2>10
    DEF Next, Service, Request, RequestGoesOn, StartService, InitEnd, resume_task
<1> QED
  BY <1>1, <1>2

-----------------------------------------------------------------------------
(* What the thread is about to submit stays idle.  First, a task that is   *)
(* not quiet, has no STARTED row and no job that has yet to begin is idle. *)
LEMMA NoneStarted ==
  ASSUME IInv, deaths = 0, NEW t \in Tasks \ Quiet, Started(t) = {},
         \A j \in Jobs : task_of[j] = t => ~NotBegun(j)
  PROVE  Idle(t)
<1> SUFFICES ASSUME NEW j \in Jobs, task_of[j] = t, j \in Pool!Held
             PROVE  FALSE
  BY DEF Idle, Started
<1>0. TypeOK /\ JobsOK /\ OneRow /\ RunningIsRecorded
  BY DEF IInv
<1>1. status[j] # "running"
  BY <1>0 DEF RunningIsRecorded, Executing, JobsOK, JobOK, Started, TypeOK
<1>2. status[j] # "accepted"
  BY <1>0 DEF OneRow, NotBegun, Started, TypeOK
<1> QED
  BY <1>1, <1>2 DEF Pool!Held

(* A job that has yet to begin holds its task's coming due back, and the   *)
(* next round.                                                             *)
LEMMA NotBegunHolds ==
  ASSUME IInv, deaths = 0, NEW j \in Jobs, NotBegun(j)
  PROVE  /\ j \in Pool!Held /\ task_of[j] \in Tasks /\ stage[j] = "none"
         /\ ~LoopEnd
         /\ \A t \in Tasks : submit_schedule(t) \/ SyncGiveUp(t) \/ ComeDue(t) => t # task_of[j]
<1>1. j \in Pool!Held /\ task_of[j] \in Tasks /\ stage[j] = "none"
  BY DEF IInv, TypeOK, JobsOK, JobOK, NotBegun, Pool!Held
<1>2. ASSUME NEW t \in Tasks, submit_schedule(t) \/ SyncGiveUp(t)
      PROVE  t # task_of[j]
  BY <1>2, NewIsIdle DEF IInv, RequestsOK, submit_schedule, SyncGiveUp
<1>3. ASSUME NEW t \in Tasks, ComeDue(t)
      PROVE  t # task_of[j]
  BY <1>1, <1>3 DEF ComeDue
<1> QED
  BY <1>1, <1>2, <1>3 DEF LoopEnd

(* A task that the step submits is not one that others wait to submit.     *)
LEMMA OthersStayIdle ==
  ASSUME TypeOK, JobsOK, NEW u \in Tasks, NEW j \in Jobs, NEW m,
         Adds(j, u, m) \/ task_fail_start(j, u),
         NEW t \in Tasks \ {u}, Idle(t)
  PROVE  Idle(t)'
BY AddsOne DEF Idle, Pool!Held

LEMMA BatchStaysIdle ==
  ASSUME IInv, [Next]_vars, deaths' = 0, pc' \in {"intervals", "calendar"},
         NEW t \in batch' \ (seen' \cup Quiet)
  PROVE  Idle(t)'
<1>0. /\ TypeOK /\ JobsOK /\ RowsOK /\ LoopOK /\ RequestsOK /\ SubmitsIdle
      /\ deaths = 0 /\ ~ThreadDies
  BY FaultsGrow DEF IInv
<1>1. t \in Tasks
  BY TypeStays, LoopStaysOK DEF TypeOK, LoopOK, Tasks
<1>2. ASSUME pc' = pc, batch' \subseteq batch, seen' = seen
      PROVE  Idle(t)
  BY <1>0, <1>2 DEF SubmitsIdle
<1>3. ASSUME UNCHANGED <<jobVars, results>>, Idle(t)
      PROVE  Idle(t)'
  BY <1>3 DEF Idle, jobVars, Pool!Held
<1>4. CASE LoopBegin
  <2>1. \A j \in Jobs : task_of[j] = t => ~NotBegun(j)
    BY <1>0, <1>4 DEF LoopBegin, SubmitsIdle, LoopOK
  <2>2. Started(t) = {}
    BY <1>1, <1>4 DEF LoopBegin, StartedTasks
  <2> QED
    BY <1>0, <1>1, <1>3, <1>4, <2>1, <2>2, NoneStarted DEF LoopBegin, dbVars
<1>5. CASE CalendarBegin
  <2>1. \A j \in Jobs : task_of[j] = t => ~NotBegun(j)
    BY <1>0, <1>5 DEF CalendarBegin, SubmitsIdle
  <2>2. Started(t) = {}
    BY <1>1, <1>5 DEF CalendarBegin, StartedTasks
  <2> QED
    BY <1>0, <1>1, <1>3, <1>5, <2>1, <2>2, NoneStarted DEF CalendarBegin, CommitIntervals
<1>6. ASSUME NEW u \in Tasks, IntervalSubmit(u) \/ CalendarSubmit(u)
      PROVE  Idle(t)'
  <2>1. t # u /\ Idle(t)
    BY <1>2, <1>6 DEF IntervalSubmit, CalendarSubmit
  <2>2. submit_async(u) \/ UNCHANGED <<jobVars, results>>
    BY <1>6 DEF IntervalSubmit, CalendarSubmit, dbVars
  <2> QED
    BY <1>0, <1>1, <1>3, <2>1, <2>2, AsyncAddsOne, OthersStayIdle
<1>7. ASSUME NEW u \in Tasks, SyncSubmit(u)
      PROVE  Idle(t)'
  <2>1. pc' = pc /\ batch' = batch /\ seen' = seen /\ interval[u] = "none" /\ u \in Immediate
    BY <1>0, <1>7, NewIsIdle DEF SyncSubmit, loopVars
  <2>2. t # u
    BY <1>0, <2>1 DEF LoopOK
  <2>3. \E j \in Jobs : Adds(j, u, "run")
    BY <1>7, SubmitAdds DEF SyncSubmit, dbVars
  <2> QED
    BY <1>0, <1>1, <1>2, <2>1, <2>2, <2>3, OthersStayIdle
<1>8. ASSUME NEW j \in Jobs, do_work(j)
      PROVE  Idle(t)'
  BY <1>0, <1>1, <1>2, <1>8, Work, IdleStays DEF loopVars
<1>9. ASSUME NEW u \in Tasks, Request(u) \/ SyncGiveUp(u) \/ ComeDue(u) \/ IntervalDelay(u)
      PROVE  Idle(t)'
  BY <1>2, <1>3, <1>9 DEF Request, submit_schedule, submit_sync, SyncGiveUp, ComeDue, IntervalDelay,
                          loopVars, dbVars
<1>10. CASE UNCHANGED vars
  BY <1>2, <1>3, <1>10 DEF vars, loopVars, dbVars
<1>11. ~LoopEnd /\ ~StartService /\ ~InitEnd /\ ~Crash /\ \A i \in Jobs : ~resume_task(i)
  BY DEF LoopEnd, StartService, InitEnd, Crash, resume_task
<1> QED
  BY <1>0, <1>4, <1>5, <1>6, <1>7, <1>8, <1>9, <1>10, <1>11 DEF Next, Service, RequestGoesOn

(* What init() has still to resume is in nobody's hands.                   *)
LEMMA InitBatchStaysFree ==
  ASSUME IInv, [Next]_vars, deaths' = 0, pc' = "init", NEW i \in batch'
  PROVE  results'[i] = "STARTED" /\ \A j \in Pool!Held' : task_of'[j] # task_of'[i]
<1>0. /\ TypeOK /\ JobsOK /\ RowsOK /\ RequestsOK /\ OneRow /\ SubmitsIdle /\ deaths = 0
      /\ JobStep /\ ~ThreadDies
  BY FaultsGrow, Steps DEF IInv
<1>1. i \in Jobs
  BY LoopStaysOK DEF LoopOK
<1>2. ASSUME i \in batch, pc = "init"
      PROVE  /\ results[i] = "STARTED" /\ task_of[i] \in Tasks /\ task_of'[i] = task_of[i]
             /\ \A j \in Pool!Held : task_of[j] # task_of[i]
  BY <1>0, <1>1, <1>2, RowsStay DEF SubmitsIdle, JobsOK, JobOK, TypeOK
<1>3. ASSUME i \in batch, pc = "init"
      PROVE  results'[i] = "STARTED"
  BY <1>1, <1>2, <1>3, RowEnds
<1>4. ASSUME i \in batch, pc = "init",
             \A h \in Jobs, t \in Tasks : AddsRun(h, t) => t # task_of[i],
             \A h, r \in Jobs : AddsResume(h, r) => task_of[r] # task_of[i]
      PROVE  \A j \in Pool!Held' : task_of'[j] # task_of'[i]
  BY <1>0, <1>2, <1>4, HeldStep
<1>5. CASE StartService
  BY <1>0, <1>1, <1>5 DEF StartService, SubmitsIdle, dbVars, jobVars, Pool!Held
<1>6. ASSUME NEW k \in Jobs, resume_task(k)
      PROVE  results'[i] = "STARTED" /\ \A j \in Pool!Held' : task_of'[j] # task_of'[i]
  <2>1. /\ pc = "init" /\ i \in batch /\ k \in batch /\ i # k /\ results' = results
    BY <1>6 DEF resume_task, Oldest, dbVars
  <2>2. task_of[k] # task_of[i] /\ task_of[k] \in Tasks
    BY <1>0, <1>1, <1>2, <2>1 DEF SubmitsIdle, OneRow, JobsOK, JobOK, TypeOK
  <2>3. ASSUME NEW h \in Jobs, Adds(h, task_of[k], "resume"), NEW j \in Pool!Held'
        PROVE  task_of'[j] # task_of'[i]
    <3>1. j = h => task_of'[j] = task_of[k]
      BY <1>0, <2>2, <2>3, AddsOne
    <3>2. j # h => j \in Pool!Held /\ task_of'[j] = task_of[j]
      BY <1>0, <2>2, <2>3, AddsOne DEF Pool!Held
    <3> QED
      BY <1>2, <2>1, <2>2, <3>1, <3>2
  <2>4. CASE UNCHANGED jobVars
    BY <1>2, <2>1, <2>4 DEF jobVars, Pool!Held
  <2> QED
    BY <1>2, <1>6, <2>1, <2>2, <2>3, <2>4, SubmitAdds DEF resume_task
<1>7. ASSUME NEW u \in Tasks, SyncSubmit(u)
      PROVE  results'[i] = "STARTED" /\ \A j \in Pool!Held' : task_of'[j] # task_of'[i]
  <2>1. pc = "init" /\ i \in batch /\ task_of[i] # u
    BY <1>0, <1>1, <1>7, NewIsIdle DEF SyncSubmit, loopVars
  <2>2. PICK h \in Jobs : Adds(h, u, "run")
    BY <1>7, SubmitAdds DEF SyncSubmit, dbVars
  <2>3. ASSUME NEW j \in Pool!Held'
        PROVE  task_of'[j] # task_of'[i]
    <3>1. j = h => task_of'[j] = u
      BY <1>0, <2>2, AddsOne
    <3>2. j # h => j \in Pool!Held /\ task_of'[j] = task_of[j]
      BY <1>0, <2>2, AddsOne DEF Pool!Held
    <3> QED
      BY <1>2, <2>1, <3>1, <3>2
  <2> QED
    BY <1>3, <2>1, <2>3
<1>8. ASSUME NEW k \in Jobs, do_work(k)
      PROVE  results'[i] = "STARTED" /\ \A j \in Pool!Held' : task_of'[j] # task_of'[i]
  <2>1. pc = "init" /\ i \in batch /\ task_of' = task_of
    BY <1>0, <1>8, Work DEF loopVars
  <2>2. Pool!Held' \subseteq Pool!Held
    BY <1>0, <1>8, Work DEF Pool!Held
  <2> QED
    BY <1>2, <1>3, <2>1, <2>2
<1>9. ASSUME UNCHANGED <<pc, batch, jobVars>>
      PROVE  results'[i] = "STARTED" /\ \A j \in Pool!Held' : task_of'[j] # task_of'[i]
  BY <1>2, <1>3, <1>9 DEF jobVars, Pool!Held
<1>10. ASSUME \/ UNCHANGED vars
              \/ \E u \in Tasks : Request(u) \/ SyncGiveUp(u) \/ ComeDue(u)
       PROVE  UNCHANGED <<pc, batch, jobVars>>
  BY <1>10 DEF vars, Request, submit_schedule, submit_sync, SyncGiveUp, ComeDue, loopVars
<1>11. /\ ~LoopBegin /\ ~CalendarBegin /\ ~LoopEnd /\ ~InitEnd /\ ~Crash
       /\ \A u \in Tasks : ~IntervalSubmit(u) /\ ~IntervalDelay(u) /\ ~CalendarSubmit(u)
  BY DEF LoopBegin, CalendarBegin, LoopEnd, InitEnd, Crash, IntervalSubmit, IntervalDelay,
         CalendarSubmit
<1> QED
  BY <1>0, <1>5, <1>6, <1>7, <1>8, <1>9, <1>10, <1>11 DEF Next, Service, RequestGoesOn

(* A job that has yet to begin, and what else would submit its task.       *)
LEMMA NotBegunStays ==
  ASSUME IInv, [Next]_vars, deaths' = 0, NEW j \in Jobs, NotBegun(j)'
  PROVE  LET t == task_of'[j] IN
           /\ t \in due' => t \in dirty' \/ interval'[t] = "none"
           /\ t \in Calendar => pc' = "calendar"
<1> DEFINE t == task_of'[j]
           Held == /\ t \in due' => t \in dirty' \/ interval'[t] = "none"
                   /\ t \in Calendar => pc' = "calendar"
<1>0. /\ TypeOK /\ JobsOK /\ RowsOK /\ LoopOK /\ RequestsOK /\ SubmitsIdle /\ deaths = 0
      /\ ~ThreadDies /\ JobsOK'
  BY FaultsGrow, JobsStayOK DEF IInv
<1>1. ASSUME NotBegun(j), task_of'[j] = task_of[j],
             due' \subseteq due, dirty \subseteq dirty',
             interval'[t] = "none" \/ interval'[t] = interval[t],
             pc' = pc
      PROVE  Held
  BY <1>0, <1>1 DEF SubmitsIdle
<1>2. ASSUME NEW u \in Tasks, NEW h \in Jobs, NEW m, Adds(h, u, m) \/ task_fail_start(h, u)
      PROVE  \/ h = j /\ t = u
             \/ h # j /\ NotBegun(j) /\ task_of'[j] = task_of[j]
  BY <1>0, <1>2, AddsOne DEF NotBegun
<1>3. ASSUME UNCHANGED jobVars
      PROVE  NotBegun(j) /\ t = task_of[j]
  BY <1>3 DEF NotBegun, jobVars
<1>4. ASSUME NEW u \in Tasks, IntervalSubmit(u)
      PROVE  Held
  <2>1. PICK h \in Jobs : Adds(h, u, "run") \/ task_fail_start(h, u)
    BY <1>4, AsyncAddsOne DEF IntervalSubmit
  <2>2. u \in dirty' /\ u \notin Calendar
    BY <1>0, <1>4 DEF IntervalSubmit, LoopOK, RequestsOK
  <2> QED
    BY <1>1, <1>2, <1>4, <2>1, <2>2 DEF IntervalSubmit
<1>5. ASSUME NEW u \in Tasks, CalendarSubmit(u)
      PROVE  Held
  <2>1. /\ u \in Calendar /\ interval[u] = "none" /\ pc' = "calendar"
        /\ UNCHANGED <<interval, due, dirty, pc>>
    BY <1>0, <1>5 DEF CalendarSubmit, LoopOK, RequestsOK, dbVars
  <2>2. UNCHANGED jobVars \/ submit_async(u)
    BY <1>5 DEF CalendarSubmit
  <2>3. CASE UNCHANGED jobVars
    BY <1>1, <1>3, <2>1, <2>3
  <2>4. CASE submit_async(u)
    BY <1>1, <1>2, <2>1, <2>4, AsyncAddsOne
  <2> QED
    BY <2>2, <2>3, <2>4
<1>6. ASSUME NEW u \in Tasks, SyncSubmit(u)
      PROVE  Held
  <2>1. /\ u \in Immediate /\ interval[u] = "none"
        /\ UNCHANGED <<interval, due, dirty, pc>>
    BY <1>0, <1>6, NewIsIdle DEF SyncSubmit, dbVars, loopVars
  <2>2. PICK h \in Jobs : Adds(h, u, "run")
    BY <1>6, SubmitAdds DEF SyncSubmit, dbVars
  <2> QED
    BY <1>1, <1>2, <2>1, <2>2
<1>7. ASSUME NEW i \in Jobs, resume_task(i)
      PROVE  Held
  <2>1. UNCHANGED <<interval, due, dirty, pc>>
    BY <1>7 DEF resume_task, dbVars
  <2>2. task_of[i] \in Tasks
    BY <1>0, <1>7 DEF resume_task, Oldest, LoopOK, JobsOK, JobOK, TypeOK
  <2>3. ASSUME NEW h \in Jobs, Adds(h, task_of[i], "resume")
        PROVE  NotBegun(j) /\ task_of'[j] = task_of[j]
    BY <1>0, <2>2, <2>3 DEF Adds, NotBegun, TypeOK
  <2> QED
    BY <1>1, <1>3, <1>7, <2>1, <2>2, <2>3, SubmitAdds DEF resume_task, dbVars
<1>8. ASSUME NEW h \in Jobs, do_work(h)
      PROVE  Held
  <2>1. UNCHANGED <<interval, due, dirty, pc, task_of, mode>>
    BY <1>0, <1>8, Work DEF loopVars
  <2>2. status[j] = "accepted"
    BY <1>0, <1>8, Work DEF NotBegun
  <2> QED
    BY <1>1, <2>1, <2>2 DEF NotBegun
<1>9. ASSUME NEW u \in Tasks, Request(u) \/ SyncGiveUp(u) \/ ComeDue(u)
      PROVE  Held
  <2>1. NotBegun(j) /\ t = task_of[j]
    BY <1>3, <1>9 DEF Request, submit_schedule, submit_sync, SyncGiveUp, ComeDue, dbVars
  <2>2. CASE submit_sync(u)
    BY <1>1, <2>1, <2>2 DEF submit_sync, dbVars, loopVars
  <2>3. CASE submit_schedule(u) \/ SyncGiveUp(u) \/ ComeDue(u)
    <3>1. u # t /\ t \in Tasks
      BY <1>0, <2>1, <2>3, NotBegunHolds
    <3>2. /\ (t \in due' => t \in due) /\ interval'[t] = interval[t] /\ UNCHANGED <<dirty, pc>>
      BY <1>0, <2>3, <3>1 DEF submit_schedule, SyncGiveUp, ComeDue, loopVars, dbVars, TypeOK
    <3> QED
      BY <1>0, <2>1, <3>2 DEF SubmitsIdle
  <2> QED
    BY <1>9, <2>2, <2>3 DEF Request
<1>10. ASSUME CalendarBegin
       PROVE  Held
  <2>1. NotBegun(j) /\ t = task_of[j] /\ t \in Tasks
    BY <1>0, <1>3, <1>10, NotBegunHolds DEF CalendarBegin
  <2> QED
    BY <1>0, <1>10, <2>1 DEF CalendarBegin, CommitIntervals, SubmitsIdle
<1>11. ASSUME LoopBegin \/ StartService \/ InitEnd \/ LoopEnd
       PROVE  Held
  <2>1. NotBegun(j) /\ t = task_of[j] /\ UNCHANGED <<interval, due>>
    BY <1>3, <1>11 DEF LoopBegin, StartService, InitEnd, LoopEnd, dbVars
  <2>2. ~LoopEnd
    BY <1>0, <2>1, NotBegunHolds
  <2>3. pc # "calendar" /\ dirty \subseteq dirty'
    BY <1>0, <1>11, <2>2 DEF LoopBegin, StartService, InitEnd, LoopOK
  <2> QED
    BY <1>0, <2>1, <2>3 DEF SubmitsIdle
<1>12. ASSUME NEW u \in Tasks, IntervalDelay(u)
       PROVE  Held
  BY <1>1, <1>3, <1>12 DEF IntervalDelay, dbVars
<1>13. ~Crash
  BY <1>0 DEF Crash, NotBegun, Pool!Held, TypeOK
<1>14. CASE UNCHANGED vars
  BY <1>1, <1>3, <1>14 DEF vars, dbVars, loopVars
<1> QED
  BY <1>0, <1>4, <1>5, <1>6, <1>7, <1>8, <1>9, <1>10, <1>11, <1>12, <1>13, <1>14
  DEF Next, Service, RequestGoesOn

LEMMA NothingInHandWhenDown ==
  ASSUME IInv, [Next]_vars, deaths' = 0
  PROVE  pc' # "dead" /\ (pc' = "down" => Pool!Held' = {})
<1>0. TypeOK /\ JobsOK /\ RowsOK /\ RequestsOK /\ SubmitsIdle /\ deaths = 0 /\ ~ThreadDies
  BY FaultsGrow DEF IInv
<1>1. CASE Crash
  BY <1>0, <1>1 DEF Crash, Pool!Held, TypeOK
<1>2. \A j \in Jobs : do_work(j) => pc' = pc
  BY <1>0, Work DEF loopVars
<1>3. CASE ~Crash
  <2>1. pc' # "dead" /\ (pc' = "down" => pc = "down")
    BY <1>0, <1>2, <1>3
    DEF Next, vars, loopVars, Request, RequestGoesOn, submit_schedule, submit_sync, SyncSubmit,
        SyncGiveUp, ComeDue, Service, IntervalSubmit, IntervalDelay, CalendarSubmit, resume_task,
        LoopBegin, CalendarBegin, LoopEnd, StartService, InitEnd, SubmitsIdle
  <2>2. ASSUME pc' = "down"
        PROVE  UNCHANGED jobVars /\ Pool!Held = {}
    <3>1. pc = "down" /\ Pool!Held = {} /\ \A u \in Tasks : ~SyncSubmit(u)
      BY <1>0, <2>1, <2>2 DEF SubmitsIdle, RequestsOK, SyncSubmit
    <3>2. \A j \in Jobs : ~do_work(j)
      BY <1>0, <3>1, Work
    <3> QED
      BY <1>0, <1>3, <2>2, <3>1, <3>2
      DEF Next, vars, Request, RequestGoesOn, submit_schedule, submit_sync, SyncGiveUp, ComeDue,
          Service, IntervalSubmit, IntervalDelay, CalendarSubmit, resume_task, LoopBegin,
          CalendarBegin, LoopEnd, StartService, InitEnd
  <2> QED
    BY <2>1, <2>2 DEF jobVars, Pool!Held
<1> QED
  BY <1>1, <1>3

LEMMA SubmitsStayIdle ==
  ASSUME IInv, [Next]_vars
  PROVE  SubmitsIdle'
BY NothingInHandWhenDown, BatchStaysIdle, InitBatchStaysFree, NotBegunStays, Zenon DEF SubmitsIdle

-----------------------------------------------------------------------------
LEMMA Initially == Init => IInv
<1> SUFFICES ASSUME Init
             PROVE  IInv
  OBVIOUS
<1>1. TypeOK
  <2>1. 0 \in 0..MaxCrashes /\ 0 \in 0..MaxDeaths
    BY MaxCrashes \in Nat, MaxDeaths \in Nat
  <2> QED
    BY <2>1 DEF Init, TypeOK, Finished
<1>2. \A j \in Jobs : task_of[j] = None /\ status[j] = "new" /\ results[j] = "none"
  BY DEF Init
<1>3. Pool!Held = {} /\ JobsOK
  BY <1>2 DEF Init, Pool!Held, JobsOK, JobOK
<1>4. RowsOK /\ OneJob /\ OneRow /\ RunningIsRecorded
  BY <1>2, <1>3 DEF Init, RowsOK, OneJob, OneRow, RunningIsRecorded, Executing
<1>5. RequestsOK /\ LoopOK
  BY <1>2, <1>3 DEF Init, RequestsOK, LoopOK, Tasks
<1>6. DirtyStands /\ OnceSubmitted /\ NeverForgotten /\ SubmitsIdle
  BY <1>2, <1>3 DEF Init, DirtyStands, OnceSubmitted, NeverForgotten, SubmitsIdle, NotBegun, Tasks
<1> QED
  BY <1>1, <1>3, <1>4, <1>5, <1>6 DEF IInv

LEMMA Inductive == IInv /\ [Next]_vars => IInv'
<1> SUFFICES ASSUME IInv, [Next]_vars
             PROVE  IInv'
  OBVIOUS
<1>1. TypeOK' /\ JobsOK' /\ RowsOK'
  BY TypeStays, JobsStayOK, RowsStayOK
<1>2. RequestsOK' /\ LoopOK' /\ DirtyStands' /\ NeverForgotten'
  BY RequestsStayOK, LoopStaysOK, DirtyStays, NotForgottenYet
<1>3. OnceSubmitted' /\ OneJob' /\ SubmitsIdle' /\ RunningIsRecorded'
  BY OnceStays, OneJobStays, SubmitsStayIdle, RecordedStays
<1>4. OneRow'
  BY OneRowStays DEF OneRow
<1> QED
  BY <1>1, <1>2, <1>3, <1>4 DEF IInv

(* The inductive invariant holds of every execution.                       *)
THEOREM Invariant == Spec => []IInv
BY Initially, Inductive, PTL DEF Spec

(* The variables have their types, and a task's row in task_intervals its  *)
(* three states.                                                           *)
THEOREM TypeCorrect == Spec => []TypeOK
BY Invariant, PTL DEF IInv

(* check_prior_execution(), as the loop calls it, and init() together keep *)
(* one recorded task from being carried out by two workers.                *)
THEOREM NoTwoExecutions == Spec => []RecordedTasksDoNotOverlap
<1>1. IInv => RecordedTasksDoNotOverlap
  <2> SUFFICES ASSUME IInv, deaths = 0, NEW i \in Jobs, NEW j \in Jobs, Executing(i), Executing(j),
                      task_of[i] \in Tasks \ Quiet, task_of[i] = task_of[j]
               PROVE  i = j
    BY DEF RecordedTasksDoNotOverlap, NoOverlap
  <2> QED
    BY DEF IInv, OneJob, Executing, Pool!Held
<1> QED
  BY <1>1, Invariant, PTL

(* While a recorded task is carried out the row that its worker writes is  *)
(* its own and says STARTED, which is what check_prior_execution() reads.  *)
THEOREM RunningHasItsRow == Spec => []RunningIsRecorded
BY Invariant, PTL DEF IInv

(* task_success() and task_fail() write no row that says how an earlier    *)
(* execution ended.                                                        *)
THEOREM FinalRowsStay == Spec => ResultsAreFinal
<1>1. IInv /\ [Next]_vars =>
        [deaths = 0 => \A i \in Jobs : results[i] \in Finished => results'[i] = results[i]]_vars
  BY FinalStays
<1> QED
  BY <1>1, Invariant, PTL DEF Spec, ResultsAreFinal

(* Whatever the pool and the loop do, an interval, a job in hand or a row  *)
(* stands for what a user scheduled or submitted.                          *)
THEOREM NothingForgotten == Spec => []NeverForgotten
BY Invariant, PTL DEF IInv

(* submit_sync() and the loop never both submit a task to run once, and    *)
(* the loop does not do so twice.                                          *)
THEOREM OnceIsOnce == Spec => []OnceMeansOnce
<1>1. IInv => OnceMeansOnce
  <2> SUFFICES ASSUME IInv, crashes = 0, deaths = 0, NEW t \in Scheduled \cup Immediate
               PROVE  Cardinality(Ran(t)) <= 1
    BY DEF OnceMeansOnce
  <2>1. \A i, j \in Ran(t) : i = j
    BY DEF IInv, OnceSubmitted, Ran
  <2>2. CASE Ran(t) = {}
    BY <2>2, FS_EmptySet
  <2>3. ASSUME NEW j \in Ran(t)
        PROVE  Cardinality(Ran(t)) <= 1
    <3>1. Ran(t) = {j}
      BY <2>1, <2>3
    <3> QED
      BY <3>1, FS_Singleton
  <2> QED
    BY <2>2, <2>3
<1> QED
  BY <1>1, Invariant, PTL

-----------------------------------------------------------------------------
(* The refinement of TaskLog, by what a step does to the jobs.             *)
LEMMA LogStays ==
  ASSUME results' = results,
         \A i \in Jobs : Owner(i)' = Owner(i),
         \A t \in Tasks \ Quiet : Executions(t)' = Executions(t)
  PROVE  UNCHANGED Log!vars
BY DEF Log!vars

(* The rows of a task that say STARTED are those the log calls open.       *)
LEMMA OpenIsStarted ==
  ASSUME NEW t \in Tasks
  PROVE  Log!Open(t) = Started(t)
BY DEF Log!Open, Started, Owner

(* Who executes a task has it in hand.                                     *)
LEMMA ExecutionIsHeld ==
  ASSUME NEW t, NEW j \in Executions(t)
  PROVE  j \in Pool!Held /\ j \in Jobs /\ task_of[j] = t
BY DEF Executions, Executing, Pool!Held

(* A submission leaves the log alone: it opens no row and begins nothing.  *)
LEMMA AddsLogsNothing ==
  ASSUME IInv, NEW j \in Jobs, NEW t, NEW m, Adds(j, t, m)
  PROVE  UNCHANGED Log!vars
<1>0. TypeOK /\ results' = results /\ stage' = stage /\ status[j] = "new" /\ results[j] = "none"
  BY DEF Adds, IInv, JobsOK, JobOK
<1>1. \A i \in Jobs : status'[i] = IF i = j THEN "accepted" ELSE status[i]
  BY <1>0 DEF Adds, TypeOK
<1>2. \A i \in Jobs : i # j => task_of'[i] = task_of[i]
  BY <1>0 DEF Adds, TypeOK
<1>3. \A i \in Jobs : Owner(i)' = Owner(i)
  BY <1>0, <1>2 DEF Owner
<1>4. \A i \in Jobs : (Executing(i)' <=> Executing(i)) /\ (Executing(i) => i # j)
  BY <1>0, <1>1 DEF Executing
<1>5. \A u \in Tasks \ Quiet : Executions(u)' = Executions(u)
  BY <1>2, <1>4 DEF Executions
<1> QED
  BY <1>0, <1>3, <1>5, LogStays

(* A refusal is a row of its own, for a task of which none is open.        *)
LEMMA RefusalIsLogged ==
  ASSUME IInv, NEW j \in Jobs, NEW t \in Tasks, task_fail_start(j, t), t \notin Quiet => Idle(t)
  PROVE  Log!Next
<1>0. /\ TypeOK /\ JobsOK /\ stage' = stage /\ status' = status
      /\ task_of[j] = None /\ status[j] = "new" /\ results[j] = "none"
  BY DEF task_fail_start, IsNext, Unused, IInv, JobsOK, JobOK
<1>1. Log!Open(t) = {}
  <2>1. Started(t) = {}
    BY <1>0 DEF Started, Idle, JobsOK, JobOK
  <2> QED
    BY <2>1, OpenIsStarted
<1>2. results' = [results EXCEPT ![j] = "FAILED"] /\ task_of' = [task_of EXCEPT ![j] = t]
  BY DEF task_fail_start
<1>3. [i \in Jobs |-> Owner(i)]' = [[i \in Jobs |-> Owner(i)] EXCEPT ![j] = t]
  BY <1>0, <1>2 DEF Owner, TypeOK
<1>4. \A i \in Jobs : /\ Executing(i)' <=> Executing(i)
                      /\ Executing(i) => task_of'[i] = task_of[i]
  BY <1>0, <1>2 DEF Executing, TypeOK
<1>5. \A u \in Tasks \ Quiet : Executions(u)' = Executions(u)
  BY <1>0, <1>2, <1>4 DEF Executions, Executing, TypeOK
<1>6. [u \in Tasks \ Quiet |-> Executions(u)]' = [u \in Tasks \ Quiet |-> Executions(u)]
  BY <1>5
<1>7. Log!Refuse(j, t)
  BY <1>0, <1>1, <1>2, <1>3, <1>6 DEF Log!Refuse, Log!NewRow
<1> QED
  BY <1>7 DEF Log!Next

(* What a crash ends is the executions, all of them.                       *)
LEMMA CrashIsLogged ==
  ASSUME IInv, Crash
  PROVE  Log!Next
<1>1. results' = results /\ task_of' = task_of /\ TypeOK
  BY DEF Crash, dbVars, IInv
<1>2. \A j \in Jobs : ~Executing(j)'
  BY <1>1 DEF Crash, Executing, Pool!Held, TypeOK
<1>3. \A t \in Tasks \ Quiet : Executions(t)' = {}
  BY <1>2 DEF Executions
<1>4. Log!Crash
  BY <1>1, <1>3 DEF Log!Crash, Owner
<1> QED
  BY <1>4 DEF Log!Next

(* The only execution of a recorded task is that of its one job in hand.   *)
LEMMA OnlyExecution ==
  ASSUME IInv, deaths = 0, NEW j \in Pool!Held, task_of[j] \in Tasks \ Quiet
  PROVE  Executions(task_of[j]) = IF status[j] = "running" THEN {j} ELSE {}
<1>1. j \in Jobs /\ OneJob /\ (status[j] = "running" => stage[j] = "exec")
  BY DEF IInv, JobsOK, JobOK, Pool!Held
<1>2. \A i \in Executions(task_of[j]) : i = j
  BY <1>1, ExecutionIsHeld DEF OneJob
<1>3. j \in Executions(task_of[j]) <=> status[j] = "running"
  BY <1>1 DEF Executions, Executing
<1> QED
  BY <1>2, <1>3

(* What a worker's step leaves alone: the owners of the rows there are,    *)
(* and the executions of other tasks.                                      *)
LEMMA WorkKeeps ==
  ASSUME IInv, NEW j \in Jobs, do_work(j)
  PROVE  /\ \A i \in Jobs : results[i] # "none" => Owner(i)' = Owner(i)
         /\ \A t \in Tasks : t # task_of[j] => Executions(t)' = Executions(t)
<1>0. TypeOK /\ JobsOK /\ RowsOK
  BY DEF IInv
<1>1. /\ task_of' = task_of
      /\ \A i \in Jobs \ {j} : status'[i] = status[i] /\ stage'[i] = stage[i]
      /\ \A i \in Jobs : results'[i] # results[i] => results'[i] # "none"
  BY <1>0, Work
<1>2. \A i \in Jobs : results[i] # "none" => Owner(i)' = Owner(i)
  BY <1>1 DEF Owner
<1>3. \A i \in Jobs \ {j} : Executing(i)' <=> Executing(i)
  BY <1>1 DEF Executing
<1>4. \A t \in Tasks : t # task_of[j] => Executions(t)' = Executions(t)
  BY <1>1, <1>3 DEF Executions
<1> QED
  BY <1>2, <1>4

(* A quiet task leaves no trace in the log.                                *)
LEMMA QuietLogsNothing ==
  ASSUME IInv, NEW j \in Jobs, do_work(j), task_of[j] \in Quiet
  PROVE  UNCHANGED Log!vars
<1>0. TypeOK /\ JobsOK /\ RowsOK
  BY DEF IInv
<1>1. results' = results
  BY DEF do_work, task_started, ResumeStarted, ResumeFails, WorkEnds, dbVars
<1>2. task_of' = task_of
  BY <1>0, Work
<1>3. \A i \in Jobs : Owner(i)' = Owner(i)
  BY <1>1, <1>2 DEF Owner
<1> QED
  BY <1>1, <1>3, WorkKeeps, LogStays

(* A new execution: no row of the task is open and nobody executes it.     *)
LEMMA StartIsLogged ==
  ASSUME IInv, deaths = 0, NEW j \in Jobs, task_started(j), task_of[j] \notin Quiet
  PROVE  Log!Next
<1>0. /\ TypeOK /\ JobsOK /\ RowsOK /\ OneRow /\ do_work(j)
      /\ status[j] = "accepted" /\ mode[j] = "run" /\ j \in Pool!Held
  BY DEF IInv, do_work, task_started, Pool!Start, Pool!Becomes, Pool!Held
<1>1. task_of[j] \in Tasks \ Quiet /\ task_of' = task_of /\ results[j] = "none"
  BY <1>0, Work DEF JobsOK, JobOK
<1> PICK t \in Tasks \ Quiet : t = task_of[j]
  BY <1>1
<1>2. Started(t) = {}
  BY <1>0 DEF OneRow, Started
<1>3. Executions(t) = {}
  BY <1>0, <1>1, OnlyExecution
<1>4. results' = [results EXCEPT ![j] = "STARTED"]
  BY DEF task_started
<1>5. [i \in Jobs |-> Owner(i)]' = [[i \in Jobs |-> Owner(i)] EXCEPT ![j] = t]
  BY <1>0, <1>1, <1>4 DEF Owner, TypeOK
<1>6. status'[j] = "running" /\ stage'[j] = "exec"
  BY <1>0 DEF task_started, Pool!Start, Pool!Becomes, TypeOK
<1>7. \A i \in Jobs \ {j} : Executing(i)' <=> Executing(i)
  BY <1>0, Work DEF Executing
<1>8. Executions(t)' = {j}
  BY <1>1, <1>3, <1>6, <1>7 DEF Executions, Executing
<1>9. [u \in Tasks \ Quiet |-> Executions(u)]' =
        [[u \in Tasks \ Quiet |-> Executions(u)] EXCEPT ![t] = {j}]
  BY <1>0, <1>8, WorkKeeps
<1>10. Log!Begin(j, t)
  BY <1>1, <1>2, <1>3, <1>4, <1>5, <1>9, OpenIsStarted
  DEF Log!Begin, Log!NewRow, Log!Enters
<1> QED
  BY <1>10 DEF Log!Next

(* A resumed execution: the row it takes over is open.                     *)
LEMMA ResumptionIsLogged ==
  ASSUME IInv, deaths = 0, NEW j \in Jobs, ResumeStarted(j), task_of[j] \notin Quiet
  PROVE  Log!Next
<1>0. /\ TypeOK /\ JobsOK /\ RowsOK /\ do_work(j)
      /\ status[j] = "accepted" /\ j \in Pool!Held /\ results' = results
  BY DEF IInv, do_work, ResumeStarted, Pool!Start, Pool!Becomes, Pool!Held, dbVars
<1>1. task_of[j] \in Tasks \ Quiet /\ task_of' = task_of
  BY <1>0, Work
<1> PICK t \in Tasks \ Quiet : t = task_of[j]
  BY <1>1
<1>2. Started(t) # {}
  BY DEF ResumeStarted
<1>3. Executions(t) = {}
  BY <1>0, <1>1, OnlyExecution
<1>4. [i \in Jobs |-> Owner(i)]' = [i \in Jobs |-> Owner(i)]
  BY <1>0, <1>1 DEF Owner
<1>6. status'[j] = "running" /\ stage'[j] = "exec"
  BY <1>0 DEF ResumeStarted, Pool!Start, Pool!Becomes, TypeOK
<1>7. \A i \in Jobs \ {j} : Executing(i)' <=> Executing(i)
  BY <1>0, Work DEF Executing
<1>8. Executions(t)' = {j}
  BY <1>1, <1>3, <1>6, <1>7 DEF Executions, Executing
<1>9. [u \in Tasks \ Quiet |-> Executions(u)]' =
        [[u \in Tasks \ Quiet |-> Executions(u)] EXCEPT ![t] = {j}]
  BY <1>0, <1>8, WorkKeeps
<1>10. Log!Resume(j, t)
  BY <1>0, <1>2, <1>3, <1>4, <1>9, OpenIsStarted DEF Log!Resume, Log!Enters
<1> QED
  BY <1>10 DEF Log!Next

(* The end of an execution: its row was open and gets the outcome.         *)
LEMMA EndIsLogged ==
  ASSUME IInv, deaths = 0, NEW j \in Jobs, NEW outcome \in Finished, WorkEnds(j, outcome),
         task_of[j] \notin Quiet
  PROVE  Log!Next
<1>0. /\ TypeOK /\ JobsOK /\ RowsOK /\ do_work(j)
      /\ status[j] = "running" /\ stage[j] = "exec" /\ j \in Pool!Held
  BY DEF IInv, do_work, WorkEnds, Pool!Finish, Pool!Becomes, Pool!Held
<1>1. task_of[j] \in Tasks \ Quiet /\ task_of' = task_of
  BY <1>0, Work
<1> PICK t \in Tasks \ Quiet : t = task_of[j]
  BY <1>1
<1>2. task_of[row[j]] = task_of[j] /\ results[row[j]] = "STARTED" /\ row[j] \in Jobs
  BY <1>0 DEF IInv, RunningIsRecorded, Executing, TypeOK
<1> PICK i \in Jobs : i = row[j]
  BY <1>2
<1>3. i \in Log!Open(t)
  BY <1>2, OpenIsStarted DEF Started
<1>4. results' = [results EXCEPT ![i] = outcome]
  BY DEF WorkEnds
<1>5. Executions(t) = {j}
  BY <1>0, <1>1, OnlyExecution
<1>6. stage'[j] = "end"
  BY <1>0 DEF WorkEnds, TypeOK
<1>7. \A h \in Jobs \ {j} : Executing(h)' <=> Executing(h)
  BY <1>0, Work DEF Executing
<1>8. Executions(t)' = {}
  BY <1>1, <1>5, <1>6, <1>7 DEF Executions, Executing
<1>9. [u \in Tasks \ Quiet |-> Executions(u)]' =
        [[u \in Tasks \ Quiet |-> Executions(u)] EXCEPT ![t] = {}]
  BY <1>0, <1>8, WorkKeeps
<1>10. [h \in Jobs |-> Owner(h)]' = [h \in Jobs |-> Owner(h)]
  BY <1>1, <1>2, <1>4 DEF Owner, Finished, TypeOK
<1>11. Log!End(t, outcome)
  BY <1>3, <1>4, <1>5, <1>9, <1>10 DEF Log!End
<1> QED
  BY <1>11 DEF Log!Next, Log!Outcomes, Finished

(* Every step is a step of the log, or none, while the thread lives.       *)
LEMMA LogStep ==
  ASSUME IInv, [Next]_vars, deaths' = 0
  PROVE  [Log!Next]_Log!vars
<1>0. IdleStep /\ deaths = 0
  BY IdleSteps, FaultsGrow DEF IInv
<1>1. CASE Same
  BY <1>1, LogStays DEF Same, jobVars, Owner, Executions, Executing
<1>2. ASSUME NEW j \in Jobs, NEW t \in Tasks, AddsRun(j, t)
      PROVE  UNCHANGED Log!vars
  BY <1>2, AddsLogsNothing DEF AddsRun
<1>3. ASSUME NEW j \in Jobs, NEW i \in Jobs, AddsResume(j, i)
      PROVE  UNCHANGED Log!vars
  BY <1>3, AddsLogsNothing DEF AddsResume
<1>4. ASSUME NEW j \in Jobs, NEW t \in Tasks, Refuses(j, t)
      PROVE  Log!Next
  BY <1>0, <1>4, RefusalIsLogged DEF Refuses
<1>5. ASSUME NEW j \in Jobs, do_work(j)
      PROVE  [Log!Next]_Log!vars
  <2>1. CASE task_of[j] \in Quiet
    BY <1>5, <2>1, QuietLogsNothing
  <2>2. CASE task_of[j] \notin Quiet
    <3>1. ~ResumeFails(j)
      BY <1>0 DEF ResumeFails, IInv, OneRow, Started
    <3> QED
      BY <1>0, <1>5, <2>2, <3>1, StartIsLogged, ResumptionIsLogged, EndIsLogged DEF do_work
  <2> QED
    BY <2>1, <2>2
<1>6. CASE Crash
  BY <1>6, CrashIsLogged
<1> QED
  BY <1>0, <1>1, <1>2, <1>3, <1>4, <1>5, <1>6 DEF IdleStep

LEMMA LogInitially == Init => Log!Init
<1> SUFFICES ASSUME Init
             PROVE  Log!Init
  OBVIOUS
<1>1. \A t \in Tasks \ Quiet : Executions(t) = {}
  BY DEF Init, Executions, Executing
<1> QED
  BY <1>1 DEF Init, Log!Init, Owner

(* For any tasks and any faults: until the service's thread dies alone,    *)
(* task_results is the log of the executions.                              *)
THEOREM LogKept == Spec => Log!Init /\ [][deaths' = 0 => [Log!Next]_Log!vars]_vars
<1>1. IInv /\ [Next]_vars => [deaths' = 0 => [Log!Next]_Log!vars]_vars
  BY LogStep
<1> QED
  BY <1>1, LogInitially, Invariant, PTL DEF Spec

(* So where that thread never dies alone, crashes or not, the Task Manager *)
(* implements TaskLog.                                                     *)
THEOREM LogImplemented ==
  ASSUME MaxDeaths = 0
  PROVE  Spec => ImplementsLog
<1>1. IInv /\ [Next]_vars => [Log!Next]_Log!vars
  <2> SUFFICES ASSUME IInv, [Next]_vars
               PROVE  [Log!Next]_Log!vars
    OBVIOUS
  <2>1. deaths' = 0
    BY FaultsGrow DEF IInv
  <2> QED
    BY <2>1, LogStep
<1> QED
  BY <1>1, LogInitially, Invariant, PTL DEF Spec, ImplementsLog, Log!Spec

=============================================================================

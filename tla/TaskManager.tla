---------------------------- MODULE TaskManager ----------------------------
(***************************************************************************)
(* The Task Manager service (core/services/task_service.py) and the life   *)
(* of a task (do_work and its kin in model/services.py): which tasks are   *)
(* submitted to the Execution Service, what is recorded about them in the  *)
(* database, and what is left of that after the service's thread dies or   *)
(* the whole process crashes.  The Execution Service is the abstract pool  *)
(* WorkPool.  A job is one submission of a task; the TaskResult row that   *)
(* an execution writes is known by the job that created it, as the table   *)
(* knows it by task_id and timestamp.                                      *)
(***************************************************************************)
EXTENDS FiniteSets, Integers

CONSTANTS Repeating,   \* tasks with a TaskInterval row whose interval is > 0
          Scheduled,   \* tasks users schedule once, with submit_schedule()
          Immediate,   \* tasks users submit at once, with submit_sync()
          Calendar,    \* tasks with a TaskCalendar row
          Quiet,       \* tasks whose context holds quiet = True
          NumThreads,  \* workers of the Execution Service
          MaxJobs,     \* bound: submissions
          MaxCrashes,  \* bound: crashes of the process
          MaxDeaths,   \* bound: exceptions that end the service's thread
          None

Tasks == Repeating \cup Scheduled \cup Immediate \cup Calendar
Jobs == 1..MaxJobs

ASSUME TaskAssumption == None \notin Tasks /\ Quiet \subseteq Tasks
ASSUME KindAssumption == /\ Repeating \cap (Scheduled \cup Immediate) = {}
                         /\ Calendar \cap (Repeating \cup Scheduled \cup Immediate) = {}
ASSUME BoundAssumption == {NumThreads, MaxJobs, MaxCrashes, MaxDeaths} \subseteq Nat

VARIABLES
  (* in the database *)
  interval,    \* the task's TaskInterval row: "none", "once" or "repeat"
  due,         \* tasks whose row has next_execution <= now
  results,     \* status of the TaskResult row each job created, or "none"
  (* in the process *)
  status,      \* the pool's account of each job
  task_of,     \* the task of each job, or None
  mode,        \* "run" or "resume", by the kw new_work was given
  stage,       \* how far do_work is: "none", "exec" or "end"
  row,         \* the job whose TaskResult row this job writes (curr_instance)
  request,     \* where the user's request for a task is
  pc,          \* where the service's thread is
  batch,       \* the rows or jobs its for loop has still to handle
  seen,        \* tasks with a STARTED result in its transaction's snapshot
  dirty,       \* interval rows its session has changed and not committed
  crashes, deaths

dbVars   == <<interval, due, results>>
jobVars  == <<status, task_of, mode, stage, row>>
loopVars == <<pc, batch, seen, dirty>>
faults   == <<crashes, deaths>>
vars == <<dbVars, jobVars, request, loopVars, faults>>

Pool == INSTANCE WorkPool WITH NumSlots <- NumThreads, stopping <- FALSE

Finished == {"FAILED", "SUCCEEDED", "CANCELED"}
Started(t) == {i \in Jobs : task_of[i] = t /\ results[i] = "STARTED"}
StartedTasks == {t \in Tasks : Started(t) # {}}

(* Numbers for submissions, given out in the order they are made.          *)
Unused == {j \in Jobs : task_of[j] = None}
IsNext(j) == j \in Unused /\ \A i \in Unused : j <= i

-----------------------------------------------------------------------------
Init == /\ interval = [t \in Tasks |-> IF t \in Repeating THEN "repeat" ELSE "none"]
        /\ due = {}
        /\ results = [j \in Jobs |-> "none"]
        /\ status = [j \in Jobs |-> "new"]
        /\ task_of = [j \in Jobs |-> None]
        /\ mode = [j \in Jobs |-> "run"]
        /\ stage = [j \in Jobs |-> "none"]
        /\ row = [j \in Jobs |-> j]
        /\ request = [t \in Tasks |-> "none"]
        /\ pc = "idle"
        /\ batch = {} /\ seen = {} /\ dirty = {}
        /\ crashes = 0 /\ deaths = 0

-----------------------------------------------------------------------------
(* new_work(t, kw): the pool takes the job on.                             *)
Submit(j, t, m) == /\ IsNext(j)
                   /\ Pool!Accept(j)
                   /\ task_of' = [task_of EXCEPT ![j] = t]
                   /\ mode' = [mode EXCEPT ![j] = m]
                   /\ UNCHANGED <<stage, row>>

(* submit_task() tries for max_sleep seconds and returns False when every  *)
(* attempt met with ThreadLimitException.  Workers that are marked busy    *)
(* for ever (see the run ExecLeak) make the pool a smaller one; the proofs *)
(* leave it open when a submission is given up.                            *)
GivesUp == Pool!Full

(* task_fail_start(): a row that says FAILED, for a task that never began. *)
task_fail_start(j, t) == /\ IsNext(j)
                         /\ task_of' = [task_of EXCEPT ![j] = t]
                         /\ results' = [results EXCEPT ![j] = "FAILED"]
                         /\ UNCHANGED <<status, mode, stage, row>>

(* Mutant: nothing is recorded when the pool stays full.                   *)
SubmitAsyncSilently(t) == \E j \in Jobs : \/ Submit(j, t, "run") /\ UNCHANGED results
                                          \/ GivesUp /\ UNCHANGED <<jobVars, results>>

(* submit_async(): one way or the other the caller goes on.                *)
submit_async(t) == \E j \in Jobs : \/ Submit(j, t, "run") /\ UNCHANGED results
                                   \/ GivesUp /\ task_fail_start(j, t)

-----------------------------------------------------------------------------
(* submit_schedule(): the task and its one-time interval, in one commit.   *)
submit_schedule(t) == /\ t \in Scheduled
                      /\ request[t] = "none"
                      /\ pc # "down"
                      /\ request' = [request EXCEPT ![t] = "done"]
                      /\ interval' = [interval EXCEPT ![t] = "once"]
                      /\ UNCHANGED <<due, results, jobVars, loopVars, faults>>

(* submit_sync(): the task is committed, then submitted by the thread of   *)
(* the request; if the pool stays full it gets an interval that is due.    *)
submit_sync(t) == /\ t \in Immediate
                  /\ request[t] = "none"
                  /\ pc # "down"
                  /\ request' = [request EXCEPT ![t] = "submit"]
                  /\ UNCHANGED <<dbVars, jobVars, loopVars, faults>>

SyncSubmit(t) == /\ request[t] = "submit"
                 /\ \E j \in Jobs : Submit(j, t, "run")
                 /\ request' = [request EXCEPT ![t] = "done"]
                 /\ UNCHANGED <<dbVars, loopVars, faults>>

(* Mutant: the task is left without an interval.                           *)
SyncGiveUpForgets(t) == /\ request[t] = "submit"
                        /\ GivesUp
                        /\ request' = [request EXCEPT ![t] = "done"]
                        /\ UNCHANGED <<dbVars, jobVars, loopVars, faults>>

SyncGiveUp(t) == /\ request[t] = "submit"
                 /\ GivesUp
                 /\ interval' = [interval EXCEPT ![t] = "once"]
                 /\ due' = due \cup {t}
                 /\ request' = [request EXCEPT ![t] = "done"]
                 /\ UNCHANGED <<results, jobVars, loopVars, faults>>

(* Time passes.  A worker is assumed to come from its wake-up to the first *)
(* line of do_work in less than the shortest interval, one minute.         *)
ComeDue(t) == /\ interval[t] # "none"
              /\ t \notin due
              /\ \A j \in Pool!Held : task_of[j] = t => stage[j] # "none"
              /\ due' = due \cup {t}
              /\ UNCHANGED <<interval, results, jobVars, request, loopVars, faults>>

Request(t) == submit_schedule(t) \/ submit_sync(t)
RequestGoesOn(t) == SyncSubmit(t) \/ SyncGiveUp(t)

-----------------------------------------------------------------------------
(* Mutant: rows that are to run once are deleted as they are read.         *)
LoopBeginDeletes == /\ pc = "idle"
                    /\ batch' = {t \in due : interval[t] # "none"}
                    /\ seen' = StartedTasks
                    /\ dirty' = {}
                    /\ pc' = "intervals"
                    /\ interval' = [t \in Tasks |-> IF t \in due /\ interval[t] = "once"
                                                   THEN "none" ELSE interval[t]]
                    /\ UNCHANGED <<due, results, jobVars, request, faults>>

(* loop(): check_interval_tasks() reads the intervals that are due; what   *)
(* it reads of task_results later comes from the same snapshot.            *)
LoopBegin == /\ pc = "idle"
             /\ batch' = {t \in due : interval[t] # "none"}
             /\ seen' = StartedTasks
             /\ dirty' = {}
             /\ pc' = "intervals"
             /\ UNCHANGED <<dbVars, jobVars, request, faults>>

(* Mutant: nobody looks for a prior execution.                             *)
NoCheck(t) == t \in Tasks

check_prior_execution(t) == t \notin seen

(* A due task whose prior execution is over is submitted, and its row is   *)
(* changed in the session; the others stay due.                            *)
IntervalSubmit(t) == /\ pc = "intervals"
                     /\ t \in batch
                     /\ check_prior_execution(t)
                     /\ submit_async(t)
                     /\ dirty' = dirty \cup {t}
                     /\ batch' = batch \ {t}
                     /\ UNCHANGED <<interval, due, request, pc, seen, faults>>

IntervalDelay(t) == /\ pc = "intervals"
                    /\ t \in batch
                    /\ ~check_prior_execution(t)
                    /\ batch' = batch \ {t}
                    /\ UNCHANGED <<dbVars, jobVars, request, pc, seen, dirty, faults>>

(* Mutant: the row of a task to run once is not deleted.                   *)
CommitKeepsOnce == /\ due' = due \ dirty
                   /\ dirty' = {}
                   /\ UNCHANGED <<interval, results>>

(* The commit: a repeating task comes due again after its interval, the    *)
(* row of a task that was to run once is deleted.                          *)
CommitIntervals == /\ due' = due \ dirty
                   /\ interval' = [t \in Tasks |->
                                     IF t \in dirty /\ interval[t] = "once"
                                     THEN "none" ELSE interval[t]]
                   /\ dirty' = {}
                   /\ UNCHANGED results

(* check_calendar_tasks() follows, in a new transaction, with the tasks    *)
(* whose calendar matches the time of day.                                 *)
CalendarBegin == /\ pc = "intervals"
                 /\ batch = {}
                 /\ CommitIntervals
                 /\ batch' \in SUBSET Calendar
                 /\ seen' = StartedTasks
                 /\ pc' = "calendar"
                 /\ UNCHANGED <<jobVars, request, faults>>

CalendarSubmit(t) == /\ pc = "calendar"
                     /\ t \in batch
                     /\ IF check_prior_execution(t)
                        THEN submit_async(t) /\ UNCHANGED <<interval, due>>
                        ELSE UNCHANGED <<dbVars, jobVars>>
                     /\ batch' = batch \ {t}
                     /\ UNCHANGED <<request, pc, seen, dirty, faults>>

(* A minute or more goes by before the next round: what was submitted has  *)
(* reached its first line.                                                 *)
LoopEnd == /\ pc = "calendar"
           /\ batch = {}
           /\ \A j \in Pool!Held : stage[j] # "none"
           /\ pc' = "idle"
           /\ seen' = {}
           /\ UNCHANGED <<dbVars, jobVars, request, batch, dirty, faults>>

-----------------------------------------------------------------------------
(* init(): every result that still says STARTED is resumed, oldest first;  *)
(* resume_task() returns False if the pool stays full, and init goes on.   *)
StartService == /\ pc \in {"down", "dead"}
                /\ pc' = "init"
                /\ batch' = {i \in Jobs : results[i] = "STARTED"}
                /\ UNCHANGED <<dbVars, jobVars, request, seen, dirty, faults>>

Oldest(i) == i \in batch /\ \A k \in batch : i <= k

resume_task(i) == /\ pc = "init"
                  /\ Oldest(i)
                  /\ \/ \E j \in Jobs : Submit(j, task_of[i], "resume")
                     \/ GivesUp /\ UNCHANGED jobVars
                  /\ batch' = batch \ {i}
                  /\ UNCHANGED <<dbVars, request, pc, seen, dirty, faults>>

InitEnd == /\ pc = "init"
           /\ batch = {}
           /\ pc' = "idle"
           /\ UNCHANGED <<dbVars, jobVars, request, batch, seen, dirty, faults>>

Service == \/ \E t \in Tasks : IntervalSubmit(t) \/ IntervalDelay(t) \/ CalendarSubmit(t)
           \/ \E i \in Jobs : resume_task(i)
           \/ LoopBegin \/ CalendarBegin \/ LoopEnd \/ StartService \/ InitEnd

(* An exception in loop() ends the thread, with or without the commit of   *)
(* the rows changed so far; Service Central will start the thread again.   *)
ThreadDies == /\ deaths < MaxDeaths
              /\ pc \in {"intervals", "calendar"}
              /\ CommitIntervals \/ (dirty' = {} /\ UNCHANGED dbVars)
              /\ pc' = "dead"
              /\ batch' = {} /\ seen' = {}
              /\ deaths' = deaths + 1
              /\ UNCHANGED <<jobVars, request, crashes>>

(* The process ends: what init() will read, the database, is all that is   *)
(* left, and nobody can submit anything until Service Central has started  *)
(* the service.                                                            *)
Crash == /\ crashes < MaxCrashes
         /\ crashes' = crashes + 1
         /\ status' = [j \in Jobs |-> IF j \in Pool!Held THEN "lost" ELSE status[j]]
         /\ request' = [t \in Tasks |-> IF request[t] = "submit" THEN "lost" ELSE request[t]]
         /\ pc' = "down"
         /\ batch' = {} /\ seen' = {} /\ dirty' = {}
         /\ UNCHANGED <<dbVars, task_of, mode, stage, row, deaths>>

-----------------------------------------------------------------------------
(* A worker runs do_work(): task_started() commits a STARTED row, for a    *)
(* task that is not quiet and is not resumed ...                           *)
task_started(j) == /\ mode[j] = "run"
                   /\ Pool!Start(j)
                   /\ stage' = [stage EXCEPT ![j] = "exec"]
                   /\ results' = IF task_of[j] \in Quiet THEN results
                                 ELSE [results EXCEPT ![j] = "STARTED"]
                   /\ UNCHANGED <<interval, due, task_of, mode, row, request, loopVars, faults>>

(* Mutants: the resumed execution keeps the timestamp do_work began with,  *)
(* takes the task's first row whatever it says, or opens a row of its own. *)
ResumeAs(j, i) == /\ mode[j] = "resume"
                  /\ Pool!Start(j)
                  /\ row' = [row EXCEPT ![j] = i]
                  /\ stage' = [stage EXCEPT ![j] = "exec"]
                  /\ UNCHANGED <<dbVars, task_of, mode, request, loopVars, faults>>
ResumeOwnRow(j) == ResumeAs(j, j)
ResumeFirstRow(j) == \E i \in Jobs :
  /\ task_of[i] = task_of[j] /\ results[i] # "none"
  /\ \A h \in Jobs : task_of[h] = task_of[j] /\ results[h] # "none" => i <= h
  /\ ResumeAs(j, i)
ResumeOpensRow(j) == /\ mode[j] = "resume"
                     /\ Pool!Start(j)
                     /\ stage' = [stage EXCEPT ![j] = "exec"]
                     /\ results' = [results EXCEPT ![j] = "STARTED"]
                     /\ UNCHANGED <<interval, due, task_of, mode, row, request, loopVars, faults>>

(* ... a resumed one takes over the first row that says STARTED.           *)
ResumeStarted(j) == /\ mode[j] = "resume"
                    /\ Pool!Start(j)
                    /\ \E i \in Started(task_of[j]) :
                         /\ \A k \in Started(task_of[j]) : i <= k
                         /\ row' = [row EXCEPT ![j] = i]
                    /\ stage' = [stage EXCEPT ![j] = "exec"]
                    /\ UNCHANGED <<dbVars, task_of, mode, request, loopVars, faults>>

(* With no such row do_work fails on a name that was never assigned, and   *)
(* leaves no result.                                                       *)
ResumeFails(j) == /\ mode[j] = "resume"
                  /\ status[j] = "accepted"
                  /\ Started(task_of[j]) = {}
                  /\ status' = [status EXCEPT ![j] = "done"]
                  /\ stage' = [stage EXCEPT ![j] = "end"]
                  /\ UNCHANGED <<dbVars, task_of, mode, row, request, loopVars, faults>>

(* exec_task or resume_task returns, raises or was cancelled: task_success *)
(* or task_fail merges the outcome into the row; a quiet task leaves none. *)
WorkEnds(j, outcome) == /\ stage[j] = "exec"
                        /\ Pool!Finish(j)
                        /\ stage' = [stage EXCEPT ![j] = "end"]
                        /\ results' = IF task_of[j] \in Quiet THEN results
                                      ELSE [results EXCEPT ![row[j]] = outcome]
                        /\ UNCHANGED <<interval, due, task_of, mode, row, request,
                                       loopVars, faults>>

do_work(j) == \/ task_started(j) \/ ResumeStarted(j) \/ ResumeFails(j)
              \/ \E outcome \in Finished : WorkEnds(j, outcome)

-----------------------------------------------------------------------------
Next == \/ \E t \in Tasks : Request(t) \/ RequestGoesOn(t) \/ ComeDue(t)
        \/ \E j \in Jobs : do_work(j)
        \/ Service
        \/ ThreadDies \/ Crash

Spec == Init /\ [][Next]_vars

(* The threads of the process go on, time passes and every work ends;      *)
(* nobody is obliged to request anything, nothing is obliged to fail.      *)
Fairness == /\ \A t \in Tasks : WF_vars(RequestGoesOn(t)) /\ WF_vars(ComeDue(t))
            /\ \A j \in Jobs : WF_vars(do_work(j))
            /\ WF_vars(Service)
FairSpec == Spec /\ Fairness

-----------------------------------------------------------------------------
TypeOK == /\ interval \in [Tasks -> {"none", "once", "repeat"}]
          /\ due \subseteq Tasks
          /\ results \in [Jobs -> Finished \cup {"none", "STARTED"}]
          /\ status \in [Jobs -> {"new", "accepted", "running", "done", "lost"}]
          /\ task_of \in [Jobs -> Tasks \cup {None}]
          /\ mode \in [Jobs -> {"run", "resume"}]
          /\ stage \in [Jobs -> {"none", "exec", "end"}]
          /\ row \in [Jobs -> Jobs]
          /\ request \in [Tasks -> {"none", "submit", "done", "lost"}]
          /\ pc \in {"down", "dead", "init", "idle", "intervals", "calendar"}
          /\ batch \in SUBSET (Tasks \cup Jobs)
          /\ seen \subseteq Tasks
          /\ dirty \subseteq Tasks
          /\ crashes \in 0..MaxCrashes
          /\ deaths \in 0..MaxDeaths

Executing(j) == status[j] = "running" /\ stage[j] = "exec"
Ran(t) == {j \in Jobs : task_of[j] = t /\ mode[j] = "run" /\ stage[j] # "none"}

(* "We do not submit new executions of repeating tasks unless the prior    *)
(* has completed": no two jobs carry out one task at the same time.  When  *)
(* the service's thread dies alone, init() resumes what still runs, and    *)
(* this is not so.                                                         *)
NoOverlap(T) == \A i, j \in Jobs : Executing(i) /\ Executing(j) /\ task_of[i] \in T
                                   /\ task_of[i] = task_of[j] => i = j
RecordedTasksDoNotOverlap == deaths = 0 => NoOverlap(Tasks \ Quiet)

(* While that thread lives the row of an execution that is over is never   *)
(* written again, neither by the execution nor by a job that resumes it.   *)
ResultsAreFinal ==
  [][deaths = 0 => \A i \in Jobs : results[i] \in Finished => results'[i] = results[i]]_vars

(* A job of a recorded task writes the row of its own task, and while it   *)
(* runs that row says STARTED: check_prior_execution sees the execution.   *)
RunningIsRecorded ==
  deaths = 0 => \A j \in Jobs : Executing(j) /\ task_of[j] \notin Quiet =>
                  task_of[row[j]] = task_of[j] /\ results[row[j]] = "STARTED"

(* While that thread lives the service keeps the promise of TaskLog: what  *)
(* task_results says of a recorded task is what its executions did, one    *)
(* row for each, across crashes and for whatever the pool refuses.         *)
Owner(i) == IF results[i] = "none" THEN None ELSE task_of[i]
Executions(t) == {j \in Jobs : Executing(j) /\ task_of[j] = t}
Log == INSTANCE TaskLog WITH Recorded <- Tasks \ Quiet,
                             owner <- [i \in Jobs |-> Owner(i)],
                             executing <- [t \in Tasks \ Quiet |-> Executions(t)]
ImplementsLog == Log!Spec

(* While the process does not crash, what a user scheduled or submitted is *)
(* never forgotten: an interval, a job in hand, or a result stands for it. *)
Stands(t) == \E j \in Jobs : task_of[j] = t /\ (j \in Pool!Held \/ results[j] # "none")
NeverForgotten ==
  crashes = 0 => \A t \in (Scheduled \cup Immediate) \ Quiet :
                   request[t] = "done" => interval[t] # "none" \/ Stands(t)

(* While neither process nor thread dies, a task to run once runs once.    *)
OnceMeansOnce == crashes = 0 /\ deaths = 0 =>
  \A t \in Scheduled \cup Immediate : Cardinality(Ran(t)) <= 1

(* Every task a user scheduled or submitted comes to a result, if only to  *)
(* the one that says the pool was full.                                    *)
RequestsAreAnswered ==
  \A t \in (Scheduled \cup Immediate) \ Quiet :
    request[t] \in {"submit", "done"} ~> \E j \in Jobs : task_of[j] = t /\ results[j] \in Finished

-----------------------------------------------------------------------------
(* What these rest on.  How far the pool, the worker and the row of one    *)
(* job are; ...                                                            *)
JobOK(j) ==
  /\ task_of[j] = None => status[j] = "new" /\ results[j] = "none" /\ mode[j] = "run"
  /\ status[j] \in {"new", "accepted"} => stage[j] = "none" /\ results[j] # "STARTED"
  /\ status[j] = "accepted" => results[j] = "none"
  /\ status[j] = "running" => stage[j] = "exec"
  /\ results[j] = "STARTED" => task_of[j] \notin Quiet
  /\ mode[j] = "run" => row[j] = j
JobsOK == \A j \in Jobs : JobOK(j)

(* ... a running job writes a row of its own task, and a job that resumes  *)
(* a task has one to resume;                                               *)
RowsOK ==
  /\ \A j \in Jobs : status[j] = "running" /\ task_of[j] \notin Quiet =>
       task_of[row[j]] = task_of[j] /\ results[row[j]] # "none"
  /\ \A j \in Jobs : mode[j] = "resume" =>
       \E i \in Jobs : task_of[i] = task_of[j] /\ results[i] # "none"

(* a task has neither interval nor job before it is asked for;             *)
RequestsOK ==
  /\ \A t \in Tasks : /\ request[t] = "submit" => t \in Immediate /\ pc # "down"
                      /\ interval[t] = "repeat" => t \in Repeating
                      /\ interval[t] # "none" => t \notin Calendar
  /\ \A t \in Scheduled \cup Immediate : request[t] \in {"none", "submit"} =>
       interval[t] = "none" /\ \A j \in Jobs : task_of[j] # t

(* what the service's thread has before it;                                *)
LoopOK ==
  /\ pc = "intervals" => batch \subseteq {t \in due : interval[t] # "none"} /\ dirty \cap batch = {}
  /\ pc # "intervals" => dirty = {}
  /\ pc = "calendar" => batch \subseteq Calendar
  /\ pc = "init" => batch \subseteq {i \in Jobs : results[i] # "none"}

(* a row that is about to be deleted has been answered for;                *)
DirtyStands == crashes = 0 => \A t \in dirty \ Quiet : Stands(t)

(* a task to run once has one job, and then no interval but one that is    *)
(* about to be deleted;                                                    *)
OnceSubmitted == crashes = 0 /\ deaths = 0 =>
  /\ pc \notin {"down", "dead", "init"}
  /\ \A t \in Scheduled \cup Immediate, j \in Jobs : task_of[j] = t =>
       /\ \A i \in Jobs : task_of[i] = t => i = j
       /\ interval[t] = "none" \/ t \in dirty

(* and, as long as the thread lives, a recorded task has one job in hand   *)
(* and one STARTED row, which the job writes or will resume;               *)
OneJob == deaths = 0 =>
  \A i, j \in Pool!Held : task_of[i] = task_of[j] /\ task_of[i] \notin Quiet => i = j
OneRow == deaths = 0 =>
  /\ \A i, j \in Jobs : results[i] = "STARTED" /\ results[j] = "STARTED"
                         /\ task_of[i] = task_of[j] => i = j
  /\ \A i \in Jobs, j \in Pool!Held : results[i] = "STARTED" /\ task_of[i] = task_of[j] =>
       IF status[j] = "running" THEN row[j] = i ELSE mode[j] = "resume"
  /\ \A j \in Jobs : status[j] = "accepted" /\ mode[j] = "resume" =>
       \E i \in Jobs : task_of[i] = task_of[j] /\ results[i] = "STARTED"

(* so that what the thread is about to submit is not in hand: a task that  *)
(* was submitted and has not begun is not due, or its row is in the        *)
(* session, and no calendar's task is left from one round to the next.     *)
Idle(t) == \A j \in Jobs : task_of[j] = t => j \notin Pool!Held /\ results[j] # "STARTED"
NotBegun(j) == status[j] = "accepted" /\ mode[j] = "run"
SubmitsIdle == deaths = 0 =>
  /\ pc # "dead" /\ (pc = "down" => Pool!Held = {})
  /\ pc \in {"intervals", "calendar"} => \A t \in batch \ (seen \cup Quiet) : Idle(t)
  /\ pc = "init" => \A i \in batch : /\ results[i] = "STARTED"
                                     /\ \A j \in Pool!Held : task_of[j] # task_of[i]
  /\ \A j \in Jobs : NotBegun(j) =>
       LET t == task_of[j] IN
         /\ t \in due => t \in dirty \/ interval[t] = "none"
         /\ t \in Calendar => pc = "calendar"

IInv == /\ TypeOK /\ JobsOK /\ RowsOK /\ RequestsOK /\ LoopOK /\ DirtyStands /\ OnceSubmitted
        /\ OneJob /\ OneRow /\ SubmitsIdle /\ NeverForgotten /\ RunningIsRecorded

-----------------------------------------------------------------------------
(* What a comment says and the code does not do.                           *)

(* check_prior_execution, for the repeating tasks that are quiet.          *)
RepeatingTasksDoNotOverlap == NoOverlap(Repeating)
=============================================================================

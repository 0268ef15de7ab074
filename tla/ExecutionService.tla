-------------------------- MODULE ExecutionService --------------------------
(***************************************************************************)
(* The worker pool of core/services/execution_service.py, thread by        *)
(* thread: the callers of new_work(), the workers, and the thread that     *)
(* calls stop().  One action is one statement of a thread, or several that *)
(* no other thread can observe apart (a notify inside its lock).           *)
(***************************************************************************)
EXTENDS Integers

CONSTANTS NumThreads,  \* services.execution.num_threads
          Callers,     \* threads that call new_work()
          Jobs,        \* the work objects they submit
          TaskIds,     \* values of work.task_id
          TaskId,      \* the task_id of each work object
          Quiet,       \* work objects whose do_work keeps no record of itself
          None         \* no caller, no job

ASSUME NumThreadsAssumption == NumThreads \in Nat \ {0}
ASSUME JobsAssumption == /\ TaskId \in [Jobs -> TaskIds]
                         /\ Quiet \subseteq Jobs
ASSUME NoneAssumption == None \notin Jobs /\ None \notin Callers

VARIABLES
  task_lock,      \* the caller inside new_work's critical section, or None
  busy,           \* Worker._busy
  alive,          \* Worker.alive
  work,           \* Worker.work
  running_tasks,  \* task_id -> the work object registered under it, or None
  wpc,            \* where each worker's thread is in run()
  cpc,            \* where each caller's thread is in new_work()
  arg,            \* the work each caller passes to new_work()
  cur,            \* the worker each caller's for loop looks at
  stop_pc,        \* where the thread that calls stop() is
  stop_cur,       \* the worker stop()'s for loop looks at
  status          \* history: how far each job is

callerVars == <<task_lock, cpc, arg, cur>>
workerVars == <<busy, alive, work, wpc>>
stopVars   == <<stop_pc, stop_cur>>
vars == <<callerVars, workerVars, stopVars, running_tasks, status>>

workers == 1..NumThreads

(* Condition(Lock()) of a worker is free exactly while its thread sleeps   *)
(* in wait(), or was notified and has not taken the lock back: the thread  *)
(* holds it in every other place of run(), and keeps it when it dies.      *)
WorkNotifyLockFree(w) == wpc[w] \in {"waiting", "notified"}

(* Mutant: the wake-up is lost even if the worker sleeps.                  *)
NotifyLost(w) == wpc

(* notify() wakes the worker if it sleeps in wait(), and is lost if not.   *)
Notify(w) == IF wpc[w] = "waiting" THEN [wpc EXCEPT ![w] = "notified"] ELSE wpc

-----------------------------------------------------------------------------
(* init(): every worker has been started and seen alive; its thread is     *)
(* about to run the first lines of its loop.                               *)
Init == /\ task_lock = None
        /\ busy = [w \in workers |-> FALSE]
        /\ alive = [w \in workers |-> TRUE]
        /\ work = [w \in workers |-> None]
        /\ running_tasks = [t \in TaskIds |-> None]
        /\ wpc = [w \in workers |-> "loop"]
        /\ cpc = [c \in Callers |-> "idle"]
        /\ arg = [c \in Callers |-> None]
        /\ cur = [c \in Callers |-> 1]
        /\ stop_pc = "idle"
        /\ stop_cur = 1
        /\ status = [j \in Jobs |-> "new"]

-----------------------------------------------------------------------------
(* new_work(work): the caller waits for task_lock ...                      *)
Call(c, j) == /\ cpc[c] = "idle"
              /\ status[j] = "new"
              /\ \A d \in Callers : cpc[d] # "idle" => arg[d] # j
              /\ arg' = [arg EXCEPT ![c] = j]
              /\ cpc' = [cpc EXCEPT ![c] = "acquire"]
              /\ UNCHANGED <<task_lock, cur, workerVars, stopVars, running_tasks, status>>

Acquire(c) == /\ cpc[c] = "acquire"
              /\ task_lock = None
              /\ task_lock' = c
              /\ cur' = [cur EXCEPT ![c] = 1]
              /\ cpc' = [cpc EXCEPT ![c] = "scan"]
              /\ UNCHANGED <<arg, workerVars, stopVars, running_tasks, status>>

(* ... looks for the first worker that is not busy ...                     *)
SkipBusy(c) == /\ cpc[c] = "scan"
               /\ cur[c] \in workers
               /\ busy[cur[c]]
               /\ cur' = [cur EXCEPT ![c] = cur[c] + 1]
               /\ UNCHANGED <<task_lock, cpc, arg, workerVars, stopVars, running_tasks, status>>

(* Mutant: the exception leaves new_work past its finally clause.          *)
RaiseKeepsLock(c) == /\ cpc[c] = "scan"
                     /\ cur[c] \notin workers
                     /\ cpc' = [cpc EXCEPT ![c] = "idle"]
                     /\ UNCHANGED <<task_lock, arg, cur, workerVars, stopVars,
                                    running_tasks, status>>

(* ... raises ThreadLimitException when there is none ...                  *)
RaiseThreadLimit(c) == /\ cpc[c] = "scan"
                       /\ cur[c] \notin workers
                       /\ cpc' = [cpc EXCEPT ![c] = "release"]
                       /\ UNCHANGED <<task_lock, arg, cur, workerVars, stopVars,
                                      running_tasks, status>>

(* ... else w.do() stores the work in the worker ...                       *)
DoSetWork(c) == /\ cpc[c] = "scan"
                /\ cur[c] \in workers
                /\ ~busy[cur[c]]
                /\ work' = [work EXCEPT ![cur[c]] = arg[c]]
                /\ cpc' = [cpc EXCEPT ![c] = "notify"]
                /\ UNCHANGED <<task_lock, arg, cur, busy, alive, wpc, stopVars,
                               running_tasks, status>>

(* ... and wakes the worker, under the worker's own lock.  Only then does  *)
(* new_work mark the worker busy and enter the work in running_tasks.      *)
DoNotify(c) == /\ cpc[c] = "notify"
               /\ WorkNotifyLockFree(cur[c])
               /\ wpc' = Notify(cur[c])
               /\ status' = [status EXCEPT ![arg[c]] = "accepted"]
               /\ cpc' = [cpc EXCEPT ![c] = "set_busy"]
               /\ UNCHANGED <<task_lock, arg, cur, busy, alive, work, stopVars, running_tasks>>

(* Mutant: new_work leaves it to the worker to mark itself busy.           *)
SetBusyMissing(c) == /\ cpc[c] = "set_busy"
                     /\ cpc' = [cpc EXCEPT ![c] = "put"]
                     /\ UNCHANGED <<task_lock, arg, cur, workerVars, stopVars,
                                    running_tasks, status>>

SetBusy(c) == /\ cpc[c] = "set_busy"
              /\ busy' = [busy EXCEPT ![cur[c]] = TRUE]
              /\ cpc' = [cpc EXCEPT ![c] = "put"]
              /\ UNCHANGED <<task_lock, arg, cur, alive, work, wpc, stopVars,
                             running_tasks, status>>

(* Mutant: the work is not entered in running_tasks.                       *)
PutRunningMissing(c) == /\ cpc[c] = "put"
                        /\ cpc' = [cpc EXCEPT ![c] = "release"]
                        /\ UNCHANGED <<task_lock, arg, cur, workerVars, stopVars,
                                       running_tasks, status>>

PutRunning(c) == /\ cpc[c] = "put"
                 /\ running_tasks' = [running_tasks EXCEPT ![TaskId[arg[c]]] = arg[c]]
                 /\ cpc' = [cpc EXCEPT ![c] = "release"]
                 /\ UNCHANGED <<task_lock, arg, cur, workerVars, stopVars, status>>

Release(c) == /\ cpc[c] = "release"
              /\ task_lock' = None
              /\ cpc' = [cpc EXCEPT ![c] = "idle"]
              /\ UNCHANGED <<arg, cur, workerVars, stopVars, running_tasks, status>>

new_work(c) == \/ \E j \in Jobs : Call(c, j)
               \/ Acquire(c) \/ SkipBusy(c) \/ RaiseThreadLimit(c)
               \/ DoSetWork(c) \/ DoNotify(c) \/ SetBusy(c) \/ PutRunning(c)
               \/ Release(c)

-----------------------------------------------------------------------------
(* Worker.run(): the flag is cleared under the worker's lock, which wait() *)
(* then gives up.                                                          *)
ClearBusy(w) == /\ wpc[w] = "loop"
                /\ busy' = [busy EXCEPT ![w] = FALSE]
                /\ wpc' = [wpc EXCEPT ![w] = "wait"]
                /\ UNCHANGED <<callerVars, alive, work, stopVars, running_tasks, status>>

Wait(w) == /\ wpc[w] = "wait"
           /\ wpc' = [wpc EXCEPT ![w] = "waiting"]
           /\ UNCHANGED <<callerVars, busy, alive, work, stopVars, running_tasks, status>>

(* Back from wait(): the worker carries out whatever self.work is now ...  *)
WakeToWork(w) == /\ wpc[w] = "notified"
                 /\ alive[w]
                 /\ wpc' = [wpc EXCEPT ![w] = "work"]
                 /\ status' = [status EXCEPT ![work[w]] = "running"]
                 /\ UNCHANGED <<callerVars, busy, alive, work, stopVars, running_tasks>>

(* ... or, no longer alive, leaves the loop without giving up the lock: a  *)
(* work handed to it in the meantime is never carried out.                 *)
WakeToDie(w) == /\ wpc[w] = "notified"
                /\ ~alive[w]
                /\ wpc' = [wpc EXCEPT ![w] = "dead"]
                /\ status' = [j \in Jobs |-> IF j = work[w] /\ status[j] = "accepted"
                                             THEN "lost" ELSE status[j]]
                /\ UNCHANGED <<callerVars, busy, alive, work, stopVars, running_tasks>>

(* do_work() ends by calling clear_running_task_obj(task_id), unless the   *)
(* work is quiet or fails before it comes to that.                         *)
clear_running_task_obj(w) ==
  /\ wpc[w] = "work"
  /\ work[w] \notin Quiet
  /\ running_tasks' = [running_tasks EXCEPT ![TaskId[work[w]]] = None]
  /\ wpc' = [wpc EXCEPT ![w] = "return"]
  /\ UNCHANGED <<callerVars, busy, alive, work, stopVars, status>>

(* Mutant: the worker goes round its loop without waiting.                 *)
WorkReturnsAwake(w) == /\ wpc[w] = "return"
                       /\ wpc' = [wpc EXCEPT ![w] = "notified"]
                       /\ status' = [status EXCEPT ![work[w]] = "done"]
                       /\ UNCHANGED <<callerVars, busy, alive, work, stopVars, running_tasks>>

WorkReturns(w) == /\ \/ wpc[w] = "return"
                     \/ wpc[w] = "work" /\ work[w] \in Quiet
                  /\ wpc' = [wpc EXCEPT ![w] = "loop"]
                  /\ status' = [status EXCEPT ![work[w]] = "done"]
                  /\ UNCHANGED <<callerVars, busy, alive, work, stopVars, running_tasks>>

run(w) == \/ ClearBusy(w) \/ Wait(w) \/ WakeToWork(w) \/ WakeToDie(w)
          \/ clear_running_task_obj(w) \/ WorkReturns(w)

-----------------------------------------------------------------------------
(* stop() walks over the workers: alive is cleared, then the worker is     *)
(* notified under its lock.                                                *)
StopBegin == /\ stop_pc = "idle"
             /\ stop_pc' = "mark"
             /\ UNCHANGED <<callerVars, workerVars, stop_cur, running_tasks, status>>

StopMark == /\ stop_pc = "mark"
            /\ alive' = [alive EXCEPT ![stop_cur] = FALSE]
            /\ stop_pc' = "notify"
            /\ UNCHANGED <<callerVars, busy, work, wpc, stop_cur, running_tasks, status>>

(* Mutant: stop() steps past the last worker.                              *)
StopNotifyPastEnd == /\ stop_pc = "notify"
                     /\ WorkNotifyLockFree(stop_cur)
                     /\ wpc' = Notify(stop_cur)
                     /\ stop_pc' = IF stop_cur = NumThreads THEN "stopped" ELSE "mark"
                     /\ stop_cur' = stop_cur + 1
                     /\ UNCHANGED <<callerVars, busy, alive, work, running_tasks, status>>

StopNotify == /\ stop_pc = "notify"
              /\ WorkNotifyLockFree(stop_cur)
              /\ wpc' = Notify(stop_cur)
              /\ IF stop_cur = NumThreads
                 THEN stop_pc' = "stopped" /\ UNCHANGED stop_cur
                 ELSE stop_pc' = "mark" /\ stop_cur' = stop_cur + 1
              /\ UNCHANGED <<callerVars, busy, alive, work, running_tasks, status>>

stop == StopMark \/ StopNotify

-----------------------------------------------------------------------------
(* The service while nobody stops it, and with stop() called at any time.  *)
Serve == \/ \E c \in Callers : new_work(c)
         \/ \E w \in workers : run(w)
Next == Serve \/ StopBegin \/ stop

ServeSpec == Init /\ [][Serve]_vars
Spec == Init /\ [][Next]_vars

(* Every thread that can go on goes on; task_lock is granted to a caller   *)
(* that finds it free again and again.  Nobody is obliged to call, and no  *)
(* work is obliged to end: a task may hang for ever.                       *)
InNewWork(c) == new_work(c) /\ cpc[c] # "idle"
OutsideWork(w) == run(w) /\ wpc[w] \notin {"work", "return"}
Fairness == /\ \A c \in Callers : WF_vars(InNewWork(c)) /\ SF_vars(Acquire(c))
            /\ \A w \in workers : WF_vars(OutsideWork(w))

FairSpec == Spec /\ Fairness

-----------------------------------------------------------------------------
(* Type invariant of the service's state, for every thread's place.        *)
TypeOK == /\ task_lock \in Callers \cup {None}
          /\ busy \in [workers -> BOOLEAN]
          /\ alive \in [workers -> BOOLEAN]
          /\ work \in [workers -> Jobs \cup {None}]
          /\ running_tasks \in [TaskIds -> Jobs \cup {None}]
          /\ wpc \in [workers -> {"loop", "wait", "waiting", "notified", "work",
                                  "return", "dead"}]
          /\ cpc \in [Callers -> {"idle", "acquire", "scan", "notify", "set_busy",
                                  "put", "release"}]
          /\ arg \in [Callers -> Jobs \cup {None}]
          /\ cur \in [Callers -> 1..NumThreads + 1]
          /\ stop_pc \in {"idle", "mark", "notify", "stopped"}
          /\ stop_cur \in workers
          /\ status \in [Jobs -> {"new", "accepted", "running", "done", "lost"}]

(* The callers that are between handing work to worker w and marking it    *)
(* busy: the window in which the busy flag does not tell the truth.        *)
HandingTo(c, w) == cpc[c] \in {"notify", "set_busy"} /\ cur[c] = w

(* A worker that carries out work, or was woken for it, is marked busy     *)
(* unless the caller that woke it is still inside new_work: no other       *)
(* caller can take it for a free one and overwrite its work (new_work's    *)
(* busy() test against do(), which are not one step).                      *)
BusyCoversWork ==
  \A w \in workers :
    wpc[w] \in {"work", "return"} \/ (wpc[w] = "notified" /\ alive[w]) =>
      busy[w] \/ \E c \in Callers : HandingTo(c, w)

(* While nobody stops the service, new_work, which holds task_lock, waits  *)
(* for the lock of a worker that is about to sleep or asleep, never for    *)
(* one that carries out work: one long task cannot block every submission. *)
NewWorkNeverWaitsForWork ==
  stop_pc = "idle" =>
    \A c \in Callers : cpc[c] = "notify" => wpc[cur[c]] \in {"loop", "wait", "waiting"}

(* The work a worker carries out stays in the worker until it returns, and *)
(* no two workers carry out one work object.                               *)
OneWorkerPerWork ==
  \A w \in workers : wpc[w] \in {"work", "return"} =>
      /\ status[work[w]] = "running"
      /\ \A v \in workers \ {w} : wpc[v] \in {"work", "return"} => work[v] # work[w]

(* Cancellation and the check for hung workers find a task by              *)
(* get_running_task_obj(task_id): with one submission per task_id, a work  *)
(* that is being carried out is registered as soon as new_work is through. *)
RunningIsRegistered ==
  \A w \in workers :
    wpc[w] = "work" /\ (\A c \in Callers : task_lock = c => arg[c] # work[w]) =>
      running_tasks[TaskId[work[w]]] = work[w]

(* No step starts a work that was not accepted just once: none is begun    *)
(* twice, none is begun before new_work handed it over, and a finished or  *)
(* lost one never starts again.                                            *)
BegunOnce == [][\A j \in Jobs : status'[j] = "running" /\ status[j] # "running"
                                   => status[j] = "accepted"]_vars

(* The service implements the pool that its callers count on.              *)
Pool == INSTANCE WorkPool WITH NumSlots <- NumThreads, stopping <- stop_pc # "idle"
ImplementsPool == Pool!Spec

(* Unless somebody stops the service, work that new_work accepted is       *)
(* begun, whatever the other workers are doing.                            *)
AcceptedWorkRuns ==
  \A j \in Jobs : status[j] = "accepted" ~> status[j] = "running" \/ stop_pc # "idle"

(* new_work returns or raises to every caller, even if many callers        *)
(* compete for task_lock, unless somebody stops the service.               *)
NewWorkReturns ==
  \A c \in Callers : cpc[c] = "acquire" ~> cpc[c] = "idle" \/ stop_pc # "idle"

-----------------------------------------------------------------------------
(* The inductive invariant behind these properties.                        *)

(* Between Acquire and Release, and nowhere else, a caller has task_lock.  *)
LockInv == \A c \in Callers :
  cpc[c] \in {"scan", "notify", "set_busy", "put", "release"} <=> task_lock = c

(* A call is about one work that no other call is about; it is new until   *)
(* its worker is notified, and the worker it is handed to is not at work.  *)
CallInv == \A c \in Callers :
  /\ cpc[c] # "idle" => arg[c] \in Jobs
  /\ cpc[c] # "idle" => \A d \in Callers \ {c} : cpc[d] # "idle" => arg[d] # arg[c]
  /\ cpc[c] \in {"notify", "set_busy", "put"} => cur[c] \in workers
  /\ cpc[c] \in {"acquire", "scan", "notify"} => status[arg[c]] = "new"
  /\ cpc[c] = "notify" => work[cur[c]] = arg[c]
  /\ cpc[c] = "notify" => wpc[cur[c]] \notin {"work", "return"}
  /\ cpc[c] = "notify" /\ alive[cur[c]] => wpc[cur[c]] \in {"loop", "wait", "waiting"}

(* A work is stored in one worker at most, and there it is still to be     *)
(* notified, or waits to be begun, or is carried out, or is over.          *)
WorkInv == \A w \in workers :
  /\ (work[w] \in Jobs /\ status[work[w]] = "new") =>
       \E c \in Callers : cpc[c] = "notify" /\ cur[c] = w
  /\ \A v \in workers \ {w} : work[w] \in Jobs => work[v] # work[w]
  /\ wpc[w] = "notified" /\ alive[w] => work[w] \in Jobs /\ status[work[w]] = "accepted"
  /\ wpc[w] \in {"work", "return"} => work[w] \in Jobs /\ status[work[w]] = "running"

(* A work that was accepted and is not over sits in a worker that counts   *)
(* as taken.                                                               *)
HeldInv == \A j \in Jobs : status[j] \in {"accepted", "running"} =>
  \E w \in workers : /\ work[w] = j
                     /\ wpc[w] \in IF status[j] = "accepted" THEN {"notified"}
                                  ELSE {"work", "return"}
                     /\ busy[w] \/ \E c \in Callers : HandingTo(c, w)

(* Only stop() makes a worker not alive, and no other worker dies.         *)
StopInv == /\ stop_pc = "notify" => ~alive[stop_cur]
           /\ \A w \in workers : ~alive[w] => stop_pc # "idle"
           /\ \A w \in workers : wpc[w] = "dead" => ~alive[w]

(* The state of the service that every step of every thread keeps: who is  *)
(* in new_work, which work is where, and what busy means.                  *)
IInv == TypeOK /\ LockInv /\ CallInv /\ WorkInv /\ HeldInv /\ StopInv
        /\ BusyCoversWork

(* Behind RunningIsRegistered: as long as every submission has a task_id   *)
(* of its own, a work is registered, or its caller is about to do so, from *)
(* its acceptance until its own do_work clears the entry.                  *)
OneTaskIdEach == \A j, k \in Jobs : TaskId[j] = TaskId[k] => j = k
InHand(j) == status[j] = "accepted" \/ \E w \in workers : work[w] = j /\ wpc[w] = "work"
Registered == \A j \in Jobs : InHand(j) =>
  \/ running_tasks[TaskId[j]] = j
  \/ \E c \in Callers : cpc[c] \in {"set_busy", "put"} /\ arg[c] = j

-----------------------------------------------------------------------------
(* What a comment says and the code does not do.                           *)

(* "Creates a pool of workers equal to NUM_WORKERS", of which new_work     *)
(* raises "All workers are busy": when no call is in progress, a worker    *)
(* that sleeps in wait() counts as free.                                   *)
IdleWorkersAreFree ==
  \A w \in workers : wpc[w] = "waiting" /\ task_lock = None => ~busy[w]
=============================================================================

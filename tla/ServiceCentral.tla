--------------------------- MODULE ServiceCentral ---------------------------
(***************************************************************************)
(* Service Central (core/services/core.py) with the services it runs in    *)
(* threads (ThreadExecutor of core/services/executors.py): it starts them  *)
(* in an order that respects their dependencies, looks after them every    *)
(* ten seconds, starts again those whose thread has died, and stops them   *)
(* when the process exits.  All it shares with a service's thread, and     *)
(* with the thread that quits, are flags: nothing here takes a lock.       *)
(***************************************************************************)
EXTENDS Sequences, SequencesExt, Integers

CONSTANTS Services,    \* the rows of table services that are enabled
          Order,       \* the sequence _order() returned
          DependsOn,   \* pairs <<dependent, parent>>, the rows of dependencies
          MaxThreads,  \* bound: threads ever made for the services
          MaxDeaths,   \* bound: exceptions in loop()
          MaxFailures, \* bound: exceptions in init()
          None

Threads == 1..MaxThreads

ASSUME OrderAssumption ==
  /\ Order \in Seq(Services)
  /\ \A s \in Services : \E i \in DOMAIN Order : Order[i] = s
  /\ \A i, j \in DOMAIN Order : Order[i] = Order[j] => i = j
  /\ \A i, j \in DOMAIN Order : <<Order[j], Order[i]>> \in DependsOn => i < j
ASSUME BoundsAssumption == {MaxThreads, MaxDeaths, MaxFailures} \subseteq Nat
ASSUME NoneAssumption == None \notin Services

VARIABLES
  (* Service Central's thread *)
  pc,          \* where run() is
  todo,        \* start: services to start; check: threads of the copy it walks
  current,     \* the service it waits for, or the dead thread it has found
  central,     \* Service Central's alive flag
  (* the ThreadExecutor *)
  threads,     \* self.threads
  service_of,  \* the service of each thread, None before the thread is made
  (* the services *)
  step,        \* where each thread is in Service._exec
  alive,       \* the alive flag of each service
  (* the thread that calls quit() *)
  qpc,         \* where it is
  qtodo,       \* threads of the copy stop_all still has to stop
  stopped,     \* services whose _stop has begun
  deaths, failures

centralVars  == <<pc, todo, current, central>>
executorVars == <<threads, service_of>>
serviceVars  == <<step, alive>>
quitVars     == <<qpc, qtodo, stopped>>
faults       == <<deaths, failures>>
vars == <<centralVars, executorVars, serviceVars, quitVars, faults>>

Dead(t) == step[t] = "dead"
Running(t) == step[t] \notin {"none", "dead"}
Unmade == {t \in Threads : step[t] = "none"}

-----------------------------------------------------------------------------
Init == /\ pc = "start" /\ todo = Order /\ current = None
        /\ central = FALSE
        /\ threads = <<>>
        /\ service_of = [t \in Threads |-> None]
        /\ step = [t \in Threads |-> "none"]
        /\ alive = [s \in Services |-> FALSE]
        /\ qpc = "none" /\ qtodo = <<>> /\ stopped = {}
        /\ deaths = 0 /\ failures = 0

-----------------------------------------------------------------------------
(* A service's thread, in Service._exec().                                 *)
InitReturns(t) == /\ step[t] = "init"
                  /\ step' = [step EXCEPT ![t] = "test"]
                  /\ alive' = [alive EXCEPT ![service_of[t]] = TRUE]
                  /\ UNCHANGED <<centralVars, executorVars, quitVars, faults>>

InitRaises(t) == /\ step[t] = "init"
                 /\ failures < MaxFailures
                 /\ failures' = failures + 1
                 /\ step' = [step EXCEPT ![t] = "dead"]
                 /\ UNCHANGED <<centralVars, executorVars, alive, quitVars, deaths>>

(* while self.alive: a service that was stopped says so and ends.          *)
TestAlive(t) == /\ step[t] = "test"
                /\ LET s == service_of[t] IN
                     IF alive[s]
                     THEN step' = [step EXCEPT ![t] = "loop"] /\ UNCHANGED alive
                     ELSE /\ step' = [step EXCEPT ![t] = "dead"]
                          /\ alive' = [alive EXCEPT ![s] = TRUE]
                /\ UNCHANGED <<centralVars, executorVars, quitVars, faults>>

(* loop(), then a wait that ends by itself: a notification only cuts it    *)
(* short, or is lost when it comes before the wait.                        *)
LoopAndWait(t) == /\ step[t] = "loop"
                  /\ step' = [step EXCEPT ![t] = "test"]
                  /\ UNCHANGED <<centralVars, executorVars, alive, quitVars, faults>>

LoopRaises(t) == /\ step[t] = "loop"
                 /\ deaths < MaxDeaths
                 /\ deaths' = deaths + 1
                 /\ step' = [step EXCEPT ![t] = "dead"]
                 /\ UNCHANGED <<centralVars, executorVars, alive, quitVars, failures>>

_exec(t) == InitReturns(t) \/ TestAlive(t) \/ LoopAndWait(t)

-----------------------------------------------------------------------------
(* ThreadExecutor: the thread is put in the list and started; the caller   *)
(* then waits until is_ready().                                            *)
IsFresh(t) == t \in Unmade /\ \A u \in Unmade : t <= u

StartThread(t, s, list) == /\ IsFresh(t)
                           /\ threads' = Append(list, t)
                           /\ service_of' = [service_of EXCEPT ![t] = s]
                           /\ step' = [step EXCEPT ![t] = "init"]
                           /\ UNCHANGED alive

(* list.remove(): a thread is listed once.                                 *)
Without(t) == RemoveAt(threads, CHOOSE i \in DOMAIN threads : threads[i] = t)

(* Mutant: nobody waits for the service.                                   *)
NotAwaited(s) == s \in Services

is_ready(s) == alive[s]

(* run(), first part: one service after the other.                         *)
StartService == /\ pc = "start"
                /\ todo # <<>>
                /\ \E t \in Threads : StartThread(t, Head(todo), threads)
                /\ pc' = "starting"
                /\ current' = Head(todo)
                /\ todo' = Tail(todo)
                /\ UNCHANGED <<central, quitVars, faults>>

ServiceStarted == /\ pc = "starting"
                  /\ is_ready(current)
                  /\ pc' = "start"
                  /\ current' = None
                  /\ UNCHANGED <<todo, central, executorVars, serviceVars, quitVars, faults>>

AllStarted == /\ pc = "start"
              /\ todo = <<>>
              /\ pc' = "watch"
              /\ central' = TRUE
              /\ UNCHANGED <<todo, current, executorVars, serviceVars, quitVars, faults>>

(* run(), second part: while self.alive, check(), then wait ten seconds.   *)
Watch == /\ pc = "watch"
         /\ IF central
            THEN /\ pc' = "check"
                 /\ todo' = threads
                 /\ UNCHANGED central
            ELSE /\ pc' = "dead"
                 /\ central' = TRUE
                 /\ UNCHANGED todo
         /\ UNCHANGED <<current, executorVars, serviceVars, quitVars, faults>>

(* Mutant: the test for life is missing.                                   *)
CheckAnyThread == /\ pc = "check"
                  /\ todo # <<>>
                  /\ todo' = Tail(todo)
                  /\ pc' = "found" /\ current' = Head(todo)
                  /\ UNCHANGED <<central, executorVars, serviceVars, quitVars, faults>>

(* check() walks a copy of the list: it passes over a thread that lives,   *)
(* and for one that does not it makes another.                             *)
CheckThread == /\ pc = "check"
               /\ todo # <<>>
               /\ todo' = Tail(todo)
               /\ IF Dead(Head(todo))
                  THEN pc' = "found" /\ current' = Head(todo)
                  ELSE UNCHANGED <<pc, current>>
               /\ UNCHANGED <<central, executorVars, serviceVars, quitVars, faults>>

(* Mutants: the dead thread is started once more, or the new one is not    *)
(* listed.                                                                 *)
ReviveSameThread == /\ pc = "found"
                    /\ current \in ToSet(threads)
                    /\ step' = [step EXCEPT ![current] = "init"]
                    /\ current' = service_of[current]
                    /\ pc' = "reviving"
                    /\ UNCHANGED <<todo, central, executorVars, alive, quitVars, faults>>

ReviveUnlisted == /\ pc = "found"
                  /\ current \in ToSet(threads)
                  /\ \E t \in Threads :
                       /\ IsFresh(t)
                       /\ service_of' = [service_of EXCEPT ![t] = service_of[current]]
                       /\ step' = [step EXCEPT ![t] = "init"]
                  /\ threads' = Without(current)
                  /\ UNCHANGED alive
                  /\ current' = service_of[current]
                  /\ pc' = "reviving"
                  /\ UNCHANGED <<todo, central, quitVars, faults>>

(* check() takes the dead thread off the list, puts a new one on it and    *)
(* starts it: one step, since nobody looks at what is between.             *)
Revive == /\ pc = "found"
          /\ current \in ToSet(threads)
          /\ \E t \in Threads :
               StartThread(t, service_of[current], Without(current))
          /\ current' = service_of[current]
          /\ pc' = "reviving"
          /\ UNCHANGED <<todo, central, quitVars, faults>>

(* self.threads.remove(t) raises ValueError: run() ends with it.           *)
ReviveRaises == /\ pc = "found"
                /\ current \notin ToSet(threads)
                /\ pc' = "crashed"
                /\ UNCHANGED <<todo, current, central, executorVars, serviceVars, quitVars, faults>>

Revived == /\ pc = "reviving"
           /\ is_ready(current)
           /\ pc' = "check"
           /\ current' = None
           /\ UNCHANGED <<todo, central, executorVars, serviceVars, quitVars, faults>>

CheckEnds == /\ pc = "check"
             /\ todo = <<>>
             /\ pc' = "watch"
             /\ UNCHANGED <<todo, current, central, executorVars, serviceVars, quitVars, faults>>

run == \/ StartService \/ ServiceStarted \/ AllStarted \/ Watch
       \/ CheckThread \/ Revive \/ ReviveRaises \/ Revived \/ CheckEnds

-----------------------------------------------------------------------------
(* quit(), which atexit calls: the flag first, then stop_all() ...         *)
quit == /\ qpc = "none"
        /\ central' = FALSE
        /\ qtodo' = threads
        /\ qpc' = "next"
        /\ UNCHANGED <<pc, todo, current, executorVars, serviceVars, stopped, faults>>

(* Service._stop(): the flag is cleared, the thread is notified ...        *)
(* The service's own stop() comes first; that of the pool, which kills its *)
(* workers, is in ExecutionService, and the others have none.              *)
_stop == /\ qpc = "next"
         /\ qtodo # <<>>
         /\ LET s == service_of[Head(qtodo)] IN
              /\ alive' = [alive EXCEPT ![s] = FALSE]
              /\ stopped' = stopped \cup {s}
         /\ qpc' = "polling"
         /\ UNCHANGED <<centralVars, executorVars, step, qtodo, faults>>

(* ... and is awaited, max_wait seconds and no longer; then stop_all takes *)
(* it off the list, where remove() raises if check() was faster.           *)
StopEnds == /\ qpc = "polling"
            /\ LET t == Head(qtodo) IN
                 IF t \in ToSet(threads)
                 THEN threads' = Without(t) /\ qpc' = "next"
                 ELSE UNCHANGED threads /\ qpc' = "failed"
            /\ qtodo' = Tail(qtodo)
            /\ UNCHANGED <<centralVars, service_of, serviceVars, stopped, faults>>

(* ... then it waits, without limit, until run() has said it ends.         *)
StopAllEnds == /\ qpc = "next"
               /\ qtodo = <<>>
               /\ qpc' = "waiting"
               /\ UNCHANGED <<centralVars, executorVars, serviceVars, qtodo, stopped, faults>>

QuitReturns == /\ qpc = "waiting"
               /\ central
               /\ qpc' = "done"
               /\ UNCHANGED <<centralVars, executorVars, serviceVars, qtodo, stopped, faults>>

Quitting == _stop \/ StopEnds \/ StopAllEnds \/ QuitReturns

-----------------------------------------------------------------------------
Serve == \/ run
         \/ \E t \in Threads : _exec(t) \/ InitRaises(t) \/ LoopRaises(t)

Next == Serve \/ quit \/ Quitting

Spec == Init /\ [][Next]_vars

(* Each thread is scheduled: Service Central's, each service's, and the    *)
(* one that quits, if it does.                                             *)
Fairness == /\ WF_vars(run)
            /\ \A t \in Threads : WF_vars(_exec(t))
            /\ WF_vars(Quitting)
FairSpec == Spec /\ Fairness

-----------------------------------------------------------------------------
TypeOK == /\ pc \in {"start", "starting", "watch", "check", "found", "reviving",
                     "crashed", "dead"}
          /\ todo \in Seq(Services \cup Threads)
          /\ current \in CASE pc \in {"starting", "reviving"} -> Services
                            [] pc \in {"found", "crashed"} -> Threads
                            [] OTHER -> {None}
          /\ central \in BOOLEAN
          /\ threads \in Seq(Threads)
          /\ service_of \in [Threads -> Services \cup {None}]
          /\ step \in [Threads -> {"none", "init", "test", "loop", "dead"}]
          /\ alive \in [Services -> BOOLEAN]
          /\ qpc \in {"none", "next", "polling", "failed", "waiting", "done"}
          /\ qtodo \in Seq(Threads)
          /\ stopped \subseteq Services
          /\ deaths \in 0..MaxDeaths
          /\ failures \in 0..MaxFailures

(* A service never runs in two threads, whatever dies, is started again or *)
(* is stopped meanwhile: its state is kept in one object without locks.    *)
OneThreadPerService ==
  \A t, u \in Threads : Running(t) /\ Running(u) /\ service_of[t] = service_of[u] => t = u

(* No service exists before the services it depends on have been through   *)
(* init(): the Task Manager resumes tasks as soon as it is started, and    *)
(* new_work needs the workers that init() makes.                           *)
DependenciesFirst ==
  \A t \in Threads, s \in Services :
    qpc = "none" /\ Running(t) /\ <<service_of[t], s>> \in DependsOn => alive[s]

(* All that Supervisor promises, also about a service that is started      *)
(* again: by a new thread, when the old one is over, and with its          *)
(* readiness as it was until quit() takes it away.                         *)
Serving(s) == {t \in Threads : Running(t) /\ service_of[t] = s}
Super == INSTANCE Supervisor WITH serving  <- [s \in Services |-> Serving(s)],
                                  ready    <- {s \in Services : alive[s]},
                                  made     <- {t \in Threads : step[t] # "none"},
                                  quitting <- qpc # "none"
ImplementsSupervisor == Super!Spec

-----------------------------------------------------------------------------
(* What the two rest on.  In the order of the list a prefix of the services *)
(* has been started, each of them awaited but the last; ...                *)
Made(t) == step[t] # "none"
Started(n) ==
  /\ todo = SubSeq(Order, n + 1, Len(Order))
  /\ \A t \in Threads : Made(t) => \E i \in 1..n : service_of[t] = Order[i]
  /\ pc = "starting" => n > 0 /\ current = Order[n]
  /\ qpc = "none" => \A i \in 1..n : alive[Order[i]] \/ (pc = "starting" /\ i = n)
InOrder == IF pc \in {"start", "starting"}
           THEN \E n \in 0..Len(Order) : Started(n)
           ELSE /\ \A i \in DOMAIN todo : todo[i] \in Threads /\ Made(todo[i])
                /\ qpc = "none" => \A s \in Services : alive[s]

(* ... the lists hold threads that were made, for a service each; ...      *)
Distinct(s) == \A i, j \in DOMAIN s : s[i] = s[j] => i = j
ListsOK == /\ \A i \in DOMAIN threads : Made(threads[i])
           /\ Distinct(threads)
           /\ \A i \in DOMAIN qtodo : Made(qtodo[i])
           /\ qpc = "polling" => qtodo # <<>>
           /\ \A t \in Threads : Made(t) => service_of[t] \in Services
           /\ pc = "found" => Dead(current)

(* ... and of the threads made for a service one is listed or runs: a new  *)
(* one takes the place of a dead one that was listed, and a thread that    *)
(* was taken off the list while it ran is not restarted any more.          *)
Present(t) == Running(t) \/ t \in ToSet(threads)
OnePresent ==
  \A t, u \in Threads : Present(t) /\ Present(u) /\ service_of[t] = service_of[u] => t = u

IInv == TypeOK /\ InOrder /\ ListsOK /\ OnePresent

(* Until quit() is called a service's thread that is past init() never     *)
(* finds itself told to stop.                                              *)
ServingIsReady ==
  qpc = "none" => \A t \in Threads : step[t] \in {"test", "loop"} => alive[service_of[t]]

SInv == IInv /\ ServingIsReady

-----------------------------------------------------------------------------
(* "waking up once in a while to check on services and restart those which *)
(* died": while nobody quits, a dead service comes to run again, as often  *)
(* as it dies.                                                             *)
DeadAreRestarted ==
  \A s \in Services :
    pc = "watch" ~> qpc # "none" \/ \E t \in Threads : service_of[t] = s /\ Running(t)

-----------------------------------------------------------------------------
(* What a comment says and the code does not do.                           *)

(* "First set alive to false otherwise, the service central can attempt to *)
(* restart stopped services": no service that quit() has stopped gets      *)
(* another thread.                                                         *)
StoppedStayStopped ==
  [][\A t \in Threads : step[t] = "none" /\ step'[t] = "init" =>
                          service_of'[t] \notin stopped]_vars
=============================================================================

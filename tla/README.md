# ConVirt: TLA+ models and proofs

ConVirt manages virtual machines on Xen and KVM servers. A TurboGears web
application keeps a tree of data centres, server pools, servers and virtual
machines in a MySQL database, talks to the servers over SSH, does everything
that takes long, or recurs, in background tasks, and shows the tree in a browser
that polls for what has changed. This directory holds TLA+ specifications of the
parts of it where threads, locks, database rows, requests in flight and crashes meet:
the services that run the tasks, the protocol by which periodic tasks share out
the managed servers, the migration of virtual machines among heartbeats and users, and the
navigator of the browser with the Update Manager that feeds it.

Paths below are relative to `src/convirt/src/convirt/`; `model/` stands for
`web/convirt/convirt/model/` and `javascript/` for
`web/convirt/convirt/public/javascript/`.

## The system

| Component | State | Operations | Talks to |
|---|---|---|---|
| Service Central, `core/services/core.py`, `executors.py` | list of service threads, `alive` flags | start in order of dependency, check and restart every ten seconds, `quit` at exit | the services, by flags |
| Execution Service, `core/services/execution_service.py` | workers, their `_busy`, `alive`, `work` and locks; `running_tasks` | `new_work`, `stop`, `get_running_task_obj`, `clear_running_task_obj` | runs `Task.do_work` |
| Task Manager, `core/services/task_service.py` | tables `task_intervals`, `task_calendars`; a loop once a minute | `submit_sync`, `submit_schedule`, the loop, resumption in `init` | Execution Service, database |
| Tasks, `model/services.py` | table `task_results` | `do_work`, `task_started`, `task_success`, `task_fail`, `resume_task` | Task Manager, Execution Service, Update Manager |
| Work Manager, `model/WorkManager.py`, `AvailabilityWorker.py`, `core/services/tasks.py` | table `entity_tasks`; per child the lists of nodes completed and pending | hand out nodes, wait for children, find hung ones, clean up | submits tasks, refreshes nodes |
| Grid Manager and VM life cycle, `model/GridManager.py`, `VM.py` | the node above each VM, its status and place in the tree, configuration files | start, stop, migrate, resume a migration, remove | tasks, hypervisors through node proxies |
| Heartbeats, `model/VNode.py`, `availability.py`, `LockManager.py` | tables `avail_current`, `avail_history`, `cms_locks` | read which VMs a server runs, write down what changed, announce it | Work Manager's children, Update Manager |
| Update Manager, `model/UpdateManager.py` | entities to look at again, per user and session | `set_updated_entities`, `get_updated_entities`, `del_user_session` | tasks and heartbeats on one side, polls on the other |
| Browser navigator, `javascript/dashboard/dashboard.js`, `treenode.js`, tree of `ext2.2.1` | the tree: children of each node, nodes by id, icons | poll, ask for the children of a node, take in the answer | `dashboardservice` |
| Node cache and node pool, `model/NodeCache.py`, `core/utils/NodePool.py` | reserved ports; shared SSH connections | reserve, expire; get, clear | VM start and migration |
| Caches, `model/GenericCache.py`, `MetricCache.py`, `TopCache.py` | bounded dictionaries | lookup, eviction | dashboard |
| The rest: storage, network, definitions, images and appliances, authorization, e-mail, view model, controllers, platforms, dialogs and charts of the browser, installers | | | |

How they interact: `config/middleware.py` starts Service Central and registers
its `quit()` to run at exit. Service Central starts the Execution Service before the
Task Manager, which depends on it (`websetup.py`). A request of a user becomes a
`Task` that the request's thread submits (`submit_sync`) or schedules; the Task
Manager's loop submits what has come due. A submission hands the task object to a
worker thread; the worker runs `do_work`, which records a `TaskResult` row
`STARTED` and later merges its outcome into it. Three periodic tasks
(availability of nodes, of VMs, metrics) are *parents*: each creates child tasks
by `submit_sync` and shares the nodes out among them through `entity_tasks`. A
migration is a task as well: it marks the VM, asks the hypervisor to move it, waits, and puts
the VM under its new node, while the heartbeats go on writing down what runs where.
Whoever changes the tree tells the Update Manager which entities to look at again;
every browser session collects them when it polls, and asks for the children of those
it has in its tree.

What is hard about it:

* flags are written without locks (`_busy`, `alive`), and a worker's lock is a
  condition whose notification may be lost;
* the check that stands against overlapping executions reads a database snapshot;
* threads die of exceptions and are started again while other threads live on,
  and the process crashes between two commits;
* submission and its record are separate steps, both in the loop (submission,
  then commit) and in the Work Manager (child submitted, then its rows);
* a child that takes too long is given up by its parent while it goes on working;
* where a VM runs is known to the hypervisors only: the database follows with a delay,
  calls time out while the move goes on, nothing keeps two migrations of one VM apart, nor
  a user from starting a VM that is on its way;
* a browser's requests travel side by side and are answered in any order, for nodes that
  may have left the tree; what a poll has collected is gone from the server.

What makes each component correct:

* Execution Service: a work is carried out once, by one worker; submission never
  waits for running work; work that was accepted runs; stop loses only work that
  has not begun.
* Task Manager: an execution that is recorded does not overlap with another of its
  task; what was requested is not forgotten and is answered; what is to run once runs
  once; a result that is final stays so.
* Service Central: dependencies first; one thread per service; the dead are started
  again; the stopped are not.
* Work Manager: no two children of a round refresh one node; every node that is handed
  out is freed; a round ends.
* Migration: a VM runs under the node the database has it under and nowhere else; the mark
  that keeps heartbeats away is taken off; the state shown comes right in the end.
* Navigator: a server or VM is shown at one place; whatever is shown and no longer true is
  still to be announced, collected or answered; when changes cease, the tree agrees with
  the database.

`PROJECT.json` lists every component, with what is not modelled and why, and every
hazard with the properties that cover it.

## The modules

| Module | Models | Runs |
|---|---|---|
| `WorkPool` | what the Execution Service promises, without threads or locks | (property of `ExecPool`) |
| `ExecutionService` | `execution_service.py`, statement by statement | `ExecPool`, `ExecLeak` |
| `TaskLog` | what `task_results` tells of the executions of recorded tasks, without intervals, sessions, pool or service thread | (property of `TmSafety`) |
| `TaskManager` | `task_service.py` and the life of a task in `model/services.py`, on top of `WorkPool` | `TmSafety`, `TmLive`, `TmQuiet` |
| `Supervisor` | what Service Central promises to its services, without lists, rounds, waits or the order of starting | (property of `ScWatch`) |
| `ServiceCentral` | `core.py`, `ThreadExecutor` of `executors.py` | `ScWatch`, `ScRestart` |
| `ServiceOrder` | `ServiceCentral._order` | `ScOrder` |
| `WorkManager` | `WorkManager.py`, `AvailabilityWorker.py`, `NodesAvailability` of `tasks.py` | `WmRounds`, `WmOrphan` |
| `Migration` | migration, start and stop of VMs in `GridManager.py`, the refresh of VMs in `VNode.py` | `Migration` |
| `LeftNav` | `dashboard.js`, `treenode.js` and the tree of Ext, `UpdateManager.py`, and what announces changes | `LeftNav` |
| `...Proofs` | the theorems about the module of that name | |

`MC...` modules give the constants their values. Definitions that a comment marks
`Mutant` are not part of a specification: each is a plausible slip in the code, and the
property it is paired with in `PROJECT.json` fails when it takes the place of the
action it stands before. All other definitions translate the lines `PROJECT.json` maps
them to.

How the modules fit together: `ExecutionService` implements `WorkPool` (`ImplementsPool`),
`TaskManager` implements `TaskLog` (`ImplementsLog`) and `ServiceCentral` implements
`Supervisor` (`ImplementsSupervisor`), each checked and proved. `TaskManager` uses
`WorkPool` in place of the threads, so that a job there is one step accepted, one step begun
and one finished; `WorkManager` in turn abstracts from submission: a child is submitted,
begins some time later or not at all, and the death of the process leaves it interrupted or
lost, as `TaskManager` has it. That parents overlap in `WorkManager` is what `TmQuiet` shows
of quiet tasks. `ServiceCentral` takes the order that `ServiceOrder` computes as a constant,
and assumes of it what is proved there (`ReturnsAll`, `RespectsDependencies`). A task of
`Migration` begins, is lost or is resumed as `TaskManager` has it, and its end is one of the
changes `LeftNav` starts from.

### ExecutionService

`cpc[c]` is the place of a caller in `new_work` and in the `do` it calls, `wpc[w]` the
place of a worker in `run`, `stop_pc` that of the thread in `stop`. An action is one
statement that another thread can observe; statements under one lock that nobody can
observe apart are one action. A worker's lock has no variable: it is free exactly
while the worker sleeps in `wait()` or was notified and has not gone on
(`WorkNotifyLockFree`), and a worker that leaves `run` keeps it. Works with
`Quiet` do not clear their entry of `running_tasks`. `status` is a history
variable: it is what `WorkPool` speaks of.

### TaskManager

`interval` and `due` are the rows of `task_intervals`, `results` those of
`task_results`, each known by the job that wrote it. The loop is `LoopBegin`,
`IntervalSubmit`/`IntervalDelay` per row, `CalendarBegin` (which commits the interval
rows), `CalendarSubmit` per row, `LoopEnd`. `seen` is what the session's snapshot
says of `task_results`: the database is InnoDB, whose repeatable reads come from
the first query of the transaction. `Crash` loses all but the database;
`ThreadDies` is an exception in the loop, after which Service Central starts
`init` again while the workers live. Which tasks match a calendar is left open.

### ServiceCentral and ServiceOrder

`pc` is the place of `run`, `step[t]` that of each service thread in
`Service._exec`, `qpc` that of the thread in `quit`. The waits for `is_ready` are
guards. `Without` is `list.remove`. `_stop` waits `max_wait` seconds at most, so it may end
before the thread does: `StopEnds` has no guard on the thread. `ServiceOrder` is the sort
itself, a step per turn of its loop, for every list of the services and every set of
dependencies. `_remove_deps` removes pairs that are never looked at again; it is
modelled and changes nothing. `check` returns a list into which the code appends
another list, which nothing uses.

### WorkManager

`worker_id` and `start_time` are the columns of `entity_tasks`; an instant is the
number of parents begun by then, which is all that the code's comparisons
(`start_time >= self.start_time`) tell apart, and `past_time`, one minute before the
parent's start, is the round before. `next`, `rest`, `current` and `pending` are a
child's position: it fetches the node after the one it is about to refresh, so
a child whose list is cut down still has one node to go. Server pools, and the order
in which they are walked, are left open: a child gets any nodes that are available,
up to the limit. Since a query that raises yields no nodes either, a parent may go on as if
there were none (`NoSubmit`) at any time.

### Migration

`parent`, `status` and `avail` are the database: the node above a VM, its mark `MIGRATING`,
and what `current_state` says. `pc`, `all`, `dom_list`, `k`, `src`, `dst` and `outcome` are
the migration tasks, each an instance of `migrateDomains` with the VM it has in hand. A task
is asked for one VM, from the node it is under (`Request`), or with `migrate_all` for all
VMs of a node (`RequestAll`): which those are is read when the task begins (`migrateNode`),
and once more when it is resumed (`ToResume`). `vm_states[n]` is what a heartbeat has read
from node `n` and not yet written. `runs`, `moving` and `transit` are the hypervisors:
external, known from the calls the code makes (`migrate_dom` and what a server says it runs)
and from the time-outs and exceptions it handles. A time-out of the call (`CallTimesOut`)
leaves the move going. A heartbeat is two actions, the reading and the writing, with
everything else between them. `Crash` is the process; hypervisors live on;
`resume_migrate_vm` does what it does after it, in one step, since it commits once.

Two history variables keep what the properties must except and the code does not
prevent. `astray` has the VMs of which it is known how they got out of sight: each place
that adds one is a named way (a move that ends after its task gave up, a VM started elsewhere
while it moves or was left, one taken for down, a resumed task that passes over one, a
task whose source is no longer the VM's node). `stuck` has those whose task ended by
the exception in its own handler. `FollowsTheVm`, `MarkHasOwner` and `ShownConverges` say
there is no other way.

### LeftNav

`parent` and `st` are the database; `owed[k]` what change `k` has still to announce after
its commit, `beat` what a heartbeat has announced before its commit; `registered` and
`pending` the session's entry in the Update Manager. `childNodes`, `nodeHash`, `icon` and
`loaded` are the tree of Ext: children of each node, nodes by id, what the icon shows,
and whether the children were filled in by an answer. Under way are the answers to polls (`told`),
requests for children (`asked`; `ghosts` for those whose node has left the tree since), and
their answers (`answers`), any of which may arrive next. A click on a container and an
entity that a poll has collected send the same request. An answer is taken in by
`update_expanded_node` (`UpdateNode`, and `UpdateGhost` for a node that is
no longer in the tree): nodes the tree does not have under that parent are new and taken
away from where they were, nodes the answer does not have are removed with all below them.

Only `task_success` announces what a task has committed, so a task may end between the two:
it fails (`TaskFails`), as a migration does that has committed the moves of some VMs and then
raises for another one or in `updateMetrics`, or the process ends and all lists of the
Update Manager with it (`Restart`). The entities it announces are those it was asked for with:
a VM that has moved since leaves a host that is not among them (`Unannounced`). A migration
of several VMs has one announcement in the code, and one for each move in the model.

`missed` is history: containers whose change was announced to nobody, or lost on the way.
The places that add to it are the ways a change gets lost in. To nobody: a
transfer, or a removal, of which the pool is not told; a host the task does not name; a task that
fails after a commit; a restart. On the way: a session that has not polled
yet, a list emptied at its limit, a walk that raises, a lost answer, a heartbeat read
between announcement and commit, and an answer that arrives after one that was read later.

## What the runs show

| Run | Question | Instance |
|---|---|---|
| `ExecPool` | The inductive invariant, one worker per work, work begun once, registered while it runs, the refinement of `WorkPool`, with `stop()` at any time; and unless stopped, does every submission return, without waiting for running work, and does accepted work run? | 2 workers, 2 callers, 3 works, one of them quiet |
| `ExecLeak` | Is an idle worker free? *No*: see findings | 1 worker |
| `TmSafety` | The inductive invariant, no overlap of recorded tasks, results final, nothing forgotten, once is once, the refinement of `TaskLog`, through a crash | one task of each kind, 2 workers, 3 submissions, 1 crash |
| `TmLive` | Requests are answered, though the loop's thread dies | one scheduled and one immediate task, 1 worker, 9 submissions, 2 deaths |
| `TmQuiet` | Do quiet repeating tasks overlap? *Yes* | one repeating quiet task |
| `ScWatch` | The inductive invariant, dependencies first, one thread per service, the refinement of `Supervisor`, the dead restarted, with `quit` at any time | the two services of `websetup.py`, 3 deaths, 1 failing `init`, 6 threads |
| `ScRestart` | Do stopped services stay stopped? *No* | the same, 1 death |
| `ScOrder` | The sort respects dependencies, loses nothing, raises only on a cycle, ends | 3 services, all lists, all dependencies |
| `WmRounds` | The inductive invariant, one child per node, no node given to two children a parent waits for, rounds end, nodes are freed, with a hung child, exceptions and a crash | 3 nodes, 1 parent with 2 children at a time, 5 children, 1 hung, 1 failure, 1 crash |
| `WmOrphan` | Are nodes freed after a crash too? *Not always* | 2 nodes, 1 worker, 1 crash |
| `Migration` | The inductive invariant; does the database follow the VM, and say nothing else when it is written, is every mark owned and taken off, does the state shown come right? | 2 nodes, 2 VMs; one task for all VMs of a node, or two tasks with one VM; 2 users' actions, failures or crashes |
| `LeftNav` | Is everything shown at one place, is what is stale still on its way, does the tree come right? | 2 pools, 2 servers, 1 VM, 3 changes, clicks or faults, 3 requests side by side |

Why the bounds are enough. The pool's hazards are between one caller in the critical
section, one waiting for it, a worker taken and a worker free, and a work more than there
are workers: two of each and three works contain them, and the theorems lift the safety part
to every number. Works differ in nothing but `Quiet`, so `ExecPool` looks at their
submission in one order (`InOrder` in `MCExecutionService`). In `TmSafety` two workers let
executions overlap, three submissions allow an execution, a resumption and a second
execution; `TmLive` gives each of its tasks a first submission and resumptions after each
death, with the submissions to spare (the bound is never what blocks a step, or the liveness
property would fail). `ScWatch` has more threads than deaths and failures can use up. The
dependencies of three services include every shape of cycle that `_order` tells apart; the
theorems cover all others. In `WmRounds` two nodes per child and two children leave a node
to hand out again after a hung child; five children are more than such a round can use. More
hung children are left to the theorems, as far as safety goes. That rounds overlap is
outside the run and inside the theorems `NodesFreed` and `OneRefresher`, which have any
number of parents. `TmSafety` has no death of the thread: its properties about one execution
at a time are stated until there is one, and `TmLive` has two. In `Migration` two nodes are
enough for a VM to leave one and come back, and two VMs for a resumed task of the whole node
to pass over one. A task for a node beside one for a VM, and three tasks that cross, are
left to the theorem `VmsAreFollowed`, whose proof showed a crossing of migrations that two
tasks on two nodes cannot do. In `LeftNav` the limit of pending entities is 2 in place of
35, so that a change more than it holds comes about; three requests are two that overtake
one another and one for a node that leaves the tree meanwhile.

`CHECK_DEADLOCK FALSE` is said everywhere: all of these systems may stop, since nobody
is obliged to call, submit, change anything or fail, and the bounds use up works,
submissions, rounds and events.

### Fairness

* `ExecPool`: each thread goes on (weak fairness), except that work is not obliged to
  end. `task_lock` is granted to a caller that finds it free over and over
  (strong fairness of `Acquire`): Python's lock does not starve a waiter among a few threads.
* `TmLive`: the loop, requests under way, and workers go on, time passes, and work ends.
  Nobody is obliged to request; crashes and deaths are not obliged to happen.
* `ScWatch`: Service Central's thread, each service's, and the one that quits, once it
  has begun.
* `ScOrder`: the loop goes on.
* `WmRounds`, `WmOrphan`: parents and children go on, and a refresh ends, by a time-out
  if need be. No child has to be taken for hung.
* `Migration`: every task goes on and is resumed after a crash, a move ends one way or the
  other, every node's heartbeat comes (the code runs it every minute). Users, time-outs
  and failures are not obliged to happen.
* `LeftNav`: one of the steps under way is taken as long as there is one, in any order. That
  is enough because each of them uses something up: an announcement, a poll's list, a
  request or an answer.

Assumptions about time, made where the code relies on them: a submitted
job comes to the first line of `do_work` before its task comes due again and before
the loop's next round, both a minute (`ComeDue`, `LoopEnd`); no request is
submitted before the service has started.


## What is proved

By TLAPS, for every value of the constants that satisfies the assumptions the modules state:

* `ExecutionServiceProofs`. `IInv` is the conjunction of `TypeOK`; `LockInv`: between
  acquire and release, and nowhere else, a caller has `task_lock`; `CallInv`: what a
  caller's place says of its work and of the worker it is about to notify; `WorkInv`:
  a work is stored in one worker, and is new only until that worker is notified;
  `HeldInv`: accepted and running works sit in workers that count as taken; `StopInv`:
  only `stop` kills; `BusyCoversWork`: a worker at work is marked busy, or the caller
  that woke it is still in `new_work`. The last is the heart: `_busy` is wrong in the window
  between `do()` and the next line, and what saves the pool is that the window lies
  inside `task_lock`. None of the parts is inductive alone: `OneWorkerPerWork` needs
  `BusyCoversWork`, which needs `LockInv` (only one caller has a window open) and
  `CallInv` (the worker it chose cannot begin work in between). From `IInv` follow
  `OneWorkerPerWork`, `NewWorkNeverWaitsForWork` and `BegunOnce`.
  `RunningIsRegistered` takes an assumption of its own, that each submission has a `task_id`
  of its own, and `Registered`: from its acceptance until its own `do_work` clears the
  entry a work is in `running_tasks`, or its caller is about to put it there.
  `PoolImplemented` maps each step to one of `WorkPool` or to a stutter; that
  `Accept` finds the pool not full needs `HeldInv`, by which the works held are in as many
  workers, and the worker chosen has none.
* `TaskManagerProofs`, on top of `WorkPool`, for any tasks of each kind, quiet or not, any
  number of workers, crashes and deaths of the thread. The core of `IInv` is a circle of
  three parts: `OneJob` (a recorded task has one job in hand) holds because what the loop or
  `init` is about to submit is in nobody's hands (`SubmitsIdle`); that is so because a task with
  a job in hand either has a `STARTED` row in the snapshot, or its job has yet to begin, and then
  the task is not due unless its row is in the session (`NotBegun`); and the row is there
  because the one job of the task writes the task's one `STARTED` row, or will resume it
  (`OneRow`, `RunningIsRecorded`), which no other job ends, by `OneJob` again. The other
  parts say how far a job, its worker and its row are (`JobsOK`, `RowsOK`), what the tables
  and the thread may hold (`RequestsOK`, `LoopOK`), that a row about to be
  deleted has been answered for (`DirtyStands`, for `NeverForgotten`, which is stated through
  deaths of the thread too and which the theorem `NothingForgotten` proves with them), and that a task to run
  once has one job and then no interval but one about to be deleted (`OnceSubmitted`, for
  `OnceMeansOnce`). `ResultsAreFinal` follows from the step that writes a row (`RowEnds`) and
  `RunningIsRecorded`. `LogKept` maps each step, as long as the thread has not died, to a step
  of `TaskLog` or to a stutter: `do_work` opens a row or takes up one that is open
  (`OneRow`), the end closes the row of its own task (`RunningIsRecorded`), and a refusal
  writes a row of its own only for a task with none open (`SubmitsIdle`, `NotBegun`).
  `LogImplemented` states it of whole behaviours in which the thread never dies.
* `ServiceOrderProofs`, for every finite set of services. `IInv`: the two lists share
  out the services; the pairs left are the given ones whose parent is not yet listed;
  the services put back since one was taken (the last `count` of the list) each depend
  on another that is left; `RespectsDependencies`. From it: `ReturnsAll`, and
  `RaisesOnlyOnCycle`, where the services left when it raises are the cycle. `TurnsAreBounded`
  is the safety half of `SortEnds`: the square of the services left, with the turns until it
  would give up, falls at every turn, so n services take n * n + n + 1 turns at most.
* `ServiceCentralProofs`, for every set of services, of dependencies and of threads. `IInv`:
  `InOrder`, a prefix of the order has been started and all of it awaited but the last;
  `ListsOK`, the lists hold threads that were made; `OnePresent`, of the threads made
  for a service one at most runs or is on the executor's list. `OneThreadPerService` is weaker
  than the last and not inductive: a restart looks at the list, not at who runs.
  `SupervisorImplemented` maps each step to one of `Supervisor`: a thread that is restarted
  serves nobody else's service since the old one is over (`OnePresent`), the services it
  depends on are ready by `InOrder`, and until `quit` no thread ends of itself, which needs
  `ServingIsReady`: one that is past `init` never finds its flag cleared. `SInv` is `IInv` with that.
  The order is a constant; its assumption is what `ServiceOrderProofs` proves of the sort.
* `WorkManagerProofs`, for any nodes, parents and children. `NodesAreFreedBySomebody`
  with `InHand` (whom a parent has in hand while it records or gives up a child) and
  `OwnNodesWereGiven`. For `OneChildPerNode` a second invariant, `RInv`: rounds
  begin in order, a child works on nodes it was given, and in the first round, until a
  child is marked hung, what was given once is not given again (`HandedOutOnce`). A third,
  `HInv`, is for rounds that overlap, and for children taken for hung in a single one: of the
  children on one parent's list no two were made for one node, because such a
  node counts as handed out since that parent began (`HandedOutSince`), which only the giving
  up of a hung child of another parent could undo. `WInv` is all of them.
* `MigrationProofs`, for any nodes, any finite set of VMs, and any tasks, each of one VM
  or of all that are under a node. `FollowsTheVm` says where a VM
  runs; what makes it inductive is what the tasks still to come believe. `OneSource`: the tasks
  that have a VM before them, and did not lose it, mean to take it from one node;
  `LeavesItsNode`: that is its node while it is moved; `IsOrWillBe`: otherwise it runs where
  it is said to be, or a task that will say so has brought it; `StaysWhereSeen`: it has not
  gone from where a task has seen it, before that task writes it down.
  `MarkHasOwner` is inductive with the types. `RecordedWhereItIs` is about the two steps that
  write where a VM is: at the end of a migration `StaysWhereSeen` has kept what the
  task saw some time before, and what a resumed task finds in its destination is on its
  way to no third node by `LeavesItsNode` and nowhere else by `IsOrWillBe`.
* `LeftNavProofs`, for any pools, servers, VMs and requests. `AppearsOnce` is inductive with
  `Levels`: servers are in pools and VMs on servers, in the database, in the tree and in
  every answer, so that an answer never takes a container from among its own ancestors.
* `LeftNavKnownProofs`, on top of it, for `StaleIsKnown`. That is not inductive: an answer that
  was read too early can arrive at any time, put a container that was right back to what it
  was, or take a VM out of it. `HarmIsMended` says that such an answer is either known to be
  too old (then the container counts as missed) or has a right one read after it, or
  a request or an announcement to come. Each step of the proof shows that of the
  answers left: of those before an answer that arrives, and of those read before a
  change. `OpenedAreInTree` is there because the browser passes over an
  entity that it does not have: what was opened it has. The invariant as a whole is `KInv`;
  TLC found no state without it on the instance of `LeftNav`, nor with a fourth request.
  `RestIsRight` is the safety half of `Converges`: whenever nothing is left to announce, to
  collect, to ask for or to read, what the user has opened is right, but for what was lost.

Every invariant and every action property of the runs that pass is proved, and so are the
three refinements. Only model-checked are the liveness properties (`AcceptedWorkRuns`,
`NewWorkReturns`, `RequestsAreAnswered`, `DeadAreRestarted`, `SortEnds`, `RoundsEnd`,
`NodesAreFreedUnlessFailed`, `Converges`, `ShownConverges`): fairness and `ENABLED` are out
of the prover's reach. Bounds such as `MaxJobs` or `MaxEvents` stay in the proved formulas,
as constants that may have any value.

## Findings

Four runs are expected to end in a counterexample; `PROJECT.json` quotes the comment
each contradicts.

* `ExecLeak`, `execution_service.py:52`. `_busy = True` after the worker was woken: a
  worker that is done by then is marked busy for ever, and the pool is one smaller.
* `TmQuiet`, `model/services.py:276`. The check for a prior execution looks for a row
  that quiet tasks never write; all periodic tasks of `websetup.py` are quiet.
* `ScRestart`, `executors.py:376`. `quit` clears the flag first so that stopped
  services are not restarted; a check that has begun restarts them all the same.
* `WmOrphan`, `WorkManager.py:110`. After a crash between a child's result and its
  parent's clean-up, its nodes stay assigned and are never refreshed again.

### Known limits of the code

Seen while modelling, described here and kept out of the properties' scope, by a history
variable or a condition in the property. Of the services:

* `stop()` of the pool can wait for ever: a worker woken by `do()` that finds `alive`
  cleared dies with its lock held (`execution_service.py:112`). `ExecPool` has
  those states; nothing in the repository promises that `stop` returns.
* A crash between a submission and the commit of its interval row makes a task that
  was to run once run twice (`task_service.py:73`); `OnceMeansOnce` is stated for a
  process that does not crash, and whose loop does not die.
* When only the loop's thread dies, `init` resumes tasks whose workers still run
  them (`task_service.py:117`): `RecordedTasksDoNotOverlap`, `ResultsAreFinal` and
  `RunningIsRecorded` are stated until such a death, and do not hold after one.
* `init` ignores a resumption that was refused (`task_service.py:134`): the row stays
  `STARTED`, and the task is held back from then on.
* A service whose first `init` raises is awaited without limit (`executors.py:370`).
* The clean-up after a hung child goes by node (`WorkManager.py:140`), so with two
  parents at once it may free a node that belongs to a child of the other; and the node
  a hung child had fetched ahead (`tasks.py:478`, `:757`) may be refreshed twice. That two
  children do not refresh one node at a time is stated for one round with no hung child;
  `OneChildPerNode` says what is left with several rounds or hung children, and nothing
  for both together.
* Nodes of a parent that failed are freed by nobody; `NodesAreFreedBySomebody`
  counts that parent, to say that there is no other way to lose one.
* `get_work` does not end while a pending node is in no pool (`AvailabilityWorker.py:105`).

Of migrations (`astray`, `stuck`):

* The handler of an exception raises one itself (`GridManager.py:633`): the VM keeps its mark,
  and heartbeats pass over it until a restart.
* Whether a VM is moved or only its record follows the state last written
  (`GridManager.py:550`), which may be out of date.
* The call that moves a VM times out while the move goes on (`GridManager.py:563`): the VM
  arrives when its task has given up.
* A second migration of the same VM is refused by the hypervisor, and clears the mark the
  first has set (`GridManager.py:569`); tasks that take one VM from different nodes
  in turn look for it where it is no more.
* A resumed migration of all VMs of a node passes over the VM after one it removes from its
  list (`GridManager.py:1590`).

Of the navigator (`missed`):

* The transfer or removal of a server announces nothing to its pools
  (`GridManager.py:347`, `:312`).
* A task that fails announces nothing of what it has committed before (`model/services.py:410`):
  so do migrations of several VMs of which one fails, one whose metrics cannot be read
  (`GridManager.py:1559`), and a resumed one (`GridManager.py:1618`).
* A restart empties the lists of all sessions (`UpdateManager.py:235`), and what was
  committed and not yet announced is announced by tasks that are resumed, only.
* A task announces the host its VM was on when it was asked for, not the one it has moved
  from since (`core/services/tasks.py:222`).
* The pending changes of a session are dropped when there are more than 35
  (`UpdateManager.py:251`), and for the sessions not yet reached when another one logs out
  during the walk (`UpdateManager.py:289`).
* A poll's answer that is lost takes what it carried with it (`dashboard.js:911`).
* A heartbeat announces before it commits (`VNode.py:782`).
* Answers are taken in as they arrive, also when one was read before another that has
  arrived (`treenode.js:143`).
* Fast clicks race for menu and panels (`dashboard.js:489`, `:550`); not modelled.

## Not modelled, and why

* Storage, network, definitions, images, appliances, e-mail, metrics and their roll-up: SQL, remote
  scripts and files, called from one request or task; a model would be no shorter than the
  code.
* `LockManager`, and the history of availability: what row locks exclude is a
  matter of the database's gap locks, not of this code.
* `NodeCache`, `NodePool` and the metric caches: dictionaries under a lock; what can go wrong
  (in `PROJECT.json`, hazards) takes two threads and a few lines.
* `CollectMetricsWorker` and `VMAvailabilityWorker` follow the protocol of `WorkManager` with
  other queries.
* Of the tasks: deletion and cancellation, calendars' arithmetic (any subset of the tasks
  may match a minute), notifications. Of the VM life cycle: provisioning and hibernation.
* Browser code. By far most JavaScript of the repository is vendored (Ext, jQuery, prototype,
  flot); of Ext the tree is modelled, as far as the navigator rests on it. Most of the
  system's own is presentation: dialogs, grids, charts and wizards that show one answer and keep
  nothing. What keeps state across requests is the navigator, and that is `LeftNav`.

What would come next, in this order: reservations of ports against their 30 seconds
(`NodeCache`) and the shared connections (`NodePool`); the refresh of nodes with its row
locks and the history of their states, composed with `WorkManager`'s children; and the pure
algorithms: eviction from caches, paging of the purge, the bits of a calendar, each against
a reference definition.

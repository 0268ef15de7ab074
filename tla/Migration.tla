------------------------------ MODULE Migration ------------------------------
(***************************************************************************)
(* The migration of virtual machines (model/GridManager.py): tasks that    *)
(* move VMs from one node to another, the heartbeats that write down which *)
(* VMs run (model/VNode.py), users who start and stop them, and a crash    *)
(* after which the tasks are resumed.  The database says under which node  *)
(* a VM is; where it really runs only the hypervisors know.                *)
(*                                                                         *)
(* A task migrates one VM, from the node it was under when the task was    *)
(* asked for, or all that are under a node when the task begins.  Nothing  *)
(* keeps two tasks from migrating one VM, nor a user from starting a VM    *)
(* that is on its way.                                                     *)
(***************************************************************************)
EXTENDS Integers, SequencesExt

CONSTANTS Nodes, Vms, None,
          MaxTasks,    \* bound: migration tasks
          MaxEvents    \* bound: starts, stops, failed requests, crashes

Tasks == 1..MaxTasks

ASSUME NoneAssumption == None \notin Nodes \cup Tasks /\ None # "MIGRATING"
ASSUME VmsAssumption == IsFiniteSet(Vms)
ASSUME BoundsAssumption == {MaxTasks, MaxEvents} \subseteq Nat

VARIABLES
  (* the database *)
  parent,      \* the node above each VM
  status,      \* "MIGRATING" or None
  avail,       \* current_state of a VM says that it runs
  (* the tasks *)
  pc,          \* how far each is with the VM in hand
  all,         \* migrate_all: it takes all VMs of its source
  dom_list,    \* its VMs, of which it is the k-th that it has in hand
  k,
  src, dst,    \* source and destination
  outcome,     \* "idle": the VM was down; "moved"; "over": wait_time_over
  (* the heartbeats *)
  vm_states,   \* what each node has answered and nobody written down, or None
  (* the hypervisors *)
  runs,        \* where each VM runs
  moving,      \* the task whose migrate call moves it, or None
  transit,     \* VMs that have left the one node and not reached the other
  (* history *)
  astray,      \* VMs of which it is known how they got out of sight
  stuck,       \* VMs whose migration was ended by an exception while it waited
  events

database == <<parent, status, avail>>
tasks    == <<pc, all, dom_list, k, src, dst, outcome>>
request  == <<all, dom_list, src, dst>>
platform == <<runs, moving, transit>>
history  == <<astray, stuck>>
vars == <<database, tasks, vm_states, platform, history, events>>

dom(t) == dom_list[t][k[t]]
Doms(t) == {dom_list[t][i] : i \in DOMAIN dom_list[t]}
InProgress(t) == pc[t] \in {"begin", "issue", "moving", "refused", "wait", "dest", "store"}

(* The task still has the VM before it.                                    *)
Pending(t, v) == InProgress(t) /\ \E i \in DOMAIN dom_list[t] : i >= k[t] /\ dom_list[t][i] = v
Ahead(t, v) == Pending(t, v) \/ (pc[t] = "resume" /\ v \in Doms(t))
Busy(v) == \E t \in Tasks : Ahead(t, v)

-----------------------------------------------------------------------------
Init == /\ parent \in [Vms -> Nodes]
        /\ status = [v \in Vms |-> None]
        /\ avail = [v \in Vms |-> TRUE]
        /\ pc = [t \in Tasks |-> "none"]
        /\ all = [t \in Tasks |-> FALSE]
        /\ dom_list = [t \in Tasks |-> << >>]
        /\ k = [t \in Tasks |-> 1]
        /\ src = [t \in Tasks |-> None]
        /\ dst = [t \in Tasks |-> None]
        /\ outcome = [t \in Tasks |-> "idle"]
        /\ vm_states = [n \in Nodes |-> None]
        /\ runs = [v \in Vms |-> {parent[v]}]
        /\ moving = [v \in Vms |-> None]
        /\ transit = {}
        /\ astray = {} /\ stuck = {}
        /\ events = 0

(* History: a task that was asked for when the VM was under another node   *)
(* is still to come.  It may take the VM back from where this one brings it. *)
Crossed(v) == \E u \in Tasks : Pending(u, v) /\ src[u] # parent[v]

(* A user asks for a VM to be migrated from the node it is under ...       *)
IsNext(t) == pc[t] = "none" /\ \A u \in 1..t - 1 : pc[u] # "none"

Request(t, v, d) == /\ IsNext(t)
                    /\ d # parent[v]
                    /\ pc' = [pc EXCEPT ![t] = "begin"]
                    /\ dom_list' = [dom_list EXCEPT ![t] = <<v>>]
                    /\ src' = [src EXCEPT ![t] = parent[v]]
                    /\ dst' = [dst EXCEPT ![t] = d]
                    /\ astray' = astray \cup {w \in {v} : Crossed(w)}
                    /\ UNCHANGED <<database, all, k, outcome, vm_states, platform, stuck, events>>

(* ... or for all VMs of a node.                                           *)
RequestAll(t, n, d) == /\ IsNext(t)
                       /\ d # n
                       /\ pc' = [pc EXCEPT ![t] = "collect"]
                       /\ all' = [all EXCEPT ![t] = TRUE]
                       /\ src' = [src EXCEPT ![t] = n]
                       /\ dst' = [dst EXCEPT ![t] = d]
                       /\ UNCHANGED <<database, dom_list, k, outcome, vm_states, platform,
                                      history, events>>

(* migrateNode() reads which those are when the task begins, in any order. *)
Under(n) == {v \in Vms : parent[v] = n}

migrateNode(t) ==
  /\ pc[t] = "collect"
  /\ \E l \in SetToSeqs(Under(src[t])) :
       /\ dom_list' = [dom_list EXCEPT ![t] = l]
       /\ pc' = [pc EXCEPT ![t] = IF l = << >> THEN "ended" ELSE "begin"]
  /\ astray' = astray \cup {v \in Under(src[t]) : Crossed(v)}
  /\ UNCHANGED <<database, all, k, src, dst, outcome, vm_states, platform, stuck, events>>

-----------------------------------------------------------------------------
(* migrateDomains() goes on with the next VM, whatever became of this one. *)
NextDom(t) == IF k[t] < Len(dom_list[t])
              THEN pc' = [pc EXCEPT ![t] = "begin"] /\ k' = [k EXCEPT ![t] = @ + 1]
              ELSE pc' = [pc EXCEPT ![t] = "ended"] /\ UNCHANGED k

SetStatus(v, s) == status' = [status EXCEPT ![v] = s] /\ stuck' = stuck \ {v}

(* migrateDomain(): what current_state says decides.  A VM that runs is    *)
(* marked if the destination is up, and refused if it is down.             *)
BeginDom(t) ==
  /\ pc[t] = "begin"
  /\ \/ /\ avail[dom(t)]
        /\ SetStatus(dom(t), "MIGRATING")
        /\ pc' = [pc EXCEPT ![t] = "issue"]
        /\ UNCHANGED outcome
     \/ /\ avail[dom(t)]
        /\ pc' = [pc EXCEPT ![t] = "refused"]
        /\ UNCHANGED <<status, stuck, outcome>>
     \/ /\ ~avail[dom(t)]
        /\ pc' = [pc EXCEPT ![t] = "store"]
        /\ outcome' = [outcome EXCEPT ![t] = "idle"]
        /\ UNCHANGED <<status, stuck>>
  /\ UNCHANGED <<parent, avail, request, k, vm_states, platform, astray, events>>

(* migrate_dom() asks the source's hypervisor, which moves a VM that runs  *)
(* there and is not being moved.                                           *)
Issue(t) ==
  /\ pc[t] = "issue"
  /\ IF src[t] \in runs[dom(t)] /\ moving[dom(t)] = None
     THEN moving' = [moving EXCEPT ![dom(t)] = t] /\ pc' = [pc EXCEPT ![t] = "moving"]
     ELSE UNCHANGED moving /\ pc' = [pc EXCEPT ![t] = "refused"]
  /\ UNCHANGED <<database, request, k, outcome, vm_states, runs, transit, history, events>>

(* socket.timeout is ignored: the move goes on without its caller.         *)
CallTimesOut(t) ==
  /\ pc[t] = "moving"
  /\ pc' = [pc EXCEPT ![t] = "wait"]
  /\ UNCHANGED <<database, request, k, outcome, vm_states, platform, history, events>>

(* Mutant: the mark is left.                                               *)
RefusedKeepsMark(t) ==
  /\ pc[t] = "refused"
  /\ NextDom(t)
  /\ UNCHANGED <<database, request, outcome, vm_states, platform, history, events>>

(* Any other exception: the mark is taken off, whoever has set it.         *)
Refused(t) ==
  /\ pc[t] = "refused"
  /\ SetStatus(dom(t), None)
  /\ NextDom(t)
  /\ UNCHANGED <<parent, avail, request, outcome, vm_states, platform, astray, events>>

(* wait_for_migration(): the VM is waited for to disappear from the source *)
(* first, or the time is over ...                                          *)
WaitSource(t) ==
  /\ pc[t] = "wait"
  /\ IF src[t] \in runs[dom(t)]
     THEN /\ pc' = [pc EXCEPT ![t] = "store"]
          /\ outcome' = [outcome EXCEPT ![t] = "over"]
     ELSE pc' = [pc EXCEPT ![t] = "dest"] /\ UNCHANGED outcome
  /\ UNCHANGED <<database, request, k, vm_states, platform, history, events>>

(* ... and then, five times, to appear in the destination.                 *)
WaitDest(t) ==
  /\ pc[t] = "dest"
  /\ pc' = [pc EXCEPT ![t] = "store"]
  /\ outcome' = [outcome EXCEPT ![t] = IF dst[t] \in runs[dom(t)] THEN "moved" ELSE "over"]
  /\ UNCHANGED <<database, request, k, vm_states, platform, history, events>>

(* A request to a node fails while it is waited, or the configuration file *)
(* cannot be moved.  The handler in the loop means to log the exception    *)
(* and raises one itself ("Error "+e): the VM keeps its mark.              *)
Raises(t) ==
  /\ pc[t] \in {"wait", "dest", "store"}
  /\ events < MaxEvents
  /\ events' = events + 1
  /\ NextDom(t)
  /\ stuck' = IF status[dom(t)] = None THEN stuck ELSE stuck \cup {dom(t)}
  /\ astray' = IF dst[t] \in runs[dom(t)] THEN astray \cup {dom(t)} ELSE astray
  /\ UNCHANGED <<database, request, outcome, vm_states, platform>>

(* Mutant: the VM is put under the destination before it is looked at      *)
(* whether the time was over.                                              *)
StoreFirst(t) ==
  /\ pc[t] = "store"
  /\ LET v == dom(t) IN
       /\ SetStatus(v, None)
       /\ parent' = [parent EXCEPT ![v] = dst[t]]
       /\ astray' = IF outcome[t] = "idle" /\ runs[v] # {} THEN astray \cup {v} ELSE astray
  /\ NextDom(t)
  /\ UNCHANGED <<avail, request, outcome, vm_states, platform, events>>

(* The end: the mark is taken off; the VM is put under the destination if  *)
(* it was seen there, or was down.  History: what runs and is left behind. *)
Store(t) ==
  /\ pc[t] = "store"
  /\ LET v == dom(t)
         left == \/ outcome[t] = "over" /\ dst[t] \in runs[v]
                 \/ outcome[t] = "idle" /\ (runs[v] # {} \/ moving[v] # None)
     IN /\ SetStatus(v, None)
        /\ parent' = IF outcome[t] = "over" THEN parent ELSE [parent EXCEPT ![v] = dst[t]]
        /\ astray' = IF left THEN astray \cup {v} ELSE astray
  /\ NextDom(t)
  /\ UNCHANGED <<avail, request, outcome, vm_states, platform, events>>

migrateDomain(t) == \/ BeginDom(t) \/ Issue(t) \/ Refused(t) \/ WaitSource(t) \/ WaitDest(t)
                    \/ Store(t)

-----------------------------------------------------------------------------
(* The hypervisors: a VM leaves the one node, reaches the other, or stays. *)
(* If the call is still waiting it returns, or raises.                     *)
Answer(t, v, p) == pc' = IF pc[t] = "moving" /\ dom(t) = v THEN [pc EXCEPT ![t] = p] ELSE pc

MoveLeaves(v) == /\ moving[v] # None /\ v \notin transit
                 /\ runs' = [runs EXCEPT ![v] = @ \ {src[moving[v]]}]
                 /\ transit' = transit \cup {v}
                 /\ UNCHANGED <<database, tasks, vm_states, moving, history, events>>

(* History: nobody is there any more to put it under its node.             *)
Expected(t, v) == \/ pc[t] \in {"moving", "wait", "dest"} /\ dom(t) = v
                  \/ pc[t] = "resume"

MoveArrives(v) == /\ v \in transit
                  /\ LET t == moving[v] IN
                       /\ runs' = [runs EXCEPT ![v] = @ \cup {dst[t]}]
                       /\ Answer(t, v, "wait")
                       /\ astray' = IF Expected(t, v)
                                    THEN astray ELSE astray \cup {v}
                  /\ transit' = transit \ {v}
                  /\ moving' = [moving EXCEPT ![v] = None]
                  /\ UNCHANGED <<database, request, k, outcome, vm_states, stuck, events>>

MoveFails(v) == /\ moving[v] # None
                /\ LET t == moving[v] IN
                     /\ runs' = [runs EXCEPT ![v] = @ \cup {src[t]}]
                     /\ Answer(t, v, "refused")
                /\ transit' = transit \ {v}
                /\ moving' = [moving EXCEPT ![v] = None]
                /\ UNCHANGED <<database, request, k, outcome, vm_states, history, events>>

move(v) == MoveLeaves(v) \/ MoveArrives(v) \/ MoveFails(v)

(* Users: do_dom_action() starts a VM that does not run on the node it is  *)
(* under, wherever else it may run.                                        *)
Start(v) == /\ parent[v] \notin runs[v]
            /\ events < MaxEvents
            /\ events' = events + 1
            /\ runs' = [runs EXCEPT ![v] = @ \cup {parent[v]}]
            /\ astray' = IF Busy(v) \/ runs[v] # {} \/ moving[v] # None
                         THEN astray \cup {v} ELSE astray
            /\ UNCHANGED <<database, tasks, vm_states, moving, transit, stuck>>

Halt(v) == /\ runs[v] # {} /\ moving[v] = None
           /\ events < MaxEvents
           /\ events' = events + 1
           /\ runs' = [runs EXCEPT ![v] = {}]
           /\ astray' = IF Busy(v) THEN astray ELSE astray \ {v}
           /\ UNCHANGED <<database, tasks, vm_states, moving, transit, stuck>>

-----------------------------------------------------------------------------
(* refresh_vm_avail(): a node is asked for its VMs (one on its way goes by *)
(* another name) ...                                                       *)
vm_heartbeat(n) ==
  /\ vm_states[n] = None
  /\ vm_states' = [vm_states EXCEPT ![n] = {v \in Vms : n \in runs[v] /\ moving[v] = None}]
  /\ UNCHANGED <<database, tasks, platform, history, events>>

(* Mutant: nothing is written of a node that has no VMs.                   *)
RefreshOfFull(n) ==
  /\ vm_states[n] # None
  /\ vm_states' = [vm_states EXCEPT ![n] = None]
  /\ avail' = [v \in Vms |-> IF parent[v] = n /\ status[v] # "MIGRATING" /\ vm_states[n] # {}
                             THEN v \in vm_states[n] ELSE avail[v]]
  /\ UNCHANGED <<parent, status, tasks, platform, history, events>>

(* ... and the VMs that are under it then, and not marked, run or do not.  *)
refresh_vm_avail(n) ==
  /\ vm_states[n] # None
  /\ vm_states' = [vm_states EXCEPT ![n] = None]
  /\ avail' = [v \in Vms |-> IF parent[v] = n /\ status[v] # "MIGRATING"
                             THEN v \in vm_states[n] ELSE avail[v]]
  /\ UNCHANGED <<parent, status, tasks, platform, history, events>>

heartbeat(n) == vm_heartbeat(n) \/ refresh_vm_avail(n)

-----------------------------------------------------------------------------
NotBegun(t) == pc[t] = "collect" \/ (pc[t] = "begin" /\ k[t] = 1 /\ ~all[t])

(* The process ends and comes back: update_vm_status() takes off all marks *)
(* and the tasks that had begun are resumed.  One that had not is lost, or *)
(* begins later if it was scheduled; of one that had done no more than     *)
(* begin, either is possible.                                              *)
Crash(first) ==
  /\ events < MaxEvents
  /\ events' = events + 1
  /\ status' = [v \in Vms |-> None]
  /\ stuck' = {}
  /\ vm_states' = [n \in Nodes |-> None]
  /\ pc' = [t \in Tasks |-> CASE NotBegun(t) -> IF first = "begin" THEN pc[t] ELSE first
                              [] InProgress(t) /\ ~NotBegun(t) -> "resume"
                              [] OTHER -> pc[t]]
  /\ UNCHANGED <<parent, avail, request, k, outcome, platform, astray>>

(* Mutant: the destination is not looked at.                               *)
GoneFromSource(t, v, recover) == recover \/ src[t] \notin runs[v]

(* resume_migrate_vm() looks at its VM, or at all that are under the       *)
(* source by now.  It takes one off the list of those that have failed if  *)
(* it is under another node than the source, or runs on the destination    *)
(* and not on the source (or, after a long time, whether or not); the      *)
(* latter it puts under the destination.  That list is the one it walks:   *)
(* the VM after one that was taken off is passed over.  It commits, and    *)
(* then raises if VMs are left on the list.                                *)
ToResume(t) == IF all[t] THEN Under(src[t]) ELSE Doms(t)

Arrived(t, v, recover) == dst[t] \in runs[v] /\ (recover \/ src[t] \notin runs[v])

Visited(t, l, recover) ==
  LET visits[i \in 1..Len(l)] ==
        i = 1 \/ ~(visits[i - 1] /\ (parent[l[i - 1]] # src[t] \/ Arrived(t, l[i - 1], recover)))
  IN {l[i] : i \in {j \in 1..Len(l) : visits[j]}}

resume_migrate_vm(t, l, recover) ==
  LET there == {v \in ToResume(t) : parent[v] = src[t] /\ Arrived(t, v, recover)}
      found == there \cap Visited(t, l, recover)
      left  == {v \in Doms(t) : dst[t] \in runs[v]} \ found
  IN /\ pc[t] = "resume"
     /\ parent' = [v \in Vms |-> IF v \in found THEN dst[t] ELSE parent[v]]
     /\ pc' = [pc EXCEPT ![t] = "ended"]
     /\ astray' = astray \cup {v \in left : parent[v] # dst[t]}
     /\ UNCHANGED <<status, avail, request, k, outcome, vm_states, platform, stuck, events>>

(* A request to a node raises before the commit.                           *)
ResumeFails(t) ==
  /\ pc[t] = "resume"
  /\ events < MaxEvents
  /\ events' = events + 1
  /\ pc' = [pc EXCEPT ![t] = "ended"]
  /\ astray' = astray \cup {v \in Doms(t) : dst[t] \in runs[v] /\ parent[v] # dst[t]}
  /\ UNCHANGED <<database, request, k, outcome, vm_states, platform, stuck>>

Resume(t) == \E l \in SetToSeqs(ToResume(t)), recover \in BOOLEAN : resume_migrate_vm(t, l, recover)

-----------------------------------------------------------------------------
Next == \/ \E t \in Tasks : \/ \E v \in Vms, d \in Nodes : Request(t, v, d)
                            \/ \E n, d \in Nodes : RequestAll(t, n, d)
                            \/ migrateNode(t) \/ migrateDomain(t) \/ CallTimesOut(t) \/ Raises(t)
                            \/ Resume(t) \/ ResumeFails(t)
        \/ \E v \in Vms : move(v) \/ Start(v) \/ Halt(v)
        \/ \E n \in Nodes : heartbeat(n)
        \/ \E first \in {"begin", "resume", "ended"} : Crash(first)

Spec == Init /\ [][Next]_vars

(* Tasks are run, moves end somehow, heartbeats come every minute.         *)
Fairness == /\ \A t \in Tasks : /\ WF_vars(migrateNode(t)) /\ WF_vars(migrateDomain(t))
                                /\ WF_vars(Resume(t))
            /\ \A v \in Vms : WF_vars(move(v))
            /\ \A n \in Nodes : WF_vars(heartbeat(n))
FairSpec == Spec /\ Fairness

-----------------------------------------------------------------------------
Steps == {"none", "collect", "begin", "issue", "moving", "refused", "wait", "dest", "store",
          "resume", "ended"}

TypeOK == /\ parent \in [Vms -> Nodes]
          /\ status \in [Vms -> {"MIGRATING", None}]
          /\ avail \in [Vms -> BOOLEAN]
          /\ pc \in [Tasks -> Steps]
          /\ all \in [Tasks -> BOOLEAN]
          /\ dom_list \in [Tasks -> SetToAllKPermutations(Vms)]
          /\ k \in [Tasks -> Nat]
          /\ \A t \in Tasks : InProgress(t) => k[t] \in DOMAIN dom_list[t]
          /\ src \in [Tasks -> Nodes \cup {None}]
          /\ dst \in [Tasks -> Nodes \cup {None}]
          /\ outcome \in [Tasks -> {"idle", "moved", "over"}]
          /\ vm_states \in [Nodes -> (SUBSET Vms) \cup {None}]
          /\ runs \in [Vms -> SUBSET Nodes]
          /\ moving \in [Vms -> Tasks \cup {None}]
          /\ transit \subseteq {v \in Vms : moving[v] # None}
          /\ astray \subseteq Vms /\ stuck \subseteq Vms
          /\ events \in 0..MaxEvents

(* A VM runs on no other node than the one it is under, unless a migration *)
(* of it is in progress or it was lost in one of the named ways: it came   *)
(* after its task had given up or raised, or was started while it was on   *)
(* its way, or taken for down, or a resumed task has passed it over, or a  *)
(* migration from a node it had left before was still to come.             *)
FollowsTheVm == \A v \in Vms : runs[v] \subseteq {parent[v]} \/ Busy(v) \/ v \in astray

(* A VM is marked as long as a task has it in hand: the mark that stops    *)
(* its heartbeat is not forgotten, but for exceptions.                     *)
MarkHasOwner ==
  \A v \in Vms : status[v] = "MIGRATING" =>
    v \in stuck \/ \E t \in Tasks : InProgress(t) /\ pc[t] # "begin" /\ dom(t) = v

(* What FollowsTheVm rests on.  A task that was asked for knows its nodes; *)
(* a VM is moved for one that has it in its list ...                       *)
Requested == \A t \in Tasks :
  /\ pc[t] \in {"none", "collect"} => k[t] = 1 /\ dom_list[t] = << >>
  /\ pc[t] # "none" => {src[t], dst[t]} \subseteq Nodes /\ dst[t] # src[t]
Movers == \A v \in Vms : moving[v] # None => pc[moving[v]] # "none" /\ v \in Doms(moving[v])

(* ... and of a VM that is not lost: all tasks that have it before them    *)
(* mean to take it from one node;                                          *)
OneSource == \A v \in Vms \ astray : \A t, u \in Tasks :
               Pending(t, v) /\ Pending(u, v) => src[t] = src[u]

(* that is where it is, and is said to be, while it is moved;              *)
AllFrom(v, n) == \A u \in Tasks : Pending(u, v) => src[u] = n
LeavesItsNode == \A v \in Vms \ astray : moving[v] # None =>
  LET n == src[moving[v]] IN
    parent[v] = n /\ AllFrom(v, n) /\ runs[v] \subseteq IF v \in transit THEN {} ELSE {n}

(* otherwise it runs where it is said to be, or a task that will put it    *)
(* there has brought it;                                                   *)
HasIt(t, v) == \/ pc[t] \in {"wait", "dest"} /\ dom(t) = v
               \/ pc[t] = "store" /\ outcome[t] = "moved" /\ dom(t) = v
               \/ pc[t] = "resume" /\ v \in Doms(t)
Brought(t, v) == HasIt(t, v) /\ parent[v] = src[t] /\ AllFrom(v, src[t]) /\ runs[v] \subseteq {dst[t]}
IsOrWillBe == \A v \in Vms \ astray :
  moving[v] = None => runs[v] \subseteq {parent[v]} \/ \E t \in Tasks : Brought(t, v)

(* and it has not gone from where a task has seen it.                      *)
StaysWhereSeen == \A v \in Vms \ astray, t \in Tasks :
  pc[t] = "store" /\ outcome[t] = "moved" /\ dom(t) = v =>
    moving[v] = None /\ runs[v] \subseteq {dst[t]}

IInv == /\ TypeOK /\ MarkHasOwner /\ Requested /\ Movers
        /\ OneSource /\ LeavesItsNode /\ IsOrWillBe /\ StaysWhereSeen

(* When the database puts a VM that is not lost under another node, the VM *)
(* is nowhere else and on no way, whatever was asked of the hypervisors    *)
(* since the task looked at it.                                            *)
RecordedWhereItIs ==
  [][\A v \in Vms \ astray' :
       parent'[v] # parent[v] => runs[v] \subseteq {parent'[v]} /\ moving[v] = None]_vars

(* When users and failures cease, the database says of every VM whether it *)
(* runs on the node it is under, whatever heartbeats and migrations have   *)
(* read before.                                                            *)
ShownConverges ==
  <>[](\A v \in Vms : v \in stuck \/ (avail[v] <=> parent[v] \in runs[v]))
=============================================================================

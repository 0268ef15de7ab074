---------------------------- MODULE WorkManager ----------------------------
(***************************************************************************)
(* The Work Manager (model/WorkManager.py, AvailabilityWorker.py) and its  *)
(* worker tasks (NodesAvailability in core/services/tasks.py).  Once a     *)
(* minute a parent task starts a round: it hands the managed nodes, a few  *)
(* at a time, to child tasks that refresh them, until none is left.  The   *)
(* table entity_tasks says for each node which child has it and since      *)
(* when; a node that a child has is passed over by every parent.  A round  *)
(* may last longer than a minute: parents are quiet tasks, so the Task     *)
(* Manager starts the next all the same (TaskManager, TmQuiet).            *)
(*                                                                         *)
(* Times are counted in rounds: an instant is the number of parents that   *)
(* have begun, which is all that start_time >= self.start_time can tell.   *)
(***************************************************************************)
EXTENDS FiniteSets, Integers

CONSTANTS Nodes,
          MaxWorkers,  \* max_ping_workers: children a parent has at one time
          NodeLimit,   \* max_ping_servers: nodes a child is given
          MaxParents,  \* bound: rounds
          MaxChildren, \* bound: child tasks
          MaxHung,     \* bound: children found hung
          MaxFailures, \* bound: exceptions that end a parent
          MaxCrashes,  \* bound: crashes of the process
          None

Parents == 1..MaxParents
Children == 1..MaxChildren

ASSUME NoneAssumption == None \notin Nodes \cup Children
ASSUME LimitAssumption == {MaxWorkers, NodeLimit} \subseteq Nat \ {0}
ASSUME BoundsAssumption ==
  {MaxParents, MaxChildren, MaxHung, MaxFailures, MaxCrashes} \subseteq Nat

VARIABLES
  (* table entity_tasks: the row of each node *)
  worker_id,   \* the child that has the node, or None
  start_time,  \* the round in which it was handed out last, 0 if never
  (* the parents *)
  ppc,         \* where do_work is
  worker_ids,  \* the children of each parent that are in progress
  in_hand,     \* the child submitted last, or the one found hung
  (* the children *)
  stage,       \* how far each child is
  given,       \* node_ids, the nodes it was made for
  next,        \* the node the child has fetched for its next turn
  rest,        \* the part of exc_node_ids it has not fetched yet
  current,     \* the node it is refreshing
  pending,     \* pending_nodes, not begun
  mark_hung,   \* the flag a parent sets on a child it takes for hung
  failures, crashes

rows      == <<worker_id, start_time>>
parents   == <<ppc, worker_ids, in_hand>>
progress  == <<next, rest, current, pending>>
children  == <<stage, given, mark_hung, progress>>
faults    == <<failures, crashes>>
vars == <<rows, parents, children, faults>>

Begun == Cardinality({p \in Parents : ppc[p] # "none"})
Release(S) == [n \in Nodes |-> IF n \in S THEN None ELSE worker_id[n]]
OwnedBy(C) == {n \in Nodes : worker_id[n] \in C}

(* completed_nodes: those the child has begun and ended.                   *)
Completed(c) == IF stage[c] \in {"running", "finished"}
                THEN given[c] \ (pending[c] \cup {current[c]}) ELSE {}

-----------------------------------------------------------------------------
Init == /\ worker_id = [n \in Nodes |-> None]
        /\ start_time = [n \in Nodes |-> 0]
        /\ ppc = [p \in Parents |-> "none"]
        /\ worker_ids = [p \in Parents |-> {}]
        /\ in_hand = [p \in Parents |-> None]
        /\ stage = [c \in Children |-> "none"]
        /\ given = [c \in Children |-> {}]
        /\ next = [c \in Children |-> None]
        /\ rest = [c \in Children |-> {}]
        /\ current = [c \in Children |-> None]
        /\ pending = [c \in Children |-> {}]
        /\ mark_hung = [c \in Children |-> FALSE]
        /\ failures = 0 /\ crashes = 0

-----------------------------------------------------------------------------
(* A parent: the round begins when the Task Manager runs the task.         *)
Begin(p) == /\ ppc[p] = "none"
            /\ p = Begun + 1
            /\ ppc' = [ppc EXCEPT ![p] = "get"]
            /\ UNCHANGED <<rows, worker_ids, in_hand, children, faults>>

(* get_sp_node_ids(): the nodes no child has and that were not handed out  *)
(* since this round began, up to the limit.  Which server pool they come   *)
(* from, and in which order, is left open.                                 *)
Available(p) == {n \in Nodes : ~(start_time[n] >= p \/ worker_id[n] # None)}

(* Mutant: one worker more than max_workers.                               *)
SubmitOneMore(p, c) == /\ ppc[p] = "get"
                       /\ Cardinality(worker_ids[p]) <= MaxWorkers
                       /\ stage[c] = "none"
                       /\ \A b \in Children : stage[b] = "none" => c <= b
                       /\ \E W \in SUBSET Available(p) :
                            /\ W # {} /\ Cardinality(W) <= NodeLimit
                            /\ given' = [given EXCEPT ![c] = W]
                       /\ stage' = [stage EXCEPT ![c] = "submitted"]
                       /\ worker_ids' = [worker_ids EXCEPT ![p] = @ \cup {c}]
                       /\ in_hand' = [in_hand EXCEPT ![p] = c]
                       /\ ppc' = [ppc EXCEPT ![p] = "record"]
                       /\ UNCHANGED <<rows, mark_hung, progress, faults>>

(* do_work() between get_work() calls: submit the work if fewer than the   *)
(* most workers are in progress ...                                        *)
SubmitWork(p, c) == /\ ppc[p] = "get"
                    /\ Cardinality(worker_ids[p]) < MaxWorkers
                    /\ stage[c] = "none"
                    /\ \A b \in Children : stage[b] = "none" => c <= b
                    /\ \E W \in SUBSET Available(p) :
                         /\ W # {} /\ Cardinality(W) <= NodeLimit
                         /\ given' = [given EXCEPT ![c] = W]
                    /\ stage' = [stage EXCEPT ![c] = "submitted"]
                    /\ worker_ids' = [worker_ids EXCEPT ![p] = @ \cup {c}]
                    /\ in_hand' = [in_hand EXCEPT ![p] = c]
                    /\ ppc' = [ppc EXCEPT ![p] = "record"]
                    /\ UNCHANGED <<rows, mark_hung, progress, faults>>

(* ... or wait for one to finish, or be done.  get_sp_node_ids() swallows  *)
(* an exception of the query: then too there is no work, whatever there is.*)
NoSubmit(p) == /\ ppc[p] = "get"
               /\ ppc' = [ppc EXCEPT ![p] = IF worker_ids[p] = {} THEN "ended" ELSE "wait"]
               /\ UNCHANGED <<rows, worker_ids, in_hand, children, faults>>

(* Mutant: the entries are never committed.                                *)
EntriesAreLost(p) == /\ ppc[p] = "record"
                     /\ in_hand' = [in_hand EXCEPT ![p] = None]
                     /\ ppc' = [ppc EXCEPT ![p] = "get"]
                     /\ UNCHANGED <<rows, worker_ids, children, faults>>

(* make_entity_task_entries(): after the child was submitted, its nodes    *)
(* are said to be its own.                                                 *)
make_entity_task_entries(p) ==
  /\ ppc[p] = "record"
  /\ LET c == in_hand[p] IN
       /\ worker_id' = [n \in Nodes |-> IF n \in given[c] THEN c ELSE worker_id[n]]
       /\ start_time' = [n \in Nodes |-> IF n \in given[c] THEN Begun ELSE start_time[n]]
  /\ in_hand' = [in_hand EXCEPT ![p] = None]
  /\ ppc' = [ppc EXCEPT ![p] = "get"]
  /\ UNCHANGED <<worker_ids, children, faults>>

(* Mutant: the nodes are freed and the child stays on the list.            *)
CollectKeepsChild(p) ==
  LET done == {c \in worker_ids[p] : stage[c] = "finished"} IN
  /\ ppc[p] = "wait"
  /\ done # {}
  /\ worker_id' = Release(OwnedBy(done))
  /\ ppc' = [ppc EXCEPT ![p] = "get"]
  /\ UNCHANGED <<start_time, worker_ids, in_hand, children, faults>>

(* wait_for_workers_to_finish(): children with a result are taken off the  *)
(* list, and their nodes are free.                                         *)
CollectFinished(p) ==
  LET done == {c \in worker_ids[p] : stage[c] = "finished"} IN
  /\ ppc[p] = "wait"
  /\ done # {}
  /\ worker_ids' = [worker_ids EXCEPT ![p] = @ \ done]
  /\ worker_id' = Release(OwnedBy(done))
  /\ ppc' = [ppc EXCEPT ![p] = "get"]
  /\ UNCHANGED <<start_time, in_hand, children, faults>>

(* With none finished for max_worker_wait_time, get_running_status() looks *)
(* at the children: one that has spent too long on a node is marked hung,  *)
(* and its list is cut down to that node.  (Between two nodes, where the   *)
(* code still has the last one as its current node, it spends no time.)    *)
FindHung(p, c) == /\ ppc[p] = "wait"
                  /\ \A b \in worker_ids[p] : stage[b] # "finished"
                  /\ c \in worker_ids[p]
                  /\ Cardinality({b \in Children : mark_hung[b]}) < MaxHung
                  /\ stage[c] = "running" /\ current[c] # None
                  /\ mark_hung' = [mark_hung EXCEPT ![c] = TRUE]
                  /\ rest' = [rest EXCEPT ![c] = {}]
                  /\ in_hand' = [in_hand EXCEPT ![p] = c]
                  /\ ppc' = [ppc EXCEPT ![p] = "hung"]
                  /\ UNCHANGED <<rows, worker_ids, stage, given, next, current, pending,
                                 faults>>

(* The nodes it has completed by now, and those it has not begun, are      *)
(* free; the latter count as not handed out in this round.  The node it    *)
(* hangs on stays its own.  The list of children is changed while it is    *)
(* walked, so the next one is not looked at before the next wait.          *)
ReleaseHung(p) ==
  LET c == in_hand[p] IN
  /\ ppc[p] = "hung"
  /\ worker_ids' = [worker_ids EXCEPT ![p] = @ \ {c}]
  /\ worker_id' = Release(Completed(c) \cup pending[c])
  /\ start_time' = [n \in Nodes |-> IF n \in pending[c] THEN p - 1 ELSE start_time[n]]
  /\ in_hand' = [in_hand EXCEPT ![p] = None]
  /\ ppc' = [ppc EXCEPT ![p] = "get"]
  /\ UNCHANGED <<children, faults>>

do_work(p) == \/ \E c \in Children : SubmitWork(p, c)
              \/ NoSubmit(p) \/ make_entity_task_entries(p)
              \/ CollectFinished(p) \/ ReleaseHung(p)

(* An exception in do_work ends the round: get_running_status() raises one *)
(* when the child has not come to its first node, a lost connection does.  *)
ParentFails(p) == /\ failures < MaxFailures
                  /\ failures' = failures + 1
                  /\ ppc[p] \in {"get", "record", "wait", "hung"}
                  /\ ppc' = [ppc EXCEPT ![p] = "failed"]
                  /\ UNCHANGED <<rows, worker_ids, in_hand, children, crashes>>

-----------------------------------------------------------------------------
(* A child, NodesAvailability.exec_task().                                 *)
Fetch(c, S) == IF S = {} THEN next' = [next EXCEPT ![c] = None] /\ UNCHANGED rest
               ELSE \E n \in S : /\ next' = [next EXCEPT ![c] = n]
                                 /\ rest' = [rest EXCEPT ![c] = S \ {n}]

BeginChild(c) == /\ stage[c] = "submitted"
                 /\ stage' = [stage EXCEPT ![c] = "running"]
                 /\ pending' = [pending EXCEPT ![c] = given[c]]
                 /\ Fetch(c, given[c])
                 /\ UNCHANGED <<rows, parents, given, mark_hung, current, faults>>

(* The node fetched before is begun and the one after it fetched.          *)
BeginNode(c) == /\ stage[c] = "running"
                /\ current[c] = None
                /\ next[c] # None
                /\ current' = [current EXCEPT ![c] = next[c]]
                /\ pending' = [pending EXCEPT ![c] = @ \ {next[c]}]
                /\ Fetch(c, rest[c])
                /\ UNCHANGED <<rows, parents, stage, given, mark_hung, faults>>

(* refresh_avail() returns or raises.                                      *)
EndNode(c) == /\ current[c] # None
              /\ stage[c] = "running"
              /\ current' = [current EXCEPT ![c] = None]
              /\ UNCHANGED <<rows, parents, stage, given, mark_hung, next, rest, pending, faults>>

(* Mutant: the child does not look at the mark.                            *)
EndChildUnaware(c) == /\ stage[c] = "running"
                      /\ current[c] = None
                      /\ next[c] = None
                      /\ stage' = [stage EXCEPT ![c] = "finished"]
                      /\ UNCHANGED <<rows, parents, given, mark_hung, progress, faults>>

(* check_if_hung(): no parent waits any more for a child marked hung, so   *)
(* it frees the node it was hung on itself; then it has a result.          *)
EndChild(c) == /\ stage[c] = "running"
               /\ current[c] = None
               /\ next[c] = None
               /\ worker_id' = IF mark_hung[c] THEN Release(OwnedBy({c})) ELSE worker_id
               /\ stage' = [stage EXCEPT ![c] = "finished"]
               /\ UNCHANGED <<start_time, parents, given, mark_hung, progress, faults>>

(* After a crash a child that had begun is resumed: do_cleanup() frees its *)
(* nodes, and that is all it does.                                         *)
ResumeChild(c) == /\ stage[c] = "interrupted"
                  /\ worker_id' = Release(OwnedBy({c}))
                  /\ stage' = [stage EXCEPT ![c] = "finished"]
                  /\ UNCHANGED <<start_time, parents, given, mark_hung, progress, faults>>

exec_task(c) == BeginChild(c) \/ BeginNode(c) \/ EndNode(c) \/ EndChild(c) \/ ResumeChild(c)

(* The process ends.  Parents are quiet and leave nothing that could be    *)
(* resumed; of the children, those that had written a STARTED result are.  *)
(* The rows of EntityTasks stay as they were, whoever they name.           *)
Crash == /\ crashes < MaxCrashes
         /\ crashes' = crashes + 1
         /\ ppc' = [p \in Parents |-> IF ppc[p] \in {"none", "ended"} THEN ppc[p] ELSE "failed"]
         /\ stage' = [c \in Children |-> CASE stage[c] = "submitted" -> "lost"
                                           [] stage[c] = "running" -> "interrupted"
                                           [] OTHER -> stage[c]]
         /\ UNCHANGED <<rows, worker_ids, in_hand, given, mark_hung, progress, failures>>

-----------------------------------------------------------------------------
Next == \/ \E p \in Parents : Begin(p) \/ do_work(p) \/ ParentFails(p)
        \/ \E p \in Parents, c \in Children : FindHung(p, c)
        \/ \E c \in Children : exec_task(c)
        \/ Crash

Spec == Init /\ [][Next]_vars

(* Parents and children are threads of the pool, and a refresh ends some   *)
(* day, by a timeout if need be; no child has to be taken for hung.        *)
Fairness == /\ \A p \in Parents : WF_vars(do_work(p))
            /\ \A c \in Children : WF_vars(exec_task(c))
FairSpec == Spec /\ Fairness

-----------------------------------------------------------------------------
TypeOK == /\ worker_id \in [Nodes -> Children \cup {None}]
          /\ start_time \in [Nodes -> 0..MaxParents]
          /\ ppc \in [Parents -> {"none", "get", "record", "wait", "hung", "ended", "failed"}]
          /\ worker_ids \in [Parents -> {C \in SUBSET Children : Cardinality(C) <= MaxWorkers}]
          /\ in_hand \in [Parents -> Children \cup {None}]
          /\ stage \in [Children -> {"none", "submitted", "running", "finished",
                                     "lost", "interrupted"}]
          /\ given \in [Children -> SUBSET Nodes]
          /\ next \in [Children -> Nodes \cup {None}]
          /\ rest \in [Children -> SUBSET Nodes]
          /\ current \in [Children -> Nodes \cup {None}]
          /\ pending \in [Children -> SUBSET Nodes]
          /\ mark_hung \in [Children -> BOOLEAN]
          /\ failures \in 0..MaxFailures
          /\ crashes \in 0..MaxCrashes

(* For a node that a child has there is always somebody who is to free it: *)
(* a parent that waits for the child, or has failed while it did, or the   *)
(* child itself, marked hung and not yet at its end.                       *)
NodesAreFreedBySomebody ==
  \A n \in Nodes, c \in Children : worker_id[n] = c =>
    \/ \E p \in Parents : c \in worker_ids[p]
    \/ mark_hung[c] /\ stage[c] # "finished"

(* What the two above rest on.  Who is in a parent's hand while it records *)
(* or gives up the child's nodes, and what a node's child was made for.    *)
InHand ==
  \A p \in Parents :
    /\ ppc[p] = "record" => in_hand[p] \in worker_ids[p] /\ stage[in_hand[p]] # "none"
    /\ ppc[p] = "hung" => LET c == in_hand[p] IN
         /\ c # None /\ mark_hung[c]
         /\ stage[c] = "running" \/ (stage[c] = "finished" /\ current[c] = None)
OwnNodesWereGiven ==
  \A n \in Nodes, c \in Children :
    worker_id[n] = c => n \in given[c] /\ stage[c] # "none"

IInv == TypeOK /\ NodesAreFreedBySomebody /\ InHand /\ OwnNodesWereGiven

(* No two children refresh the same node at the same time, as long as      *)
(* there is one round and no child was taken for hung; and of the children *)
(* that one parent waits for, no two ever were made for the same node,     *)
(* however many rounds overlap while no child is taken for hung, and       *)
(* however many children are while there is one round.                     *)
NoneHung == \A c \in Children : ~mark_hung[c]
Calm == Begun <= 1 /\ NoneHung
OneChildPerNode ==
  /\ Calm =>
       \A c, d \in Children : stage[c] = "running" /\ stage[d] = "running"
                              /\ current[c] # None /\ current[c] = current[d] => c = d
  /\ Begun <= 1 \/ NoneHung =>
       \A p \in Parents : \A c, d \in worker_ids[p] : given[c] \cap given[d] # {} => c = d

(* What that rests on.  Rounds begin in order; in the first a node that a  *)
(* child was made for is never available again: it counts as handed out,   *)
(* or its parent is about to say so, or has failed.                        *)
RoundsInOrder == \E k \in 0..MaxParents : {p \in Parents : ppc[p] # "none"} = 1..k
HandedOutOnce ==
  /\ \A c, d \in Children : c # d => given[c] \cap given[d] = {}
  /\ \A c \in Children : \A n \in given[c] :
       \/ start_time[n] >= 1
       \/ \E p \in Parents : ppc[p] = "failed" \/ (ppc[p] = "record" /\ in_hand[p] = c)
WorksOnGiven ==
  \A c \in Children :
    /\ rest[c] \subseteq given[c] /\ {next[c], current[c]} \subseteq given[c] \cup {None}
    /\ stage[c] \in {"none", "submitted"} =>
         rest[c] = {} /\ next[c] = None /\ current[c] = None

RInv == TypeOK /\ RoundsInOrder /\ WorksOnGiven /\ (Calm => HandedOutOnce)

(* The list of a parent holds children that were made, the one it found    *)
(* hung among them, and is empty before its round;                         *)
ListsOK ==
  /\ \A p \in Parents :
       /\ ppc[p] = "none" => worker_ids[p] = {}
       /\ ppc[p] = "hung" => in_hand[p] \in worker_ids[p]
       /\ \A c \in worker_ids[p] : stage[c] # "none"
  /\ \A c \in Children :
       pending[c] \subseteq given[c] /\ (stage[c] \in {"none", "submitted"} => pending[c] = {})

(* and a node of a child on it counts as handed out since the round began, *)
(* or the parent is about to say so, or has failed.                        *)
HandedOutSince ==
  \A p \in Parents : \A c \in worker_ids[p] :
    /\ \A d \in worker_ids[p] : given[c] \cap given[d] # {} => c = d
    /\ \A n \in given[c] :
         start_time[n] >= p \/ ppc[p] = "failed" \/ (ppc[p] = "record" /\ in_hand[p] = c)

HInv == ListsOK /\ (Begun <= 1 \/ NoneHung => HandedOutSince)

WInv == IInv /\ RInv /\ HInv

(* "So that next iteration will pick those up": a node that a child has    *)
(* becomes free again, or no parent would ever have it refreshed.          *)
NodesAreFreed == \A n \in Nodes : worker_id[n] # None ~> worker_id[n] = None

(* That holds of the code as long as no parent fails and nothing crashes.  *)
NodesAreFreedUnlessFailed ==
  \A n \in Nodes : worker_id[n] # None ~> worker_id[n] = None \/ failures + crashes > 0

(* A round ends, hung children or not, or it fails.                        *)
RoundsEnd == \A p \in Parents : ppc[p] = "get" ~> ppc[p] \in {"ended", "failed"}
=============================================================================

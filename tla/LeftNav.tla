------------------------------- MODULE LeftNav -------------------------------
(***************************************************************************)
(* The navigator of a browser session (dashboard/dashboard.js, treenode.js *)
(* and the tree of Ext), kept up to date by polling: whoever changes the   *)
(* database tells the Update Manager (model/UpdateManager.py) which        *)
(* entities to look at again, the session collects them at every poll,     *)
(* and the browser asks for the children of each that it has in its tree.  *)
(*                                                                         *)
(* Requests of a browser travel side by side: an answer may overtake one   *)
(* that was given before it, and nothing cancels a request whose node has  *)
(* left the tree in the meantime.                                          *)
(***************************************************************************)
EXTENDS Integers, SequencesExt

CONSTANTS Pools,       \* server pools: they stay
          Hosts, Vms,
          None,
          MaxPending,  \* 35: a session with more entries is emptied
          MaxRequests, \* bound: requests for children under way
          MaxPolls,    \* bound: answers to polls under way
          MaxEvents    \* bound: changes of the database, clicks, faults

Containers == Pools \cup Hosts
Items == Hosts \cup Vms
Entities == Pools \cup Items
Changes == 1..MaxEvents

ASSUME NamesAssumption == /\ Hosts \cap Vms = {}
                          /\ Pools \cap Items = {}
                          /\ None \notin Entities
ASSUME BoundsAssumption == {MaxPending, MaxRequests, MaxPolls, MaxEvents} \subseteq Nat

VARIABLES
  (* the database *)
  parent,      \* the pool of a host, the host of a VM; None if it is removed
  st,          \* the state of a VM, "up" or "down"
  (* those who change it *)
  owed,        \* entities whose change is committed and not yet announced
  beat,        \* VMs whose change a heartbeat has announced, not committed
  (* updated_entities[user][session] *)
  registered,  \* the session has an entry
  pending,     \* its list
  (* the browser's tree *)
  childNodes,  \* of each container
  nodeHash,    \* the parent of the node registered under an id, or None
  icon,        \* what the icon of a VM's node says of its state
  loaded,      \* containers whose children were filled in by an answer
  (* under way between the two *)
  told,        \* answers to polls: sets of entities
  asked,       \* requests for the children of a node of the tree
  ghosts,      \* the same, whose node has left the tree since
  answers,     \* their answers, in the order in which they were read
  (* history *)
  missed,      \* containers that were told nothing of a change, or told late
  events

database == <<parent, st>>
writers  == <<owed, beat>>
session  == <<registered, pending>>
tree     == <<childNodes, nodeHash, icon, loaded>>
requests == <<asked, ghosts>>
history  == <<missed, answers>>
vars == <<database, writers, session, tree, told, requests, history, events>>

(* What dashboardservice answers for a container, and what the tree shows. *)
Content(c) == {i \in Items : parent[i] = c}
StateOf(c) == [v \in Content(c) \cap Vms |-> st[v]]
IconsIn(c) == [v \in childNodes[c] \cap Vms |-> icon[v]]
Agrees(c) == childNodes[c] = Content(c) /\ IconsIn(c) = StateOf(c)
Exists(e) == e \in Pools \/ (e \in Items /\ parent[e] # None)
InTree(e) == e \in Pools \/ (e \in Items /\ nodeHash[e] # None)

(* History: the entities in M were changed, and that will not be announced *)
(* (any more).  The answers under way may have been read before: after     *)
(* says what an answer is too old for.                                     *)
TooOld(r, M) == [r EXCEPT !.after = @ \cup (M \cap Containers)]
Miss(M, as) == /\ missed' = missed \cup (M \cap loaded)
               /\ answers' = [k \in DOMAIN as |-> TooOld(as[k], M)]

-----------------------------------------------------------------------------
(* The user has opened every host; the session has not polled so far.      *)
Init == /\ parent \in [Items -> Containers]
        /\ \A i \in Items : parent[i] \in Pools <=> i \in Hosts
        /\ st = [v \in Vms |-> "up"]
        /\ owed = [k \in Changes |-> {}]
        /\ beat = {}
        /\ registered = FALSE
        /\ pending = {}
        /\ childNodes = [c \in Containers |-> Content(c)]
        /\ nodeHash = parent
        /\ icon = st
        /\ loaded = Containers
        /\ told = [p \in 1..MaxPolls |-> {}]
        /\ asked = [c \in Containers |-> 0]
        /\ ghosts = [h \in Hosts |-> 0]
        /\ answers = << >>
        /\ missed = {}
        /\ events = 0

-----------------------------------------------------------------------------
(* Entity.get_hierarchy(): the entity and all above it; nothing when it is *)
(* no longer there.                                                        *)
get_hierarchy(e) == IF ~Exists(e) THEN {}
                    ELSE CASE e \in Pools -> {e}
                           [] e \in Hosts -> {e, parent[e]}
                           [] e \in Vms   -> {e, parent[e], parent[parent[e]]}
Hierarchies(ids) == UNION {get_hierarchy(e) : e \in ids}

(* A change of the database is committed.  task_success() will announce    *)
(* its entities, unless the task fails before that, or the process ends.   *)
Commit(ids) == /\ events < MaxEvents
               /\ events' = events + 1
               /\ owed' = [owed EXCEPT ![events + 1] = ids]
               /\ UNCHANGED <<beat, session, tree, told, requests>>

(* A task names the host at which it was asked for.  If the VM has moved   *)
(* since, the host it leaves is not among the entities that are announced. *)
Unannounced(c, ids) == get_hierarchy(c) \ Hierarchies(ids)

Flip(s) == IF s = "up" THEN "down" ELSE "up"

StartOrStopVm(v) == /\ Exists(v)
                    /\ st' = [st EXCEPT ![v] = Flip(st[v])]
                    /\ Commit({v})
                    /\ UNCHANGED <<parent, history>>

(* Mutant: only the source is announced.                                   *)
MigrateTellsSource(v, s, h) ==
  /\ parent[v] \notin {None, h}
  /\ Exists(s) /\ Exists(h) /\ s # h
  /\ parent' = [parent EXCEPT ![v] = h]
  /\ Commit({s})
  /\ Miss(Unannounced(parent[v], {s}), answers)
  /\ UNCHANGED st

(* migrateDomain() commits the move of each VM by itself, a resumption     *)
(* all of its VMs' at once; get_entity_ids() names the source and the      *)
(* destination of the task.                                                *)
MigrateVm(v, s, h) ==
  /\ parent[v] \notin {None, h}
  /\ Exists(s) /\ Exists(h) /\ s # h
  /\ parent' = [parent EXCEPT ![v] = h]
  /\ Commit({s, h})
  /\ Miss(Unannounced(parent[v], {s, h}), answers)
  /\ UNCHANGED st

(* The entity of the task that removes a VM is a host, too.                *)
RemoveVm(v, s) == /\ Exists(v)
                  /\ parent' = [parent EXCEPT ![v] = None]
                  /\ Commit({s})
                  /\ Miss(Unannounced(parent[v], {s}), answers)
                  /\ UNCHANGED st

(* A server goes with the VMs under it.  The entity of the task is the     *)
(* server: there is nothing above it any more when it is announced.        *)
RemoveServer(h) == /\ Exists(h)
                   /\ parent' = [i \in Items |-> IF i = h \/ parent[i] = h THEN None
                                                 ELSE parent[i]]
                   /\ Commit({h})
                   /\ Miss({parent[h]}, answers)
                   /\ UNCHANGED st

(* A transfer to another pool is a request and announces nothing; so is    *)
(* the addition of a server.                                               *)
TransferServer(h, p) == /\ Exists(h) /\ parent[h] # p
                        /\ parent' = [parent EXCEPT ![h] = p]
                        /\ Commit({})
                        /\ Miss({parent[h], p}, answers)
                        /\ UNCHANGED st

Change == \/ \E v \in Vms : StartOrStopVm(v)
          \/ \E v \in Vms, s \in Hosts : RemoveVm(v, s)
          \/ \E v \in Vms, s, h \in Hosts : MigrateVm(v, s, h)
          \/ \E h \in Hosts : RemoveServer(h)
          \/ \E h \in Hosts, p \in Pools : TransferServer(h, p)

-----------------------------------------------------------------------------
(* Mutant: the list is emptied when it is full, after the new were added.  *)
SetUpdatedThenEmpty(ids) ==
  /\ LET all == IF registered THEN pending \cup Hierarchies(ids) ELSE pending
     IN pending' = IF Cardinality(all) > MaxPending THEN {} ELSE all
  /\ Miss(IF ~registered THEN Hierarchies(ids)
          ELSE IF Cardinality(pending) > MaxPending THEN pending ELSE {}, answers)

(* set_updated_entities(): a list with more than 35 entries is emptied     *)
(* before the new ones are added.  A session that has not polled has none. *)
set_updated_entities(ids) ==
  LET emptied == registered /\ Cardinality(pending) > MaxPending
      ignored == CASE ~registered -> Hierarchies(ids)
                   [] emptied     -> pending \ Hierarchies(ids)
                   [] OTHER       -> {}
  IN /\ pending' = IF ~registered THEN pending
                   ELSE (IF emptied THEN {} ELSE pending) \cup Hierarchies(ids)
     /\ Miss(ignored, answers)

Announce(k) == /\ owed[k] # {}
               /\ set_updated_entities(owed[k])
               /\ owed' = [owed EXCEPT ![k] = {}]
               /\ UNCHANGED <<database, beat, registered, tree, told, requests, events>>

(* Another session of the user is deleted by post_logout(), without the    *)
(* lock, while the sessions are walked: the walk raises RuntimeError.      *)
WalkRaises(k) == /\ owed[k] # {}
                 /\ events < MaxEvents
                 /\ events' = events + 1
                 /\ Miss(Hierarchies(owed[k]), answers)
                 /\ owed' = [owed EXCEPT ![k] = {}]
                 /\ UNCHANGED <<database, beat, session, tree, told, requests>>

(* The task fails after its commit, and task_fail() announces nothing:     *)
(* another VM of its list was not moved, the metrics could not be read, a  *)
(* resumption has left VMs behind, or its success could not be recorded.   *)
TaskFails(k) == /\ owed[k] # {}
                /\ events < MaxEvents
                /\ events' = events + 1
                /\ Miss(Hierarchies(owed[k]), answers)
                /\ owed' = [owed EXCEPT ![k] = {}]
                /\ UNCHANGED <<database, beat, session, tree, told, requests>>

(* The server's process ends and comes back.  The sessions' lists were in  *)
(* its memory, and what was not committed or not announced is lost, but    *)
(* for tasks that are resumed: they will announce what they have changed.  *)
(* What the browser has asked for is answered by the new process, or       *)
(* fails (PollFails, AnswerFails).                                         *)
Restart(resumed) ==
  /\ events < MaxEvents
  /\ events' = events + 1
  /\ Miss(pending \cup UNION {Hierarchies(owed[k]) : k \in Changes \ resumed}, answers)
  /\ owed' = [k \in Changes |-> IF k \in resumed THEN owed[k] ELSE {}]
  /\ beat' = {}
  /\ registered' = FALSE
  /\ pending' = {}
  /\ UNCHANGED <<database, tree, told, requests>>

(* refresh_vm_avail(): the heartbeat announces a VM first ...              *)
BeatAnnounces(v) == /\ Exists(v)
                    /\ v \notin beat
                    /\ events < MaxEvents
                    /\ events' = events + 1
                    /\ set_updated_entities({v})
                    /\ beat' = beat \cup {v}
                    /\ UNCHANGED <<database, owed, registered, tree, told, requests>>

(* ... and commits its state when it releases the lock.  A session that    *)
(* was told before, and has read the old state since, hears no more of it. *)
Unread(c) == c \in pending \/ asked[c] > 0 \/ \E p \in DOMAIN told : c \in told[p]

BeatCommits(v) == /\ v \in beat
                  /\ beat' = beat \ {v}
                  /\ st' = [st EXCEPT ![v] = Flip(st[v])]
                  /\ Miss({c \in {parent[v]} \cap Containers : ~Unread(c)}, answers)
                  /\ UNCHANGED <<parent, owed, session, tree, told, requests, events>>

-----------------------------------------------------------------------------
(* A poll reaches get_updated_entities(): the first one makes the entry,   *)
(* each later one takes all that is in the list.                           *)
Poll == /\ IF registered
           THEN \E p \in DOMAIN told :
                  /\ pending # {}
                  /\ told[p] = {} /\ \A q \in 1..p - 1 : told[q] # {}
                  /\ told' = [told EXCEPT ![p] = pending]
                  /\ pending' = {}
           ELSE UNCHANGED <<told, pending>>
        /\ registered' = TRUE
        /\ UNCHANGED <<database, writers, tree, requests, history, events>>

InFlight == Len(answers) + FoldFunction(+, 0, asked) + FoldFunction(+, 0, ghosts)

(* update_ui_manager(): every entity that is in the tree is asked for.     *)
PollAnswered(p) == LET ask == {c \in told[p] \cap Containers : InTree(c)} IN
                   /\ told[p] # {}
                   /\ InFlight = 0 \/ InFlight + Cardinality(ask) <= MaxRequests
                   /\ asked' = [c \in Containers |->
                                  IF c \in ask THEN asked[c] + 1 ELSE asked[c]]
                   /\ told' = [told EXCEPT ![p] = {}]
                   /\ UNCHANGED <<database, writers, session, tree, ghosts, history, events>>

PollFails(p) == /\ told[p] # {}
                /\ events < MaxEvents
                /\ events' = events + 1
                /\ Miss(told[p], answers)
                /\ told' = [told EXCEPT ![p] = {}]
                /\ UNCHANGED <<database, writers, session, tree, requests>>

(* The user clicks a container: the same request, the same answer.         *)
Click(c) == /\ InTree(c)
            /\ events < MaxEvents
            /\ events' = events + 1
            /\ InFlight < MaxRequests
            /\ asked' = [asked EXCEPT ![c] = @ + 1]
            /\ UNCHANGED <<database, writers, session, tree, told, ghosts, history>>

-----------------------------------------------------------------------------
(* dashboardservice reads the database.                                    *)
Answer(c, live) == [of |-> c, nodes |-> Content(c), states |-> StateOf(c),
                    live |-> live, after |-> {}]

(* Mutant: an answer without a request.                                    *)
AnswerUnasked(c) == /\ InTree(c)
                    /\ asked' = [asked EXCEPT ![c] = @ - 1]
                    /\ answers' = Append(answers, Answer(c, TRUE))
                    /\ UNCHANGED <<database, writers, session, tree, told, ghosts,
                                   missed, events>>

dashboardservice(c) == /\ asked[c] > 0
                       /\ asked' = [asked EXCEPT ![c] = @ - 1]
                       /\ answers' = Append(answers, Answer(c, TRUE))
                       /\ UNCHANGED <<database, writers, session, tree, told, ghosts,
                                      missed, events>>

AnswerGhost(h) == /\ ghosts[h] > 0
                  /\ ghosts' = [ghosts EXCEPT ![h] = @ - 1]
                  /\ answers' = Append(answers, Answer(h, FALSE))
                  /\ UNCHANGED <<database, writers, session, tree, told, asked,
                                 missed, events>>

AnswerFails(i) == /\ events < MaxEvents
                  /\ events' = events + 1
                  /\ Miss(IF answers[i].live THEN {answers[i].of} ELSE {},
                          RemoveAt(answers, i))
                  /\ UNCHANGED <<database, writers, session, tree, told, requests>>

-----------------------------------------------------------------------------
(* The answer for node c arrives.  A node is new if the tree has none with *)
(* its id inside c.                                                        *)
get_new_nodes(r) == {i \in r.nodes : nodeHash[i] # r.of}
get_del_nodes(r) == childNodes[r.of] \ r.nodes

(* Mutant: the node is not taken away from its former parent.              *)
MovedFromNowhere(r, c) == {}

(* appendChildNodes(): a new node that the tree has under a parent with    *)
(* another id is taken away there.                                         *)
MovedFrom(r, c) == {i \in get_new_nodes(r) : nodeHash[i] = c}

(* History: the containers that the answer changes, and those of them that *)
(* already show something that was read later.                             *)
Touched(r) == {c \in Containers : MovedFrom(r, c) # {} \/ (r.live /\ c = r.of)}
Overtaken(r) == Touched(r) \cap r.after

Others(i, r) == [k \in 1..Len(answers) - 1 |->
   IF k < i THEN TooOld(answers[k], Touched(r)) ELSE answers[k + 1]]

(* A container is missed until an answer for it arrives that was read since. *)
Seen(r) == IF r.live THEN {r.of} \ r.after ELSE {}

(* New nodes are added, those that are gone removed, the icons of others   *)
(* renewed.  A host that is removed, or taken to another pool where it is  *)
(* a new node, takes its children out of the tree, and the requests sent   *)
(* for it will find a node that is no longer there.                        *)
UpdateNode(i) ==
  LET r == answers[i]
      new == get_new_nodes(r)
      del == get_del_nodes(r)
      gone == del \cup {n \in new : nodeHash[n] # None}
      rest == Others(i, r)
  IN /\ r.live
     /\ childNodes' = [c \in Containers |->
           CASE c = r.of -> (childNodes[c] \cup new) \ del
             [] c \in gone \ {r.of} -> {}
             [] OTHER -> childNodes[c] \ MovedFrom(r, c)]
     /\ nodeHash' = [n \in Items |->
           CASE n \in new -> r.of
             [] n \notin new /\ (n \in del \/ nodeHash[n] \in gone) -> None
             [] OTHER -> nodeHash[n]]
     /\ icon' = [v \in Vms |-> IF v \in r.nodes THEN r.states[v] ELSE icon[v]]
     /\ loaded' = (loaded \ gone) \cup {r.of}
     /\ asked' = [c \in Containers |-> IF c \in gone THEN 0 ELSE asked[c]]
     /\ ghosts' = [h \in Hosts |-> IF h \in gone THEN ghosts[h] + asked[h] ELSE ghosts[h]]
     /\ answers' = [k \in DOMAIN rest |->
           [rest[k] EXCEPT !.live = @ /\ rest[k].of \notin gone]]
     /\ UNCHANGED <<database, writers, session, told, events>>
     /\ missed' = ((missed \ Seen(r)) \cup Overtaken(r)) \cap loaded'

(* The answer for a host that has left the tree: its VMs are added to the  *)
(* detached node, but taken away from where the tree has them.             *)
UpdateGhost(i) ==
  LET r == answers[i]
      gone(n) == n \in r.nodes /\ nodeHash[n] \notin {None, r.of}
  IN /\ ~r.live
     /\ childNodes' = [c \in Containers |-> childNodes[c] \ MovedFrom(r, c)]
     /\ nodeHash' = [n \in Items |-> IF gone(n) THEN None ELSE nodeHash[n]]
     /\ answers' = Others(i, r)
     /\ UNCHANGED <<database, writers, session, icon, loaded, told, asked, ghosts, events>>
     /\ missed' = ((missed \ Seen(r)) \cup Overtaken(r)) \cap loaded'

update_expanded_node(i) == UpdateNode(i) \/ UpdateGhost(i)

-----------------------------------------------------------------------------
(* What goes on by itself, and what users and failures do.                 *)
Progress == \/ \E k \in Changes : Announce(k)
            \/ \E v \in Vms : BeatCommits(v)
            \/ Poll
            \/ \E p \in DOMAIN told : PollAnswered(p)
            \/ \E c \in Containers : dashboardservice(c)
            \/ \E h \in Hosts : AnswerGhost(h)
            \/ \E i \in DOMAIN answers : update_expanded_node(i)

Event == \/ Change
         \/ \E k \in Changes : WalkRaises(k) \/ TaskFails(k)
         \/ \E resumed \in SUBSET {k \in Changes : owed[k] # {}} : Restart(resumed)
         \/ \E v \in Vms : BeatAnnounces(v)
         \/ \E p \in DOMAIN told : PollFails(p)
         \/ \E c \in Containers : Click(c)
         \/ \E i \in DOMAIN answers : AnswerFails(i)

Next == Progress \/ Event

Spec == Init /\ [][Next]_vars

(* Tasks and heartbeats end, the browser polls at its interval, requests   *)
(* are answered and answers arrive, in whatever order.                     *)
FairSpec == Spec /\ WF_vars(Progress)

-----------------------------------------------------------------------------
Answers == [of : Containers, nodes : SUBSET Items,
            states : UNION {[S -> {"up", "down"}] : S \in SUBSET Vms},
            live : BOOLEAN, after : SUBSET Containers]

TypeOK == /\ parent \in [Items -> Containers \cup {None}]
          /\ st \in [Vms -> {"up", "down"}]
          /\ owed \in [Changes -> SUBSET Entities]
          /\ beat \in SUBSET Vms
          /\ registered \in BOOLEAN
          /\ pending \in SUBSET Entities
          /\ childNodes \in [Containers -> SUBSET Items]
          /\ nodeHash \in [Items -> Containers \cup {None}]
          /\ icon \in [Vms -> {"up", "down"}]
          /\ loaded \in SUBSET Containers
          /\ told \in [1..MaxPolls -> SUBSET Entities]
          /\ asked \in [Containers -> Nat]
          /\ ghosts \in [Hosts -> Nat]
          /\ answers \in Seq(Answers)
          /\ missed \in SUBSET Containers
          /\ events \in 0..MaxEvents

(* Whatever the order in which answers arrive, a host or a VM is at one    *)
(* place of the tree at most, and getNodeById finds it there.              *)
AppearsOnce == \A i \in Items, c \in Containers : i \in childNodes[c] <=> nodeHash[i] = c

(* What that rests on: hosts are in pools and VMs on hosts that exist, in  *)
(* the database, in the tree and in every answer.                          *)
LevelOf(c) == IF c \in Pools THEN Hosts ELSE Vms
WellFormed(r) == r.nodes \subseteq LevelOf(r.of) /\ DOMAIN r.states = r.nodes \cap Vms
Levels == /\ \A i \in Items, c \in Containers :
               parent[i] = c \/ nodeHash[i] = c => i \in LevelOf(c)
          /\ \A v \in Vms : parent[v] # None => parent[parent[v]] # None
          /\ \A k \in DOMAIN answers : WellFormed(answers[k])

IInv == TypeOK /\ AppearsOnce /\ Levels

(* The answer that will put container c right is on its way.               *)
Right(k, c) == LET r == answers[k] IN
  r.live /\ r.of = c /\ r.nodes = Content(c) /\ r.states = StateOf(c)
Underway(c) == \E k \in DOMAIN answers : Right(k, c)

(* What changed in it will be announced.                                   *)
Owed(c) == \E k \in Changes : c \in Hierarchies(owed[k])
Expected(c) == Unread(c) \/ Owed(c)

Settled(c) == Agrees(c) \/ c \in missed \/ ~Exists(c)

(* A container that the user has opened and that does not show what the    *)
(* database has is still to be announced, or collected, or read, or the    *)
(* answer is on its way, or it is missed: a change that a task announces   *)
(* and that no list, poll or answer drops does reach the browser.          *)
StaleIsKnown == \A c \in loaded : Settled(c) \/ Expected(c) \/ Underway(c)

(* What that rests on.  What was opened, or is asked for, is in the tree:  *)
(* the browser will not pass over it when it is told of it.                *)
Opened(c) == \/ c \in loaded \/ asked[c] > 0
             \/ \E k \in DOMAIN answers : answers[k].live /\ answers[k].of = c
OpenedAreInTree == \A c \in Containers : Opened(c) => InTree(c)

(* Answer k, unless it is known to be too old for container c, is about to *)
(* show there what is not so, or to take away from it what is in it.       *)
Bound(k, c) == c \in loaded \/ \E j \in 1..k : answers[j].live /\ answers[j].of = c
Spoils(k, c) == LET r == answers[k] IN
  \/ r.live /\ r.of = c /\ ~Right(k, c)
  \/ r.of # c /\ r.nodes \cap Content(c) # {}
Harmful(k, c) == c \notin answers[k].after /\ Exists(c) /\ Bound(k, c) /\ Spoils(k, c)

(* Then a better answer for c is behind it, or will be.                    *)
Mended(k, c) == Expected(c) \/ \E j \in DOMAIN answers : j > k /\ Right(j, c)
HarmIsMended == \A c \in Containers : \A k \in DOMAIN answers :
                  Harmful(k, c) => Mended(k, c)

NothingOwedYet == \A k \in Changes : k > events => owed[k] = {}
GhostsAreHosts == \A k \in DOMAIN answers : answers[k].live \/ answers[k].of \in Hosts

KInv == /\ IInv
        /\ NothingOwedYet
        /\ GhostsAreHosts
        /\ OpenedAreInTree
        /\ HarmIsMended
        /\ StaleIsKnown

(* When changes cease, all that the user has opened is put right and stays *)
(* so, but for what got lost.                                              *)
Converges == <>[](\A c \in loaded : Settled(c))
=============================================================================

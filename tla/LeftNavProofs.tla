---------------------------- MODULE LeftNavProofs ----------------------------
(***************************************************************************)
(* Theorems about the navigator, for every number of pools, servers, VMs,  *)
(* changes and requests under way.                                         *)
(***************************************************************************)
EXTENDS LeftNav, SequenceTheorems, TLAPS

USE NamesAssumption, BoundsAssumption

(* The answers that can be under way.                                      *)
Good == {r \in Answers : WellFormed(r)}

-----------------------------------------------------------------------------
(* An array of answers is a sequence of them.                              *)
LEMMA ArraysAreSequences ==
  ASSUME NEW n \in Nat, NEW f \in [1..n -> Good]
  PROVE  f \in Seq(Good) /\ DOMAIN f = 1..n
<1>1. Seq(Good) = UNION {[1..m -> Good] : m \in Nat}
  BY SeqDef
<1> QED
  BY <1>1, Zenon

(* TypeOK and Levels say of the answers under way that each is good.       *)
LEMMA AnswersAreGood ==
  ASSUME NEW as
  PROVE  as \in Seq(Good) <=> as \in Seq(Answers) /\ \A i \in DOMAIN as : WellFormed(as[i])
<1>1. ASSUME as \in Seq(Good)
      PROVE  as \in Seq(Answers) /\ \A i \in DOMAIN as : WellFormed(as[i])
  <2>1. Good \subseteq Answers
    BY DEF Good
  <2>2. as \in Seq(Answers)
    BY ONLY <1>1, <2>1, SeqMonotonic, Zenon
  <2>3. \A i \in DOMAIN as : as[i] \in Good
    BY ONLY <1>1, LenProperties, Zenon
  <2> QED
    BY <2>2, <2>3, Zenon DEF Good
<1>2. ASSUME as \in Seq(Answers), \A i \in DOMAIN as : WellFormed(as[i])
      PROVE  as \in Seq(Good)
  <2>1. Len(as) \in Nat /\ as \in [1..Len(as) -> Answers]
    BY ONLY <1>2, LenProperties, Zenon
  <2>2. as \in [1..Len(as) -> Good]
    BY ONLY <1>2, <2>1 DEF Good
  <2> QED
    BY ONLY <2>1, <2>2, ArraysAreSequences, Zenon
<1> QED
  BY <1>1, <1>2

(* The places before and after one of a sequence.                          *)
LEMMA Places ==
  ASSUME NEW n \in Nat, NEW i \in 1..n
  PROVE  /\ i \in Int /\ i - 1 \in Int /\ i + 1 \in Int /\ n \in Int
         /\ \A j \in 1..i - 1 : j \in 1..n
         /\ \A j \in i + 1..n : j \in 1..n
OBVIOUS

(* One answer less is still a sequence of answers.                         *)
LEMMA FewerAnswers ==
  ASSUME NEW as \in Seq(Good), NEW i \in DOMAIN as
  PROVE  RemoveAt(as, i) \in Seq(Good)
<1>1. Len(as) \in Nat /\ as \in [1..Len(as) -> Good]
  BY ONLY LenProperties, as \in Seq(Good), Zenon
<1>2. i \in 1..Len(as)
  BY <1>1
<1>3. SubSeq(as, 1, i - 1) \in Seq(Good)
  <2>0. \A j \in 1..i - 1 : j \in 1..Len(as)
    BY <1>1, <1>2, Places, Zenon
  <2>1. \A j \in 1..i - 1 : as[j] \in Good
    BY <1>1, <2>0, Zenon
  <2>2. 1 \in Int /\ i - 1 \in Int
    BY <1>1, <1>2, Places
  <2> QED
    BY ONLY <2>1, <2>2, SubSeqProperties, Zenon
<1>4. SubSeq(as, i + 1, Len(as)) \in Seq(Good)
  <2>0. \A j \in i + 1..Len(as) : j \in 1..Len(as)
    BY <1>1, <1>2, Places, Zenon
  <2>1. \A j \in i + 1..Len(as) : as[j] \in Good
    BY <1>1, <2>0, Zenon
  <2>2. i + 1 \in Int /\ Len(as) \in Int
    BY <1>1, <1>2, Places
  <2> QED
    BY ONLY <2>1, <2>2, SubSeqProperties, Zenon
<1> QED
  BY <1>3, <1>4, ConcatProperties, Zenon DEF RemoveAt

(* An answer that has grown old is still one.                              *)
LEMMA TooOldIsGood ==
  ASSUME NEW r \in Good, NEW M
  PROVE  TooOld(r, M) \in Good
BY DEF Good, Answers, WellFormed, TooOld

(* Missing a change keeps the types of what it touches.                    *)
LEMMA MissType ==
  ASSUME NEW M, NEW as \in Seq(Good),
         missed \in SUBSET Containers, loaded \in SUBSET Containers, Miss(M, as)
  PROVE  missed' \in SUBSET Containers /\ answers' \in Seq(Good)
<1>1. Len(as) \in Nat /\ as \in [1..Len(as) -> Good]
  BY ONLY LenProperties, as \in Seq(Good), Zenon
<1>2. answers' \in [1..Len(as) -> Good]
  BY <1>1, TooOldIsGood DEF Miss
<1>3. answers' \in Seq(Good)
  BY ONLY <1>1, <1>2, ArraysAreSequences, Zenon
<1> QED
  BY <1>3 DEF Miss

(* What is left of the answers when one of them has been worked on.        *)
LEMMA OthersType ==
  ASSUME answers \in Seq(Good), NEW i \in DOMAIN answers, NEW r
  PROVE  /\ Len(answers) - 1 \in Nat
         /\ Others(i, r) \in [1..Len(answers) - 1 -> Good]
<1>1. Len(answers) \in Nat /\ answers \in [1..Len(answers) -> Good]
  BY ONLY LenProperties, answers \in Seq(Good), Zenon
<1>2. \A j \in 1..Len(answers) - 1 : j \in 1..Len(answers) /\ j + 1 \in 1..Len(answers)
  BY ONLY <1>1
<1>3. \A j \in 1..Len(answers) - 1 :
        (IF j < i THEN TooOld(answers[j], Touched(r)) ELSE answers[j + 1]) \in Good
  BY <1>1, <1>2, TooOldIsGood
<1> QED
  BY ONLY <1>1, <1>3, i \in DOMAIN answers DEF Others

-----------------------------------------------------------------------------
(* Hosts are in pools and VMs on hosts, so what is above an entity are     *)
(* entities: set_updated_entities() adds no others.                        *)
LEMMA HierarchiesAreEntities ==
  ASSUME IInv, NEW ids \in SUBSET Entities
  PROVE  Hierarchies(ids) \in SUBSET Entities
<1>1. ASSUME NEW e \in ids
      PROVE  get_hierarchy(e) \subseteq Entities
  <2> USE DEF IInv, TypeOK, Levels, LevelOf, Entities, Items, Containers
  <2>1. CASE ~Exists(e)
    BY <2>1 DEF get_hierarchy
  <2>2. CASE Exists(e) /\ e \in Pools
    BY <2>2 DEF get_hierarchy
  <2>3. CASE Exists(e) /\ e \in Hosts
    BY <2>3 DEF get_hierarchy, Exists
  <2>4. CASE Exists(e) /\ e \in Vms
    <3>1. parent[e] \in Containers /\ parent[e] # None
      BY <2>4 DEF Exists
    <3>2. parent[e] \in Hosts
      BY <2>4, <3>1
    <3>3. parent[parent[e]] \in Containers
      BY <2>4, <3>1, <3>2
    <3> QED
      BY <2>4, <3>1, <3>3 DEF get_hierarchy
  <2> QED
    BY <2>1, <2>2, <2>3, <2>4
<1> QED
  BY <1>1 DEF Hierarchies

(* The first state has the invariant.                                      *)
LEMMA InitHolds == Init => IInv
<1> SUFFICES ASSUME Init PROVE IInv
  OBVIOUS
<1>1. answers \in Seq(Answers) /\ DOMAIN answers = {}
  BY DEF Init
<1>2. TypeOK
  <2>1. /\ MaxEvents \in Nat
        /\ \A i \in Items : parent[i] \in Containers
        /\ parent \in [Items -> Containers]
        /\ Vms \subseteq Items /\ Hosts \subseteq Items
    BY DEF Init, Items
  <2>2. childNodes \in [Containers -> SUBSET Items] /\ loaded \in SUBSET Containers
    BY DEF Init, Content
  <2>3. nodeHash \in [Items -> Containers \cup {None}] /\ icon \in [Vms -> {"up", "down"}]
    BY <2>1 DEF Init
  <2>4. /\ owed \in [Changes -> SUBSET Entities]
        /\ told \in [1..MaxPolls -> SUBSET Entities]
        /\ asked \in [Containers -> Nat] /\ ghosts \in [Hosts -> Nat]
    BY DEF Init
  <2>5. events \in 0..MaxEvents
    BY <2>1 DEF Init
  <2> QED
    BY <1>1, <2>1, <2>2, <2>3, <2>4, <2>5 DEF Init, TypeOK
<1>3. AppearsOnce
  BY DEF Init, AppearsOnce, Content
<1>4. Levels
  <2>1. \A i \in Items, c \in Containers : parent[i] = c => i \in LevelOf(c)
    BY DEF Init, LevelOf, Items, Containers, Entities
  <2>2. \A v \in Vms : parent[parent[v]] # None
    <3> TAKE v \in Vms
    <3>1. parent[v] \in Hosts
      BY DEF Init, Items, Containers
    <3>2. parent[parent[v]] \in Containers
      BY <3>1 DEF Init, Items
    <3> QED
      BY <3>2 DEF Entities, Containers, Items
  <2> QED
    BY <1>1, <2>1, <2>2 DEF Levels, Init
<1> QED
  BY <1>2, <1>3, <1>4 DEF IInv

-----------------------------------------------------------------------------
(* What the answers under way have to be, and the tree and the database,   *)
(* is all the invariant says beside the types of the other variables.      *)
LEMMA GoodAnswersInv ==
  ASSUME IInv
  PROVE  answers \in Seq(Good)
BY AnswersAreGood DEF IInv, TypeOK, Levels

(* A step that leaves the tree and the parents alone, and after which the  *)
(* answers are good, keeps what the invariant says beside the types.       *)
LEMMA TreeUntouched ==
  ASSUME IInv, UNCHANGED <<parent, childNodes, nodeHash>>, answers' \in Seq(Good)
  PROVE  AppearsOnce' /\ Levels' /\ answers' \in Seq(Answers)
<1>1. answers' \in Seq(Answers) /\ \A i \in DOMAIN answers' : WellFormed(answers'[i])
  BY AnswersAreGood
<1> QED
  BY <1>1 DEF IInv, AppearsOnce, Levels, LevelOf, WellFormed

(* A change of the database keeps hosts in pools and VMs on hosts.         *)
LEMMA ChangeStep ==
  ASSUME IInv, Change
  PROVE  IInv'
<1> USE DEF IInv, Items, Containers, Entities
<1>0. answers \in Seq(Good)
  BY GoodAnswersInv
<1>c. ASSUME NEW ids \in SUBSET Entities, Commit(ids)
      PROVE  /\ owed' \in [Changes -> SUBSET Entities]
             /\ events' \in 0..MaxEvents
             /\ UNCHANGED <<beat, session, tree, told, requests>>
  BY <1>c DEF TypeOK, Commit, Changes
<1>t. ASSUME parent' \in [Items -> Containers \cup {None}], st' \in [Vms -> {"up", "down"}],
             missed' \in SUBSET Containers, answers' \in Seq(Good),
             NEW ids \in SUBSET Entities, Commit(ids),
             \A i \in Items, c \in Containers : parent'[i] = c => i \in LevelOf(c),
             \A v \in Vms : parent'[v] # None => parent'[parent'[v]] # None
      PROVE  IInv'
  <2>1. answers' \in Seq(Answers) /\ \A i \in DOMAIN answers' : WellFormed(answers'[i])
    BY <1>t, AnswersAreGood
  <2>2. TypeOK'
    BY <1>c, <1>t, <2>1 DEF TypeOK, tree, session, requests
  <2>3. AppearsOnce' /\ Levels'
    BY <1>c, <1>t, <2>1 DEF AppearsOnce, Levels, LevelOf, WellFormed, tree
  <2> QED
    BY <2>2, <2>3
<1>1. ASSUME NEW v \in Vms, StartOrStopVm(v) PROVE IInv'
  <2>1. v \in Entities /\ {v} \in SUBSET Entities /\ Commit({v})
    BY <1>1 DEF StartOrStopVm
  <2>2. UNCHANGED <<parent, missed, answers>> /\ st' \in [Vms -> {"up", "down"}]
    BY <1>1 DEF StartOrStopVm, history, TypeOK, Flip
  <2> QED
    BY <1>0, <1>t, <2>1, <2>2 DEF TypeOK, Levels, LevelOf
<1>2. ASSUME NEW v \in Vms, NEW s \in Hosts, RemoveVm(v, s) PROVE IInv'
  <2>1. {s} \in SUBSET Entities /\ Commit({s})
    BY <1>2 DEF RemoveVm
  <2>2. UNCHANGED st /\ parent' = [parent EXCEPT ![v] = None]
    BY <1>2 DEF RemoveVm
  <2>3. missed' \in SUBSET Containers /\ answers' \in Seq(Good)
    BY <1>0, <1>2, MissType DEF RemoveVm, TypeOK
  <2>4. \A w \in Vms : parent'[w] # None => parent'[parent'[w]] # None
    BY <2>2 DEF TypeOK, Levels, LevelOf
  <2>5. \A i \in Items, c \in Containers : parent'[i] = c => i \in LevelOf(c)
    BY <2>2 DEF TypeOK, Levels, LevelOf
  <2> QED
    BY <1>t, <2>1, <2>2, <2>3, <2>4, <2>5 DEF TypeOK
<1>3. ASSUME NEW v \in Vms, NEW s \in Hosts, NEW h \in Hosts, MigrateVm(v, s, h) PROVE IInv'
  <2>1. {s, h} \in SUBSET Entities /\ Commit({s, h})
    BY <1>3 DEF MigrateVm
  <2>2. UNCHANGED st /\ parent' = [parent EXCEPT ![v] = h] /\ parent[h] # None
    BY <1>3 DEF MigrateVm, Exists
  <2>3. missed' \in SUBSET Containers /\ answers' \in Seq(Good)
    BY <1>0, <1>3, MissType DEF MigrateVm, TypeOK
  <2>4. \A w \in Vms : parent'[w] # None => parent'[parent'[w]] # None
    BY <2>2 DEF TypeOK, Levels, LevelOf
  <2>5. \A i \in Items, c \in Containers : parent'[i] = c => i \in LevelOf(c)
    BY <2>2 DEF TypeOK, Levels, LevelOf
  <2> QED
    BY <1>t, <2>1, <2>2, <2>3, <2>4, <2>5 DEF TypeOK
<1>4. ASSUME NEW h \in Hosts, RemoveServer(h) PROVE IInv'
  <2>1. {h} \in SUBSET Entities /\ Commit({h})
    BY <1>4 DEF RemoveServer
  <2>2. /\ UNCHANGED st
        /\ parent' = [i \in Items |-> IF i = h \/ parent[i] = h THEN None ELSE parent[i]]
    BY <1>4 DEF RemoveServer
  <2>3. missed' \in SUBSET Containers /\ answers' \in Seq(Good)
    BY <1>0, <1>4, MissType DEF RemoveServer, TypeOK
  <2>4. ASSUME NEW w \in Vms, parent'[w] # None
        PROVE  parent'[parent'[w]] # None
    <3>1. parent'[w] = parent[w] /\ parent[w] # h /\ parent[w] \in Hosts
      BY <2>2, <2>4 DEF TypeOK, Levels, LevelOf
    <3>2. parent[parent[w]] # None /\ parent[parent[w]] # h
      BY <2>4, <3>1 DEF TypeOK, Levels, LevelOf
    <3> QED
      BY <2>2, <3>1, <3>2
  <2>5. \A i \in Items, c \in Containers : parent'[i] = c => i \in LevelOf(c)
    BY <2>2 DEF TypeOK, Levels, LevelOf
  <2>6. parent' \in [Items -> Containers \cup {None}]
    BY <2>2 DEF TypeOK
  <2> QED
    BY <1>t, <2>1, <2>2, <2>3, <2>4, <2>5, <2>6 DEF TypeOK
<1>5. ASSUME NEW h \in Hosts, NEW p \in Pools, TransferServer(h, p) PROVE IInv'
  <2>1. {} \in SUBSET Entities /\ Commit({})
    BY <1>5 DEF TransferServer
  <2>2. UNCHANGED st /\ parent' = [parent EXCEPT ![h] = p]
    BY <1>5 DEF TransferServer
  <2>3. missed' \in SUBSET Containers /\ answers' \in Seq(Good)
    BY <1>0, <1>5, MissType DEF TransferServer, TypeOK
  <2>4. \A w \in Vms : parent'[w] # None => parent'[parent'[w]] # None
    BY <2>2 DEF TypeOK, Levels, LevelOf
  <2>5. \A i \in Items, c \in Containers : parent'[i] = c => i \in LevelOf(c)
    BY <2>2 DEF TypeOK, Levels, LevelOf
  <2> QED
    BY <1>t, <2>1, <2>2, <2>3, <2>4, <2>5 DEF TypeOK
<1> QED
  BY <1>1, <1>2, <1>3, <1>4, <1>5 DEF Change

(* What is told to the Update Manager keeps the invariant.                 *)
LEMMA AnnounceStep ==
  ASSUME IInv,
         \/ \E j \in Changes : Announce(j) \/ WalkRaises(j) \/ TaskFails(j)
         \/ \E resumed \in SUBSET Changes : Restart(resumed)
         \/ \E v \in Vms : BeatAnnounces(v) \/ BeatCommits(v)
  PROVE  IInv'
<1>0. answers \in Seq(Good)
  BY GoodAnswersInv
<1>m. ASSUME NEW M, Miss(M, answers)
      PROVE  missed' \in SUBSET Containers /\ answers' \in Seq(Good)
  BY <1>0, <1>m, MissType DEF IInv, TypeOK
<1>s. ASSUME NEW ids \in SUBSET Entities, set_updated_entities(ids)
      PROVE  /\ pending' \in SUBSET Entities
             /\ missed' \in SUBSET Containers /\ answers' \in Seq(Good)
  <2>1. Hierarchies(ids) \in SUBSET Entities
    BY HierarchiesAreEntities
  <2>2. pending' \in SUBSET Entities
    BY <1>s, <2>1 DEF set_updated_entities, IInv, TypeOK
  <2>3. PICK M : Miss(M, answers)
    BY <1>s DEF set_updated_entities
  <2> QED
    BY <1>m, <2>2, <2>3
<1>1. ASSUME NEW j \in Changes, Announce(j) PROVE IInv'
  <2>1. owed[j] \in SUBSET Entities /\ owed' \in [Changes -> SUBSET Entities]
    BY <1>1 DEF Announce, IInv, TypeOK
  <2>2. UNCHANGED <<database, beat, registered, tree, told, requests, events>>
    BY <1>1 DEF Announce
  <2>3. set_updated_entities(owed[j])
    BY <1>1 DEF Announce
  <2>4. /\ pending' \in SUBSET Entities
        /\ missed' \in SUBSET Containers /\ answers' \in Seq(Good)
    BY <1>s, <2>1, <2>3
  <2>5. AppearsOnce' /\ Levels' /\ answers' \in Seq(Answers)
    BY <2>2, <2>4, TreeUntouched DEF database, tree
  <2>6. TypeOK'
    BY <2>1, <2>2, <2>4, <2>5 DEF IInv, TypeOK, database, tree, requests
  <2> QED
    BY <2>5, <2>6 DEF IInv
<1>2. ASSUME NEW j \in Changes, WalkRaises(j) \/ TaskFails(j) PROVE IInv'
  <2>0. owed' = [owed EXCEPT ![j] = {}] /\ events < MaxEvents /\ events' = events + 1
    BY <1>2 DEF WalkRaises, TaskFails
  <2>1. owed' \in [Changes -> SUBSET Entities] /\ events' \in 0..MaxEvents
    BY <2>0 DEF IInv, TypeOK
  <2>2. UNCHANGED <<database, beat, session, tree, told, requests>>
    BY <1>2 DEF WalkRaises, TaskFails
  <2>3. missed' \in SUBSET Containers /\ answers' \in Seq(Good)
    BY <1>2, <1>m DEF WalkRaises, TaskFails
  <2>4. AppearsOnce' /\ Levels' /\ answers' \in Seq(Answers)
    BY <2>2, <2>3, TreeUntouched DEF database, tree
  <2>5. TypeOK'
    BY <2>1, <2>2, <2>3, <2>4 DEF IInv, TypeOK, database, session, tree, requests
  <2> QED
    BY <2>4, <2>5 DEF IInv
<1>3. ASSUME NEW v \in Vms, BeatAnnounces(v) PROVE IInv'
  <2>1. beat' \in SUBSET Vms /\ events' \in 0..MaxEvents
    BY <1>3 DEF BeatAnnounces, IInv, TypeOK
  <2>2. UNCHANGED <<database, owed, registered, tree, told, requests>>
    BY <1>3 DEF BeatAnnounces
  <2>3. {v} \in SUBSET Entities /\ set_updated_entities({v})
    BY <1>3 DEF BeatAnnounces, Entities, Items
  <2>4. /\ pending' \in SUBSET Entities
        /\ missed' \in SUBSET Containers /\ answers' \in Seq(Good)
    BY <1>s, <2>3
  <2>5. AppearsOnce' /\ Levels' /\ answers' \in Seq(Answers)
    BY <2>2, <2>4, TreeUntouched DEF database, tree
  <2>6. TypeOK'
    BY <2>1, <2>2, <2>4, <2>5 DEF IInv, TypeOK, database, tree, requests
  <2> QED
    BY <2>5, <2>6 DEF IInv
<1>4. ASSUME NEW v \in Vms, BeatCommits(v) PROVE IInv'
  <2>1. beat' \in SUBSET Vms /\ st' \in [Vms -> {"up", "down"}]
    BY <1>4 DEF BeatCommits, IInv, TypeOK, Flip
  <2>2. UNCHANGED <<parent, owed, session, tree, told, requests, events>>
    BY <1>4 DEF BeatCommits
  <2>3. missed' \in SUBSET Containers /\ answers' \in Seq(Good)
    BY <1>4, <1>m DEF BeatCommits
  <2>4. AppearsOnce' /\ Levels' /\ answers' \in Seq(Answers)
    BY <2>2, <2>3, TreeUntouched DEF tree
  <2>5. TypeOK'
    BY <2>1, <2>2, <2>3, <2>4 DEF IInv, TypeOK, session, tree, requests
  <2> QED
    BY <2>4, <2>5 DEF IInv
<1>5. ASSUME NEW resumed \in SUBSET Changes, Restart(resumed) PROVE IInv'
  <2>1. /\ owed' \in [Changes -> SUBSET Entities] /\ events' \in 0..MaxEvents
        /\ beat' = {} /\ registered' = FALSE /\ pending' = {}
    BY <1>5 DEF Restart, IInv, TypeOK
  <2>2. UNCHANGED <<database, tree, told, requests>>
    BY <1>5 DEF Restart
  <2>3. missed' \in SUBSET Containers /\ answers' \in Seq(Good)
    BY <1>5, <1>m DEF Restart
  <2>4. AppearsOnce' /\ Levels' /\ answers' \in Seq(Answers)
    BY <2>2, <2>3, TreeUntouched DEF database, tree
  <2>5. TypeOK'
    BY <2>1, <2>2, <2>3, <2>4 DEF IInv, TypeOK, database, tree, requests
  <2> QED
    BY <2>4, <2>5 DEF IInv
<1> QED
  BY <1>1, <1>2, <1>3, <1>4, <1>5

(* So does what happens between the browser and the server, but for the    *)
(* answers.                                                                *)
LEMMA RequestStep ==
  ASSUME IInv,
         \/ Poll
         \/ \E p \in DOMAIN told : PollAnswered(p) \/ PollFails(p)
         \/ \E c \in Containers : Click(c)
  PROVE  IInv'
<1>0. answers \in Seq(Good)
  BY GoodAnswersInv
<1>1. ASSUME Poll PROVE IInv'
  <2>1. /\ told' \in [1..MaxPolls -> SUBSET Entities]
        /\ pending' \in SUBSET Entities /\ registered' \in BOOLEAN
    BY <1>1 DEF Poll, IInv, TypeOK
  <2>2. UNCHANGED <<database, writers, tree, requests, missed, answers, events>>
    BY <1>1 DEF Poll, history
  <2>3. AppearsOnce' /\ Levels' /\ answers' \in Seq(Answers)
    BY <1>0, <2>2, TreeUntouched DEF database, tree
  <2>4. TypeOK'
    BY <2>1, <2>2, <2>3 DEF IInv, TypeOK, database, writers, tree, requests
  <2> QED
    BY <2>3, <2>4 DEF IInv
<1>2. ASSUME NEW p \in DOMAIN told, PollAnswered(p) PROVE IInv'
  <2>1. /\ told' \in [1..MaxPolls -> SUBSET Entities]
        /\ asked' \in [Containers -> Nat]
    BY <1>2 DEF PollAnswered, IInv, TypeOK
  <2>2. UNCHANGED <<database, writers, session, tree, ghosts, missed, answers, events>>
    BY <1>2 DEF PollAnswered, history
  <2>3. AppearsOnce' /\ Levels' /\ answers' \in Seq(Answers)
    BY <1>0, <2>2, TreeUntouched DEF database, tree
  <2>4. TypeOK'
    BY <2>1, <2>2, <2>3 DEF IInv, TypeOK, database, writers, session, tree
  <2> QED
    BY <2>3, <2>4 DEF IInv
<1>3. ASSUME NEW p \in DOMAIN told, PollFails(p) PROVE IInv'
  <2>1. told' \in [1..MaxPolls -> SUBSET Entities] /\ events' \in 0..MaxEvents
    BY <1>3 DEF PollFails, IInv, TypeOK
  <2>2. UNCHANGED <<database, writers, session, tree, requests>>
    BY <1>3 DEF PollFails
  <2>3. missed' \in SUBSET Containers /\ answers' \in Seq(Good)
    BY <1>0, <1>3, MissType DEF PollFails, IInv, TypeOK
  <2>4. AppearsOnce' /\ Levels' /\ answers' \in Seq(Answers)
    BY <2>2, <2>3, TreeUntouched DEF database, tree
  <2>5. TypeOK'
    BY <2>1, <2>2, <2>3, <2>4 DEF IInv, TypeOK, database, writers, session, tree, requests
  <2> QED
    BY <2>4, <2>5 DEF IInv
<1>4. ASSUME NEW c \in Containers, Click(c) PROVE IInv'
  <2>1. asked' \in [Containers -> Nat] /\ events' \in 0..MaxEvents
    BY <1>4 DEF Click, IInv, TypeOK
  <2>2. UNCHANGED <<database, writers, session, tree, told, ghosts, missed, answers>>
    BY <1>4 DEF Click, history
  <2>3. AppearsOnce' /\ Levels' /\ answers' \in Seq(Answers)
    BY <1>0, <2>2, TreeUntouched DEF database, tree
  <2>4. TypeOK'
    BY <2>1, <2>2, <2>3 DEF IInv, TypeOK, database, writers, session, tree
  <2> QED
    BY <2>3, <2>4 DEF IInv
<1> QED
  BY <1>1, <1>2, <1>3, <1>4

(* dashboardservice() answers with what is on the level below.             *)
LEMMA AnswerIsGood ==
  ASSUME IInv, NEW c \in Containers, NEW live \in BOOLEAN
  PROVE  Answer(c, live) \in Good
<1>1. Content(c) \subseteq Items /\ Content(c) \subseteq LevelOf(c)
  BY DEF Content, IInv, Levels
<1>2. StateOf(c) \in [Content(c) \cap Vms -> {"up", "down"}]
  BY DEF StateOf, IInv, TypeOK
<1>3. StateOf(c) \in UNION {[S -> {"up", "down"}] : S \in SUBSET Vms}
  <2>1. Content(c) \cap Vms \in SUBSET Vms
    OBVIOUS
  <2> QED
    BY ONLY <1>2, <2>1, Zenon
<1>4. DOMAIN StateOf(c) = Content(c) \cap Vms
  BY <1>2
<1> QED
  BY <1>1, <1>3, <1>4 DEF Answer, Good, Answers, WellFormed

(* The server answers, or the answer is lost.                              *)
LEMMA AnswerStep ==
  ASSUME IInv,
         \/ \E c \in Containers : dashboardservice(c)
         \/ \E h \in Hosts : AnswerGhost(h)
         \/ \E i \in DOMAIN answers : AnswerFails(i)
  PROVE  IInv'
<1>0. answers \in Seq(Good)
  BY GoodAnswersInv
<1>a. ASSUME NEW r \in Good, answers' = Append(answers, r)
      PROVE  answers' \in Seq(Good)
  BY <1>0, <1>a, AppendProperties, Zenon
<1>1. ASSUME NEW c \in Containers, dashboardservice(c) PROVE IInv'
  <2>1. asked' \in [Containers -> Nat]
    BY <1>1 DEF dashboardservice, IInv, TypeOK
  <2>2. UNCHANGED <<database, writers, session, tree, told, ghosts, missed, events>>
    BY <1>1 DEF dashboardservice
  <2>3. answers' \in Seq(Good)
    BY <1>1, <1>a, AnswerIsGood DEF dashboardservice
  <2>4. AppearsOnce' /\ Levels' /\ answers' \in Seq(Answers)
    BY <2>2, <2>3, TreeUntouched DEF database, tree
  <2>5. TypeOK'
    BY <2>1, <2>2, <2>4 DEF IInv, TypeOK, database, writers, session, tree
  <2> QED
    BY <2>4, <2>5 DEF IInv
<1>2. ASSUME NEW h \in Hosts, AnswerGhost(h) PROVE IInv'
  <2>1. ghosts' \in [Hosts -> Nat]
    BY <1>2 DEF AnswerGhost, IInv, TypeOK
  <2>2. UNCHANGED <<database, writers, session, tree, told, asked, missed, events>>
    BY <1>2 DEF AnswerGhost
  <2>3. answers' \in Seq(Good)
    BY <1>2, <1>a, AnswerIsGood DEF AnswerGhost, Containers
  <2>4. AppearsOnce' /\ Levels' /\ answers' \in Seq(Answers)
    BY <2>2, <2>3, TreeUntouched DEF database, tree
  <2>5. TypeOK'
    BY <2>1, <2>2, <2>4 DEF IInv, TypeOK, database, writers, session, tree
  <2> QED
    BY <2>4, <2>5 DEF IInv
<1>3. ASSUME NEW i \in DOMAIN answers, AnswerFails(i) PROVE IInv'
  <2>1. events' \in 0..MaxEvents
    BY <1>3 DEF AnswerFails, IInv, TypeOK
  <2>2. UNCHANGED <<database, writers, session, tree, told, requests>>
    BY <1>3 DEF AnswerFails
  <2>3. RemoveAt(answers, i) \in Seq(Good)
    BY <1>0, FewerAnswers
  <2>4. missed' \in SUBSET Containers /\ answers' \in Seq(Good)
    BY <1>3, <2>3, MissType DEF AnswerFails, IInv, TypeOK
  <2>5. AppearsOnce' /\ Levels' /\ answers' \in Seq(Answers)
    BY <2>2, <2>4, TreeUntouched DEF database, tree
  <2>6. TypeOK'
    BY <2>1, <2>2, <2>4, <2>5 DEF IInv, TypeOK, database, writers, session, tree, requests
  <2> QED
    BY <2>5, <2>6 DEF IInv
<1> QED
  BY <1>1, <1>2, <1>3

-----------------------------------------------------------------------------
(* History: what is missed are containers the user has opened.             *)
LEMMA MissedType ==
  ASSUME IInv, NEW r \in Good, loaded' \in SUBSET Containers,
         missed' = ((missed \ Seen(r)) \cup Overtaken(r)) \cap loaded'
  PROVE  missed' \in SUBSET Containers
OBVIOUS

(* The answer for a node of the tree arrives: whatever it takes out of the *)
(* tree is one level below that node, so the node itself stays, and what   *)
(* is added there is gone elsewhere.                                       *)
LEMMA UpdateNodeStep ==
  ASSUME IInv, NEW i \in DOMAIN answers, UpdateNode(i)
  PROVE  IInv'
<1> DEFINE r == answers[i]
           new == get_new_nodes(r)
           del == get_del_nodes(r)
           gone == del \cup {n \in new : nodeHash[n] # None}
           rest == Others(i, r)
<1>0. answers \in Seq(Good)
  BY GoodAnswersInv
<1>1. r \in Good
  <2>1. answers \in [1..Len(answers) -> Good]
    BY <1>0, LenProperties, Zenon
  <2>2. i \in 1..Len(answers)
    BY <2>1
  <2> QED
    BY <2>1, <2>2, Zenon
<1>2. /\ r.of \in Containers /\ r.nodes \subseteq Items /\ r.nodes \subseteq LevelOf(r.of)
      /\ r.states \in UNION {[S -> {"up", "down"}] : S \in SUBSET Vms}
      /\ DOMAIN r.states = r.nodes \cap Vms
  BY <1>1 DEF Good, Answers, WellFormed
<1>3. /\ childNodes' = [c \in Containers |->
           CASE c = r.of -> (childNodes[c] \cup new) \ del
             [] c \in gone \ {r.of} -> {}
             [] OTHER -> childNodes[c] \ MovedFrom(r, c)]
      /\ nodeHash' = [n \in Items |->
           CASE n \in new -> r.of
             [] n \notin new /\ (n \in del \/ nodeHash[n] \in gone) -> None
             [] OTHER -> nodeHash[n]]
      /\ icon' = [v \in Vms |-> IF v \in r.nodes THEN r.states[v] ELSE icon[v]]
      /\ loaded' = (loaded \ gone) \cup {r.of}
      /\ asked' = [c \in Containers |-> IF c \in gone THEN 0 ELSE asked[c]]
      /\ ghosts' = [h \in Hosts |-> IF h \in gone THEN ghosts[h] + asked[h] ELSE ghosts[h]]
      /\ answers' = [j \in DOMAIN rest |->
                        [rest[j] EXCEPT !.live = @ /\ rest[j].of \notin gone]]
      /\ UNCHANGED <<database, writers, session, told, events>>
      /\ missed' = ((missed \ Seen(r)) \cup Overtaken(r)) \cap loaded'
  BY DEF UpdateNode
<1>4. /\ new \subseteq r.nodes /\ del \cap r.nodes = {} /\ del \subseteq childNodes[r.of]
      /\ new \subseteq Items /\ new \subseteq LevelOf(r.of)
      /\ \A n \in Items : n \in new <=> n \in r.nodes /\ nodeHash[n] # r.of
  BY <1>2 DEF get_new_nodes, get_del_nodes
<1>5. del \subseteq Items /\ del \subseteq LevelOf(r.of) /\ \A n \in del : nodeHash[n] = r.of
  BY <1>2, <1>4 DEF IInv, TypeOK, AppearsOnce, Levels
<1>6. gone \subseteq Items /\ gone \subseteq LevelOf(r.of)
  BY <1>4, <1>5
<1>7. r.of \notin gone
  BY <1>2, <1>6 DEF LevelOf, Containers, Items, Entities
<1>8. r.of # None /\ \A c \in Containers : c # None
  BY <1>2 DEF Containers, Entities, Items
<1>9. \A c \in Containers : MovedFrom(r, c) = {n \in new : nodeHash[n] = c}
  BY DEF MovedFrom
<1> HIDE DEF r, new, del, gone
<1>10. AppearsOnce'
  <2> SUFFICES ASSUME NEW n \in Items, NEW c \in Containers
               PROVE  n \in childNodes'[c] <=> nodeHash'[n] = c
    BY DEF AppearsOnce
  <2>0. n \in childNodes[c] <=> nodeHash[n] = c
    BY DEF IInv, AppearsOnce
  <2>1. CASE c = r.of
    <3>1. n \in childNodes'[c] <=> (n \in childNodes[c] \/ n \in new) /\ n \notin del
      BY <1>3, <2>1
    <3>2. nodeHash'[n] = c <=> n \in new \/ (n \notin del /\ nodeHash[n] = c)
      BY <1>3, <1>7, <1>8, <2>1
    <3> QED
      BY <1>4, <2>0, <3>1, <3>2
  <2>2. CASE c # r.of /\ c \in gone
    <3>1. n \notin childNodes'[c]
      BY <1>3, <2>2
    <3>2. nodeHash'[n] # c
      BY <1>3, <1>8, <2>2
    <3> QED
      BY <3>1, <3>2
  <2>3. CASE c # r.of /\ c \notin gone
    <3>1. n \in childNodes'[c] <=> n \in childNodes[c] /\ ~(n \in new /\ nodeHash[n] = c)
      BY <1>3, <1>9, <2>3
    <3>2. nodeHash'[n] = c <=> n \notin new /\ n \notin del /\ nodeHash[n] = c
      BY <1>3, <1>8, <2>3
    <3> QED
      BY <1>5, <2>0, <2>3, <3>1, <3>2
  <2> QED
    BY <2>1, <2>2, <2>3
<1>11. answers' \in Seq(Good)
  <2>1. Len(answers) - 1 \in Nat /\ rest \in [1..Len(answers) - 1 -> Good]
    BY <1>0, OthersType
  <2>2. ASSUME NEW j \in 1..Len(answers) - 1
        PROVE  [rest[j] EXCEPT !.live = @ /\ rest[j].of \notin gone] \in Good
    <3>1. rest[j] \in Good
      BY <2>1, Zenon
    <3> QED
      BY <3>1 DEF Good, Answers, WellFormed
  <2> HIDE DEF rest
  <2>3. answers' \in [1..Len(answers) - 1 -> Good]
    BY <1>3, <2>1, <2>2
  <2> QED
    BY <2>1, <2>3, ArraysAreSequences, Zenon
<1>12. answers' \in Seq(Answers) /\ \A j \in DOMAIN answers' : WellFormed(answers'[j])
  BY <1>11, AnswersAreGood
<1>13. Levels'
  <2>1. UNCHANGED parent
    BY <1>3 DEF database
  <2>2. ASSUME NEW n \in Items, NEW c \in Containers, nodeHash'[n] = c
        PROVE  n \in LevelOf(c)
    <3>1. (n \in new /\ c = r.of) \/ nodeHash[n] = c
      BY <1>3, <1>8, <2>2
    <3> QED
      BY <1>4, <3>1 DEF IInv, Levels
  <2> QED
    BY <1>12, <2>1, <2>2 DEF IInv, Levels, LevelOf, WellFormed
<1>14. TypeOK'
  <2>1. childNodes' \in [Containers -> SUBSET Items]
    BY <1>3, <1>4, <1>9 DEF IInv, TypeOK
  <2>2. nodeHash' \in [Items -> Containers \cup {None}]
    BY <1>2, <1>3 DEF IInv, TypeOK
  <2>3. icon' \in [Vms -> {"up", "down"}]
    BY <1>2, <1>3 DEF IInv, TypeOK
  <2>4. loaded' \in SUBSET Containers
    BY <1>2, <1>3 DEF IInv, TypeOK
  <2>5. asked' \in [Containers -> Nat] /\ ghosts' \in [Hosts -> Nat]
    BY <1>3 DEF IInv, TypeOK, Containers
  <2>6. missed' \in SUBSET Containers
    BY <1>1, <1>3, <2>4, MissedType
  <2> QED
    BY <1>3, <1>12, <2>1, <2>2, <2>3, <2>4, <2>5, <2>6
       DEF IInv, TypeOK, database, writers, session
<1> QED
  BY <1>10, <1>13, <1>14 DEF IInv

(* The answer for a node that has left the tree only takes away.           *)
LEMMA UpdateGhostStep ==
  ASSUME IInv, NEW i \in DOMAIN answers, UpdateGhost(i)
  PROVE  IInv'
<1> DEFINE r == answers[i]
<1>0. answers \in Seq(Good)
  BY GoodAnswersInv
<1>1. r \in Good
  <2>1. answers \in [1..Len(answers) -> Good]
    BY <1>0, LenProperties, Zenon
  <2>2. i \in 1..Len(answers)
    BY <2>1
  <2> QED
    BY <2>1, <2>2, Zenon
<1>2. /\ childNodes' = [c \in Containers |-> childNodes[c] \ MovedFrom(r, c)]
      /\ nodeHash' = [n \in Items |->
           IF n \in r.nodes /\ nodeHash[n] \notin {None, r.of} THEN None ELSE nodeHash[n]]
      /\ answers' = Others(i, r)
      /\ UNCHANGED <<database, writers, session, icon, loaded, told, asked, ghosts, events>>
      /\ missed' = ((missed \ Seen(r)) \cup Overtaken(r)) \cap loaded'
  BY DEF UpdateGhost
<1>3. \A c \in Containers : MovedFrom(r, c) = {n \in r.nodes : nodeHash[n] # r.of /\ nodeHash[n] = c}
  BY DEF MovedFrom, get_new_nodes
<1>4. \A c \in Containers : c # None
  BY DEF Containers, Entities, Items
<1> HIDE DEF r
<1>5. AppearsOnce'
  <2> SUFFICES ASSUME NEW n \in Items, NEW c \in Containers
               PROVE  n \in childNodes'[c] <=> nodeHash'[n] = c
    BY DEF AppearsOnce
  <2>0. n \in childNodes[c] <=> nodeHash[n] = c
    BY DEF IInv, AppearsOnce
  <2>1. n \in childNodes'[c] <=> n \in childNodes[c] /\ ~(n \in r.nodes /\ nodeHash[n] # r.of /\ nodeHash[n] = c)
    BY <1>2, <1>3
  <2>2. nodeHash'[n] = c <=> nodeHash[n] = c /\ ~(n \in r.nodes /\ nodeHash[n] # r.of)
    BY <1>2, <1>4
  <2> QED
    BY <2>0, <2>1, <2>2
<1>6. answers' \in Seq(Good)
  BY <1>0, <1>2, OthersType, ArraysAreSequences
<1>7. answers' \in Seq(Answers) /\ \A j \in DOMAIN answers' : WellFormed(answers'[j])
  BY <1>6, AnswersAreGood
<1>8. Levels'
  BY <1>2, <1>4, <1>7 DEF IInv, Levels, LevelOf, WellFormed, database
<1>9. TypeOK'
  <2>1. childNodes' \in [Containers -> SUBSET Items] /\ nodeHash' \in [Items -> Containers \cup {None}]
    BY <1>2 DEF IInv, TypeOK
  <2>2. missed' \in SUBSET Containers
    BY <1>1, <1>2, MissedType DEF IInv, TypeOK
  <2> QED
    BY <1>2, <1>7, <2>1, <2>2 DEF IInv, TypeOK, database, writers, session
<1> QED
  BY <1>5, <1>8, <1>9 DEF IInv

-----------------------------------------------------------------------------
(* The invariant holds always.                                             *)
THEOREM Invariant == Spec => []IInv
<1>1. Init => IInv
  BY InitHolds
<1>2. IInv /\ [Next]_vars => IInv'
  <2> SUFFICES ASSUME IInv, [Next]_vars PROVE IInv'
    OBVIOUS
  <2>1. CASE Progress
    BY <2>1, AnnounceStep, RequestStep, AnswerStep, UpdateNodeStep, UpdateGhostStep
       DEF Progress, update_expanded_node
  <2>2. CASE Event
    BY <2>2, ChangeStep, AnnounceStep, RequestStep, AnswerStep DEF Event
  <2>3. CASE UNCHANGED vars
    BY <2>3 DEF vars, database, writers, session, tree, requests, history, IInv, TypeOK,
                AppearsOnce, Levels, LevelOf, WellFormed
  <2> QED
    BY <2>1, <2>2, <2>3 DEF Next
<1> QED
  BY <1>1, <1>2, PTL DEF Spec

(* Whatever the order in which announcements, polls, requests and their    *)
(* answers arrive or are lost, every variable keeps its type: no request   *)
(* is answered twice, and the tree holds hosts and VMs only.               *)
THEOREM TypeCorrect == Spec => []TypeOK
<1>1. IInv => TypeOK
  BY DEF IInv
<1> QED
  BY <1>1, Invariant, PTL

(* A host or a VM is at one place of the tree at most, where getNodeById   *)
(* finds it, although answers overtake one another, hosts and VMs move and *)
(* answers arrive for nodes that have left the tree.                       *)
THEOREM OnePlace == Spec => []AppearsOnce
<1>1. IInv => AppearsOnce
  BY DEF IInv
<1> QED
  BY <1>1, Invariant, PTL
=============================================================================

-------------------------- MODULE WorkManagerProofs --------------------------
(***************************************************************************)
(* Theorems about the Work Manager, for every number of nodes, rounds and  *)
(* children, rounds that overlap included.                                 *)
(***************************************************************************)
EXTENDS WorkManager, FiniteSetTheorems, TLAPS

USE NoneAssumption, LimitAssumption, BoundsAssumption DEF Parents, Children

(* The bounds of the model are finite.                                     *)
LEMMA FiniteSetsOfChildren ==
  ASSUME NEW C \in SUBSET Children
  PROVE  IsFiniteSet(C) /\ Cardinality(C) \in Nat
<1>1. MaxChildren \in Nat
  OBVIOUS
<1>2. IsFiniteSet(Children)
  BY <1>1, FS_Interval
<1> HIDE DEF Children
<1> QED
  BY <1>2, FS_Subset, FS_CardinalityType

(* Rounds are counted by numbers between 0 and MaxParents.                 *)
LEMMA SomeRounds ==
  ASSUME NEW R \in SUBSET Parents
  PROVE  Cardinality(R) \in 0..MaxParents
<1>0. MaxParents \in Nat
  OBVIOUS
<1>1. IsFiniteSet(Parents) /\ Cardinality(Parents) = MaxParents
  <2>1. 1 \in Int /\ MaxParents \in Int
    BY <1>0
  <2>2. /\ IsFiniteSet(1..MaxParents)
        /\ Cardinality(1..MaxParents) = IF 1 > MaxParents THEN 0 ELSE MaxParents - 1 + 1
    BY ONLY <2>1, FS_Interval, Zenon
  <2> QED
    BY <1>0, <2>2
<1> HIDE DEF Parents
<1>2. IsFiniteSet(R) /\ Cardinality(R) <= MaxParents
  BY <1>1, FS_Subset
<1>3. Cardinality(R) \in Nat
  BY <1>2, FS_CardinalityType
<1> QED
  BY <1>0, <1>2, <1>3

(* So are those that have begun, before and after a step.                  *)
LEMMA BegunType == Begun \in 0..MaxParents /\ Begun' \in 0..MaxParents
<1>1. {p \in Parents : ppc[p] # "none"} \in SUBSET Parents
  OBVIOUS
<1>2. {p \in Parents : ppc'[p] # "none"} \in SUBSET Parents
  OBVIOUS
<1> HIDE DEF Parents
<1> QED
  BY <1>1, <1>2, SomeRounds DEF Begun

(* A parent with room for one more child has no more than its limit then.  *)
LEMMA RoomForOne ==
  ASSUME NEW C \in SUBSET Children, NEW c \in Children,
         Cardinality(C) < MaxWorkers
  PROVE  Cardinality(C \cup {c}) <= MaxWorkers
<1>1. IsFiniteSet(C) /\ Cardinality(C) \in Nat
  BY FiniteSetsOfChildren
<1>2. Cardinality(C \cup {c}) = Cardinality(C) \/ Cardinality(C \cup {c}) = Cardinality(C) + 1
  <2> HIDE DEF Children
  <2> QED
    BY <1>1, FS_AddElement
<1>3. MaxWorkers \in Nat
  OBVIOUS
<1> QED
  BY <1>1, <1>2, <1>3

(* Taking children off the list keeps it within the limit.                 *)
LEMMA FewerIsWithin ==
  ASSUME NEW C \in SUBSET Children, NEW D, Cardinality(C) <= MaxWorkers
  PROVE  Cardinality(C \ D) <= MaxWorkers
<1>1. IsFiniteSet(C) /\ Cardinality(C) \in Nat
  BY FiniteSetsOfChildren
<1>2. C \ D \subseteq C
  OBVIOUS
<1>3. Cardinality(C \ D) \in Nat /\ Cardinality(C \ D) <= Cardinality(C)
  <2> HIDE DEF Children
  <2> QED
    BY <1>1, <1>2, FS_Subset, FS_CardinalityType
<1>4. MaxWorkers \in Nat
  OBVIOUS
<1> QED
  BY <1>1, <1>3, <1>4

(* A child fetches a node of those it has not fetched yet, or none.        *)
LEMMA FetchType ==
  ASSUME next \in [Children -> Nodes \cup {None}], rest \in [Children -> SUBSET Nodes],
         NEW c \in Children, NEW S \in SUBSET Nodes, Fetch(c, S)
  PROVE  next' \in [Children -> Nodes \cup {None}] /\ rest' \in [Children -> SUBSET Nodes]
<1> HIDE DEF Children
<1>1. CASE S = {}
  BY <1>1 DEF Fetch
<1>2. CASE S # {}
  <2>1. PICK n \in S : /\ next' = [next EXCEPT ![c] = n]
                       /\ rest' = [rest EXCEPT ![c] = S \ {n}]
    BY <1>2 DEF Fetch
  <2> QED
    BY <2>1
<1> QED
  BY <1>1, <1>2

(* The tables of the manager keep their type.                              *)
LEMMA TypeStep == TypeOK /\ [Next]_vars => TypeOK'
<1> SUFFICES ASSUME TypeOK, [Next]_vars PROVE TypeOK'
  OBVIOUS
<1> USE DEF TypeOK
<1>1. CASE \E p \in Parents : Begin(p)
  BY <1>1 DEF Begin, rows, children, progress, faults
<1>2. CASE \E p \in Parents, c \in Children : SubmitWork(p, c)
  <2> PICK p \in Parents, c \in Children : SubmitWork(p, c)
    BY <1>2
  <2>1. given' \in [Children -> SUBSET Nodes]
    BY DEF SubmitWork, Available
  <2>2. worker_ids[p] \in SUBSET Children /\ Cardinality(worker_ids[p]) < MaxWorkers
    BY DEF SubmitWork
  <2>3. Cardinality(worker_ids[p] \cup {c}) <= MaxWorkers
    BY <2>2, RoomForOne
  <2>4. worker_ids' \in [Parents -> {C \in SUBSET Children : Cardinality(C) <= MaxWorkers}]
    BY <2>2, <2>3 DEF SubmitWork
  <2> QED
    BY <2>1, <2>4 DEF SubmitWork, rows, progress, faults
<1>3. CASE \E p \in Parents : NoSubmit(p)
  BY <1>3 DEF NoSubmit, rows, children, progress, faults
<1>4. CASE \E p \in Parents : make_entity_task_entries(p)
  <2> PICK p \in Parents : make_entity_task_entries(p)
    BY <1>4
  <2>1. worker_id' \in [Nodes -> Children \cup {None}]
    BY DEF make_entity_task_entries
  <2>2. start_time' \in [Nodes -> 0..MaxParents]
    BY BegunType DEF make_entity_task_entries
  <2> QED
    BY <2>1, <2>2 DEF make_entity_task_entries, children, progress, faults
<1>5. CASE \E p \in Parents : CollectFinished(p)
  <2> PICK p \in Parents : CollectFinished(p)
    BY <1>5
  <2> DEFINE done == {c \in worker_ids[p] : stage[c] = "finished"}
  <2>1. Cardinality(worker_ids[p] \ done) <= MaxWorkers
    <3> worker_ids[p] \in SUBSET Children /\ Cardinality(worker_ids[p]) <= MaxWorkers
      OBVIOUS
    <3> HIDE DEF done
    <3> QED
      BY FewerIsWithin
  <2>2. worker_ids' \in [Parents -> {C \in SUBSET Children : Cardinality(C) <= MaxWorkers}]
    BY <2>1 DEF CollectFinished
  <2>3. worker_id' \in [Nodes -> Children \cup {None}]
    BY DEF CollectFinished, Release
  <2> QED
    BY <2>2, <2>3 DEF CollectFinished, children, progress, faults
<1>6. CASE \E p \in Parents : ReleaseHung(p)
  <2> PICK p \in Parents : ReleaseHung(p)
    BY <1>6
  <2>1. Cardinality(worker_ids[p] \ {in_hand[p]}) <= MaxWorkers
    BY FewerIsWithin
  <2>2. worker_ids' \in [Parents -> {C \in SUBSET Children : Cardinality(C) <= MaxWorkers}]
    BY <2>1 DEF ReleaseHung
  <2>3. worker_id' \in [Nodes -> Children \cup {None}]
    BY DEF ReleaseHung, Release
  <2>4. start_time' \in [Nodes -> 0..MaxParents]
    BY DEF ReleaseHung
  <2> QED
    BY <2>2, <2>3, <2>4 DEF ReleaseHung, children, progress, faults
<1>7. CASE \E p \in Parents : ParentFails(p)
  BY <1>7 DEF ParentFails, rows, children, progress
<1>8. CASE \E p \in Parents, c \in Children : FindHung(p, c)
  BY <1>8 DEF FindHung, rows, faults
<1>9. CASE \E c \in Children : exec_task(c)
  <2> PICK c \in Children : exec_task(c)
    BY <1>9
  <2>1. CASE BeginChild(c)
    <3>1. next' \in [Children -> Nodes \cup {None}] /\ rest' \in [Children -> SUBSET Nodes]
      <4>1. given[c] \in SUBSET Nodes /\ Fetch(c, given[c])
        BY <2>1 DEF BeginChild
      <4> QED
        BY <4>1, FetchType
    <3> QED
      BY <2>1, <3>1 DEF BeginChild, rows, parents, faults
  <2>2. CASE BeginNode(c)
    <3>1. next' \in [Children -> Nodes \cup {None}] /\ rest' \in [Children -> SUBSET Nodes]
      <4>1. rest[c] \in SUBSET Nodes /\ Fetch(c, rest[c])
        BY <2>2 DEF BeginNode
      <4> QED
        BY <4>1, FetchType
    <3> QED
      BY <2>2, <3>1 DEF BeginNode, rows, parents, faults
  <2>3. CASE EndNode(c)
    BY <2>3 DEF EndNode, rows, parents, faults
  <2>4. CASE EndChild(c)
    <3>1. worker_id' \in [Nodes -> Children \cup {None}]
      BY <2>4 DEF EndChild, Release
    <3>2. stage' \in [Children -> {"none", "submitted", "running", "finished",
                                  "lost", "interrupted"}]
      BY <2>4 DEF EndChild
    <3> QED
      BY <2>4, <3>1, <3>2 DEF EndChild, parents, progress, faults
  <2>5. CASE ResumeChild(c)
    <3>1. worker_id' \in [Nodes -> Children \cup {None}]
      BY <2>5 DEF ResumeChild, Release
    <3>2. stage' \in [Children -> {"none", "submitted", "running", "finished",
                                  "lost", "interrupted"}]
      BY <2>5 DEF ResumeChild
    <3> QED
      BY <2>5, <3>1, <3>2 DEF ResumeChild, parents, progress, faults
  <2> QED
    BY <2>1, <2>2, <2>3, <2>4, <2>5 DEF exec_task
<1>10. CASE Crash
  BY <1>10 DEF Crash, rows, progress
<1>11. CASE UNCHANGED vars
  BY <1>11 DEF vars, rows, parents, children, progress, faults
<1> QED
  BY <1>1, <1>2, <1>3, <1>4, <1>5, <1>6, <1>7, <1>8, <1>9, <1>10, <1>11
  DEF Next, do_work

(* The tables of the manager keep their type, whatever parents, children   *)
(* and failures do.                                                        *)
THEOREM TypeCorrect == Spec => []TypeOK
<1>1. Init => TypeOK
  <2> SUFFICES ASSUME Init PROVE TypeOK
    OBVIOUS
  <2>1. Cardinality({}) <= MaxWorkers
    BY FS_EmptySet
  <2> QED
    BY <2>1 DEF Init, TypeOK
<1> QED
  BY <1>1, TypeStep, PTL DEF Spec

-----------------------------------------------------------------------------
(* Who owns a node.  The steps that change no row, no list of children and *)
(* no child are apart from those that do.                                  *)
LEMMA ParentStep ==
  ASSUME IInv, TypeOK', NEW p \in Parents, Begin(p) \/ do_work(p) \/ ParentFails(p)
  PROVE  IInv'
<1> USE DEF IInv, TypeOK
<1> HIDE DEF Parents, Children
<1>1. CASE Begin(p) \/ NoSubmit(p) \/ ParentFails(p)
  <2>1. /\ UNCHANGED <<rows, worker_ids, in_hand, children>>
        /\ \A q \in Parents : ppc'[q] \in {"record", "hung"} => ppc[q] = ppc'[q]
    BY <1>1 DEF Begin, NoSubmit, ParentFails
  <2> QED
    BY <2>1 DEF rows, children, progress, NodesAreFreedBySomebody, InHand, OwnNodesWereGiven
<1>2. CASE \E c \in Children : SubmitWork(p, c)
  <2> PICK c \in Children : SubmitWork(p, c)
    BY <1>2
  <2>1. NodesAreFreedBySomebody'
    BY DEF SubmitWork, rows, progress, NodesAreFreedBySomebody
  <2>2. InHand'
    BY DEF SubmitWork, rows, progress, InHand
  <2>3. OwnNodesWereGiven'
    <3>1. \A n \in Nodes, d \in Children : worker_id[n] = d => d # c
      BY DEF SubmitWork, OwnNodesWereGiven
    <3> QED
      BY <3>1 DEF SubmitWork, rows, OwnNodesWereGiven
  <2> QED
    BY <2>1, <2>2, <2>3
<1>3. CASE make_entity_task_entries(p)
  <2>1. in_hand[p] \in worker_ids[p] /\ stage[in_hand[p]] # "none"
    BY <1>3 DEF make_entity_task_entries, InHand
  <2>2. NodesAreFreedBySomebody'
    BY <1>3, <2>1 DEF make_entity_task_entries, children, NodesAreFreedBySomebody
  <2>3. InHand'
    BY <1>3 DEF make_entity_task_entries, children, progress, InHand
  <2>4. OwnNodesWereGiven'
    BY <1>3, <2>1 DEF make_entity_task_entries, children, OwnNodesWereGiven
  <2> QED
    BY <2>2, <2>3, <2>4
<1>4. CASE CollectFinished(p)
  <2> DEFINE done == {c \in worker_ids[p] : stage[c] = "finished"}
  <2>1. /\ \A n \in Nodes : worker_id'[n] = IF worker_id[n] \in done THEN None ELSE worker_id[n]
        /\ worker_ids' = [worker_ids EXCEPT ![p] = @ \ done]
        /\ ppc' = [ppc EXCEPT ![p] = "get"]
        /\ UNCHANGED <<in_hand, stage, given, mark_hung, current>>
    BY <1>4 DEF CollectFinished, Release, OwnedBy, children, progress
  <2> HIDE DEF done
  <2>2. NodesAreFreedBySomebody'
    BY <2>1 DEF NodesAreFreedBySomebody
  <2>3. InHand'
    BY <2>1, <1>4 DEF CollectFinished, InHand
  <2>4. OwnNodesWereGiven'
    BY <2>1 DEF OwnNodesWereGiven
  <2> QED
    BY <2>2, <2>3, <2>4
<1>5. CASE ReleaseHung(p)
  <2> DEFINE c == in_hand[p]
             freed == Completed(c) \cup pending[c]
  <2>1. /\ c \in Children /\ mark_hung[c]
        /\ stage[c] = "running" \/ (stage[c] = "finished" /\ current[c] = None)
    BY <1>5 DEF ReleaseHung, InHand
  <2>2. \A n \in Nodes : worker_id[n] = c /\ stage[c] = "finished" => n \in freed
    BY <2>1 DEF OwnNodesWereGiven, Completed
  <2>3. /\ \A n \in Nodes : worker_id'[n] = IF n \in freed THEN None ELSE worker_id[n]
        /\ worker_ids' = [worker_ids EXCEPT ![p] = @ \ {c}]
        /\ in_hand' = [in_hand EXCEPT ![p] = None]
        /\ ppc' = [ppc EXCEPT ![p] = "get"]
        /\ UNCHANGED <<stage, given, mark_hung, current>>
    BY <1>5 DEF ReleaseHung, Release, children, progress
  <2> HIDE DEF freed
  <2>4. NodesAreFreedBySomebody'
    BY <2>1, <2>2, <2>3 DEF NodesAreFreedBySomebody
  <2>5. InHand'
    BY <2>3 DEF InHand
  <2>6. OwnNodesWereGiven'
    BY <2>3 DEF OwnNodesWereGiven
  <2> QED
    BY <2>4, <2>5, <2>6
<1> QED
  BY <1>1, <1>2, <1>3, <1>4, <1>5 DEF do_work

(* A child works on the nodes it was given and on no others.               *)
LEMMA ChildStep ==
  ASSUME IInv, TypeOK', NEW c \in Children, exec_task(c)
  PROVE  IInv'
<1> USE DEF IInv, TypeOK
<1> HIDE DEF Parents, Children
<1>1. UNCHANGED <<ppc, worker_ids, in_hand, given, mark_hung>>
  BY DEF exec_task, BeginChild, BeginNode, EndNode, EndChild, ResumeChild, parents
<1>2. CASE BeginChild(c)
  BY <1>1, <1>2 DEF BeginChild, rows, NodesAreFreedBySomebody, InHand, OwnNodesWereGiven
<1>3. CASE BeginNode(c) \/ EndNode(c)
  <2>1. /\ UNCHANGED <<worker_id, stage>>
        /\ stage[c] = "running"
        /\ \A d \in Children \ {c} : current'[d] = current[d]
    BY <1>3 DEF BeginNode, EndNode, rows
  <2> QED
    BY <1>1, <2>1 DEF NodesAreFreedBySomebody, InHand, OwnNodesWereGiven
<1>4. CASE EndChild(c) \/ ResumeChild(c)
  <2>1. /\ \A n \in Nodes : worker_id'[n] = worker_id[n] \/ worker_id'[n] = None
        /\ stage' = [stage EXCEPT ![c] = "finished"]
        /\ UNCHANGED current
        /\ (stage[c] = "running" /\ current[c] = None) \/ stage[c] = "interrupted"
    BY <1>4 DEF EndChild, ResumeChild, Release, progress
  <2>2. mark_hung[c] => \A n \in Nodes : worker_id'[n] # c
    BY <1>4 DEF EndChild, ResumeChild, Release, OwnedBy
  <2>3. NodesAreFreedBySomebody'
    BY <1>1, <2>1, <2>2 DEF NodesAreFreedBySomebody
  <2>4. InHand'
    BY <1>1, <2>1 DEF InHand
  <2>5. OwnNodesWereGiven'
    BY <1>1, <2>1 DEF OwnNodesWereGiven
  <2> QED
    BY <2>3, <2>4, <2>5
<1> QED
  BY <1>2, <1>3, <1>4 DEF exec_task

(* Every step of a round keeps the invariant.                              *)
LEMMA OwnershipStep == IInv /\ [Next]_vars => IInv'
<1> SUFFICES ASSUME IInv, [Next]_vars PROVE IInv'
  OBVIOUS
<1>0. TypeOK'
  BY TypeStep DEF IInv
<1> USE DEF IInv, TypeOK
<1>1. CASE \E p \in Parents : Begin(p) \/ do_work(p) \/ ParentFails(p)
  BY <1>0, <1>1, ParentStep
<1>2. CASE \E c \in Children : exec_task(c)
  BY <1>0, <1>2, ChildStep
<1> HIDE DEF Parents, Children
<1>3. CASE \E p \in Parents, c \in Children : FindHung(p, c)
  <2> PICK p \in Parents, c \in Children : FindHung(p, c)
    BY <1>3
  <2>1. UNCHANGED <<worker_id, worker_ids, stage, given, current>>
    BY DEF FindHung, rows
  <2>2. NodesAreFreedBySomebody'
    BY <2>1 DEF FindHung, NodesAreFreedBySomebody
  <2>3. InHand'
    BY <2>1 DEF FindHung, InHand
  <2>4. OwnNodesWereGiven'
    BY <2>1 DEF OwnNodesWereGiven
  <2> QED
    BY <1>0, <2>2, <2>3, <2>4
<1>4. CASE Crash
  <2>1. /\ UNCHANGED <<worker_id, worker_ids, in_hand, given, mark_hung>>
        /\ \A c \in Children : (stage'[c] = "finished") = (stage[c] = "finished")
        /\ \A c \in Children : (stage'[c] = "none") = (stage[c] = "none")
        /\ \A p \in Parents : ppc'[p] \in {"none", "ended", "failed"}
    BY <1>4 DEF Crash, rows
  <2>2. NodesAreFreedBySomebody'
    BY <2>1 DEF NodesAreFreedBySomebody
  <2>3. InHand'
    BY <2>1 DEF InHand
  <2>4. OwnNodesWereGiven'
    BY <2>1 DEF OwnNodesWereGiven
  <2> QED
    BY <1>0, <2>2, <2>3, <2>4
<1>5. CASE UNCHANGED vars
  BY <1>0, <1>5 DEF vars, rows, parents, children, progress,
                    NodesAreFreedBySomebody, InHand, OwnNodesWereGiven
<1> QED
  BY <1>1, <1>2, <1>3, <1>4, <1>5 DEF Next

(* For a node that a child has there is always somebody who is to free it, *)
(* however many rounds overlap, fail or are cut short by a crash.          *)
THEOREM NodesFreed == Spec => []NodesAreFreedBySomebody
<1>1. Init => IInv
  <2> SUFFICES ASSUME Init PROVE IInv
    OBVIOUS
  <2>1. TypeOK
    BY FS_EmptySet DEF Init, TypeOK
  <2>2. NodesAreFreedBySomebody /\ InHand /\ OwnNodesWereGiven
    BY DEF Init, NodesAreFreedBySomebody, InHand, OwnNodesWereGiven
  <2> QED
    BY <2>1, <2>2 DEF IInv
<1>2. IInv => NodesAreFreedBySomebody
  BY DEF IInv
<1> QED
  BY <1>1, <1>2, OwnershipStep, PTL DEF Spec

-----------------------------------------------------------------------------
(* The number of rounds begun is the number of the last.                   *)
LEMMA BegunIs ==
  ASSUME NEW k \in 0..MaxParents, {p \in Parents : ppc[p] # "none"} = 1..k
  PROVE  Begun = k
<1>1. 1 \in Int /\ k \in Int /\ k >= 0
  OBVIOUS
<1>2. Cardinality(1..k) = IF 1 > k THEN 0 ELSE k - 1 + 1
  BY ONLY <1>1, FS_Interval, Zenon
<1>3. Cardinality(1..k) = k
  BY <1>1, <1>2
<1> QED
  BY <1>3 DEF Begun

(* A step keeps the order of the rounds, and the rounds and the marks that *)
(* there are.                                                              *)
LEMMA OrderStep ==
  ASSUME RInv, TypeOK', [Next]_vars
  PROVE  RoundsInOrder' /\ Begun <= Begun' /\ (NoneHung' => NoneHung)
<1> USE DEF RInv, TypeOK
<1>1. PICK k \in 0..MaxParents : {p \in Parents : ppc[p] # "none"} = 1..k
  BY DEF RoundsInOrder
<1>2. Begun = k
  BY <1>1, BegunIs
<1>3. \A c \in Children : mark_hung[c] => mark_hung'[c]
  <2> HIDE DEF Parents, Children
  <2>1. CASE \E p \in Parents : Begin(p) \/ do_work(p) \/ ParentFails(p)
    BY <2>1 DEF Begin, do_work, SubmitWork, NoSubmit, make_entity_task_entries,
                CollectFinished, ReleaseHung, ParentFails, children
  <2>2. CASE \E c \in Children : exec_task(c)
    BY <2>2 DEF exec_task, BeginChild, BeginNode, EndNode, EndChild, ResumeChild
  <2>3. CASE \E p \in Parents, c \in Children : FindHung(p, c)
    BY <2>3 DEF FindHung
  <2>4. CASE Crash \/ UNCHANGED vars
    BY <2>4 DEF Crash, vars, children
  <2> QED
    BY <2>1, <2>2, <2>3, <2>4 DEF Next
<1>4. CASE \E p \in Parents : Begin(p)
  <2> PICK p \in Parents : Begin(p)
    BY <1>4
  <2>1. p = k + 1 /\ {q \in Parents : ppc'[q] # "none"} = 1..p
    BY <1>1, <1>2 DEF Begin
  <2>2. p \in 0..MaxParents
    OBVIOUS
  <2>3. RoundsInOrder'
    BY <2>1, <2>2 DEF RoundsInOrder
  <2>4. Begun' = p
    <3>1. 1 \in Int /\ p \in Int /\ p >= 1
      OBVIOUS
    <3>2. Cardinality(1..p) = IF 1 > p THEN 0 ELSE p - 1 + 1
      BY ONLY <3>1, FS_Interval, Zenon
    <3>3. Cardinality(1..p) = p
      BY <3>1, <3>2
    <3> QED
      BY <2>1, <3>3 DEF Begun
  <2> QED
    BY <1>2, <1>3, <2>1, <2>3, <2>4 DEF NoneHung
<1>5. CASE ~\E p \in Parents : Begin(p)
  <2> HIDE DEF Parents, Children
  <2>1. \A p \in Parents : (ppc'[p] = "none") = (ppc[p] = "none")
    <3>1. CASE \E p \in Parents : do_work(p) \/ ParentFails(p)
      BY <3>1 DEF do_work, SubmitWork, NoSubmit, make_entity_task_entries,
                  CollectFinished, ReleaseHung, ParentFails
    <3>2. CASE (\E c \in Children : exec_task(c)) \/ UNCHANGED vars
      BY <3>2 DEF exec_task, BeginChild, BeginNode, EndNode, EndChild, ResumeChild,
                  vars, parents
    <3>3. CASE \E p \in Parents, c \in Children : FindHung(p, c)
      BY <3>3 DEF FindHung
    <3>4. CASE Crash
      BY <3>4 DEF Crash
    <3> QED
      BY <1>5, <3>1, <3>2, <3>3, <3>4 DEF Next
  <2>2. {p \in Parents : ppc'[p] # "none"} = {p \in Parents : ppc[p] # "none"}
    BY <2>1
  <2>3. RoundsInOrder'
    BY <1>1, <2>2 DEF RoundsInOrder
  <2>4. Begun' = Begun
    BY <2>2 DEF Begun
  <2>5. Begun \in Nat
    BY BegunType
  <2> QED
    BY <1>3, <2>3, <2>4, <2>5 DEF NoneHung
<1> QED
  BY <1>4, <1>5

(* So what was not calm does not become calm again.                        *)
LEMMA CalmStep ==
  ASSUME RInv, TypeOK', [Next]_vars
  PROVE  /\ Calm' => Calm
         /\ Begun' <= 1 \/ NoneHung' => Begun <= 1 \/ NoneHung
<1>1. Begun <= Begun' /\ (NoneHung' => NoneHung)
  BY OrderStep
<1>2. Begun \in Nat /\ Begun' \in Nat
  BY BegunType
<1> QED
  BY <1>1, <1>2 DEF Calm

(* A child has only nodes before it that it was made for.                  *)
LEMMA GivenStep ==
  ASSUME RInv, TypeOK', [Next]_vars
  PROVE  WorksOnGiven'
<1> USE DEF RInv, TypeOK
<1> HIDE DEF Parents, Children
<1>1. CASE \E p \in Parents, c \in Children : SubmitWork(p, c)
  BY <1>1 DEF SubmitWork, progress, WorksOnGiven
<1>2. CASE \E p \in Parents, c \in Children : FindHung(p, c)
  BY <1>2 DEF FindHung, WorksOnGiven
<1>3. CASE \E c \in Children : BeginChild(c) \/ BeginNode(c)
  <2> PICK c \in Children : BeginChild(c) \/ BeginNode(c)
    BY <1>3
  <2>1. PICK S \in SUBSET given[c] : Fetch(c, S) /\ rest[c] \subseteq S
    BY DEF BeginChild, BeginNode, WorksOnGiven
  <2>2. /\ \A d \in Children \ {c} : next'[d] = next[d] /\ rest'[d] = rest[d]
        /\ next'[c] \in S \cup {None} /\ rest'[c] \subseteq S
    <3>1. CASE S = {}
      BY <2>1, <3>1 DEF Fetch
    <3>2. CASE S # {}
      <4>1. PICK n \in S : /\ next' = [next EXCEPT ![c] = n]
                           /\ rest' = [rest EXCEPT ![c] = S \ {n}]
        BY <2>1, <3>2 DEF Fetch
      <4> QED
        BY <4>1
    <3> QED
      BY <3>1, <3>2
  <2>3. /\ stage'[c] = "running"
        /\ \A d \in Children \ {c} : stage'[d] = stage[d] /\ current'[d] = current[d]
        /\ current'[c] \in given[c] \cup {None}
        /\ UNCHANGED given
    BY DEF BeginChild, BeginNode, WorksOnGiven
  <2> QED
    BY <2>2, <2>3 DEF WorksOnGiven
<1>4. CASE \E c \in Children : EndNode(c) \/ EndChild(c) \/ ResumeChild(c)
  BY <1>4 DEF EndNode, EndChild, ResumeChild, progress, WorksOnGiven
<1>5. CASE Crash
  BY <1>5 DEF Crash, progress, WorksOnGiven
<1>6. CASE UNCHANGED <<children>>
  BY <1>6 DEF children, progress, WorksOnGiven
<1>7. CASE \E p \in Parents : \/ Begin(p) \/ NoSubmit(p) \/ make_entity_task_entries(p)
                              \/ CollectFinished(p) \/ ReleaseHung(p) \/ ParentFails(p)
  BY <1>6, <1>7 DEF Begin, NoSubmit, make_entity_task_entries, CollectFinished,
                    ReleaseHung, ParentFails
<1> QED
  BY <1>1, <1>2, <1>3, <1>4, <1>5, <1>6, <1>7 DEF Next, do_work, exec_task, vars

(* In the first round, while it is calm, a node is handed out once.        *)
LEMMA OnceStep ==
  ASSUME IInv, RInv, TypeOK', [Next]_vars, Calm, Calm'
  PROVE  HandedOutOnce'
<1> USE DEF RInv, TypeOK
<1>0. \A p \in Parents : ppc[p] # "none" => p = 1
  <2>1. PICK k \in 0..MaxParents : {p \in Parents : ppc[p] # "none"} = 1..k
    BY DEF RoundsInOrder
  <2>2. Begun = k
    BY <2>1, BegunIs
  <2>3. k \in Nat /\ k <= 1
    BY <2>2 DEF Calm
  <2>4. ASSUME NEW p \in Parents, ppc[p] # "none" PROVE p = 1
    <3>1. p \in 1..k
      BY <2>1, <2>4
    <3> QED
      BY <2>3, <3>1
  <2> QED
    BY <2>4
<1>1. CASE \E p \in Parents, c \in Children : SubmitWork(p, c)
  <2> PICK p \in Parents, c \in Children : SubmitWork(p, c)
    BY <1>1
  <2>1. p = 1 /\ ppc[p] = "get" /\ \A q \in Parents : ppc[q] \in {"none", "get"}
    BY <1>0 DEF SubmitWork
  <2>2. PICK W \in SUBSET Available(p) : given' = [given EXCEPT ![c] = W]
    BY DEF SubmitWork
  <2> HIDE DEF Parents, Children
  <2>3. \A d \in Children : given[d] \cap W = {}
    BY <2>1, <2>2 DEF Available, HandedOutOnce
  <2>4. \A d \in Children : \A n \in given[d] : start_time[n] >= 1
    BY <2>1 DEF HandedOutOnce
  <2>5. /\ UNCHANGED start_time
        /\ ppc'[p] = "record" /\ in_hand'[p] = c
    BY DEF SubmitWork, rows
  <2> QED
    BY <2>2, <2>3, <2>4, <2>5 DEF HandedOutOnce
<1>2. CASE \E p \in Parents : make_entity_task_entries(p)
  <2> PICK p \in Parents : make_entity_task_entries(p)
    BY <1>2
  <2>1. Begun >= 1 /\ p = 1 /\ \A q \in Parents \ {p} : ppc[q] = "none"
    <3>1. PICK k \in 0..MaxParents : {q \in Parents : ppc[q] # "none"} = 1..k
      BY DEF RoundsInOrder
    <3>2. p \in 1..k
      BY <3>1 DEF make_entity_task_entries
    <3>3. Begun = k
      BY <3>1, BegunIs
    <3> QED
      BY <1>0, <3>2, <3>3 DEF make_entity_task_entries
  <2>2. \A n \in Nodes : start_time'[n] = IF n \in given[in_hand[p]] THEN Begun ELSE start_time[n]
    BY DEF make_entity_task_entries
  <2>3. UNCHANGED given /\ ppc[p] = "record"
    BY DEF make_entity_task_entries, children
  <2>4. Begun \in Nat
    BY BegunType
  <2> HIDE DEF Parents, Children
  <2>5. ASSUME NEW c \in Children, NEW n \in given[c] PROVE start_time'[n] >= 1
    <3>1. n \in Nodes /\ start_time[n] \in Nat
      OBVIOUS
    <3>2. start_time[n] >= 1 \/ c = in_hand[p]
      BY <2>1, <2>3 DEF HandedOutOnce
    <3> QED
      BY <2>1, <2>2, <2>4, <3>1, <3>2
  <2> QED
    BY <2>3, <2>5 DEF HandedOutOnce
<1> HIDE DEF Parents, Children
<1>3. CASE \E p \in Parents : ReleaseHung(p)
  <2> PICK p \in Parents : ReleaseHung(p)
    BY <1>3
  <2>1. in_hand[p] \in Children /\ mark_hung[in_hand[p]]
    BY DEF ReleaseHung, IInv, InHand
  <2> QED
    BY <2>1 DEF Calm, NoneHung
<1>4. ASSUME UNCHANGED <<start_time, given>>,
             \A p \in Parents :
               \/ UNCHANGED <<ppc[p], in_hand[p]>>
               \/ ppc[p] \notin {"record", "failed"}
               \/ ppc'[p] = "failed"
      PROVE  HandedOutOnce'
  <2>1. ASSUME NEW c \in Children, NEW n \in given[c]
        PROVE  \/ start_time[n] >= 1
               \/ \E p \in Parents : \/ ppc'[p] = "failed"
                                     \/ ppc'[p] = "record" /\ in_hand'[p] = c
    BY <1>4 DEF HandedOutOnce
  <2> QED
    BY <1>4, <2>1 DEF HandedOutOnce
<1>5. CASE \E p \in Parents : \/ Begin(p) \/ NoSubmit(p) \/ CollectFinished(p)
                              \/ ParentFails(p)
  <2>1. PICK p \in Parents : Begin(p) \/ NoSubmit(p) \/ CollectFinished(p) \/ ParentFails(p)
    BY <1>5
  <2>2. UNCHANGED <<start_time, given, in_hand>>
    BY <2>1 DEF Begin, NoSubmit, CollectFinished, ParentFails, rows, children
  <2>3. /\ \A q \in Parents \ {p} : ppc'[q] = ppc[q]
        /\ ppc[p] \notin {"record", "failed"} \/ ppc'[p] = "failed"
    BY <2>1 DEF Begin, NoSubmit, CollectFinished, ParentFails
  <2> QED
    BY <1>4, <2>2, <2>3
<1>6. CASE \E p \in Parents, c \in Children : FindHung(p, c)
  BY <1>4, <1>6 DEF FindHung, rows
<1>7. CASE (\E c \in Children : exec_task(c)) \/ UNCHANGED vars
  <2>1. UNCHANGED <<start_time, given, parents>>
    BY <1>7 DEF exec_task, BeginChild, BeginNode, EndNode, EndChild, ResumeChild,
                vars, rows, children
  <2> QED
    BY <1>4, <2>1 DEF parents
<1>8. CASE Crash
  BY <1>4, <1>8 DEF Crash, rows
<1> QED
  BY <1>1, <1>2, <1>3, <1>5, <1>6, <1>7, <1>8 DEF Next, do_work

-----------------------------------------------------------------------------
(* Children are on the list of a round that has begun, and have before     *)
(* them what they were given.                                              *)
LEMMA ListsStep ==
  ASSUME IInv, RInv, ListsOK, TypeOK', [Next]_vars
  PROVE  ListsOK'
<1> USE DEF RInv, TypeOK
<1> HIDE DEF Parents, Children
<1>1. CASE \E p \in Parents, c \in Children : SubmitWork(p, c)
  <2> PICK p \in Parents, c \in Children : SubmitWork(p, c)
    BY <1>1
  <2>1. /\ ppc' = [ppc EXCEPT ![p] = "record"] /\ stage' = [stage EXCEPT ![c] = "submitted"]
        /\ worker_ids' = [worker_ids EXCEPT ![p] = @ \cup {c}]
        /\ in_hand' = [in_hand EXCEPT ![p] = c] /\ UNCHANGED pending
        /\ \A d \in Children \ {c} : given'[d] = given[d]
        /\ stage[c] = "none"
    BY DEF SubmitWork, progress
  <2> QED
    BY <2>1 DEF ListsOK
<1>2. CASE \E p \in Parents : \/ Begin(p) \/ NoSubmit(p) \/ make_entity_task_entries(p)
                              \/ CollectFinished(p) \/ ReleaseHung(p) \/ ParentFails(p)
  <2> PICK p \in Parents : \/ Begin(p) \/ NoSubmit(p) \/ make_entity_task_entries(p)
                           \/ CollectFinished(p) \/ ReleaseHung(p) \/ ParentFails(p)
    BY <1>2
  <2>1. /\ UNCHANGED <<stage, given, pending>>
        /\ ppc'[p] \in {"get", "wait", "ended", "failed"}
        /\ worker_ids'[p] \subseteq worker_ids[p]
        /\ \A q \in Parents \ {p} : /\ ppc'[q] = ppc[q] /\ worker_ids'[q] = worker_ids[q]
                                    /\ in_hand'[q] = in_hand[q]
    BY DEF Begin, NoSubmit, make_entity_task_entries, CollectFinished, ReleaseHung,
           ParentFails, children, progress
  <2> QED
    BY <2>1 DEF ListsOK
<1>3. CASE \E p \in Parents, c \in Children : FindHung(p, c)
  BY <1>3 DEF FindHung, ListsOK
<1>4. CASE \E c \in Children : BeginChild(c) \/ BeginNode(c)
  <2> PICK c \in Children : BeginChild(c) \/ BeginNode(c)
    BY <1>4
  <2>1. /\ UNCHANGED <<given, ppc, worker_ids, in_hand>>
        /\ stage'[c] = "running" /\ pending'[c] \subseteq given[c]
        /\ \A d \in Children \ {c} : stage'[d] = stage[d] /\ pending'[d] = pending[d]
    BY DEF BeginChild, BeginNode, parents, ListsOK
  <2> QED
    BY <2>1 DEF ListsOK
<1>5. CASE \E c \in Children : EndNode(c) \/ EndChild(c) \/ ResumeChild(c)
  BY <1>5 DEF EndNode, EndChild, ResumeChild, parents, progress, ListsOK
<1>6. CASE Crash
  <2>1. /\ UNCHANGED <<given, worker_ids, pending>>
        /\ \A p \in Parents : ppc'[p] # "hung" /\ (ppc'[p] = "none" => ppc[p] = "none")
        /\ \A c \in Children : /\ stage'[c] = "none" <=> stage[c] = "none"
                               /\ stage'[c] = "submitted" => stage[c] = "submitted"
    BY <1>6 DEF Crash, progress
  <2> QED
    BY <2>1 DEF ListsOK
<1>7. CASE UNCHANGED vars
  BY <1>7 DEF vars, parents, children, progress, ListsOK
<1> QED
  BY <1>1, <1>2, <1>3, <1>4, <1>5, <1>6, <1>7 DEF Next, do_work, exec_task

(* A round with children on its list has begun.                            *)
LEMMA ListedHaveBegun ==
  ASSUME RInv, ListsOK, NEW p \in Parents, worker_ids[p] # {} \/ ppc[p] # "none"
  PROVE  p <= Begun
<1>1. PICK k \in 0..MaxParents : {q \in Parents : ppc[q] # "none"} = 1..k
  BY DEF RInv, RoundsInOrder
<1>2. p \in 1..k
  BY <1>1 DEF ListsOK
<1> QED
  BY <1>1, <1>2, BegunIs

(* What a parent hands out it does not hand out again while it waits.      *)
LEMMA SinceStep ==
  ASSUME IInv, RInv, ListsOK, HandedOutSince, TypeOK', [Next]_vars,
         Begun <= 1 \/ NoneHung
  PROVE  HandedOutSince'
<1> USE DEF RInv, TypeOK
<1>1. CASE \E p \in Parents, c \in Children : SubmitWork(p, c)
  <2> PICK p \in Parents, c \in Children : SubmitWork(p, c)
    BY <1>1
  <2> HIDE DEF Parents, Children
  <2>0. start_time \in [Nodes -> Nat] /\ p \in Nat
    BY DEF Parents
  <2>1. PICK W \in SUBSET Available(p) : given' = [given EXCEPT ![c] = W]
    BY DEF SubmitWork
  <2>2. /\ UNCHANGED start_time /\ ppc[p] = "get" /\ ppc' = [ppc EXCEPT ![p] = "record"]
        /\ in_hand' = [in_hand EXCEPT ![p] = c]
        /\ worker_ids' = [worker_ids EXCEPT ![p] = @ \cup {c}]
        /\ \A q \in Parents : c \notin worker_ids[q]
    BY DEF SubmitWork, rows, ListsOK
  <2>3. \A n \in W : n \in Nodes /\ ~(start_time[n] >= p)
    BY DEF Available
  <2>4. \A d \in worker_ids[p] : \A n \in given[d] : start_time[n] >= p
    BY <2>2 DEF HandedOutSince
  <2>5. \A d \in worker_ids[p] : given[d] \cap W = {}
    BY <2>3, <2>4
  <2>6. \A q \in Parents : \A d \in worker_ids[q] : given'[d] = given[d] /\ d # c
    BY <2>1, <2>2
  <2>7. given'[c] = W
    BY <2>1
  <2>8. \A q \in Parents \ {p} : /\ ppc'[q] = ppc[q] /\ in_hand'[q] = in_hand[q]
                                 /\ worker_ids'[q] = worker_ids[q]
    BY <2>2
  <2>9. ppc'[p] = "record" /\ in_hand'[p] = c /\ worker_ids'[p] = worker_ids[p] \cup {c}
    BY <2>2
  <2>10. ASSUME NEW q \in Parents, NEW d \in worker_ids'[q]
         PROVE  /\ \A e \in worker_ids'[q] : given'[d] \cap given'[e] # {} => d = e
                /\ \A n \in given'[d] : \/ start_time'[n] >= q \/ ppc'[q] = "failed"
                                        \/ ppc'[q] = "record" /\ in_hand'[q] = d
    <3>1. CASE q = p
      BY <2>2, <2>4, <2>5, <2>6, <2>7, <2>9, <2>10, <3>1 DEF HandedOutSince
    <3>2. CASE q # p
      BY <2>2, <2>6, <2>8, <2>10, <3>2 DEF HandedOutSince
    <3> QED
      BY <3>1, <3>2
  <2> QED
    BY <2>10 DEF HandedOutSince
<1>2. CASE \E p \in Parents : make_entity_task_entries(p)
  <2> PICK p \in Parents : make_entity_task_entries(p)
    BY <1>2
  <2>0. start_time \in [Nodes -> Nat] /\ Begun \in Nat /\ Parents \subseteq Nat
    BY BegunType
  <2>1. \A q \in Parents : worker_ids[q] # {} => q <= Begun
    BY ListedHaveBegun
  <2> HIDE DEF Parents, Children
  <2>2. /\ \A n \in Nodes : start_time'[n] = IF n \in given[in_hand[p]] THEN Begun ELSE start_time[n]
        /\ ppc[p] = "record" /\ ppc' = [ppc EXCEPT ![p] = "get"]
        /\ in_hand' = [in_hand EXCEPT ![p] = None]
        /\ UNCHANGED <<worker_ids, given>>
    BY DEF make_entity_task_entries, children
  <2>3. ASSUME NEW q \in Parents, NEW d \in worker_ids[q], NEW n \in given[d]
        PROVE  \/ start_time'[n] >= q \/ ppc'[q] = "failed"
               \/ ppc'[q] = "record" /\ in_hand'[q] = d
    <3>1. n \in Nodes /\ q <= Begun
      BY <2>1, <2>3
    <3>2. CASE n \in given[in_hand[p]]
      BY <2>0, <2>2, <3>1, <3>2
    <3>3. CASE n \notin given[in_hand[p]]
      <4>1. start_time[n] >= q \/ ppc[q] = "failed" \/ (ppc[q] = "record" /\ in_hand[q] = d)
        BY <2>3 DEF HandedOutSince
      <4>2. q = p => start_time[n] >= q
        BY <2>2, <2>3, <3>3, <4>1
      <4> QED
        BY <2>2, <3>1, <3>3, <4>1, <4>2
    <3> QED
      BY <3>2, <3>3
  <2> QED
    BY <2>2, <2>3 DEF HandedOutSince
<1>3. CASE \E p \in Parents : ReleaseHung(p)
  <2> PICK p \in Parents : ReleaseHung(p)
    BY <1>3
  <2> DEFINE c == in_hand[p]
  <2>1. c \in worker_ids[p] /\ mark_hung[c] /\ c \in Children /\ pending[c] \subseteq given[c]
    BY DEF ReleaseHung, IInv, InHand, ListsOK
  <2>2. Begun <= 1
    BY <2>1 DEF NoneHung
  <2>3. \A q \in Parents : worker_ids[q] # {} => q = p
    <3>1. p <= Begun
      BY <2>1, ListedHaveBegun
    <3>2. \A q \in Parents : worker_ids[q] # {} => q <= Begun
      BY ListedHaveBegun
    <3> QED
      BY <2>2, <3>1, <3>2, BegunType
  <2> HIDE DEF Parents, Children
  <2>4. /\ worker_ids' = [worker_ids EXCEPT ![p] = @ \ {c}]
        /\ \A n \in Nodes : n \notin pending[c] => start_time'[n] = start_time[n]
        /\ ppc[p] = "hung" /\ UNCHANGED given
    BY DEF ReleaseHung, children
  <2> HIDE DEF c
  <2>5. ASSUME NEW d \in worker_ids[p] \ {c}, NEW n \in given[d]
        PROVE  start_time'[n] >= p
    <3>1. n \notin given[c]
      BY <2>1, <2>5 DEF HandedOutSince
    <3>2. start_time[n] >= p
      BY <2>4, <2>5 DEF HandedOutSince
    <3> QED
      BY <2>1, <2>4, <2>5, <3>1, <3>2
  <2>6. \A q \in Parents : \A d \in worker_ids'[q] : q = p /\ d \in worker_ids[p] \ {c}
    BY <2>3, <2>4
  <2> QED
    BY <2>4, <2>5, <2>6 DEF HandedOutSince
<1> HIDE DEF Parents, Children
<1>4. ASSUME UNCHANGED <<start_time, given>>,
             \A p \in Parents :
               /\ worker_ids'[p] \subseteq worker_ids[p]
               /\ \/ UNCHANGED <<ppc[p], in_hand[p]>>
                  \/ ppc[p] \notin {"record", "failed"}
                  \/ ppc'[p] = "failed"
      PROVE  HandedOutSince'
  BY <1>4 DEF HandedOutSince
<1>5. CASE \E p \in Parents : \/ Begin(p) \/ NoSubmit(p) \/ CollectFinished(p)
                              \/ ParentFails(p)
  <2>1. PICK p \in Parents : Begin(p) \/ NoSubmit(p) \/ CollectFinished(p) \/ ParentFails(p)
    BY <1>5
  <2>2. UNCHANGED <<start_time, given, in_hand>>
    BY <2>1 DEF Begin, NoSubmit, CollectFinished, ParentFails, rows, children
  <2>3. /\ \A q \in Parents \ {p} : ppc'[q] = ppc[q]
        /\ ppc[p] \notin {"record", "failed"} \/ ppc'[p] = "failed"
    BY <2>1 DEF Begin, NoSubmit, CollectFinished, ParentFails
  <2>4. \A q \in Parents : worker_ids'[q] \subseteq worker_ids[q]
    <3>1. CASE CollectFinished(p)
      BY <3>1 DEF CollectFinished
    <3>2. CASE Begin(p) \/ NoSubmit(p) \/ ParentFails(p)
      BY <3>2 DEF Begin, NoSubmit, ParentFails
    <3> QED
      BY <2>1, <3>1, <3>2
  <2> QED
    BY <1>4, <2>2, <2>3, <2>4
<1>6. CASE \E p \in Parents, c \in Children : FindHung(p, c)
  BY <1>4, <1>6 DEF FindHung, rows
<1>7. CASE (\E c \in Children : exec_task(c)) \/ UNCHANGED vars
  <2>1. UNCHANGED <<start_time, given, parents>>
    BY <1>7 DEF exec_task, BeginChild, BeginNode, EndNode, EndChild, ResumeChild,
                vars, rows, children
  <2> QED
    BY <1>4, <2>1 DEF parents
<1>8. CASE Crash
  BY <1>4, <1>8 DEF Crash, rows
<1> QED
  BY <1>1, <1>2, <1>3, <1>5, <1>6, <1>7, <1>8 DEF Next, do_work

(* Who has a node, who was made for it and since when it counts as handed  *)
(* out, in every state of every execution.                                 *)
THEOREM Invariant == Spec => []WInv
<1>1. Init => WInv
  <2> SUFFICES ASSUME Init PROVE WInv
    OBVIOUS
  <2>1. TypeOK
    BY FS_EmptySet DEF Init, TypeOK
  <2>2. NodesAreFreedBySomebody /\ InHand /\ OwnNodesWereGiven
    BY DEF Init, NodesAreFreedBySomebody, InHand, OwnNodesWereGiven
  <2>3. RoundsInOrder
    <3>1. {p \in Parents : ppc[p] # "none"} = 1..0
      BY DEF Init
    <3> QED
      BY <3>1 DEF RoundsInOrder
  <2>4. WorksOnGiven /\ HandedOutOnce /\ ListsOK /\ HandedOutSince
    BY DEF Init, WorksOnGiven, HandedOutOnce, ListsOK, HandedOutSince
  <2> QED
    BY <2>1, <2>2, <2>3, <2>4 DEF WInv, IInv, RInv, HInv
<1>2. WInv /\ [Next]_vars => WInv'
  <2> SUFFICES ASSUME WInv, [Next]_vars PROVE WInv'
    OBVIOUS
  <2>0. IInv /\ RInv /\ HInv /\ ListsOK
    BY DEF WInv, HInv
  <2>1. IInv' /\ TypeOK'
    BY <2>0, OwnershipStep DEF IInv
  <2>2. RoundsInOrder' /\ WorksOnGiven' /\ ListsOK'
    BY <2>0, <2>1, OrderStep, GivenStep, ListsStep
  <2>3. Calm' => HandedOutOnce'
    BY <2>0, <2>1, CalmStep, OnceStep
  <2>4. Begun' <= 1 \/ NoneHung' => HandedOutSince'
    BY <2>0, <2>1, CalmStep, SinceStep DEF HInv
  <2> QED
    BY <2>1, <2>2, <2>3, <2>4 DEF WInv, RInv, HInv
<1> QED
  BY <1>1, <1>2, PTL DEF Spec

(* In one round, as long as no child was taken for hung, no two children   *)
(* refresh the same node at the same time; nor are two that one parent     *)
(* waits for made for the same node, though rounds overlap or, in one      *)
(* round, children hang.                                                   *)
THEOREM OneRefresher == Spec => []OneChildPerNode
<1>1. WInv => OneChildPerNode
  <2>1. ASSUME RInv, Calm, NEW c \in Children, NEW d \in Children,
               current[c] # None, current[c] = current[d]
        PROVE  c = d
    <3>1. current[c] \in given[c] \cap given[d]
      BY <2>1 DEF RInv, WorksOnGiven
    <3> QED
      BY <2>1, <3>1 DEF RInv, HandedOutOnce
  <2> QED
    BY <2>1, Zenon DEF WInv, HInv, HandedOutSince, OneChildPerNode
<1> QED
  BY <1>1, Invariant, PTL
=============================================================================

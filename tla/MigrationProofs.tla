--------------------------- MODULE MigrationProofs ---------------------------
(***************************************************************************)
(* Theorems about migrations, for any number of nodes, VMs, tasks, VMs of  *)
(* a task, users' actions and failures.                                    *)
(***************************************************************************)
EXTENDS Migration, FiniteSetTheorems, TLAPS

USE NoneAssumption, BoundsAssumption DEF Steps

(* The task has put down that it saw the VM in the destination.            *)
Seen(t, v) == pc[t] = "store" /\ outcome[t] = "moved" /\ dom(t) = v

(* OneSource, LeavesItsNode, IsOrWillBe and StaysWhereSeen of one VM.      *)
Placed(v) ==
  /\ \A t, u \in Tasks : Pending(t, v) /\ Pending(u, v) => src[t] = src[u]
  /\ moving[v] # None =>
       /\ parent[v] = src[moving[v]] /\ AllFrom(v, src[moving[v]])
       /\ runs[v] \subseteq IF v \in transit THEN {} ELSE {src[moving[v]]}
  /\ moving[v] = None => runs[v] \subseteq {parent[v]} \/ \E t \in Tasks : Brought(t, v)
  /\ \A t \in Tasks : Seen(t, v) => moving[v] = None /\ runs[v] \subseteq {dst[t]}

-----------------------------------------------------------------------------
(* The list of a task has a VM in each place.                              *)
LEMMA ListsHoldVms ==
  ASSUME NEW l \in SetToAllKPermutations(Vms)
  PROVE  /\ Len(l) \in Nat /\ DOMAIN l = 1..Len(l)
         /\ \A i \in DOMAIN l : l[i] \in Vms
<1>1. PICK S \in SUBSET Vms : l \in SetToSeqs(S)
  BY DEF SetToAllKPermutations
<1>2. Cardinality(S) \in Nat
  BY <1>1, VmsAssumption, FS_Subset, FS_CardinalityType
<1>3. l \in [1..Cardinality(S) -> S]
  BY <1>1 DEF SetToSeqs
<1>4. DOMAIN l = 1..Cardinality(S) /\ Len(l) = Cardinality(S)
  BY <1>2, <1>3
<1> QED
  BY <1>1, <1>2, <1>3, <1>4

(* That of a task for one VM is a list.                                    *)
LEMMA SingleIsList ==
  ASSUME NEW v \in Vms
  PROVE  <<v>> \in SetToAllKPermutations(Vms) /\ DOMAIN <<v>> = {1} /\ <<v>>[1] = v
<1>1. Cardinality({v}) = 1
  BY FS_Singleton
<1>2. <<v>> \in [1..1 -> {v}] /\ DOMAIN <<v>> = {1} /\ <<v>>[1] = v
  OBVIOUS
<1>3. <<v>> \in SetToSeqs({v})
  BY <1>1, <1>2 DEF SetToSeqs
<1> QED
  BY <1>2, <1>3 DEF SetToAllKPermutations

(* The four parts of the invariant that speak of single VMs, together.     *)
LEMMA PlacedIsEnough ==
  (\A v \in Vms \ astray : Placed(v))
    <=> OneSource /\ LeavesItsNode /\ IsOrWillBe /\ StaysWhereSeen
BY DEF Placed, Seen, OneSource, LeavesItsNode, IsOrWillBe, StaysWhereSeen

(* What NextDom does: the task begins with the VM after, or ends.          *)
LEMMA NextDomStep ==
  ASSUME TypeOK, Requested, NEW t \in Tasks, InProgress(t), NextDom(t)
  PROVE  /\ \A u \in Tasks \ {t} : pc'[u] = pc[u] /\ k'[u] = k[u]
         /\ \/ pc'[t] = "begin" /\ k'[t] = k[t] + 1 /\ k'[t] \in DOMAIN dom_list[t]
            \/ pc'[t] = "ended" /\ k'[t] = k[t]
         /\ k' \in [Tasks -> Nat]
         /\ pc' \in [Tasks -> Steps]
<1>1. dom_list[t] \in SetToAllKPermutations(Vms) /\ k[t] \in Nat /\ k[t] \in DOMAIN dom_list[t]
  BY DEF TypeOK, Requested, InProgress
<1>2. Len(dom_list[t]) \in Nat /\ DOMAIN dom_list[t] = 1..Len(dom_list[t])
  BY <1>1, ListsHoldVms
<1>3. CASE k[t] < Len(dom_list[t])
  <2>1. \A n, i \in Nat : i \in 1..n /\ i < n => i + 1 \in 1..n /\ i + 1 \in Nat
    OBVIOUS
  <2>2. k[t] + 1 \in DOMAIN dom_list[t] /\ k[t] + 1 \in Nat
    BY <1>1, <1>2, <1>3, <2>1, Zenon
  <2>3. pc' = [pc EXCEPT ![t] = "begin"] /\ k' = [k EXCEPT ![t] = k[t] + 1]
    BY <1>3, Zenon DEF NextDom
  <2>4. k'[t] = k[t] + 1 /\ k' \in [Tasks -> Nat]
    BY <2>2, <2>3 DEF TypeOK
  <2>5. k'[t] \in DOMAIN dom_list[t]
    BY <2>2, <2>4, Zenon
  <2> QED
    BY <2>3, <2>4, <2>5 DEF TypeOK
<1>4. CASE ~(k[t] < Len(dom_list[t]))
  BY <1>1, <1>2, <1>4 DEF NextDom, TypeOK
<1> QED
  BY <1>3, <1>4

(* A step that leaves a VM where it is and is said to be, in which no task *)
(* gets it that had it not, and none that has brought it lets go of it,    *)
(* keeps it placed.                                                        *)
LEMMA Untouched ==
  ASSUME IInv, NEW v \in Vms, v \notin astray,
         parent'[v] = parent[v], runs'[v] = runs[v], moving'[v] = moving[v],
         v \in transit' <=> v \in transit,
         \A u \in Tasks : pc[u] # "none" => src'[u] = src[u] /\ dst'[u] = dst[u],
         \A u \in Tasks : Pending(u, v)' => Pending(u, v),
         \A u \in Tasks : Brought(u, v) => HasIt(u, v)' \/ runs[v] \subseteq {parent[v]},
         \A u \in Tasks : Seen(u, v)' => moving[v] = None /\ runs[v] \subseteq {dst'[u]}
  PROVE  Placed(v)'
<1>1. Placed(v)
  BY PlacedIsEnough DEF IInv
<1>2. \A u \in Tasks : Pending(u, v) => pc[u] # "none"
  BY DEF Pending, InProgress
<1>3. \A t, u \in Tasks : Pending(t, v)' /\ Pending(u, v)' => src'[t] = src'[u]
  BY <1>1, <1>2 DEF Placed
<1>4. ASSUME NEW n, AllFrom(v, n)
      PROVE  \A u \in Tasks : Pending(u, v)' => src'[u] = n
  BY <1>2, <1>4 DEF AllFrom
<1>5. moving'[v] # None =>
        /\ parent'[v] = src'[moving'[v]] /\ AllFrom(v, src[moving'[v]])
        /\ src'[moving'[v]] = src[moving'[v]]
        /\ runs'[v] \subseteq IF v \in transit' THEN {} ELSE {src'[moving'[v]]}
  BY <1>1 DEF Placed, IInv, TypeOK, Movers
<1>6. moving'[v] = None =>
        runs'[v] \subseteq {parent'[v]} \/ \E t \in Tasks : Brought(t, v)'
  <2>1. SUFFICES ASSUME moving[v] = None, ~(runs[v] \subseteq {parent[v]})
                 PROVE  \E t \in Tasks : Brought(t, v)'
    OBVIOUS
  <2>2. PICK t \in Tasks : Brought(t, v)
    BY <1>1, <2>1 DEF Placed
  <2>3. pc[t] # "none"
    BY <2>2 DEF Brought, HasIt
  <2>4. Brought(t, v)'
    BY <1>4, <2>1, <2>2, <2>3 DEF Brought, AllFrom
  <2> QED
    BY <2>4
<1> QED
  BY <1>3, <1>4, <1>5, <1>6 DEF Placed, AllFrom

(* What a task in progress knows of the VM in hand.                        *)
LEMMA InHand ==
  ASSUME TypeOK, Requested, NEW t \in Tasks, InProgress(t)
  PROVE  /\ dom(t) \in Vms /\ dom(t) \in Doms(t) /\ Pending(t, dom(t))
         /\ k[t] \in Nat /\ k[t] \in DOMAIN dom_list[t]
         /\ src[t] \in Nodes /\ dst[t] \in Nodes /\ dst[t] # src[t]
<1>1. dom_list[t] \in SetToAllKPermutations(Vms) /\ k[t] \in Nat /\ k[t] \in DOMAIN dom_list[t]
  BY DEF TypeOK, Requested, InProgress
<1>2. dom(t) \in Vms
  BY <1>1, ListsHoldVms DEF dom
<1>3. k[t] >= k[t]
  BY <1>1
<1>4. Pending(t, dom(t))
  BY <1>1, <1>3, Zenon DEF Pending, dom
<1> QED
  BY <1>1, <1>2, <1>4 DEF Doms, dom, Requested, InProgress

(* A step of one task in progress that stays with its VM or goes on to the *)
(* next gives no task a VM it had not.                                     *)
LEMMA NotMorePending ==
  ASSUME TypeOK, Requested, NEW t \in Tasks, InProgress(t),
         \A u \in Tasks \ {t} : pc'[u] = pc[u] /\ k'[u] = k[u],
         k'[t] = k[t] \/ k'[t] = k[t] + 1, dom_list' = dom_list
  PROVE  \A u \in Tasks, v \in Vms : Pending(u, v)' => Pending(u, v)
<1> SUFFICES ASSUME NEW u \in Tasks, NEW v \in Vms, Pending(u, v)'
             PROVE  Pending(u, v)
  OBVIOUS
<1>1. CASE u # t
  BY <1>1 DEF Pending, InProgress
<1>2. CASE u = t
  <2>1. PICK i \in DOMAIN dom_list[t] : i >= k'[t] /\ dom_list[t][i] = v
    BY <1>2 DEF Pending
  <2>2. dom_list[t] \in SetToAllKPermutations(Vms) /\ k[t] \in Nat
    BY DEF TypeOK, Requested, InProgress
  <2>3. Len(dom_list[t]) \in Nat /\ DOMAIN dom_list[t] = 1..Len(dom_list[t])
    BY <2>2, ListsHoldVms
  <2>4. \A n, a \in Nat : \A b, j : j \in 1..n /\ j >= b /\ (b = a \/ b = a + 1) => j >= a
    OBVIOUS
  <2>5. i >= k[t]
    BY <2>1, <2>2, <2>3, <2>4, Zenon
  <2> QED
    BY <1>2, <2>1, <2>5 DEF Pending
<1> QED
  BY <1>1, <1>2

(* Another task's step takes nothing out of a task's hands.                *)
LEMMA OthersHaveIt ==
  ASSUME NEW u \in Tasks, NEW v \in Vms,
         pc'[u] = pc[u], k'[u] = k[u], dom_list' = dom_list, outcome'[u] = outcome[u]
  PROVE  /\ HasIt(u, v)' <=> HasIt(u, v)
         /\ Seen(u, v)' <=> Seen(u, v)
BY DEF HasIt, Seen, Doms, dom

(* No VM is put down as seen that has been so placed before.               *)
LEMMA SeenIsPlaced ==
  ASSUME IInv, NEW v \in Vms, v \notin astray, NEW u \in Tasks, Seen(u, v)
  PROVE  moving[v] = None /\ runs[v] \subseteq {dst[u]}
BY DEF IInv, StaysWhereSeen, Seen

-----------------------------------------------------------------------------
(* migrateDomain() up to the call, and what follows when it is refused:    *)
(* no VM is moved, and none is let go of that was brought.                 *)
LEMMA BeginPlaced ==
  ASSUME IInv, NEW t \in Tasks, BeginDom(t) \/ CallTimesOut(t) \/ Refused(t),
         NEW v \in Vms, v \notin astray'
  PROVE  Placed(v)'
<1>1. InProgress(t) /\ pc[t] \in {"begin", "moving", "refused"} /\ astray' = astray
  BY DEF BeginDom, CallTimesOut, Refused, InProgress, history
<1>2. TypeOK /\ Requested
  BY DEF IInv
<1>3. /\ \A u \in Tasks \ {t} : pc'[u] = pc[u] /\ k'[u] = k[u] /\ outcome'[u] = outcome[u]
      /\ k'[t] = k[t] \/ k'[t] = k[t] + 1
      /\ Seen(t, v)' => FALSE
  <2>1. CASE BeginDom(t)
    BY <1>2, <2>1 DEF BeginDom, TypeOK, Seen
  <2>2. CASE CallTimesOut(t)
    BY <1>2, <2>2 DEF CallTimesOut, TypeOK, Seen
  <2>3. CASE Refused(t)
    <3>1. NextDom(t) /\ outcome' = outcome
      BY <2>3 DEF Refused
    <3> QED
      BY <1>1, <1>2, <3>1, NextDomStep DEF Seen
  <2> QED
    BY <2>1, <2>2, <2>3
<1>4. /\ dom_list' = dom_list /\ src' = src /\ dst' = dst /\ parent' = parent
      /\ runs' = runs /\ moving' = moving /\ transit' = transit
  <2>1. CASE BeginDom(t)
    BY <2>1 DEF BeginDom, request, platform
  <2>2. CASE CallTimesOut(t)
    BY <2>2 DEF CallTimesOut, request, platform, database
  <2>3. CASE Refused(t)
    BY <2>3 DEF Refused, request, platform
  <2> QED
    BY <2>1, <2>2, <2>3
<1>5. \A u \in Tasks : Pending(u, v)' => Pending(u, v)
  BY <1>1, <1>2, <1>3, <1>4, NotMorePending
<1>6. ~HasIt(t, v)
  BY <1>1 DEF HasIt
<1>7. \A u \in Tasks : HasIt(u, v) => HasIt(u, v)'
  BY <1>3, <1>4, <1>6, OthersHaveIt
<1>8. \A u \in Tasks : Seen(u, v)' => moving[v] = None /\ runs[v] \subseteq {dst'[u]}
  BY <1>1, <1>3, <1>4, OthersHaveIt, SeenIsPlaced
<1> QED
  BY <1>1, <1>4, <1>5, <1>7, <1>8, Untouched DEF Brought

(* The call: what the source's hypervisor moves is a VM that runs there,   *)
(* and all tasks that have it before them mean to take it from there.      *)
LEMMA IssuePlaced ==
  ASSUME IInv, NEW t \in Tasks, Issue(t), NEW v \in Vms, v \notin astray'
  PROVE  Placed(v)'
<1>1. InProgress(t) /\ pc[t] = "issue" /\ astray' = astray
  BY DEF Issue, InProgress, history
<1>2. TypeOK /\ Requested /\ Placed(v)
  BY <1>1, PlacedIsEnough DEF IInv
<1>3. /\ dom_list' = dom_list /\ src' = src /\ dst' = dst /\ parent' = parent /\ k' = k
      /\ runs' = runs /\ transit' = transit /\ outcome' = outcome
      /\ \A u \in Tasks \ {t} : pc'[u] = pc[u]
      /\ pc'[t] \in {"moving", "refused"}
  BY <1>2 DEF Issue, request, database, TypeOK
<1>4. \A u \in Tasks : Pending(u, v)' => Pending(u, v)
  BY <1>1, <1>2, <1>3, NotMorePending
<1>5. ~HasIt(t, v) /\ ~HasIt(t, v)' /\ ~Seen(t, v) /\ ~Seen(t, v)'
  BY <1>1, <1>3 DEF HasIt, Seen
<1>6. \A u \in Tasks : (HasIt(u, v)' <=> HasIt(u, v)) /\ (Seen(u, v)' <=> Seen(u, v))
  BY <1>3, <1>5, OthersHaveIt
<1>7. CASE moving'[v] = moving[v]
  <2>1. \A u \in Tasks : Seen(u, v)' => moving[v] = None /\ runs[v] \subseteq {dst'[u]}
    BY <1>1, <1>3, <1>6, SeenIsPlaced
  <2> QED
    BY <1>1, <1>3, <1>4, <1>6, <1>7, <2>1, Untouched DEF Brought
<1>8. CASE moving'[v] # moving[v]
  <2>1. dom(t) = v /\ src[t] \in runs[v] /\ moving[v] = None /\ moving'[v] = t
    BY <1>2, <1>8 DEF Issue, TypeOK
  <2>2. Pending(t, v) /\ src[t] \in Nodes
    BY <1>1, <1>2, <2>1, InHand
  <2>3. \A u \in Tasks : pc[u] # "none" => dst[u] # src[u]
    BY <1>2 DEF Requested
  <2>4. runs[v] \subseteq {parent[v]}
    <3>1. SUFFICES ASSUME NEW u \in Tasks, Brought(u, v) PROVE FALSE
      BY <1>2, <2>1 DEF Placed
    <3>2. src[t] = src[u] /\ runs[v] \subseteq {dst[u]} /\ pc[u] # "none"
      BY <2>2, <3>1 DEF Brought, AllFrom, HasIt
    <3> QED
      BY <2>1, <2>3, <3>2
  <2>5. parent[v] = src[t] /\ v \notin transit
    BY <1>2, <2>1, <2>4 DEF TypeOK
  <2>6. AllFrom(v, src[t])'
    BY <1>2, <1>3, <1>4, <2>2 DEF AllFrom, Placed
  <2>7. ASSUME NEW u \in Tasks, Seen(u, v)
        PROVE  FALSE
    <3>1. InProgress(u) /\ dom(u) = v /\ pc[u] # "none"
      BY <2>7 DEF Seen, InProgress
    <3>2. Pending(u, v)
      BY <1>2, <3>1, InHand
    <3>3. src[u] = src[t] /\ runs[v] \subseteq {dst[u]}
      BY <1>2, <2>2, <2>7, <3>2 DEF Placed
    <3> QED
      BY <2>1, <2>3, <3>1, <3>3
  <2> QED
    BY <1>2, <1>3, <1>4, <1>6, <2>1, <2>4, <2>5, <2>6, <2>7 DEF Placed, AllFrom, TypeOK
<1> QED
  BY <1>7, <1>8

(* wait_for_migration(): a VM that is still in the source has not been     *)
(* brought; one that is seen in the destination is not on its way again.   *)
LEMMA WaitPlaced ==
  ASSUME IInv, NEW t \in Tasks, WaitSource(t) \/ WaitDest(t), NEW v \in Vms, v \notin astray'
  PROVE  Placed(v)'
<1>1. InProgress(t) /\ pc[t] \in {"wait", "dest"} /\ astray' = astray
  BY DEF WaitSource, WaitDest, InProgress, history
<1>2. TypeOK /\ Requested /\ Placed(v)
  BY <1>1, PlacedIsEnough DEF IInv
<1>3. /\ dom_list' = dom_list /\ src' = src /\ dst' = dst /\ parent' = parent /\ k' = k
      /\ runs' = runs /\ moving' = moving /\ transit' = transit
  BY DEF WaitSource, WaitDest, request, platform, database
<1>4. /\ \A u \in Tasks \ {t} : pc'[u] = pc[u] /\ outcome'[u] = outcome[u]
      /\ \/ pc[t] = "wait" /\ pc'[t] = "dest"
         \/ pc'[t] = "store" /\ outcome'[t] = "over"
              /\ (src[t] \in runs[dom(t)] \/ dst[t] \notin runs[dom(t)])
         \/ pc[t] = "dest" /\ pc'[t] = "store" /\ outcome'[t] = "moved"
              /\ dst[t] \in runs[dom(t)]
  BY <1>2 DEF WaitSource, WaitDest, TypeOK
<1>5. \A u \in Tasks : Pending(u, v)' => Pending(u, v)
  BY <1>1, <1>2, <1>3, <1>4, NotMorePending
<1>6. \A u \in Tasks \ {t} : (HasIt(u, v)' <=> HasIt(u, v)) /\ (Seen(u, v)' <=> Seen(u, v))
  BY <1>3, <1>4, OthersHaveIt
<1>7. dom(t)' = dom(t) /\ dst[t] # src[t] /\ Pending(t, dom(t))
  BY <1>1, <1>2, <1>3, InHand DEF dom
<1>8. ASSUME NEW u \in Tasks, Brought(u, v)
      PROVE  HasIt(u, v)' \/ runs[v] \subseteq {parent[v]}
  <2>1. CASE u # t
    BY <1>6, <1>8, <2>1 DEF Brought
  <2>2. CASE u = t
    <3>1. dom(t) = v /\ runs[v] \subseteq {dst[t]}
      BY <1>1, <1>8, <2>2 DEF Brought, HasIt
    <3>2. CASE pc'[t] = "store" /\ outcome'[t] = "over"
      BY <1>4, <1>7, <3>1, <3>2
    <3>3. CASE ~(pc'[t] = "store" /\ outcome'[t] = "over")
      BY <1>4, <1>7, <2>2, <3>1, <3>3 DEF HasIt
    <3> QED
      BY <3>2, <3>3
  <2> QED
    BY <2>1, <2>2
<1>9. ASSUME NEW u \in Tasks, Seen(u, v)'
      PROVE  moving[v] = None /\ runs[v] \subseteq {dst'[u]}
  <2>1. CASE u # t
    BY <1>1, <1>3, <1>6, <1>9, <2>1, SeenIsPlaced
  <2>2. CASE u = t
    <3>1. dom(t) = v /\ dst[t] \in runs[v] /\ Pending(t, v)
      BY <1>4, <1>7, <1>9, <2>2 DEF Seen
    <3>2. moving[v] = None
      BY <1>2, <1>7, <3>1 DEF Placed, AllFrom
    <3>3. runs[v] \subseteq {dst[t]}
      BY <1>2, <3>1, <3>2 DEF Placed, Brought
    <3> QED
      BY <1>3, <2>2, <3>2, <3>3
  <2> QED
    BY <2>1, <2>2
<1> QED
  BY <1>1, <1>3, <1>5, <1>8, <1>9, Untouched

(* An exception: a VM that the task has brought is lost, any other is      *)
(* where it was.                                                           *)
LEMMA RaisesPlaced ==
  ASSUME IInv, NEW t \in Tasks, Raises(t), NEW v \in Vms, v \notin astray'
  PROVE  Placed(v)'
<1>1. InProgress(t) /\ pc[t] \in {"wait", "dest", "store"} /\ NextDom(t)
  BY DEF Raises, InProgress
<1>2. TypeOK /\ Requested
  BY DEF IInv
<1>3. /\ dom_list' = dom_list /\ src' = src /\ dst' = dst /\ parent' = parent /\ outcome' = outcome
      /\ runs' = runs /\ moving' = moving /\ transit' = transit
      /\ v \notin astray /\ (dom(t) = v => dst[t] \notin runs[v])
  BY DEF Raises, request, platform, database
<1>4. /\ \A u \in Tasks \ {t} : pc'[u] = pc[u] /\ k'[u] = k[u]
      /\ pc'[t] \in {"begin", "ended"} /\ (k'[t] = k[t] \/ k'[t] = k[t] + 1)
  BY <1>1, <1>2, NextDomStep
<1>5. \A u \in Tasks : Pending(u, v)' => Pending(u, v)
  BY <1>1, <1>2, <1>3, <1>4, NotMorePending
<1>6. \A u \in Tasks \ {t} : (HasIt(u, v)' <=> HasIt(u, v)) /\ (Seen(u, v)' <=> Seen(u, v))
  BY <1>3, <1>4, OthersHaveIt
<1>7. ASSUME NEW u \in Tasks, Brought(u, v)
      PROVE  HasIt(u, v)' \/ runs[v] \subseteq {parent[v]}
  BY <1>1, <1>3, <1>6, <1>7 DEF Brought, HasIt
<1>8. \A u \in Tasks : Seen(u, v)' => moving[v] = None /\ runs[v] \subseteq {dst'[u]}
  BY <1>3, <1>4, <1>6, SeenIsPlaced DEF Seen
<1> QED
  BY <1>3, <1>5, <1>7, <1>8, Untouched

(* The end of a migration: what was seen in the destination is put there,  *)
(* what was down is put there too, and all else is where it was.           *)
LEMMA StorePlaced ==
  ASSUME IInv, NEW t \in Tasks, Store(t), NEW v \in Vms, v \notin astray'
  PROVE  Placed(v)'
<1>1. InProgress(t) /\ pc[t] = "store" /\ NextDom(t)
  BY DEF Store, InProgress
<1>2. /\ dom_list' = dom_list /\ src' = src /\ dst' = dst /\ outcome' = outcome
      /\ runs' = runs /\ moving' = moving /\ transit' = transit
      /\ v \notin astray
      /\ \/ v # dom(t) /\ parent' \in {parent, [parent EXCEPT ![dom(t)] = dst[t]]}
         \/ v = dom(t) /\ outcome[t] = "over" /\ parent' = parent /\ dst[t] \notin runs[v]
         \/ v = dom(t) /\ outcome[t] = "idle" /\ runs[v] = {} /\ moving[v] = None
         \/ v = dom(t) /\ outcome[t] \notin {"idle", "over"}
              /\ parent' = [parent EXCEPT ![v] = dst[t]]
  BY DEF Store, request, platform
<1>3. TypeOK /\ Requested /\ Placed(v)
  BY <1>2, PlacedIsEnough DEF IInv
<1>4. /\ \A u \in Tasks \ {t} : pc'[u] = pc[u] /\ k'[u] = k[u]
      /\ pc'[t] \in {"begin", "ended"} /\ (k'[t] = k[t] \/ k'[t] = k[t] + 1)
  BY <1>1, <1>3, NextDomStep
<1>5. \A u \in Tasks : Pending(u, v)' => Pending(u, v)
  BY <1>1, <1>2, <1>3, <1>4, NotMorePending
<1>6. \A u \in Tasks \ {t} : (HasIt(u, v)' <=> HasIt(u, v)) /\ (Seen(u, v)' <=> Seen(u, v))
  BY <1>2, <1>4, OthersHaveIt
<1>7. \A u \in Tasks : Seen(u, v)' => moving[v] = None /\ runs[v] \subseteq {dst'[u]}
  BY <1>2, <1>3, <1>4, <1>6, SeenIsPlaced DEF Seen
<1>8. CASE v # dom(t) \/ outcome[t] = "over"
  <2>1. parent'[v] = parent[v] /\ ~HasIt(t, v)
    BY <1>1, <1>2, <1>3, <1>8 DEF HasIt, TypeOK
  <2> QED
    BY <1>2, <1>5, <1>6, <1>7, <2>1, Untouched DEF Brought
<1>9. CASE v = dom(t) /\ outcome[t] # "over"
  <2>1. moving[v] = None /\ runs[v] \subseteq {parent'[v]}
    <3>1. CASE outcome[t] = "idle"
      BY <1>2, <1>9, <3>1
    <3>2. CASE outcome[t] = "moved"
      <4>1. Seen(t, v)
        BY <1>1, <1>9, <3>2 DEF Seen
      <4> QED
        BY <1>2, <1>3, <1>9, <3>2, <4>1 DEF Placed, TypeOK
    <3> QED
      BY <1>3, <1>9, <3>1, <3>2 DEF TypeOK
  <2> QED
    BY <1>2, <1>3, <1>5, <1>7, <2>1 DEF Placed
<1> QED
  BY <1>8, <1>9

-----------------------------------------------------------------------------
(* Of the VM that a move of the hypervisors is about, something is known.  *)
LEMMA MoverKnown ==
  ASSUME IInv, NEW v \in Vms, moving[v] # None
  PROVE  /\ moving[v] \in Tasks /\ pc[moving[v]] # "none" /\ v \in Doms(moving[v])
         /\ dst[moving[v]] # src[moving[v]]
         /\ v \notin astray => /\ Placed(v)
                               /\ \A u \in Tasks : ~Seen(u, v)
<1>1. moving[v] \in Tasks /\ pc[moving[v]] # "none" /\ v \in Doms(moving[v])
  BY DEF IInv, TypeOK, Movers
<1>2. dst[moving[v]] # src[moving[v]]
  BY <1>1 DEF IInv, Requested
<1>3. v \notin astray => Placed(v)
  BY PlacedIsEnough DEF IInv
<1> QED
  BY <1>1, <1>2, <1>3, SeenIsPlaced

(* A VM that moves leaves its node, and reaches the other or stays.  It    *)
(* was nowhere else, and when it arrives either its task still looks after *)
(* it or it is lost.                                                       *)
LEMMA MovePlaced ==
  ASSUME IInv, NEW w \in Vms, move(w), NEW v \in Vms, v \notin astray'
  PROVE  Placed(v)'
<1>0. moving[w] # None
  BY DEF move, MoveLeaves, MoveArrives, MoveFails, IInv, TypeOK
<1>t. PICK t \in Tasks : moving[w] = t
  BY <1>0, MoverKnown
<1>1. /\ v \notin astray /\ dom_list' = dom_list /\ src' = src /\ dst' = dst
      /\ outcome' = outcome /\ k' = k /\ parent' = parent
  <2>1. CASE MoveLeaves(w)
    BY <2>1 DEF MoveLeaves, tasks, database, history
  <2>2. CASE MoveArrives(w)
    BY <2>2 DEF MoveArrives, request, database, IInv, TypeOK
  <2>3. CASE MoveFails(w)
    BY <2>3 DEF MoveFails, request, database, history
  <2> QED
    BY <2>1, <2>2, <2>3 DEF move
<1>2. TypeOK /\ Requested /\ Placed(v)
  BY <1>1, PlacedIsEnough DEF IInv
<1>3. /\ t # None /\ w \in Doms(t) /\ dst[t] # src[t]
      /\ w = v => \A u \in Tasks : ~Seen(u, v)
  BY <1>0, <1>t, <1>1, MoverKnown
<1>4. \/ pc' = pc
      \/ /\ pc[t] = "moving" /\ dom(t) = w
         /\ pc' \in {[pc EXCEPT ![t] = "wait"], [pc EXCEPT ![t] = "refused"]}
  <2>1. CASE MoveLeaves(w)
    BY <2>1 DEF MoveLeaves, tasks
  <2>2. CASE MoveArrives(w)
    BY <1>t, <2>2 DEF MoveArrives, Answer
  <2>3. CASE MoveFails(w)
    BY <1>t, <2>3 DEF MoveFails, Answer
  <2> QED
    BY <2>1, <2>2, <2>3 DEF move
<1>5. \A u \in Tasks \ {t} : pc'[u] = pc[u] /\ k'[u] = k[u]
  BY <1>1, <1>2, <1>4 DEF TypeOK
<1>6. \A u \in Tasks : Pending(u, v)' => Pending(u, v)
  <2>1. CASE pc' = pc
    BY <1>1, <2>1 DEF Pending, InProgress
  <2>2. CASE pc[t] = "moving"
    <3>1. InProgress(t)
      BY <2>2 DEF InProgress
    <3> QED
      BY <1>1, <1>2, <1>3, <1>5, <3>1, NotMorePending
  <2> QED
    BY <1>4, <2>1, <2>2
<1>7. \A u \in Tasks \ {t} : (HasIt(u, v)' <=> HasIt(u, v)) /\ (Seen(u, v)' <=> Seen(u, v))
  BY <1>1, <1>5, OthersHaveIt
<1>8. (HasIt(t, v) => HasIt(t, v)') /\ (Seen(t, v)' => Seen(t, v))
  BY <1>1, <1>2, <1>3, <1>4 DEF HasIt, Seen, Doms, dom, TypeOK
<1>9. CASE w # v
  <2>1. runs'[v] = runs[v] /\ moving'[v] = moving[v] /\ (v \in transit' <=> v \in transit)
    BY <1>2, <1>9 DEF move, MoveLeaves, MoveArrives, MoveFails, TypeOK
  <2>2. \A u \in Tasks : Seen(u, v)' => moving[v] = None /\ runs[v] \subseteq {dst'[u]}
    BY <1>1, <1>7, <1>8, SeenIsPlaced
  <2> QED
    BY <1>1, <1>6, <1>7, <1>8, <2>1, <2>2, Untouched DEF Brought
<1>10. CASE w = v
  <2>1. parent[v] = src[t] /\ AllFrom(v, src[t])
        /\ runs[v] \subseteq IF v \in transit THEN {} ELSE {src[t]}
    BY <1>t, <1>2, <1>3, <1>10 DEF Placed
  <2>2. AllFrom(v, src[t])'
    BY <1>1, <1>6, <2>1 DEF AllFrom
  <2>3. \A u \in Tasks : ~Seen(u, v)'
    BY <1>3, <1>7, <1>8, <1>10
  <2>4. \A a, b \in Tasks : Pending(a, v)' /\ Pending(b, v)' => src'[a] = src'[b]
    BY <1>1, <1>2, <1>6 DEF Placed
  <2>5. CASE MoveLeaves(w)
    <3>1. moving'[v] = t /\ v \in transit' /\ runs'[v] = {}
      BY <1>t, <1>2, <1>10, <2>1, <2>5 DEF MoveLeaves, TypeOK
    <3> QED
      BY <1>1, <2>1, <2>2, <2>3, <2>4, <3>1 DEF Placed, AllFrom
  <2>6. CASE MoveArrives(w)
    <3>1. moving'[v] = None /\ runs'[v] = {dst[t]} /\ Answer(t, v, "wait") /\ Expected(t, v)
      BY <1>t, <1>1, <1>2, <1>10, <2>1, <2>6 DEF MoveArrives, TypeOK
    <3>2. HasIt(t, v)'
      BY <1>1, <1>2, <1>3, <1>10, <3>1 DEF Answer, Expected, HasIt, Doms, dom, TypeOK
    <3>3. Brought(t, v)'
      BY <1>1, <2>1, <2>2, <3>1, <3>2 DEF Brought, AllFrom
    <3> QED
      BY <1>3, <2>3, <2>4, <3>1, <3>3 DEF Placed
  <2>7. CASE MoveFails(w)
    <3>1. moving'[v] = None /\ runs'[v] = {src[t]}
      BY <1>t, <1>2, <1>10, <2>1, <2>7 DEF MoveFails, TypeOK
    <3> QED
      BY <1>1, <2>1, <2>3, <2>4, <3>1 DEF Placed
  <2> QED
    BY <1>10, <2>5, <2>6, <2>7 DEF move
<1> QED
  BY <1>9, <1>10

(* A user starts a VM: if a task has it before it, or it runs, or is moved *)
(* it is lost, otherwise it runs where it is.                              *)
LEMMA StartPlaced ==
  ASSUME IInv, NEW w \in Vms, Start(w), NEW v \in Vms, v \notin astray'
  PROVE  Placed(v)'
<1>1. /\ pc' = pc /\ k' = k /\ dom_list' = dom_list /\ src' = src /\ dst' = dst
      /\ outcome' = outcome /\ parent' = parent /\ moving' = moving /\ transit' = transit
      /\ runs' = [runs EXCEPT ![w] = @ \cup {parent[w]}] /\ v \notin astray
      /\ w = v => ~Busy(v) /\ runs[v] = {} /\ moving[v] = None
  BY DEF Start, database, tasks
<1>2. TypeOK /\ Requested /\ Placed(v)
  BY <1>1, PlacedIsEnough DEF IInv
<1>3. \A u \in Tasks : /\ Pending(u, v)' <=> Pending(u, v)
                       /\ HasIt(u, v)' <=> HasIt(u, v)
                       /\ Seen(u, v)' <=> Seen(u, v)
  BY <1>1, OthersHaveIt DEF Pending, InProgress
<1>4. CASE w # v
  <2>1. runs'[v] = runs[v]
    BY <1>1, <1>2, <1>4 DEF TypeOK
  <2>2. \A u \in Tasks : Seen(u, v)' => moving[v] = None /\ runs[v] \subseteq {dst'[u]}
    BY <1>1, <1>3, SeenIsPlaced
  <2> QED
    BY <1>1, <1>3, <2>1, <2>2, Untouched DEF Brought
<1>5. CASE w = v
  <2>1. runs'[v] = {parent[v]}
    BY <1>1, <1>2, <1>5 DEF TypeOK
  <2>2. \A u \in Tasks : ~Pending(u, v)
    BY <1>1, <1>5 DEF Busy, Ahead
  <2>3. \A u \in Tasks : ~Seen(u, v)
    BY <1>2, <2>2, InHand DEF Seen, InProgress
  <2> QED
    BY <1>1, <1>3, <1>5, <2>1, <2>2, <2>3 DEF Placed
<1> QED
  BY <1>4, <1>5

(* A VM that was halted runs nowhere.  If no task is to come that has it,  *)
(* it is found again.                                                      *)
LEMMA HaltPlaced ==
  ASSUME IInv, NEW w \in Vms, Halt(w), NEW v \in Vms, v \notin astray'
  PROVE  Placed(v)'
<1>1. /\ pc' = pc /\ k' = k /\ dom_list' = dom_list /\ src' = src /\ dst' = dst
      /\ outcome' = outcome /\ parent' = parent /\ moving' = moving /\ transit' = transit
      /\ runs' = [runs EXCEPT ![w] = {}]
      /\ (w = v => moving[v] = None) /\ (v \notin astray \/ (w = v /\ ~Busy(v)))
  BY DEF Halt, database, tasks
<1>2. TypeOK /\ Requested
  BY DEF IInv
<1>3. \A u \in Tasks : /\ Pending(u, v)' <=> Pending(u, v)
                       /\ HasIt(u, v)' <=> HasIt(u, v)
                       /\ Seen(u, v)' <=> Seen(u, v)
  BY <1>1, OthersHaveIt DEF Pending, InProgress
<1>4. CASE w # v
  <2>1. runs'[v] = runs[v] /\ v \notin astray
    BY <1>1, <1>2, <1>4 DEF TypeOK
  <2>2. \A u \in Tasks : Seen(u, v)' => moving[v] = None /\ runs[v] \subseteq {dst'[u]}
    BY <1>1, <1>3, <2>1, SeenIsPlaced
  <2> QED
    BY <1>1, <1>3, <2>1, <2>2, Untouched DEF Brought
<1>5. CASE w = v
  <2>1. runs'[v] = {} /\ moving'[v] = None
    BY <1>1, <1>2, <1>5 DEF TypeOK
  <2>2. \A t, u \in Tasks : Pending(t, v) /\ Pending(u, v) => src[t] = src[u]
    <3>1. CASE v \notin astray
      BY <3>1, PlacedIsEnough DEF IInv, Placed
    <3>2. CASE ~Busy(v)
      BY <3>2 DEF Busy, Ahead
    <3> QED
      BY <1>1, <3>1, <3>2
  <2> QED
    BY <1>1, <1>3, <2>1, <2>2 DEF Placed
<1> QED
  BY <1>4, <1>5

(* Heartbeats, and a step in which nothing happens.                        *)
LEMMA HeartbeatPlaced ==
  ASSUME IInv, (\E n \in Nodes : heartbeat(n)) \/ UNCHANGED vars, NEW v \in Vms, v \notin astray'
  PROVE  Placed(v)'
<1>1. /\ pc' = pc /\ k' = k /\ dom_list' = dom_list /\ src' = src /\ dst' = dst
      /\ outcome' = outcome /\ parent' = parent /\ moving' = moving /\ transit' = transit
      /\ runs' = runs /\ v \notin astray
  BY DEF heartbeat, vm_heartbeat, refresh_vm_avail, vars, database, tasks, platform, history
<1>2. \A u \in Tasks : /\ Pending(u, v)' <=> Pending(u, v)
                       /\ HasIt(u, v)' <=> HasIt(u, v)
                       /\ Seen(u, v)' <=> Seen(u, v)
  BY <1>1, OthersHaveIt DEF Pending, InProgress
<1>3. \A u \in Tasks : Seen(u, v)' => moving[v] = None /\ runs[v] \subseteq {dst'[u]}
  BY <1>1, <1>2, SeenIsPlaced
<1> QED
  BY <1>1, <1>2, <1>3, Untouched DEF Brought

-----------------------------------------------------------------------------
(* A crash: what a task has brought it will still find when it is resumed. *)
LEMMA CrashPlaced ==
  ASSUME IInv, NEW first \in {"begin", "resume", "ended"}, Crash(first),
         NEW v \in Vms, v \notin astray'
  PROVE  Placed(v)'
<1>1. /\ k' = k /\ dom_list' = dom_list /\ src' = src /\ dst' = dst
      /\ outcome' = outcome /\ parent' = parent /\ moving' = moving /\ transit' = transit
      /\ runs' = runs /\ v \notin astray
  BY DEF Crash, request, platform
<1>2. TypeOK /\ Requested
  BY DEF IInv
<1>3. \A u \in Tasks : pc'[u] = CASE NotBegun(u) -> IF first = "begin" THEN pc[u] ELSE first
                                  [] InProgress(u) /\ ~NotBegun(u) -> "resume"
                                  [] OTHER -> pc[u]
  BY DEF Crash
<1>4. \A u \in Tasks : pc'[u] # "store" /\ (InProgress(u)' => InProgress(u))
  BY <1>3 DEF InProgress, NotBegun
<1>5. \A u \in Tasks : Pending(u, v)' => Pending(u, v)
  BY <1>1, <1>4 DEF Pending
<1>6. ASSUME NEW u \in Tasks, HasIt(u, v)
      PROVE  HasIt(u, v)'
  <2>1. v \in Doms(u)
    <3>1. CASE pc[u] = "resume"
      BY <1>6, <3>1 DEF HasIt
    <3>2. CASE pc[u] # "resume"
      BY <1>2, <1>6, <3>2, InHand DEF HasIt, InProgress
    <3> QED
      BY <3>1, <3>2
  <2>2. pc'[u] = "resume"
    BY <1>3, <1>6 DEF HasIt, InProgress, NotBegun
  <2> QED
    BY <1>1, <2>1, <2>2 DEF HasIt, Doms
<1>7. \A u \in Tasks : ~Seen(u, v)'
  BY <1>4 DEF Seen
<1> QED
  BY <1>1, <1>5, <1>6, <1>7, Untouched DEF Brought

(* A task that is resumed puts what it finds in the destination there, or  *)
(* fails: what it has brought and does not find is lost.                   *)
LEMMA ResumePlaced ==
  ASSUME IInv, NEW t \in Tasks, Resume(t) \/ ResumeFails(t), NEW v \in Vms, v \notin astray'
  PROVE  Placed(v)'
<1>1. /\ pc[t] = "resume" /\ pc' = [pc EXCEPT ![t] = "ended"]
      /\ k' = k /\ dom_list' = dom_list /\ src' = src /\ dst' = dst
      /\ outcome' = outcome /\ moving' = moving /\ transit' = transit /\ runs' = runs
      /\ v \notin astray
      /\ \/ parent'[v] = parent[v]
              /\ (v \in Doms(t) => dst[t] \notin runs[v] \/ parent[v] = dst[t])
         \/ parent[v] = src[t] /\ dst[t] \in runs[v] /\ parent'[v] = dst[t]
  <2>1. CASE Resume(t)
    <3>1. PICK l \in SetToSeqs(ToResume(t)), recover \in BOOLEAN : resume_migrate_vm(t, l, recover)
      BY <2>1 DEF Resume
    <3> QED
      BY <3>1 DEF resume_migrate_vm, Arrived, request, platform
  <2>2. CASE ResumeFails(t)
    BY <2>2 DEF ResumeFails, request, platform, database
  <2> QED
    BY <2>1, <2>2
<1>2. TypeOK /\ Requested /\ Placed(v)
  BY <1>1, PlacedIsEnough DEF IInv
<1>3. \A u \in Tasks \ {t} : pc'[u] = pc[u] /\ pc'[t] = "ended" /\ dst[t] # src[t]
  BY <1>1, <1>2 DEF TypeOK, Requested
<1>4. pc'[t] = "ended" /\ dst[t] # src[t]
  BY <1>1, <1>2 DEF TypeOK, Requested
<1>5. \A u \in Tasks : Pending(u, v)' => Pending(u, v)
  BY <1>1, <1>3, <1>4 DEF Pending, InProgress
<1>6. \A u \in Tasks \ {t} : (HasIt(u, v)' <=> HasIt(u, v)) /\ (Seen(u, v)' <=> Seen(u, v))
  BY <1>1, <1>3, OthersHaveIt
<1>7. \A u \in Tasks : Seen(u, v)' => moving[v] = None /\ runs[v] \subseteq {dst'[u]}
  BY <1>1, <1>4, <1>6, SeenIsPlaced DEF Seen
<1>8. CASE parent'[v] = parent[v] /\ (v \in Doms(t) => dst[t] \notin runs[v] \/ parent[v] = dst[t])
  <2>1. ASSUME Brought(t, v)
        PROVE  runs[v] \subseteq {parent[v]}
    <3>1. v \in Doms(t) /\ runs[v] \subseteq {dst[t]}
      BY <1>1, <2>1 DEF Brought, HasIt
    <3> QED
      BY <1>8, <3>1
  <2> QED
    BY <1>1, <1>5, <1>6, <1>7, <1>8, <2>1, Untouched DEF Brought
<1>9. CASE parent[v] = src[t] /\ dst[t] \in runs[v] /\ parent'[v] = dst[t]
  <2>1. moving[v] = None
    BY <1>2, <1>4, <1>9 DEF Placed
  <2>2. runs[v] \subseteq {parent'[v]}
    BY <1>2, <1>4, <1>9, <2>1 DEF Placed, Brought
  <2> QED
    BY <1>1, <1>2, <1>5, <1>7, <2>1, <2>2 DEF Placed
<1> QED
  BY <1>1, <1>8, <1>9

(* A task that gets its list: each VM in it is where it is said to be, and *)
(* so are the VMs that tasks to come want to take from there; otherwise it *)
(* is lost.                                                                *)
LEMMA ListPlaced ==
  ASSUME IInv, NEW t \in Tasks, NEW v \in Vms, v \notin astray,
         pc[t] \in {"none", "collect"}, pc'[t] \in {"begin", "ended"},
         pc[t] = "collect" => src'[t] = src[t] /\ dst'[t] = dst[t],
         \A u \in Tasks \ {t} : /\ pc'[u] = pc[u] /\ dom_list'[u] = dom_list[u]
                                /\ src'[u] = src[u] /\ dst'[u] = dst[u],
         k' = k, outcome' = outcome, parent' = parent, runs' = runs,
         moving' = moving, transit' = transit,
         \A i \in DOMAIN dom_list'[t] :
            dom_list'[t][i] = v => parent[v] = src'[t] /\ ~Crossed(v)
  PROVE  Placed(v)'
<1>2. TypeOK /\ Requested /\ Placed(v)
  BY PlacedIsEnough DEF IInv
<1>5. \A u \in Tasks \ {t} : /\ Pending(u, v)' <=> Pending(u, v)
                             /\ HasIt(u, v)' <=> HasIt(u, v)
                             /\ Seen(u, v)' <=> Seen(u, v)
  BY DEF Pending, InProgress, HasIt, Seen, Doms, dom
<1>6. ~HasIt(t, v) /\ ~HasIt(t, v)' /\ ~Seen(t, v)' /\ ~Pending(t, v)
  BY DEF HasIt, Seen, Pending, InProgress
<1>7. \A u \in Tasks : pc[u] # "none" => src'[u] = src[u] /\ dst'[u] = dst[u]
  OBVIOUS
<1>8. \A u \in Tasks : Seen(u, v)' => moving[v] = None /\ runs[v] \subseteq {dst'[u]}
  BY <1>5, <1>6, SeenIsPlaced
<1>9. CASE ~Pending(t, v)'
  <2>1. \A u \in Tasks : Pending(u, v)' => Pending(u, v)
    BY <1>5, <1>9
  <2>2. \A u \in Tasks : Brought(u, v) => HasIt(u, v)' \/ runs[v] \subseteq {parent[v]}
    BY <1>5, <1>6 DEF Brought
  <2> QED
    BY <1>7, <1>8, <2>1, <2>2, Untouched
<1>10. CASE Pending(t, v)'
  <2>1. ~Crossed(v) /\ src'[t] = parent[v]
    BY <1>10 DEF Pending
  <2>2. \A u \in Tasks : Pending(u, v)' => src'[u] = parent[v]
    BY <1>5, <2>1 DEF Crossed
  <2>3. moving[v] # None => moving[v] # t
    BY <1>2 DEF IInv, Movers, Requested, Doms
  <2>4. moving[v] # None =>
          /\ parent[v] = src'[moving[v]]
          /\ runs[v] \subseteq IF v \in transit THEN {} ELSE {src'[moving[v]]}
    BY <1>2, <2>3 DEF Placed, TypeOK
  <2>5. ASSUME NEW u \in Tasks, Brought(u, v)
        PROVE  Brought(u, v)'
    <3>1. u # t /\ parent[v] = src[u]
      BY <1>6, <2>5 DEF Brought
    <3> QED
      BY <1>5, <2>2, <2>5, <3>1 DEF Brought, AllFrom
  <2>6. moving[v] = None => runs[v] \subseteq {parent[v]} \/ \E u \in Tasks : Brought(u, v)'
    BY <1>2, <2>5 DEF Placed
  <2> QED
    BY <1>8, <2>2, <2>4, <2>6 DEF Placed, AllFrom
<1> QED
  BY <1>9, <1>10

(* A VM is asked for, or those of a node are read.                         *)
LEMMA RequestPlaced ==
  ASSUME IInv, NEW t \in Tasks,
         \/ \E w \in Vms, d \in Nodes : Request(t, w, d)
         \/ migrateNode(t),
         NEW v \in Vms, v \notin astray'
  PROVE  Placed(v)'
<1>1. TypeOK
  BY DEF IInv
<1>2. CASE \E w \in Vms, d \in Nodes : Request(t, w, d)
  <2>1. PICK w \in Vms, d \in Nodes : Request(t, w, d)
    BY <1>2
  <2>2. /\ pc[t] = "none" /\ pc' = [pc EXCEPT ![t] = "begin"]
        /\ dom_list' = [dom_list EXCEPT ![t] = <<w>>]
        /\ src' = [src EXCEPT ![t] = parent[w]] /\ dst' = [dst EXCEPT ![t] = d]
        /\ k' = k /\ outcome' = outcome /\ parent' = parent /\ runs' = runs
        /\ moving' = moving /\ transit' = transit /\ v \notin astray
        /\ w = v => ~Crossed(v)
    BY <2>1 DEF Request, IsNext, database, platform
  <2>3. /\ \A u \in Tasks \ {t} : /\ pc'[u] = pc[u] /\ dom_list'[u] = dom_list[u]
                                  /\ src'[u] = src[u] /\ dst'[u] = dst[u]
        /\ pc'[t] = "begin" /\ dom_list'[t] = <<w>> /\ src'[t] = parent[w]
    BY <1>1, <2>2 DEF TypeOK
  <2>4. \A i \in DOMAIN dom_list'[t] :
          dom_list'[t][i] = v => parent[v] = src'[t] /\ ~Crossed(v)
    BY <2>2, <2>3, SingleIsList
  <2> QED
    BY <2>2, <2>3, <2>4, ListPlaced
<1>3. CASE migrateNode(t)
  <2>1. PICK l \in SetToSeqs(Under(src[t])) :
               /\ dom_list' = [dom_list EXCEPT ![t] = l]
               /\ pc' = [pc EXCEPT ![t] = IF l = << >> THEN "ended" ELSE "begin"]
    BY <1>3 DEF migrateNode
  <2>2. /\ pc[t] = "collect" /\ src' = src /\ dst' = dst
        /\ k' = k /\ outcome' = outcome /\ parent' = parent /\ runs' = runs
        /\ moving' = moving /\ transit' = transit /\ v \notin astray
        /\ v \in Under(src[t]) => ~Crossed(v)
    BY <1>3 DEF migrateNode, database, platform
  <2>3. /\ \A u \in Tasks \ {t} : pc'[u] = pc[u] /\ dom_list'[u] = dom_list[u]
        /\ pc'[t] \in {"begin", "ended"} /\ dom_list'[t] = l
    BY <1>1, <2>1 DEF TypeOK
  <2>4. \A i \in DOMAIN dom_list'[t] :
          dom_list'[t][i] = v => parent[v] = src'[t] /\ ~Crossed(v)
    BY <2>2, <2>3 DEF SetToSeqs, Under
  <2> QED
    BY <2>2, <2>3, <2>4, ListPlaced
<1> QED
  BY <1>2, <1>3

(* A task for all VMs of a node has none before it begins.                 *)
LEMMA RequestAllPlaced ==
  ASSUME IInv, NEW t \in Tasks, NEW n \in Nodes, NEW d \in Nodes, RequestAll(t, n, d),
         NEW v \in Vms, v \notin astray'
  PROVE  Placed(v)'
<1>1. /\ pc[t] = "none" /\ pc' = [pc EXCEPT ![t] = "collect"]
      /\ src' = [src EXCEPT ![t] = n] /\ dst' = [dst EXCEPT ![t] = d]
      /\ k' = k /\ outcome' = outcome /\ parent' = parent /\ runs' = runs
      /\ dom_list' = dom_list /\ moving' = moving /\ transit' = transit /\ v \notin astray
  BY DEF RequestAll, IsNext, database, platform, history
<1>2. TypeOK
  BY DEF IInv
<1>3. /\ \A u \in Tasks \ {t} : pc'[u] = pc[u] /\ src'[u] = src[u] /\ dst'[u] = dst[u]
      /\ pc'[t] = "collect" /\ outcome' = outcome
  BY <1>1, <1>2 DEF TypeOK, RequestAll
<1>4. \A u \in Tasks \ {t} : (HasIt(u, v)' <=> HasIt(u, v)) /\ (Seen(u, v)' <=> Seen(u, v))
  BY <1>1, <1>3, OthersHaveIt
<1>5. ~HasIt(t, v) /\ ~Seen(t, v)'
  BY <1>1, <1>3 DEF HasIt, Seen
<1>6. \A u \in Tasks : Pending(u, v)' => Pending(u, v)
  BY <1>1, <1>3 DEF Pending, InProgress
<1>7. \A u \in Tasks : Seen(u, v)' => moving[v] = None /\ runs[v] \subseteq {dst'[u]}
  BY <1>1, <1>3, <1>4, <1>5, SeenIsPlaced
<1>8. \A u \in Tasks : pc[u] # "none" => src'[u] = src[u] /\ dst'[u] = dst[u]
  BY <1>1, <1>3
<1>9. \A u \in Tasks : Brought(u, v) => HasIt(u, v)' \/ runs[v] \subseteq {parent[v]}
  BY <1>4, <1>5 DEF Brought
<1> QED
  BY <1>1, <1>6, <1>7, <1>8, <1>9, Untouched

-----------------------------------------------------------------------------
(* Every step leaves the VMs that are not lost placed.                     *)
LEMMA PlacedStep ==
  ASSUME IInv, [Next]_vars
  PROVE  (OneSource /\ LeavesItsNode /\ IsOrWillBe /\ StaysWhereSeen)'
<1>1. ASSUME NEW v \in Vms, v \notin astray'
      PROVE  Placed(v)'
  <2>1. ASSUME NEW t \in Tasks, migrateDomain(t) \/ CallTimesOut(t) \/ Raises(t)
        PROVE  Placed(v)'
    BY <1>1, <2>1, BeginPlaced, IssuePlaced, WaitPlaced, StorePlaced, RaisesPlaced
       DEF migrateDomain
  <2>2. ASSUME NEW t \in Tasks, Resume(t) \/ ResumeFails(t)
        PROVE  Placed(v)'
    BY <1>1, <2>2, ResumePlaced
  <2>3. ASSUME NEW t \in Tasks,
               \/ \E w \in Vms, d \in Nodes : Request(t, w, d)
               \/ \E n, d \in Nodes : RequestAll(t, n, d)
               \/ migrateNode(t)
        PROVE  Placed(v)'
    BY <1>1, <2>3, RequestPlaced, RequestAllPlaced
  <2>4. ASSUME NEW w \in Vms, move(w) \/ Start(w) \/ Halt(w)
        PROVE  Placed(v)'
    BY <1>1, <2>4, MovePlaced, StartPlaced, HaltPlaced
  <2>5. ASSUME (\E n \in Nodes : heartbeat(n)) \/ UNCHANGED vars
        PROVE  Placed(v)'
    BY <1>1, <2>5, HeartbeatPlaced
  <2>6. ASSUME NEW first \in {"begin", "resume", "ended"}, Crash(first)
        PROVE  Placed(v)'
    BY <1>1, <2>6, CrashPlaced
  <2> QED
    BY <2>1, <2>2, <2>3, <2>4, <2>5, <2>6 DEF Next
<1> QED
  BY <1>1 DEF Placed, Seen, OneSource, LeavesItsNode, IsOrWillBe, StaysWhereSeen

(* The type of every variable, and the place of the VM in hand in its list. *)
LEMMA TypeStep ==
  ASSUME IInv, [Next]_vars
  PROVE  TypeOK'
<1>0. TypeOK /\ Requested /\ Movers
  BY DEF IInv
<1>1. ASSUME NEW t \in Tasks, BeginDom(t)
      PROVE  TypeOK'
  <2>1. InProgress(t)
    BY <1>0, <1>1 DEF BeginDom, InProgress
  <2>2. \A u \in Tasks : InProgress(u)' => InProgress(u)
    BY <1>0, <1>1, <2>1 DEF BeginDom, InProgress, TypeOK
  <2>3. dom(t) \in Vms
    BY <1>0, <2>1, InHand
  <2> QED
    BY <1>0, <1>1, <2>2, <2>3 DEF BeginDom, SetStatus, TypeOK, request, platform
<1>2. ASSUME NEW t \in Tasks, Issue(t)
      PROVE  TypeOK'
  <2>1. InProgress(t)
    BY <1>0, <1>2 DEF Issue, InProgress
  <2>2. \A u \in Tasks : InProgress(u)' => InProgress(u)
    BY <1>0, <1>2, <2>1 DEF Issue, InProgress, TypeOK
  <2>3. dom(t) \in Vms
    BY <1>0, <2>1, InHand
  <2> QED
    <3>1. moving' \in [Vms -> Tasks \cup {None}] /\ transit \subseteq {v \in Vms : moving'[v] # None}
      <4>1. moving' = moving \/ moving' = [moving EXCEPT ![dom(t)] = t]
        BY <1>2 DEF Issue
      <4>2. moving' \in [Vms -> Tasks \cup {None}]
        BY <1>0, <2>3, <4>1 DEF TypeOK
      <4>3. \A v \in Vms : moving[v] # None => moving'[v] # None
        BY <1>0, <2>3, <4>1 DEF TypeOK
      <4> QED
        BY <1>0, <4>2, <4>3 DEF TypeOK
    <3>2. \A u \in Tasks : InProgress(u)' => k'[u] \in DOMAIN dom_list'[u]
      BY <1>0, <1>2, <2>2 DEF Issue, TypeOK, request
    <3> QED
      BY <1>0, <1>2, <2>3, <3>1, <3>2 DEF Issue, TypeOK, request, database, history
<1>3. ASSUME NEW t \in Tasks, CallTimesOut(t) \/ WaitSource(t) \/ WaitDest(t)
      PROVE  TypeOK'
  <2>1. InProgress(t)
    BY <1>0, <1>3 DEF CallTimesOut, WaitSource, WaitDest, InProgress
  <2>2. \A u \in Tasks : InProgress(u)' => InProgress(u)
    BY <1>0, <1>3, <2>1 DEF CallTimesOut, WaitSource, WaitDest, InProgress, TypeOK
  <2>3. /\ database' = database /\ request' = request /\ k' = k /\ vm_states' = vm_states
        /\ platform' = platform /\ history' = history /\ events' = events
    <3>1. CASE CallTimesOut(t)
      BY <3>1, Zenon DEF CallTimesOut
    <3>2. CASE WaitSource(t)
      BY <3>2, Zenon DEF WaitSource
    <3>3. CASE WaitDest(t)
      BY <3>3, Zenon DEF WaitDest
    <3> QED
      BY <1>3, <3>1, <3>2, <3>3
  <2>4. \E p \in {"wait", "dest", "store"} : pc' = [pc EXCEPT ![t] = p]
    BY <1>3 DEF CallTimesOut, WaitSource, WaitDest
  <2>5. outcome' = outcome \/ \E o \in {"moved", "over"} : outcome' = [outcome EXCEPT ![t] = o]
    BY <1>3 DEF CallTimesOut, WaitSource, WaitDest
  <2>6. pc' \in [Tasks -> Steps]
    BY <1>0, <2>4 DEF TypeOK
  <2>7. outcome' \in [Tasks -> {"idle", "moved", "over"}]
    BY <1>0, <2>5 DEF TypeOK
  <2>8. \A u \in Tasks : InProgress(u)' => k'[u] \in DOMAIN dom_list'[u]
    BY <1>0, <2>2, <2>3 DEF TypeOK, request
  <2> QED
    BY <1>0, <2>3, <2>6, <2>7, <2>8 DEF TypeOK, request, database, history, platform
<1>4. ASSUME NEW t \in Tasks, Refused(t) \/ Raises(t) \/ Store(t)
      PROVE  TypeOK'
  <2>1. InProgress(t) /\ NextDom(t) /\ dom_list' = dom_list
    BY <1>0, <1>4 DEF Refused, Raises, Store, InProgress, request
  <2>2. dom(t) \in Vms /\ dst[t] \in Nodes
    BY <1>0, <2>1, InHand
  <2>3. /\ \A u \in Tasks \ {t} : pc'[u] = pc[u] /\ k'[u] = k[u]
        /\ \/ pc'[t] = "begin" /\ k'[t] \in DOMAIN dom_list[t]
           \/ pc'[t] = "ended"
        /\ k' \in [Tasks -> Nat]
        /\ pc' \in [Tasks -> Steps]
    BY <1>0, <2>1, NextDomStep
  <2>4. \A u \in Tasks : InProgress(u)' => k'[u] \in DOMAIN dom_list'[u]
    BY <1>0, <2>1, <2>3 DEF InProgress, TypeOK
  <2>5. CASE Refused(t)
    BY <1>0, <2>2, <2>3, <2>4, <2>5 DEF Refused, SetStatus, TypeOK, request, platform
  <2>6. CASE Raises(t)
    BY <1>0, <2>2, <2>3, <2>4, <2>6 DEF Raises, TypeOK, request, platform, database
  <2>7. CASE Store(t)
    BY <1>0, <2>2, <2>3, <2>4, <2>7 DEF Store, SetStatus, TypeOK, request, platform
  <2> QED
    BY <1>0, <1>4, <2>5, <2>6, <2>7
<1>5. ASSUME NEW t \in Tasks, Resume(t) \/ ResumeFails(t)
      PROVE  TypeOK'
  <2>1. pc' = [pc EXCEPT ![t] = "ended"] /\ k' = k /\ dom_list' = dom_list
    BY <1>0, <1>5 DEF Resume, ResumeFails, resume_migrate_vm, request
  <2>2. \A u \in Tasks : InProgress(u)' => k'[u] \in DOMAIN dom_list'[u]
    BY <1>0, <2>1 DEF InProgress, TypeOK
  <2>3. pc[t] = "resume" /\ dst[t] \in Nodes
    BY <1>0, <1>5 DEF Resume, ResumeFails, resume_migrate_vm, Requested
  <2>4. Doms(t) \subseteq Vms
    BY <1>0, <2>3, ListsHoldVms DEF Doms, TypeOK
  <2>5. CASE Resume(t)
    BY <1>0, <2>1, <2>2, <2>3, <2>4, <2>5 DEF Resume, resume_migrate_vm, TypeOK, request, platform
  <2>6. CASE ResumeFails(t)
    BY <1>0, <2>1, <2>2, <2>3, <2>4, <2>6 DEF ResumeFails, TypeOK, request, platform, database
  <2> QED
    BY <1>0, <1>5, <2>5, <2>6
<1>6. ASSUME NEW t \in Tasks, NEW v \in Vms, NEW d \in Nodes, Request(t, v, d)
      PROVE  TypeOK'
  <2>1. /\ pc[t] = "none" /\ k' = k /\ k[t] = 1
        /\ dom_list' = [dom_list EXCEPT ![t] = <<v>>] /\ pc' = [pc EXCEPT ![t] = "begin"]
    BY <1>0, <1>6 DEF Request, IsNext, Requested
  <2>2. dom_list' \in [Tasks -> SetToAllKPermutations(Vms)] /\ 1 \in DOMAIN dom_list'[t]
    BY <1>0, <2>1, SingleIsList DEF TypeOK
  <2>3. \A u \in Tasks : InProgress(u)' => k'[u] \in DOMAIN dom_list'[u]
    BY <1>0, <2>1, <2>2 DEF InProgress, TypeOK
  <2> QED
    BY <1>0, <1>6, <2>2, <2>3 DEF Request, TypeOK, database, platform
<1>12. ASSUME NEW t \in Tasks, NEW n \in Nodes, NEW d \in Nodes, RequestAll(t, n, d)
       PROVE  TypeOK'
  <2>1. \A u \in Tasks : InProgress(u)' => k'[u] \in DOMAIN dom_list'[u]
    BY <1>0, <1>12 DEF RequestAll, InProgress, TypeOK
  <2> QED
    BY <1>0, <1>12, <2>1 DEF RequestAll, TypeOK, database, platform, history
<1>13. ASSUME NEW t \in Tasks, migrateNode(t)
       PROVE  TypeOK'
  <2>1. PICK l \in SetToSeqs(Under(src[t])) :
               /\ dom_list' = [dom_list EXCEPT ![t] = l]
               /\ pc' = [pc EXCEPT ![t] = IF l = << >> THEN "ended" ELSE "begin"]
    BY <1>13 DEF migrateNode
  <2>2. l \in SetToAllKPermutations(Vms)
    BY DEF SetToAllKPermutations, Under
  <2>3. l # << >> => 1 \in DOMAIN l
    BY <2>2, ListsHoldVms
  <2>4. k' = k /\ k[t] = 1
    BY <1>0, <1>13 DEF migrateNode, Requested
  <2>5. \A u \in Tasks : InProgress(u)' => k'[u] \in DOMAIN dom_list'[u]
    BY <1>0, <2>1, <2>3, <2>4 DEF InProgress, TypeOK
  <2> QED
    BY <1>0, <1>13, <2>1, <2>2, <2>5 DEF migrateNode, Under, TypeOK, database, platform
<1>7. ASSUME NEW v \in Vms, move(v)
      PROVE  TypeOK'
  <2>1. dom_list' = dom_list /\ k' = k
    BY <1>0, <1>7 DEF move, MoveLeaves, MoveArrives, MoveFails, tasks, request
  <2>2. moving[v] \in Tasks /\ src[moving[v]] \in Nodes /\ dst[moving[v]] \in Nodes
    <3>1. moving[v] # None
      BY <1>0, <1>7 DEF move, MoveLeaves, MoveArrives, MoveFails, TypeOK
    <3> QED
      BY <1>0, <3>1, MoverKnown DEF TypeOK, Requested
  <2>3. \A u \in Tasks : InProgress(u)' => InProgress(u)
    BY <1>0, <1>7 DEF move, MoveLeaves, MoveArrives, MoveFails, Answer, InProgress, TypeOK, tasks
  <2>4. \A u \in Tasks : InProgress(u)' => k'[u] \in DOMAIN dom_list'[u]
    BY <1>0, <2>1, <2>3 DEF TypeOK
  <2>5. CASE MoveLeaves(v)
    BY <1>0, <2>2, <2>4, <2>5 DEF MoveLeaves, TypeOK, database, tasks, history
  <2>6. CASE MoveArrives(v)
    <3>1. /\ moving' \in [Vms -> Tasks \cup {None}] /\ runs' \in [Vms -> SUBSET Nodes]
          /\ transit' \subseteq {w \in Vms : moving'[w] # None}
      BY <1>0, <2>2, <2>6 DEF MoveArrives, TypeOK
    <3>2. pc' \in [Tasks -> Steps]
      BY <1>0, <2>6 DEF MoveArrives, Answer, TypeOK
    <3> QED
      BY <1>0, <2>1, <2>4, <2>6, <3>1, <3>2 DEF MoveArrives, TypeOK, database, request
  <2>7. CASE MoveFails(v)
    <3>1. /\ moving' \in [Vms -> Tasks \cup {None}] /\ runs' \in [Vms -> SUBSET Nodes]
          /\ transit' \subseteq {w \in Vms : moving'[w] # None}
      BY <1>0, <2>2, <2>7 DEF MoveFails, TypeOK
    <3>2. pc' \in [Tasks -> Steps]
      BY <1>0, <2>7 DEF MoveFails, Answer, TypeOK
    <3> QED
      BY <1>0, <2>1, <2>4, <2>7, <3>1, <3>2 DEF MoveFails, TypeOK, database, request, history
  <2> QED
    BY <1>0, <1>7, <2>5, <2>6, <2>7 DEF move
<1>8. ASSUME NEW v \in Vms, Start(v) \/ Halt(v)
      PROVE  TypeOK'
  <2>1. pc' = pc /\ k' = k /\ dom_list' = dom_list
    BY <1>8 DEF Start, Halt, tasks
  <2>2. \A u \in Tasks : InProgress(u)' => k'[u] \in DOMAIN dom_list'[u]
    BY <1>0, <2>1 DEF TypeOK, InProgress
  <2>3. CASE Start(v)
    BY <1>0, <2>2, <2>3 DEF Start, TypeOK, database, tasks
  <2>4. CASE Halt(v)
    BY <1>0, <2>2, <2>4 DEF Halt, TypeOK, database, tasks
  <2> QED
    BY <1>8, <2>3, <2>4
<1>9. ASSUME NEW n \in Nodes, heartbeat(n)
      PROVE  TypeOK'
  <2>1. pc' = pc /\ k' = k /\ dom_list' = dom_list
    BY <1>9 DEF heartbeat, vm_heartbeat, refresh_vm_avail, tasks
  <2>2. \A u \in Tasks : InProgress(u)' => k'[u] \in DOMAIN dom_list'[u]
    BY <1>0, <2>1 DEF TypeOK, InProgress
  <2>3. CASE vm_heartbeat(n)
    BY <1>0, <2>2, <2>3 DEF vm_heartbeat, TypeOK, tasks, platform, history, database
  <2>4. CASE refresh_vm_avail(n)
    <3>1. vm_states' \in [Nodes -> (SUBSET Vms) \cup {None}]
      BY <1>0, <2>4 DEF refresh_vm_avail, TypeOK
    <3>2. avail' \in [Vms -> BOOLEAN]
      <4>1. \A v \in Vms : avail[v] \in BOOLEAN
        BY <1>0 DEF TypeOK
      <4>2. \A v \in Vms : (v \in vm_states[n]) \in BOOLEAN
        OBVIOUS
      <4>3. \A v \in Vms : (IF parent[v] = n /\ status[v] # "MIGRATING"
                             THEN v \in vm_states[n] ELSE avail[v]) \in BOOLEAN
        BY <4>1, <4>2, Zenon
      <4>4. avail' = [v \in Vms |-> IF parent[v] = n /\ status[v] # "MIGRATING"
                                    THEN v \in vm_states[n] ELSE avail[v]]
        BY <2>4, Zenon DEF refresh_vm_avail
      <4> QED
        BY <4>3, <4>4, Zenon
    <3> QED
      BY <1>0, <2>2, <2>4, <3>1, <3>2 DEF refresh_vm_avail, TypeOK, tasks, platform, history
  <2> QED
    BY <1>9, <2>3, <2>4 DEF heartbeat
<1>10. ASSUME NEW first \in {"begin", "resume", "ended"}, Crash(first)
       PROVE  TypeOK'
  <2>1. k' = k /\ dom_list' = dom_list
    BY <1>0, <1>10 DEF Crash, request
  <2>2. \A u \in Tasks : InProgress(u)' => InProgress(u)
    BY <1>0, <1>10 DEF Crash, InProgress, NotBegun
  <2>3. \A u \in Tasks : InProgress(u)' => k'[u] \in DOMAIN dom_list'[u]
    BY <1>0, <2>1, <2>2 DEF TypeOK
  <2>4. pc' \in [Tasks -> Steps]
    BY <1>0, <1>10 DEF Crash, InProgress, NotBegun, TypeOK
  <2> QED
    BY <1>0, <1>10, <2>1, <2>3, <2>4 DEF Crash, TypeOK, request, platform
<1>11. ASSUME UNCHANGED vars
       PROVE  TypeOK'
  BY <1>0, <1>11 DEF TypeOK, vars, database, tasks, platform, history, InProgress
<1> QED
  BY <1>0, <1>1, <1>2, <1>3, <1>4, <1>5, <1>6, <1>7, <1>8, <1>9, <1>10, <1>11,
     <1>12, <1>13 DEF Next, migrateDomain

(* Tasks keep their nodes and lists, and moves their tasks.                *)
LEMMA RequestedStep ==
  ASSUME IInv, [Next]_vars
  PROVE  (Requested /\ Movers)'
<1>0. TypeOK /\ Requested /\ Movers
  BY DEF IInv
<1>1. ASSUME dom_list' = dom_list, src' = src, dst' = dst,
             \A u \in Tasks : /\ pc'[u] \in {"none", "collect"} => pc'[u] = pc[u] /\ k'[u] = k[u]
                              /\ pc[u] = "none" => pc'[u] = "none",
             moving' \in [Vms -> Tasks \cup {None}],
             \A v \in Vms : \/ moving'[v] \in {moving[v], None}
                            \/ pc[moving'[v]] # "none" /\ v \in Doms(moving'[v])
      PROVE  (Requested /\ Movers)'
  <2>1. Requested'
    BY <1>0, <1>1 DEF Requested
  <2>2. ASSUME NEW v \in Vms, NEW t \in Tasks, moving'[v] = t
        PROVE  pc'[t] # "none" /\ v \in Doms(t)'
    <3>1. t # None
      OBVIOUS
    <3> QED
      BY <1>0, <1>1, <2>2, <3>1 DEF Movers, Doms
  <2>3. \A v \in Vms : moving'[v] # None => moving'[v] \in Tasks
    BY <1>1
  <2> QED
    BY <2>1, <2>2, <2>3 DEF Movers, Doms
<1>2. ASSUME NEW t \in Tasks,
             BeginDom(t) \/ CallTimesOut(t) \/ WaitSource(t) \/ WaitDest(t)
      PROVE  (Requested /\ Movers)'
  <2>1. /\ dom_list' = dom_list /\ src' = src /\ dst' = dst /\ moving' = moving /\ k' = k
        /\ pc[t] # "none"
    BY <1>2 DEF BeginDom, CallTimesOut, WaitSource, WaitDest, request, platform
  <2>2. \A u \in Tasks : /\ pc'[u] \in {"none", "collect"} => pc'[u] = pc[u]
                         /\ pc[u] = "none" => pc'[u] = "none"
    BY <1>0, <1>2 DEF BeginDom, CallTimesOut, WaitSource, WaitDest, TypeOK
  <2> QED
    BY <1>0, <1>1, <2>1, <2>2 DEF TypeOK
<1>3. ASSUME NEW t \in Tasks, Issue(t)
      PROVE  (Requested /\ Movers)'
  <2>1. InProgress(t) /\ pc[t] # "none" /\ dom_list' = dom_list /\ src' = src /\ dst' = dst /\ k' = k
    BY <1>3 DEF Issue, request, InProgress
  <2>2. dom(t) \in Vms /\ dom(t) \in Doms(t)
    BY <1>0, <2>1, InHand
  <2>3. \A u \in Tasks : /\ pc'[u] \in {"none", "collect"} => pc'[u] = pc[u]
                         /\ pc[u] = "none" => pc'[u] = "none"
    BY <1>0, <1>3 DEF Issue, TypeOK
  <2>4. moving' = moving \/ moving' = [moving EXCEPT ![dom(t)] = t]
    BY <1>3 DEF Issue
  <2>5. moving' \in [Vms -> Tasks \cup {None}]
    BY <1>0, <2>2, <2>4 DEF TypeOK
  <2>6. \A v \in Vms : \/ moving'[v] \in {moving[v], None}
                       \/ pc[moving'[v]] # "none" /\ v \in Doms(moving'[v])
    BY <1>0, <2>1, <2>2, <2>4 DEF TypeOK
  <2> QED
    BY <1>1, <2>1, <2>3, <2>5, <2>6
<1>4. ASSUME NEW t \in Tasks, Refused(t) \/ Raises(t) \/ Store(t)
      PROVE  (Requested /\ Movers)'
  <2>1. InProgress(t) /\ NextDom(t) /\ pc[t] # "none"
    BY <1>4 DEF Refused, Raises, Store, InProgress
  <2>2. dom_list' = dom_list /\ src' = src /\ dst' = dst /\ moving' = moving
    BY <1>4 DEF Refused, Raises, Store, request, platform
  <2>3. \A u \in Tasks : /\ pc'[u] \in {"none", "collect"} => pc'[u] = pc[u] /\ k'[u] = k[u]
                         /\ pc[u] = "none" => pc'[u] = "none"
    BY <1>0, <2>1, NextDomStep
  <2> QED
    BY <1>0, <1>1, <2>2, <2>3 DEF TypeOK
<1>5. ASSUME NEW t \in Tasks, Resume(t) \/ ResumeFails(t)
      PROVE  (Requested /\ Movers)'
  <2>1. /\ dom_list' = dom_list /\ src' = src /\ dst' = dst /\ moving' = moving /\ k' = k
        /\ pc[t] = "resume" /\ pc' = [pc EXCEPT ![t] = "ended"]
    BY <1>5 DEF Resume, resume_migrate_vm, ResumeFails, request, platform
  <2> QED
    BY <1>0, <1>1, <2>1 DEF TypeOK
<1>i. ASSUME NEW t \in Tasks, pc[t] \in {"none", "collect"}, moving' = moving,
             \A u \in Tasks \ {t} : pc'[u] = pc[u] /\ dom_list'[u] = dom_list[u],
             Requested'
      PROVE  (Requested /\ Movers)'
  <2>1. ASSUME NEW v \in Vms, moving[v] # None
        PROVE  /\ moving[v] \in Tasks \ {t} /\ pc'[moving[v]] # "none"
               /\ v \in {dom_list'[moving[v]][i] : i \in DOMAIN dom_list'[moving[v]]}
    <3>1. moving[v] \in Tasks /\ pc[moving[v]] # "none" /\ v \in Doms(moving[v])
      BY <1>0, <2>1 DEF TypeOK, Movers
    <3>2. moving[v] # t
      BY <1>0, <1>i, <3>1 DEF Requested, Doms
    <3> QED
      BY <1>i, <3>1, <3>2 DEF Doms
  <2> QED
    BY <1>i, <2>1 DEF Movers, Doms
<1>6. ASSUME NEW t \in Tasks, NEW v \in Vms, NEW d \in Nodes, Request(t, v, d)
      PROVE  (Requested /\ Movers)'
  <2>1. /\ pc[t] = "none" /\ pc' = [pc EXCEPT ![t] = "begin"] /\ k' = k /\ moving' = moving
        /\ dom_list' = [dom_list EXCEPT ![t] = <<v>>] /\ d # parent[v]
        /\ src' = [src EXCEPT ![t] = parent[v]] /\ dst' = [dst EXCEPT ![t] = d]
    BY <1>6 DEF Request, IsNext, platform
  <2>2. parent[v] \in Nodes
    BY <1>0 DEF TypeOK
  <2>3. Requested'
    BY <1>0, <2>1, <2>2 DEF Requested, TypeOK
  <2>4. \A u \in Tasks \ {t} : pc'[u] = pc[u] /\ dom_list'[u] = dom_list[u]
    BY <1>0, <2>1 DEF TypeOK
  <2> QED
    BY <1>i, <2>1, <2>3, <2>4
<1>10. ASSUME NEW t \in Tasks, NEW n \in Nodes, NEW d \in Nodes, RequestAll(t, n, d)
       PROVE  (Requested /\ Movers)'
  <2>1. /\ pc[t] = "none" /\ pc' = [pc EXCEPT ![t] = "collect"] /\ k' = k /\ moving' = moving
        /\ dom_list' = dom_list /\ d # n
        /\ src' = [src EXCEPT ![t] = n] /\ dst' = [dst EXCEPT ![t] = d]
    BY <1>10 DEF RequestAll, IsNext, platform
  <2>2. Requested'
    BY <1>0, <2>1 DEF Requested, TypeOK
  <2>3. \A u \in Tasks \ {t} : pc'[u] = pc[u] /\ dom_list'[u] = dom_list[u]
    BY <1>0, <2>1 DEF TypeOK
  <2> QED
    BY <1>i, <2>1, <2>2, <2>3
<1>11. ASSUME NEW t \in Tasks, migrateNode(t)
       PROVE  (Requested /\ Movers)'
  <2>1. /\ pc[t] = "collect" /\ k' = k /\ moving' = moving /\ src' = src /\ dst' = dst
        /\ \E l : dom_list' = [dom_list EXCEPT ![t] = l]
        /\ \E p \in {"begin", "ended"} : pc' = [pc EXCEPT ![t] = p]
    BY <1>11 DEF migrateNode, platform
  <2>2. \A u \in Tasks \ {t} : pc'[u] = pc[u] /\ dom_list'[u] = dom_list[u]
    BY <1>0, <2>1 DEF TypeOK
  <2>3. pc'[t] \in {"begin", "ended"}
    BY <1>0, <2>1 DEF TypeOK
  <2>4. Requested'
    BY <1>0, <2>1, <2>2, <2>3 DEF Requested
  <2> QED
    BY <1>i, <2>1, <2>2, <2>4
<1>7. ASSUME NEW w \in Vms, move(w)
      PROVE  (Requested /\ Movers)'
  <2>1. dom_list' = dom_list /\ src' = src /\ dst' = dst /\ k' = k
    BY <1>7 DEF move, MoveLeaves, MoveArrives, MoveFails, tasks, request
  <2>2. \A u \in Tasks : /\ pc'[u] \in {"none", "collect"} => pc'[u] = pc[u]
                         /\ pc[u] = "none" => pc'[u] = "none"
    BY <1>0, <1>7 DEF move, MoveLeaves, MoveArrives, MoveFails, Answer, TypeOK, tasks
  <2>3. moving' = moving \/ moving' = [moving EXCEPT ![w] = None]
    BY <1>7 DEF move, MoveLeaves, MoveArrives, MoveFails
  <2> QED
    BY <1>0, <1>1, <2>1, <2>2, <2>3 DEF TypeOK
<1>8. ASSUME \/ \E v \in Vms : Start(v) \/ Halt(v)
             \/ \E n \in Nodes : heartbeat(n)
             \/ UNCHANGED vars
      PROVE  (Requested /\ Movers)'
  <2>1. tasks' = tasks /\ moving' = moving
    BY <1>8 DEF Start, Halt, heartbeat, vm_heartbeat, refresh_vm_avail, vars, platform
  <2> QED
    BY <1>0, <1>1, <2>1 DEF TypeOK, tasks
<1>9. ASSUME NEW first \in {"begin", "resume", "ended"}, Crash(first)
      PROVE  (Requested /\ Movers)'
  <2>1. dom_list' = dom_list /\ src' = src /\ dst' = dst /\ moving' = moving /\ k' = k
    BY <1>9 DEF Crash, request, platform
  <2>2. \A u \in Tasks : /\ pc'[u] \in {"none", "collect"} => pc'[u] = pc[u]
                         /\ pc[u] = "none" => pc'[u] = "none"
    BY <1>9 DEF Crash, InProgress, NotBegun
  <2> QED
    BY <1>0, <1>1, <2>1, <2>2 DEF TypeOK
<1> QED
  BY <1>2, <1>3, <1>4, <1>5, <1>6, <1>7, <1>8, <1>9, <1>10, <1>11 DEF Next, migrateDomain

(* A mark is set by the task that has the VM in hand, and taken off before *)
(* it goes on, unless an exception keeps it from that.                     *)
LEMMA MarkStep ==
  ASSUME IInv, [Next]_vars
  PROVE  MarkHasOwner'
<1> DEFINE Owner(t, v) == InProgress(t) /\ pc[t] # "begin" /\ dom(t) = v
<1>0. TypeOK /\ Requested /\ MarkHasOwner
  BY DEF IInv
<1>1. ASSUME status' = status, stuck' = stuck,
             \A t \in Tasks, v \in Vms : Owner(t, v) => Owner(t, v)'
      PROVE  MarkHasOwner'
  BY <1>0, <1>1 DEF MarkHasOwner
<1>2. ASSUME NEW t \in Tasks, BeginDom(t)
      PROVE  MarkHasOwner'
  <2>1. InProgress(t) /\ pc[t] = "begin"
    BY <1>2 DEF BeginDom, InProgress
  <2>2. dom(t) \in Vms
    BY <1>0, <2>1, InHand
  <2>3. /\ pc'[t] \in {"issue", "refused", "store"} /\ k' = k /\ dom_list' = dom_list
        /\ \A u \in Tasks \ {t} : pc'[u] = pc[u]
    BY <1>0, <1>2 DEF BeginDom, request, TypeOK
  <2>4. Owner(t, dom(t))' /\ \A u \in Tasks, v \in Vms : Owner(u, v) => Owner(u, v)'
    BY <2>1, <2>3 DEF InProgress, dom
  <2>5. \/ status' = [status EXCEPT ![dom(t)] = "MIGRATING"] /\ stuck' = stuck \ {dom(t)}
        \/ status' = status /\ stuck' = stuck
    BY <1>2 DEF BeginDom, SetStatus
  <2>6. dom(t)' = dom(t)
    BY <2>3 DEF dom
  <2> QED
    BY <1>0, <2>2, <2>4, <2>5, <2>6 DEF MarkHasOwner, TypeOK
<1>3. ASSUME NEW t \in Tasks, Issue(t) \/ CallTimesOut(t) \/ WaitSource(t) \/ WaitDest(t)
      PROVE  MarkHasOwner'
  <2>1. /\ pc'[t] \in {"moving", "refused", "wait", "store", "dest"} /\ k' = k
        /\ dom_list' = dom_list /\ \A u \in Tasks \ {t} : pc'[u] = pc[u]
        /\ status' = status /\ stuck' = stuck
    BY <1>0, <1>3 DEF Issue, CallTimesOut, WaitSource, WaitDest, TypeOK, request, database, history
  <2> QED
    BY <1>1, <2>1 DEF InProgress, dom
<1>4. ASSUME NEW t \in Tasks, Refused(t) \/ Raises(t) \/ Store(t)
      PROVE  MarkHasOwner'
  <2>1. InProgress(t) /\ NextDom(t) /\ dom_list' = dom_list
    BY <1>4 DEF Refused, Raises, Store, InProgress, request
  <2>2. dom(t) \in Vms /\ \A u \in Tasks \ {t} : pc'[u] = pc[u] /\ k'[u] = k[u]
    BY <1>0, <2>1, InHand, NextDomStep
  <2>3. \A u \in Tasks \ {t}, v \in Vms : Owner(u, v) => Owner(u, v)'
    BY <2>1, <2>2 DEF InProgress, dom
  <2>4. \A v \in Vms \ {dom(t)} : Owner(t, v) => FALSE
    OBVIOUS
  <2>5. \/ status' = [status EXCEPT ![dom(t)] = None] /\ stuck' = stuck \ {dom(t)}
        \/ status' = status /\ stuck' = IF status[dom(t)] = None THEN stuck ELSE stuck \cup {dom(t)}
    BY <1>4 DEF Refused, Raises, Store, SetStatus, database
  <2>6. ASSUME NEW v \in Vms, status'[v] = "MIGRATING", v \notin stuck'
        PROVE  \E u \in Tasks : Owner(u, v)'
    <3>1. v # dom(t) /\ status[v] = "MIGRATING" /\ v \notin stuck
      BY <1>0, <2>2, <2>5, <2>6 DEF TypeOK
    <3>2. PICK u \in Tasks : Owner(u, v)
      BY <1>0, <3>1 DEF MarkHasOwner
    <3> QED
      BY <2>3, <2>4, <3>1, <3>2
  <2> QED
    BY <2>6 DEF MarkHasOwner
<1>5. ASSUME NEW t \in Tasks, Resume(t) \/ ResumeFails(t)
      PROVE  MarkHasOwner'
  <2>1. /\ pc[t] = "resume" /\ pc' = [pc EXCEPT ![t] = "ended"] /\ k' = k /\ dom_list' = dom_list
        /\ status' = status /\ stuck' = stuck
    BY <1>5 DEF Resume, resume_migrate_vm, ResumeFails, request, database
  <2> QED
    BY <1>0, <1>1, <2>1 DEF InProgress, dom, TypeOK
<1>6. ASSUME NEW t \in Tasks,
             \/ \E w \in Vms, d \in Nodes : Request(t, w, d)
             \/ \E n, d \in Nodes : RequestAll(t, n, d)
             \/ migrateNode(t)
      PROVE  MarkHasOwner'
  <2>1. /\ pc[t] \in {"none", "collect"} /\ \E p \in Steps : pc' = [pc EXCEPT ![t] = p]
        /\ \E l : dom_list' = [dom_list EXCEPT ![t] = l]
        /\ k' = k /\ status' = status /\ stuck' = stuck
    <3>1. CASE \E w \in Vms, d \in Nodes : Request(t, w, d)
      BY <3>1 DEF Request, IsNext, database
    <3>2. CASE \E n, d \in Nodes : RequestAll(t, n, d)
      <4>1. dom_list' = dom_list /\ dom_list \in [Tasks -> SetToAllKPermutations(Vms)]
        BY <1>0, <3>2 DEF RequestAll, TypeOK
      <4>2. dom_list' = [dom_list EXCEPT ![t] = dom_list[t]]
        BY <4>1
      <4> QED
        BY <3>2, <4>2 DEF RequestAll, IsNext, database, history
    <3>3. CASE migrateNode(t)
      BY <3>3 DEF migrateNode, database
    <3> QED
      BY <1>6, <3>1, <3>2, <3>3
  <2>2. \A u \in Tasks \ {t} : pc'[u] = pc[u] /\ dom_list'[u] = dom_list[u]
    BY <1>0, <2>1 DEF TypeOK
  <2> QED
    BY <1>1, <2>1, <2>2 DEF InProgress, dom
<1>7. ASSUME NEW w \in Vms, move(w)
      PROVE  MarkHasOwner'
  <2>1. dom_list' = dom_list /\ k' = k /\ status' = status /\ stuck' = stuck
    BY <1>7 DEF move, MoveLeaves, MoveArrives, MoveFails, tasks, request, database, history
  <2>2. \A u \in Tasks : pc'[u] = pc[u] \/ (pc[u] = "moving" /\ pc'[u] \in {"wait", "refused"})
    BY <1>0, <1>7 DEF move, MoveLeaves, MoveArrives, MoveFails, Answer, TypeOK, tasks
  <2> QED
    BY <1>1, <2>1, <2>2 DEF InProgress, dom
<1>8. ASSUME \/ \E v \in Vms : Start(v) \/ Halt(v)
             \/ \E n \in Nodes : heartbeat(n)
             \/ UNCHANGED vars
      PROVE  MarkHasOwner'
  <2>1. tasks' = tasks /\ status' = status /\ stuck' = stuck
    BY <1>8 DEF Start, Halt, heartbeat, vm_heartbeat, refresh_vm_avail, vars, database, history
  <2> QED
    BY <1>1, <2>1 DEF tasks, InProgress, dom
<1>9. ASSUME NEW first \in {"begin", "resume", "ended"}, Crash(first)
      PROVE  MarkHasOwner'
  BY <1>9 DEF Crash, MarkHasOwner
<1> QED
  BY <1>2, <1>3, <1>4, <1>5, <1>6, <1>7, <1>8, <1>9 DEF Next, migrateDomain

-----------------------------------------------------------------------------
(* Before anything has been asked for, every VM runs where it is.          *)
LEMMA Initially == Init => IInv
<1> SUFFICES ASSUME Init PROVE IInv
  OBVIOUS
<1>0. << >> \in SetToAllKPermutations(Vms)
  BY FS_EmptySet DEF SetToAllKPermutations, SetToSeqs
<1>1. TypeOK
  BY <1>0 DEF Init, TypeOK, InProgress
<1>2. \A t \in Tasks : pc[t] = "none" /\ k[t] = 1
  BY DEF Init
<1>3. MarkHasOwner /\ Requested /\ Movers
  BY <1>2 DEF Init, MarkHasOwner, Requested, Movers
<1>4. \A v \in Vms : Placed(v)
  BY <1>2 DEF Init, Placed, Pending, InProgress, Seen
<1> QED
  BY <1>1, <1>3, <1>4, PlacedIsEnough DEF IInv

(* The invariant of migrations: what is known of a VM that is not lost.    *)
THEOREM Invariant == Spec => []IInv
<1>1. IInv /\ [Next]_vars => IInv'
  BY TypeStep, RequestedStep, MarkStep, PlacedStep DEF IInv
<1> QED
  BY Initially, <1>1, PTL DEF Spec

(* Every variable keeps its type.                                          *)
THEOREM TypeCorrect == Spec => []TypeOK
<1>1. IInv => TypeOK
  BY DEF IInv
<1> QED
  BY Invariant, <1>1, PTL

(* A marked VM is in the hands of a task, or an exception has left it so.  *)
THEOREM MarksAreOwned == Spec => []MarkHasOwner
<1>1. IInv => MarkHasOwner
  BY DEF IInv
<1> QED
  BY Invariant, <1>1, PTL

(* A VM runs nowhere but on the node it is under, unless it is being       *)
(* migrated or was lost in one of the named ways.                          *)
THEOREM VmsAreFollowed == Spec => []FollowsTheVm
<1>1. ASSUME IInv PROVE FollowsTheVm
  <2>1. SUFFICES ASSUME NEW v \in Vms, v \notin astray, ~Busy(v)
                 PROVE  runs[v] \subseteq {parent[v]}
    BY DEF FollowsTheVm
  <2>2. Placed(v) /\ TypeOK /\ Requested
    BY <1>1, <2>1, PlacedIsEnough DEF IInv
  <2>3. CASE moving[v] # None
    BY <2>2, <2>3 DEF Placed
  <2>4. CASE moving[v] = None
    <3>1. ASSUME NEW t \in Tasks, Brought(t, v)
          PROVE  Ahead(t, v)
      <4>1. CASE pc[t] = "resume"
        BY <3>1, <4>1 DEF Brought, HasIt, Ahead
      <4>2. CASE pc[t] # "resume"
        BY <2>2, <3>1, <4>2, InHand DEF Brought, HasIt, Ahead, InProgress
      <4> QED
        BY <4>1, <4>2
    <3> QED
      BY <2>1, <2>2, <2>4, <3>1 DEF Placed, Busy
  <2> QED
    BY <2>3, <2>4
<1> QED
  BY Invariant, <1>1, PTL

-----------------------------------------------------------------------------
(* What a resumed task finds in its destination, its source knows nothing  *)
(* of any more, and nobody moves it on.                                    *)
LEMMA FoundIsThere ==
  ASSUME IInv, NEW v \in Vms, v \notin astray, NEW t \in Tasks, pc[t] = "resume",
         parent[v] = src[t], dst[t] \in runs[v]
  PROVE  runs[v] \subseteq {dst[t]} /\ moving[v] = None
<1>1. Placed(v) /\ dst[t] # src[t]
  BY PlacedIsEnough DEF IInv, Requested
<1>2. moving[v] = None
  BY <1>1 DEF Placed
<1>3. ~(runs[v] \subseteq {parent[v]})
  BY <1>1
<1>4. PICK u \in Tasks : Brought(u, v)
  BY <1>1, <1>2, <1>3 DEF Placed
<1> QED
  BY <1>2, <1>4 DEF Brought

(* Two steps write where a VM is: the end of a migration, which has seen   *)
(* it there or known it down, and the resumption of one, which sees it.    *)
LEMMA RecordedStep ==
  ASSUME IInv, [Next]_vars, NEW v \in Vms, v \notin astray', parent'[v] # parent[v]
  PROVE  runs[v] \subseteq {parent'[v]} /\ moving[v] = None
<1>0. TypeOK
  BY DEF IInv
<1>1. CASE \E t \in Tasks : Store(t)
  <2>1. PICK t \in Tasks : Store(t)
    BY <1>1
  <2>2. /\ v \notin astray /\ pc[t] = "store" /\ outcome[t] # "over" /\ dom(t) = v
        /\ parent' = [parent EXCEPT ![dom(t)] = dst[t]]
        /\ outcome[t] = "idle" => runs[v] = {} /\ moving[v] = None
    BY <1>0, <2>1 DEF Store, TypeOK
  <2>3. parent'[v] = dst[t]
    BY <1>0, <2>2 DEF TypeOK
  <2>4. CASE outcome[t] = "idle"
    BY <2>2, <2>4
  <2>5. CASE outcome[t] = "moved"
    BY <2>2, <2>3, <2>5, SeenIsPlaced DEF Seen
  <2> QED
    BY <1>0, <2>2, <2>4, <2>5 DEF TypeOK
<1>2. CASE \E t \in Tasks : Resume(t)
  <2>1. PICK t \in Tasks : Resume(t)
    BY <1>2
  <2>r. PICK l \in SetToSeqs(ToResume(t)), recover \in BOOLEAN : resume_migrate_vm(t, l, recover)
    BY <2>1 DEF Resume
  <2> DEFINE found == {w \in ToResume(t) : parent[w] = src[t] /\ Arrived(t, w, recover)}
                        \cap Visited(t, l, recover)
  <2>2. /\ pc[t] = "resume" /\ v \notin astray
        /\ parent' = [w \in Vms |-> IF w \in found THEN dst[t] ELSE parent[w]]
    BY <2>r DEF resume_migrate_vm
  <2>3. v \in found /\ parent'[v] = dst[t]
    BY <2>2
  <2>4. parent[v] = src[t] /\ dst[t] \in runs[v]
    BY <2>3 DEF Arrived
  <2> QED
    BY <2>2, <2>3, <2>4, FoundIsThere
<1>3. CASE parent' = parent
  BY <1>3
<1>4. \/ \E t \in Tasks : Store(t) \/ Resume(t)
      \/ parent' = parent
  <2>1. ASSUME NEW t \in Tasks,
               \/ \E w \in Vms, d \in Nodes : Request(t, w, d)
               \/ \E n, d \in Nodes : RequestAll(t, n, d)
               \/ migrateNode(t)
        PROVE  parent' = parent
    BY <2>1 DEF Request, RequestAll, migrateNode, database
  <2>2. ASSUME NEW t \in Tasks, migrateDomain(t), ~Store(t)
        PROVE  parent' = parent
    BY <2>2 DEF migrateDomain, BeginDom, Issue, Refused, WaitSource, WaitDest, database
  <2>3. ASSUME NEW t \in Tasks, CallTimesOut(t) \/ Raises(t) \/ ResumeFails(t)
        PROVE  parent' = parent
    BY <2>3 DEF CallTimesOut, Raises, ResumeFails, database
  <2>4. ASSUME NEW w \in Vms, move(w) \/ Start(w) \/ Halt(w)
        PROVE  parent' = parent
    BY <2>4 DEF move, MoveLeaves, MoveArrives, MoveFails, Start, Halt, database
  <2>5. ASSUME NEW n \in Nodes, heartbeat(n)
        PROVE  parent' = parent
    BY <2>5 DEF heartbeat, vm_heartbeat, refresh_vm_avail, database
  <2>6. ASSUME NEW first \in {"begin", "resume", "ended"}, Crash(first)
        PROVE  parent' = parent
    BY <2>6 DEF Crash
  <2>7. UNCHANGED vars => parent' = parent
    BY DEF vars, database
  <2> QED
    BY <2>1, <2>2, <2>3, <2>4, <2>5, <2>6, <2>7 DEF Next
<1> QED
  BY <1>1, <1>2, <1>3, <1>4

(* A VM that is not lost is put under another node only while it is on no  *)
(* other and on no way.                                                    *)
THEOREM RecordsAreTrue == Spec => RecordedWhereItIs
<1>1. ASSUME IInv, [Next]_vars
      PROVE  [\A v \in Vms \ astray' :
                parent'[v] # parent[v] => runs[v] \subseteq {parent'[v]} /\ moving[v] = None]_vars
  BY <1>1, RecordedStep
<1> QED
  BY Invariant, <1>1, PTL DEF Spec, RecordedWhereItIs
=============================================================================

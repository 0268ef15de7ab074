-------------------------- MODULE ServiceOrderProofs -------------------------
(***************************************************************************)
(* For every finite set of services and all their dependencies: what       *)
(* _order() returns respects the dependencies and misses no service, and   *)
(* it raises only when there is a cycle.                                   *)
(***************************************************************************)
EXTENDS ServiceOrder, FiniteSetTheorems, TLAPS

(* The lists _order() works with, with one element taken or added: facts   *)
(* about Tail and Append, said of the elements and their places.           *)
LEMMA TailFacts ==
  ASSUME NEW S, NEW list \in Seq(S), list # <<>>, IsDistinct(list)
  PROVE  /\ Tail(list) \in Seq(S) /\ Len(Tail(list)) = Len(list) - 1
         /\ \A i \in DOMAIN Tail(list) : i + 1 \in DOMAIN list /\ Tail(list)[i] = list[i + 1]
         /\ Head(list) = list[1] /\ 1 \in DOMAIN list /\ Head(list) \in S
         /\ IsDistinct(Tail(list))
         /\ Listed(Tail(list)) = Listed(list) \ {Head(list)}
<1>1. Tail(list) \in Seq(S) /\ Len(Tail(list)) = Len(list) - 1
  OBVIOUS
<1>2. \A i \in DOMAIN Tail(list) : i + 1 \in DOMAIN list /\ Tail(list)[i] = list[i + 1]
  OBVIOUS
<1>3. Head(list) = list[1] /\ 1 \in DOMAIN list /\ Head(list) \in S
  OBVIOUS
<1>4. IsDistinct(Tail(list))
  BY <1>1, <1>2 DEF IsDistinct
<1>5. \A i \in DOMAIN list : i # 1 => i - 1 \in DOMAIN Tail(list) /\ Tail(list)[i - 1] = list[i]
  OBVIOUS
<1>6. Listed(Tail(list)) = Listed(list) \ {Head(list)}
  <2>1. ASSUME NEW x \in Listed(Tail(list)) PROVE x \in Listed(list) \ {Head(list)}
    <3>1. PICK i \in DOMAIN Tail(list) : x = Tail(list)[i]
      BY DEF Listed
    <3>2. i \in Nat \ {0} /\ i + 1 \in DOMAIN list /\ x = list[i + 1] /\ i + 1 # 1
      BY <1>1, <1>2, <3>1
    <3> QED
      BY <1>3, <3>2 DEF Listed, IsDistinct
  <2>2. ASSUME NEW x \in Listed(list) \ {Head(list)} PROVE x \in Listed(Tail(list))
    <3>1. PICK i \in DOMAIN list : x = list[i]
      BY DEF Listed
    <3>2. i # 1
      BY <1>3, <3>1
    <3> QED
      BY <1>5, <3>1, <3>2 DEF Listed
  <2> QED
    BY <2>1, <2>2
<1> QED
  BY <1>1, <1>2, <1>3, <1>4, <1>6

(* A sequence with one more element.                                       *)
LEMMA AppendFacts ==
  ASSUME NEW S, NEW list \in Seq(S), NEW x \in S, x \notin Listed(list), IsDistinct(list)
  PROVE  /\ Append(list, x) \in Seq(S) /\ Len(Append(list, x)) = Len(list) + 1
         /\ \A i \in DOMAIN list : i \in DOMAIN Append(list, x) /\ Append(list, x)[i] = list[i]
         /\ Len(list) + 1 \in DOMAIN Append(list, x) /\ Append(list, x)[Len(list) + 1] = x
         /\ DOMAIN Append(list, x) = (DOMAIN list) \cup {Len(list) + 1}
         /\ IsDistinct(Append(list, x))
         /\ Listed(Append(list, x)) = Listed(list) \cup {x}
<1>1. Append(list, x) \in Seq(S) /\ Len(Append(list, x)) = Len(list) + 1
  OBVIOUS
<1>2. \A i \in DOMAIN list : i \in DOMAIN Append(list, x) /\ Append(list, x)[i] = list[i]
  OBVIOUS
<1>3. Len(list) + 1 \in DOMAIN Append(list, x) /\ Append(list, x)[Len(list) + 1] = x
  OBVIOUS
<1>4. DOMAIN Append(list, x) = (DOMAIN list) \cup {Len(list) + 1}
  BY <1>1
<1>5. Listed(Append(list, x)) = Listed(list) \cup {x}
  BY <1>2, <1>3, <1>4 DEF Listed
<1>6. IsDistinct(Append(list, x))
  BY <1>2, <1>3, <1>4 DEF IsDistinct, Listed
<1> QED
  BY <1>1, <1>2, <1>3, <1>4, <1>5, <1>6

(* Before the first turn of the loop nothing is listed.                    *)
LEMMA InitInv == Init => IInv
<1> SUFFICES ASSUME Init PROVE IInv
  OBVIOUS
<1>1. Cardinality(Services) \in Nat
  BY ServicesAssumption, FS_CardinalityType
<1>2. TypeOK
  BY <1>1 DEF Init, TypeOK
<1>3. ordered = <<>> /\ DOMAIN ordered = {} /\ Listed(ordered) = {}
  BY DEF Init, Listed
<1>4. ListsInv
  BY <1>3 DEF Init, ListsInv, IsDistinct
<1>5. DependenciesInv
  BY <1>3 DEF Init, DependenciesInv
<1>6. CountInv
  <2>1. services \in Seq(Services) /\ count = 0
    BY <1>2 DEF Init, TypeOK
  <2>2. Len(services) \in Nat /\ DOMAIN services = 1..Len(services)
    BY <2>1
  <2> QED
    BY <2>1, <2>2 DEF CountInv
<1>7. OutcomeInv /\ RespectsDependencies
  BY <1>3 DEF Init, OutcomeInv, RespectsDependencies
<1> QED
  BY <1>2, <1>4, <1>5, <1>6, <1>7 DEF IInv

(* The service at the head is taken: all it depends on has been taken.     *)
LEMMA TakeInv == IInv /\ Take => IInv'
<1> SUFFICES ASSUME IInv, Take PROVE IInv'
  OBVIOUS
<1> DEFINE s == Head(services)
<1>1. services \in Seq(Services) /\ services # <<>> /\ IsDistinct(services)
      /\ ordered \in Seq(Services) /\ IsDistinct(ordered)
  BY DEF IInv, TypeOK, ListsInv, Take
<1>2. /\ s \in Services /\ s \in Listed(services) /\ s \notin Listed(ordered)
      /\ Tail(services) \in Seq(Services) /\ IsDistinct(Tail(services))
      /\ Listed(Tail(services)) = Listed(services) \ {s}
      /\ Len(Tail(services)) \in Nat
  <2>1. /\ s \in Services /\ 1 \in DOMAIN services /\ services[1] = s
        /\ Tail(services) \in Seq(Services) /\ IsDistinct(Tail(services))
        /\ Listed(Tail(services)) = Listed(services) \ {s}
    BY <1>1, TailFacts
  <2>2. s \in Listed(services)
    BY <2>1 DEF Listed
  <2>3. s \notin Listed(ordered)
    BY <2>2 DEF IInv, ListsInv
  <2> QED
    BY <2>1, <2>2, <2>3
<1>3. /\ ordered' = Append(ordered, s) /\ services' = Tail(services)
      /\ dependencies' = {d \in dependencies : d[2] # s}
      /\ count' = 0 /\ outcome' = outcome /\ given' = given /\ outcome = "sorting"
      /\ \A p \in Listed(Tail(services)) : <<s, p>> \notin dependencies
  BY DEF Take, _remove_deps, _is_independent
<1>4. /\ ordered' \in Seq(Services) /\ IsDistinct(ordered')
      /\ Listed(ordered') = Listed(ordered) \cup {s}
      /\ \A i \in DOMAIN ordered : i \in DOMAIN ordered' /\ ordered'[i] = ordered[i]
      /\ ordered'[Len(ordered) + 1] = s
      /\ DOMAIN ordered' = (DOMAIN ordered) \cup {Len(ordered) + 1}
  BY <1>1, <1>2, <1>3, AppendFacts
<1>5. TypeOK'
  BY <1>2, <1>3, <1>4 DEF IInv, TypeOK
<1>6. ListsInv'
  <2>1. IsDistinct(services)' /\ IsDistinct(ordered)'
    BY <1>2, <1>3, <1>4 DEF IsDistinct
  <2>2. Listed(services)' = Listed(services) \ {s} /\ Listed(ordered)' = Listed(ordered) \cup {s}
    <3>1. Listed(services') = Listed(services) \ {s}
      BY <1>2, <1>3
    <3>2. Listed(services)' = Listed(services') /\ Listed(ordered)' = Listed(ordered')
      BY DEF Listed
    <3> QED
      BY <3>1, <3>2, <1>4
  <2> QED
    BY <2>1, <2>2, <1>2 DEF IInv, ListsInv
<1>7. DependenciesInv'
  BY <1>3, <1>4 DEF IInv, DependenciesInv
<1>8. CountInv' /\ OutcomeInv'
  BY <1>2, <1>3 DEF CountInv, OutcomeInv
<1>9. RespectsDependencies'
  <2> SUFFICES ASSUME NEW i \in DOMAIN ordered', NEW p \in Services,
                      <<ordered'[i], p>> \in given, p # ordered'[i]
               PROVE  \E j \in DOMAIN ordered' : j < i /\ ordered'[j] = p
    BY <1>3 DEF RespectsDependencies
  <2>1. CASE i \in DOMAIN ordered
    BY <2>1, <1>4 DEF IInv, RespectsDependencies
  <2>2. CASE i = Len(ordered) + 1
    <3>1. p \notin Listed(Tail(services)) \/ p \in Listed(ordered)
      BY <2>2, <1>3, <1>4 DEF IInv, DependenciesInv
    <3>2. p \in Listed(ordered)
      BY <2>2, <3>1, <1>2, <1>4 DEF IInv, ListsInv
    <3>3. PICK j \in DOMAIN ordered : ordered[j] = p
      BY <3>2 DEF Listed
    <3>4. j < i
      BY <2>2, <3>3, <1>1
    <3> QED
      BY <3>3, <3>4, <1>4
  <2> QED
    BY <2>1, <2>2, <1>4
<1> QED
  BY <1>5, <1>6, <1>7, <1>8, <1>9 DEF IInv

(* The service at the head depends on one that is left, and goes to the    *)
(* end; the places of the others move up by one.                           *)
LEMMA PutBackInv == IInv /\ PutBack => IInv'
<1> SUFFICES ASSUME IInv, PutBack PROVE IInv'
  OBVIOUS
<1> DEFINE s == Head(services)
           rest == Tail(services)
           n == Len(services)
<1>1. services \in Seq(Services) /\ services # <<>> /\ IsDistinct(services)
  BY DEF IInv, TypeOK, ListsInv, PutBack
<1>2. /\ s \in Services /\ 1 \in DOMAIN services /\ services[1] = s
      /\ rest \in Seq(Services) /\ IsDistinct(rest) /\ Len(rest) = n - 1
      /\ Listed(rest) = Listed(services) \ {s}
      /\ \A i \in DOMAIN rest : i + 1 \in DOMAIN services /\ rest[i] = services[i + 1]
  BY <1>1, TailFacts
<1>3. /\ services' = Append(rest, s) /\ count' = count + 1 /\ count + 1 <= n
      /\ dependencies' = dependencies /\ ordered' = ordered
      /\ outcome' = outcome /\ given' = given /\ outcome = "sorting"
      /\ \E p \in Listed(rest) : <<s, p>> \in dependencies
  <2>1. n \in Nat /\ count \in Nat
    BY <1>1 DEF IInv, TypeOK
  <2> QED
    BY <2>1 DEF PutBack, _is_independent, TooMany
<1>4. /\ services' \in Seq(Services) /\ Len(services') = n /\ n \in Nat
      /\ \A i \in DOMAIN rest : i \in DOMAIN services' /\ services'[i] = rest[i]
      /\ n \in DOMAIN services' /\ services'[n] = s
      /\ DOMAIN services' = (DOMAIN rest) \cup {n}
      /\ IsDistinct(services') /\ Listed(services') = Listed(services)
  <2>1. s \notin Listed(rest) /\ s \in Listed(services)
    BY <1>2 DEF Listed
  <2>2. Len(rest) + 1 = n /\ n \in Nat
    BY <1>1, <1>2
  <2> HIDE DEF s, rest, n
  <2>3. /\ services' \in Seq(Services) /\ Len(services') = n
        /\ \A i \in DOMAIN rest : i \in DOMAIN services' /\ services'[i] = rest[i]
        /\ n \in DOMAIN services' /\ services'[n] = s
        /\ DOMAIN services' = (DOMAIN rest) \cup {n}
        /\ IsDistinct(services') /\ Listed(services') = Listed(rest) \cup {s}
    BY <1>2, <1>3, <2>1, <2>2, AppendFacts
  <2> QED
    BY <1>2, <2>1, <2>2, <2>3
<1>5. TypeOK' /\ ListsInv' /\ DependenciesInv' /\ OutcomeInv' /\ RespectsDependencies'
  <2>1. TypeOK'
    BY <1>3, <1>4 DEF IInv, TypeOK
  <2>2. ListsInv'
    BY <1>3, <1>4 DEF IInv, ListsInv
  <2> QED
    BY <2>1, <2>2, <1>3 DEF IInv, DependenciesInv, OutcomeInv, RespectsDependencies
<1>6. CountInv'
  <2>1. ASSUME NEW i \in DOMAIN services', i > n - (count + 1)
        PROVE  \E j \in DOMAIN services' : j # i /\ <<services'[i], services'[j]>> \in given
    <3>1. CASE i = n
      <4>1. PICK p \in Listed(rest) : <<s, p>> \in dependencies
        BY <1>3
      <4>2. PICK j \in DOMAIN rest : rest[j] = p
        BY DEF Listed
      <4>3. j \in DOMAIN services' /\ services'[j] = p /\ j # n
        BY <4>2, <1>2, <1>4
      <4> QED
        BY <3>1, <4>1, <4>3, <1>4 DEF IInv, DependenciesInv
    <3>2. CASE i # n
      <4>1. i \in DOMAIN rest /\ i \in Nat
        BY <3>2, <1>2, <1>4
      <4>2. i + 1 \in DOMAIN services /\ services'[i] = services[i + 1]
        BY <4>1, <1>2, <1>4
      <4>3. i + 1 > n - count
        BY <2>1, <4>1, <1>4 DEF IInv, TypeOK
      <4>4. PICK j \in DOMAIN services :
              j # i + 1 /\ <<services[i + 1], services[j]>> \in given
        BY <4>2, <4>3 DEF IInv, CountInv
      <4>5. CASE j = 1
        BY <4>2, <4>4, <4>5, <3>2, <1>2, <1>4
      <4>6. CASE j # 1
        <5>1. j - 1 \in DOMAIN rest /\ (j - 1) + 1 = j
          BY <4>6, <1>1, <1>2
        <5>2. services'[j - 1] = services[j] /\ j - 1 \in DOMAIN services' /\ j - 1 # i
          BY <5>1, <4>1, <4>4, <1>2, <1>4
        <5> QED
          BY <5>2, <4>2, <4>4
      <4> QED
        BY <4>5, <4>6
    <3> QED
      BY <3>1, <3>2
  <2> QED
    BY <2>1, <1>3, <1>4 DEF CountInv
<1> QED
  BY <1>5, <1>6 DEF IInv

(* Every turn of the loop keeps the invariant.                             *)
LEMMA NextInv == IInv /\ [Next]_vars => IInv'
<1> SUFFICES ASSUME IInv, [Next]_vars PROVE IInv'
  OBVIOUS
<1>1. CASE Take
  BY <1>1, TakeInv
<1>2. CASE PutBack
  BY <1>2, PutBackInv
<1>3. CASE Raise
  <2>1. count = Len(services)
    BY <1>3 DEF Raise, TooMany, IInv, TypeOK, CountInv
  <2> QED
    BY <1>3, <2>1 DEF Raise, IInv, TypeOK, ListsInv, DependenciesInv, CountInv, OutcomeInv,
                      RespectsDependencies
<1>4. CASE Return
  BY <1>4 DEF Return, IInv, TypeOK, ListsInv, DependenciesInv, CountInv, OutcomeInv,
              RespectsDependencies
<1>5. CASE UNCHANGED vars
  BY <1>5 DEF vars, IInv, TypeOK, ListsInv, DependenciesInv, CountInv, OutcomeInv,
              RespectsDependencies
<1> QED
  BY <1>1, <1>2, <1>3, <1>4, <1>5 DEF Next

(* The invariant that the loop of _order() keeps.                          *)
THEOREM Invariant == Spec => []IInv
<1>1. Init => IInv
  BY InitInv
<1>2. IInv /\ [Next]_vars => IInv'
  BY NextInv
<1> QED
  BY <1>1, <1>2, PTL DEF Spec

(* Whatever the services and the dependencies, each service that _order()  *)
(* lists comes after all the others it depends on.                         *)
THEOREM OrderRespectsDependencies == Spec => []RespectsDependencies
<1>1. IInv => RespectsDependencies
  BY DEF IInv
<1> QED
  BY <1>1, Invariant, PTL

(* No service is lost on the way and none is listed twice.                 *)
THEOREM OrderIsComplete == Spec => []ReturnsAll
<1>1. IInv => ReturnsAll
  <2> SUFFICES ASSUME IInv, outcome = "returned"
               PROVE  IsDistinct(ordered) /\ Listed(ordered) = Services
    BY DEF ReturnsAll
  <2>1. Listed(services) = {}
    BY DEF IInv, OutcomeInv, Listed
  <2> QED
    BY <2>1 DEF IInv, ListsInv
<1> QED
  BY <1>1, Invariant, PTL

(* When it raises, the services left in its list form a cycle: each of     *)
(* them depends on another of them.                                        *)
THEOREM RaisesAreJustified == Spec => []RaisesOnlyOnCycle
<1>1. IInv => RaisesOnlyOnCycle
  <2> SUFFICES ASSUME IInv, outcome = "raised" PROVE IsCyclic
    BY DEF RaisesOnlyOnCycle
  <2>1. services \in Seq(Services) /\ services # <<>> /\ count = Len(services)
    BY DEF IInv, TypeOK, OutcomeInv
  <2>2. Listed(services) \in SUBSET Services /\ Listed(services) # {}
    BY <2>1 DEF Listed
  <2>3. ASSUME NEW s \in Listed(services)
        PROVE  \E p \in Listed(services) : p # s /\ <<s, p>> \in given
    <3>1. PICK i \in DOMAIN services : s = services[i]
      BY DEF Listed
    <3>2. i > Len(services) - count
      BY <2>1
    <3>3. PICK j \in DOMAIN services : j # i /\ <<services[i], services[j]>> \in given
      BY <3>2 DEF IInv, CountInv
    <3> QED
      BY <3>1, <3>3 DEF IInv, ListsInv, IsDistinct, Listed
  <2> QED
    BY <2>2, <2>3 DEF IsCyclic
<1> QED
  BY <1>1, Invariant, PTL

(* How many turns the loop has left at most: as a service is taken the     *)
(* count starts again, but with one service less.                          *)
TurnsLeft == Len(services) * Len(services) + Len(services) - count
             + IF outcome = "sorting" THEN 1 ELSE 0

(* Every turn uses one up, so the loop comes to an end: with n services    *)
(* after n * n + n + 1 turns at most, whether or not there is an order.    *)
(* What SortEnds says beyond this is that the turns are taken.             *)
THEOREM TurnsAreBounded ==
  Spec => [](TurnsLeft \in Nat) /\ [][TurnsLeft' < TurnsLeft]_vars
<1> DEFINE n == Len(services)
<1>1. ASSUME IInv
      PROVE  n \in Nat /\ count \in Nat /\ count <= n /\ TurnsLeft \in Nat
  <2>1. n \in Nat /\ count \in Nat /\ count <= n
    BY <1>1 DEF IInv, TypeOK, CountInv
  <2>2. n * n \in Nat
    BY <2>1
  <2> QED
    BY <2>1, <2>2 DEF TurnsLeft
<1>2. ASSUME IInv, Next
      PROVE  TurnsLeft' < TurnsLeft
  <2>1. n \in Nat /\ count \in Nat /\ count <= n /\ services \in Seq(Services)
    BY <1>1, <1>2 DEF IInv, TypeOK
  <2>2. CASE Take
    <3>1. /\ Len(services') = n - 1 /\ count' = 0 /\ count < n
          /\ outcome' = "sorting" /\ outcome = "sorting"
      BY <2>1, <2>2 DEF Take, TooMany
    <3>2. (n - 1) * (n - 1) = n * n - n - n + 1 /\ n * n \in Nat
      BY <2>1
    <3> QED
      BY <2>1, <3>1, <3>2 DEF TurnsLeft
  <2>3. CASE PutBack
    <3>1. /\ Len(services') = n /\ count' = count + 1
          /\ outcome' = "sorting" /\ outcome = "sorting"
      BY <2>1, <2>3 DEF PutBack
    <3>2. n * n \in Nat
      BY <2>1
    <3> QED
      BY <2>1, <3>1, <3>2 DEF TurnsLeft
  <2>4. CASE Raise \/ Return
    <3>1. /\ services' = services /\ count' = count
          /\ outcome' # "sorting" /\ outcome = "sorting"
      BY <2>4 DEF Raise, Return
    <3>2. n * n \in Nat
      BY <2>1
    <3> QED
      BY <2>1, <3>1, <3>2 DEF TurnsLeft
  <2> QED
    BY <1>2, <2>2, <2>3, <2>4 DEF Next
<1>3. IInv => TurnsLeft \in Nat
  BY <1>1
<1>4. IInv /\ [Next]_vars => [TurnsLeft' < TurnsLeft]_vars
  BY <1>2
<1> QED
  BY <1>3, <1>4, Invariant, PTL DEF Spec
=============================================================================

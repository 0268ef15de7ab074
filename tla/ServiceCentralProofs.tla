------------------------ MODULE ServiceCentralProofs ------------------------
(***************************************************************************)
(* Theorems about Service Central, for any services, dependencies between  *)
(* them, threads and exceptions.                                           *)
(***************************************************************************)
EXTENDS ServiceCentral, SequenceTheorems, TLAPS

USE OrderAssumption, BoundsAssumption, NoneAssumption

-----------------------------------------------------------------------------
(* What is left of a list when one place is taken out ...                  *)
LEMMA TakenOutAt ==
  ASSUME NEW S, NEW s \in Seq(S), NEW k \in 1..Len(s)
  PROVE  /\ RemoveAt(s, k) \in Seq(S) /\ Len(RemoveAt(s, k)) = Len(s) - 1
         /\ \A i \in 1..Len(s) - 1 :
              RemoveAt(s, k)[i] = IF i < k THEN s[i] ELSE s[i + 1]
<1> DEFINE a == SubSeq(s, 1, k - 1)
           b == SubSeq(s, k + 1, Len(s))
<1>1. a \in Seq(S) /\ Len(a) = k - 1 /\ \A i \in 1..k - 1 : a[i] = s[i]
  OBVIOUS
<1>2. b \in Seq(S) /\ Len(b) = Len(s) - k /\ \A i \in 1..Len(s) - k : b[i] = s[k + i]
  OBVIOUS
<1>3. RemoveAt(s, k) = a \o b
  BY DEF RemoveAt
<1>4. Len(s) \in Nat /\ k \in 1..Len(s)
  OBVIOUS
<1> HIDE DEF a, b
<1>5. /\ a \o b \in Seq(S) /\ Len(a \o b) = Len(a) + Len(b)
      /\ \A i \in 1..Len(a) + Len(b) : (a \o b)[i] = IF i <= Len(a) THEN a[i] ELSE b[i - Len(a)]
  BY ONLY <1>1, <1>2, ConcatProperties
<1>6. ASSUME NEW i \in 1..Len(s) - 1
      PROVE  (a \o b)[i] = IF i < k THEN s[i] ELSE s[i + 1]
  <2>1. i \in 1..Len(a) + Len(b)
    BY <1>1, <1>2, <1>4
  <2>2. (a \o b)[i] = IF i <= k - 1 THEN a[i] ELSE b[i - (k - 1)]
    BY ONLY <1>1, <1>5, <2>1, Zenon
  <2>3. CASE i < k
    <3>1. i <= k - 1 /\ a[i] = s[i]
      BY <1>1, <1>4, <2>3
    <3> QED
      BY ONLY <2>2, <2>3, <3>1, Zenon
  <2>4. CASE ~(i < k)
    <3>1. ~(i <= k - 1) /\ i - (k - 1) \in 1..Len(s) - k /\ k + (i - (k - 1)) = i + 1
      BY <1>4, <2>4
    <3>2. b[i - (k - 1)] = s[k + (i - (k - 1))]
      BY ONLY <1>2, <3>1, Zenon
    <3>3. b[i - (k - 1)] = s[i + 1]
      BY ONLY <3>1, <3>2, Zenon
    <3> QED
      BY ONLY <2>2, <2>4, <3>1, <3>3, Zenon
  <2> QED
    BY <2>3, <2>4
<1>7. Len(a) + Len(b) = Len(s) - 1
  BY <1>1, <1>2, <1>4
<1> QED
  BY ONLY <1>3, <1>5, <1>6, <1>7, Zenon

(* ... if nothing is twice in it.                                          *)
LEMMA TakenOut ==
  ASSUME NEW S, NEW s \in Seq(S), NEW k \in 1..Len(s), Distinct(s)
  PROVE  /\ RemoveAt(s, k) \in Seq(S) /\ ToSet(RemoveAt(s, k)) = ToSet(s) \ {s[k]}
         /\ Distinct(RemoveAt(s, k))
<1> DEFINE r == RemoveAt(s, k)
           n == Len(s)
<1>1. n \in Nat /\ DOMAIN s = 1..n
  BY LenProperties, Zenon
<1>2. /\ r \in Seq(S) /\ Len(r) = n - 1
      /\ \A i \in 1..n - 1 : r[i] = IF i < k THEN s[i] ELSE s[i + 1]
  BY TakenOutAt
<1>3. DOMAIN r = 1..n - 1
  BY <1>2, LenProperties, Zenon
<1>4. \A i, j \in 1..n : s[i] = s[j] => i = j
  BY <1>1 DEF Distinct
<1>0. k \in 1..n
  OBVIOUS
<1> HIDE DEF r, n
<1>5. ASSUME NEW i \in 1..n - 1
      PROVE  \E j \in 1..n : j # k /\ r[i] = s[j]
  <2>1. CASE i < k
    BY <1>0, <1>1, <1>2, <2>1
  <2>2. CASE ~(i < k)
    BY <1>0, <1>1, <1>2, <2>2
  <2> QED
    BY <2>1, <2>2
<1>6. ASSUME NEW j \in 1..n, j # k
      PROVE  \E i \in 1..n - 1 : r[i] = s[j]
  <2>1. CASE j < k
    <3>1. j \in 1..n - 1
      BY <1>0, <1>1, <2>1
    <3> QED
      BY <1>2, <2>1, <3>1
  <2>2. CASE j > k
    <3>1. j - 1 \in 1..n - 1 /\ ~(j - 1 < k) /\ (j - 1) + 1 = j
      BY <1>0, <1>1, <2>2
    <3> QED
      BY <1>2, <3>1
  <2> QED
    BY <1>0, <1>1, <1>6, <2>1, <2>2
<1>7. ToSet(r) = ToSet(s) \ {s[k]}
  <2>1. ToSet(r) = {r[i] : i \in 1..n - 1} /\ ToSet(s) = {s[i] : i \in 1..n}
    BY <1>1, <1>3 DEF ToSet
  <2> QED
    BY <1>0, <1>4, <1>5, <1>6, <2>1
<1>8. ASSUME NEW i \in 1..n - 1, NEW j \in 1..n - 1, r[i] = r[j]
      PROVE  i = j
  <2>1. /\ i \in 1..n /\ i + 1 \in 1..n /\ j \in 1..n /\ j + 1 \in 1..n
        /\ i \in Int /\ j \in Int /\ k \in Int
    BY <1>0, <1>1
  <2> DEFINE at(l) == IF l < k THEN l ELSE l + 1
  <2>2. at(i) \in 1..n /\ at(j) \in 1..n
    BY <2>1
  <2>3. r[i] = s[at(i)] /\ r[j] = s[at(j)]
    BY <1>2
  <2>4. at(i) = at(j)
    BY ONLY <1>4, <1>8, <2>2, <2>3, Zenon
  <2> QED
    BY <2>1, <2>4
<1> QED
  BY <1>2, <1>3, <1>7, <1>8 DEF r, Distinct

(* list.remove() of a thread that is listed once.                          *)
LEMMA Removed ==
  ASSUME threads \in Seq(Threads), NEW t \in ToSet(threads), Distinct(threads)
  PROVE  /\ Without(t) \in Seq(Threads) /\ ToSet(Without(t)) = ToSet(threads) \ {t}
         /\ Distinct(Without(t))
<1> DEFINE k == CHOOSE i \in DOMAIN threads : threads[i] = t
<1>1. k \in DOMAIN threads /\ threads[k] = t
  BY DEF ToSet
<1>2. k \in 1..Len(threads)
  BY <1>1, LenProperties
<1>3. Without(t) = RemoveAt(threads, k)
  BY DEF Without
<1> HIDE DEF k
<1>4. /\ RemoveAt(threads, k) \in Seq(Threads)
      /\ ToSet(RemoveAt(threads, k)) = ToSet(threads) \ {threads[k]}
      /\ Distinct(RemoveAt(threads, k))
  BY <1>2, TakenOut, Zenon
<1> QED
  BY <1>1, <1>3, <1>4, Zenon

(* list.append() of a thread that is not listed.                           *)
LEMMA Appended ==
  ASSUME NEW s \in Seq(Threads), NEW t \in Threads, t \notin ToSet(s), Distinct(s)
  PROVE  /\ Append(s, t) \in Seq(Threads) /\ ToSet(Append(s, t)) = ToSet(s) \cup {t}
         /\ Distinct(Append(s, t))
<1> DEFINE r == Append(s, t)
           n == Len(s)
<1>1. n \in Nat /\ DOMAIN s = 1..n
  BY LenProperties, Zenon
<1>2. /\ r \in Seq(Threads) /\ Len(r) = n + 1
      /\ r[n + 1] = t /\ \A i \in 1..n : r[i] = s[i]
  OBVIOUS
<1>3. DOMAIN r = 1..n + 1
  BY <1>2, LenProperties, Zenon
<1> HIDE DEF r, n
<1>4. 1..n + 1 = (1..n) \cup {n + 1}
  BY <1>1
<1>5. ToSet(r) = ToSet(s) \cup {t}
  <2>1. ToSet(r) = {r[i] : i \in 1..n + 1} /\ ToSet(s) = {s[i] : i \in 1..n}
    BY <1>1, <1>3 DEF ToSet
  <2>2. n + 1 \in 1..n + 1 /\ \A i \in 1..n : i \in 1..n + 1
    BY <1>1
  <2>3. ASSUME NEW i \in 1..n + 1
        PROVE  r[i] \in ToSet(s) \cup {t}
    <3>1. i \in 1..n \/ i = n + 1
      BY <1>4
    <3>2. i \in 1..n => s[i] \in ToSet(s)
      BY <2>1
    <3> QED
      BY <1>2, <3>1, <3>2
  <2>4. \A x \in ToSet(s) : x \in ToSet(r)
    BY <1>2, <2>1, <2>2
  <2>5. t \in ToSet(r)
    BY <1>2, <2>1, <2>2
  <2>6. ToSet(r) \subseteq ToSet(s) \cup {t}
    BY <2>1, <2>3
  <2> QED
    BY <2>4, <2>5, <2>6
<1>6. \A i \in 1..n : r[i] # t /\ r[i] = s[i]
  BY <1>1, <1>2 DEF ToSet
<1>7. Distinct(r)
  BY <1>1, <1>2, <1>3, <1>4, <1>6 DEF Distinct
<1> QED
  BY <1>2, <1>5, <1>7 DEF r

(* The head and the rest of a list of threads.                             *)
LEMMA HeadAndTail ==
  ASSUME NEW S, NEW s \in Seq(S), s # << >>
  PROVE  /\ Head(s) = s[1] /\ 1 \in DOMAIN s /\ Head(s) \in S /\ Tail(s) \in Seq(S)
         /\ \A i \in DOMAIN Tail(s) : i + 1 \in DOMAIN s /\ Tail(s)[i] = s[i + 1]
OBVIOUS

(* The services that are left to start.                                    *)
LEMMA LeftToStart ==
  ASSUME NEW n \in 0..Len(Order)
  PROVE  LET l == SubSeq(Order, n + 1, Len(Order)) IN
         /\ l = << >> => n = Len(Order)
         /\ l # << >> => /\ n + 1 \in 1..Len(Order) /\ Order[n + 1] \in Services
                         /\ Head(l) = Order[n + 1]
                         /\ Tail(l) = SubSeq(Order, (n + 1) + 1, Len(Order))
<1> DEFINE l == SubSeq(Order, n + 1, Len(Order))
<1>1. Order \in Seq(Services) /\ Len(Order) \in Nat /\ n \in Nat /\ n <= Len(Order)
  BY LenProperties
<1>2. ASSUME n = Len(Order) PROVE l = << >>
  <2>1. n + 1 \in Int /\ Len(Order) \in Int /\ Len(Order) < n + 1
    BY <1>1, <1>2
  <2> QED
    BY ONLY <2>1, SubSeqEmpty, Zenon
<1>3. ASSUME n < Len(Order)
      PROVE  /\ l # << >> /\ n + 1 \in 1..Len(Order) /\ Order[n + 1] \in Services
             /\ Head(l) = Order[n + 1] /\ Tail(l) = SubSeq(Order, (n + 1) + 1, Len(Order))
  <2>1. n + 1 \in 1..Len(Order) /\ Len(Order) \in n + 1..Len(Order)
    BY <1>1, <1>3
  <2>2. Head(l) = Order[n + 1] /\ Tail(l) = SubSeq(Order, (n + 1) + 1, Len(Order))
    BY ONLY <1>1, <2>1, HeadTailOfSubSeq, Zenon
  <2>3. Order[n + 1] \in Services
    BY ONLY <1>1, <2>1, ElementOfSeq, Zenon
  <2>4. l # << >>
    <3>1. /\ n + 1 \in Int /\ Len(Order) \in Int /\ n + 1 <= Len(Order)
          /\ Len(Order) - (n + 1) + 1 > 0
      BY <1>1, <1>3
    <3>2. \A i \in n + 1..Len(Order) : i \in 1..Len(Order)
      BY <1>1
    <3>3. \A i \in n + 1..Len(Order) : Order[i] \in Services
      BY ONLY <1>1, <3>2, ElementOfSeq, Zenon
    <3>4. Len(l) = Len(Order) - (n + 1) + 1
      BY ONLY <3>1, <3>3, SubSeqProperties, Zenon
    <3>5. Len(<< >>) = 0
      OBVIOUS
    <3> HIDE DEF l
    <3>6. Len(Order) - (n + 1) + 1 # 0
      BY <1>1, <1>3
    <3> QED
      BY ONLY <3>4, <3>5, <3>6, Zenon
  <2> QED
    BY <2>1, <2>2, <2>3, <2>4
<1>4. n = Len(Order) \/ n < Len(Order)
  BY <1>1
<1>5. CASE l = << >>
  BY <1>2, <1>3, <1>4, <1>5, Zenon
<1>6. CASE l # << >>
  BY <1>2, <1>3, <1>4, <1>6, Zenon
<1> QED
  BY <1>5, <1>6, Zenon
-----------------------------------------------------------------------------
(* At first nothing has been started, and everything is left.              *)
LEMMA InitInv == Init => IInv
<1> SUFFICES ASSUME Init PROVE IInv
  OBVIOUS
<1>1. Order \in Seq(Services) /\ Len(Order) \in Nat /\ 0 \in 0..Len(Order)
  BY LenProperties
<1>2. TypeOK
  <2>1. todo \in Seq(Services \cup Threads)
    BY <1>1, SeqMonotonic, Zenon DEF Init
  <2>2. threads \in Seq(Threads) /\ qtodo \in Seq(Threads)
    BY EmptySeq DEF Init
  <2>3. 0 \in 0..MaxDeaths /\ 0 \in 0..MaxFailures
    OBVIOUS
  <2> QED
    BY <2>1, <2>2, <2>3 DEF Init, TypeOK
<1>3. Started(0)
  <2>1. SubSeq(Order, 0 + 1, Len(Order)) = Order
    BY <1>1, SubSeqFull
  <2>2. \A t \in Threads : ~Made(t)
    BY DEF Init, Made
  <2>3. 1..0 = {}
    OBVIOUS
  <2> QED
    BY <2>1, <2>2, <2>3 DEF Init, Started
<1>4. InOrder
  BY <1>1, <1>3 DEF Init, InOrder
<1>5. ListsOK
  BY DEF Init, ListsOK, Distinct, Made
<1>6. OnePresent
  BY DEF Init, OnePresent, Present, Running, ToSet
<1> QED
  BY <1>2, <1>4, <1>5, <1>6 DEF IInv

(* A thread that is made has a service; one that is present was made.      *)
LEMMA PresentIsMade ==
  ASSUME IInv, NEW t \in Threads, Present(t)
  PROVE  Made(t) /\ service_of[t] \in Services
BY DEF IInv, ListsOK, Present, Running, Made, ToSet

-----------------------------------------------------------------------------
(* A step of a service's thread: it may end, and a flag may be raised.     *)
LEMMA ThreadStep ==
  ASSUME IInv, NEW t \in Threads, step[t] \in {"init", "test", "loop"},
         NEW x \in {"test", "loop", "dead"}, step' = [step EXCEPT ![t] = x],
         alive' \in {alive, [alive EXCEPT ![service_of[t]] = TRUE]},
         UNCHANGED <<centralVars, executorVars, quitVars>>,
         deaths' \in 0..MaxDeaths, failures' \in 0..MaxFailures
  PROVE  IInv'
<1>1. /\ pc' = pc /\ todo' = todo /\ current' = current /\ central' = central
      /\ threads' = threads /\ service_of' = service_of
      /\ qpc' = qpc /\ qtodo' = qtodo /\ stopped' = stopped
  BY DEF centralVars, executorVars, quitVars
<1>2. service_of[t] \in Services
  BY DEF IInv, ListsOK, Made
<1>3. alive' \in [Services -> BOOLEAN] /\ \A s \in Services : alive[s] => alive'[s]
  <2>1. alive \in [Services -> BOOLEAN]
    BY DEF IInv, TypeOK
  <2>2. CASE alive' = alive
    BY <2>1, <2>2
  <2>3. CASE alive' = [alive EXCEPT ![service_of[t]] = TRUE]
    BY <1>2, <2>1, <2>3
  <2> QED
    BY <2>2, <2>3
<1>4. /\ step' \in [Threads -> {"none", "init", "test", "loop", "dead"}]
      /\ \A u \in Threads : /\ Made(u)' <=> Made(u)
                            /\ Present(u)' => Present(u)
                            /\ Dead(u) => Dead(u)'
  BY <1>1 DEF IInv, TypeOK, Made, Present, Running, Dead
<1>5. TypeOK'
  BY <1>1, <1>3, <1>4 DEF IInv, TypeOK
<1>6. InOrder'
  <2>1. CASE pc \in {"start", "starting"}
    <3>1. PICK n \in 0..Len(Order) : Started(n)
      BY <2>1 DEF IInv, InOrder
    <3>2. \A i \in 1..n : Order[i] \in Services
      BY ElementOfSeq
    <3>3. Started(n)'
      BY <1>1, <1>3, <1>4, <3>1, <3>2 DEF Started
    <3> QED
      BY <1>1, <2>1, <3>3 DEF InOrder
  <2>2. CASE pc \notin {"start", "starting"}
    BY <1>1, <1>3, <1>4, <2>2 DEF IInv, InOrder
  <2> QED
    BY <2>1, <2>2
<1>7. ListsOK'
  <2>1. threads \in Seq(Threads) /\ qtodo \in Seq(Threads)
    BY DEF IInv, TypeOK
  <2>2. /\ \A i \in DOMAIN threads : threads[i] \in Threads
        /\ \A i \in DOMAIN qtodo : qtodo[i] \in Threads
    BY <2>1
  <2>3. pc = "found" => current \in Threads
    BY DEF IInv, TypeOK
  <2> QED
    BY <1>1, <1>4, <2>2, <2>3 DEF IInv, ListsOK, Distinct
<1>8. OnePresent'
  BY <1>1, <1>4 DEF IInv, OnePresent
<1> QED
  BY <1>5, <1>6, <1>7, <1>8 DEF IInv

(* Each step of a service's thread is one of these.                        *)
LEMMA ServiceSteps ==
  ASSUME IInv, NEW t \in Threads, _exec(t) \/ InitRaises(t) \/ LoopRaises(t)
  PROVE  IInv'
<1>1. deaths \in 0..MaxDeaths /\ failures \in 0..MaxFailures
  BY DEF IInv, TypeOK
<1>0. MaxDeaths \in Nat /\ MaxFailures \in Nat
  OBVIOUS
<1>2. CASE InitReturns(t)
  BY <1>1, <1>2, ThreadStep DEF InitReturns, faults
<1>3. CASE InitRaises(t)
  <2>1. failures' \in 0..MaxFailures /\ deaths' \in 0..MaxDeaths
    BY <1>0, <1>1, <1>3 DEF InitRaises
  <2> QED
    BY <1>3, <2>1, ThreadStep DEF InitRaises
<1>4. CASE TestAlive(t)
  BY <1>1, <1>4, ThreadStep DEF TestAlive, faults
<1>5. CASE LoopAndWait(t)
  BY <1>1, <1>5, ThreadStep DEF LoopAndWait, faults
<1>6. CASE LoopRaises(t)
  <2>1. failures' \in 0..MaxFailures /\ deaths' \in 0..MaxDeaths
    BY <1>0, <1>1, <1>6 DEF LoopRaises
  <2> QED
    BY <1>6, <2>1, ThreadStep DEF LoopRaises
<1> QED
  BY <1>2, <1>3, <1>4, <1>5, <1>6 DEF _exec
-----------------------------------------------------------------------------
(* What a step of Service Central's thread, or of the one that quits,      *)
(* keeps if it starts no thread, takes at most a thread off the list, and  *)
(* clears flags only when the process quits.                               *)
Untouched == /\ UNCHANGED <<service_of, step, faults>>
             /\ alive' \in [Services -> BOOLEAN]
             /\ threads' \in Seq(Threads) /\ Distinct(threads')
             /\ ToSet(threads') \subseteq ToSet(threads)

LEMMA NoNewThread ==
  ASSUME IInv, Untouched
  PROVE  /\ OnePresent' /\ \A t \in Threads : Made(t)' <=> Made(t)
         /\ \A i \in DOMAIN threads' : Made(threads'[i])
         /\ Distinct(threads)'
         /\ \A t \in Threads : Made(t)' => service_of'[t] \in Services
<1>1. \A t \in Threads : (Made(t)' <=> Made(t)) /\ (Present(t)' => Present(t))
  BY DEF Untouched, Made, Present, Running
<1>2. OnePresent'
  BY <1>1 DEF IInv, OnePresent, Untouched
<1>3. \A i \in DOMAIN threads' : threads'[i] \in ToSet(threads)
  BY DEF Untouched, ToSet
<1>4. \A x \in ToSet(threads) : Made(x)
  BY DEF IInv, ListsOK, ToSet
<1> QED
  BY <1>1, <1>2, <1>3, <1>4 DEF IInv, ListsOK, Untouched, Distinct

(* What a step of Service Central's thread does not touch.                 *)
LEMMA CentralStep ==
  ASSUME IInv, UNCHANGED <<executorVars, serviceVars, quitVars, faults>>
  PROVE  /\ OnePresent'
         /\ \A t \in Threads : Made(t)' <=> Made(t)
         /\ (pc' = "found" => Dead(current)') => ListsOK'
<1>1. Untouched
  BY DEF Untouched, executorVars, serviceVars, IInv, TypeOK, ListsOK
<1>2. threads' = threads /\ qpc' = qpc /\ qtodo' = qtodo /\ service_of' = service_of /\ step' = step
  BY DEF executorVars, serviceVars, quitVars
<1>3. (pc' = "found" => Dead(current)') => ListsOK'
  BY <1>2 DEF IInv, ListsOK, Distinct, Made
<1> QED
  BY <1>1, <1>3, NoNewThread
(* The service that was started last has said that it is ready.            *)
LEMMA ServiceStartedStep == ASSUME IInv, ServiceStarted PROVE IInv'
<1>1. /\ UNCHANGED <<executorVars, serviceVars, quitVars, faults>>
      /\ pc = "starting" /\ pc' = "start" /\ current' = None
      /\ todo' = todo /\ central' = central /\ alive[current]
  BY DEF ServiceStarted, is_ready
<1>2. OnePresent' /\ ListsOK'
  BY <1>1, CentralStep
<1>3. TypeOK'
  BY <1>1 DEF IInv, TypeOK, executorVars, serviceVars, quitVars, faults
<1>4. InOrder'
  <2>1. PICK n \in 0..Len(Order) : Started(n)
    BY <1>1 DEF IInv, InOrder
  <2>2. Started(n)'
    BY <1>1, <2>1 DEF Started, Made, executorVars, serviceVars, quitVars
  <2> QED
    BY <1>1, <2>2 DEF InOrder
<1> QED
  BY <1>2, <1>3, <1>4 DEF IInv

(* The list is at its end, and every service is in it.                     *)
LEMMA AllStartedStep == ASSUME IInv, AllStarted PROVE IInv'
<1>1. /\ UNCHANGED <<executorVars, serviceVars, quitVars, faults>>
      /\ pc = "start" /\ pc' = "watch" /\ current' = current
      /\ todo = << >> /\ todo' = todo /\ central' = TRUE
  BY DEF AllStarted
<1>2. OnePresent' /\ ListsOK'
  BY <1>1, CentralStep
<1>3. TypeOK'
  BY <1>1 DEF IInv, TypeOK, executorVars, serviceVars, quitVars, faults
<1>4. InOrder'
  <2>1. PICK n \in 0..Len(Order) : Started(n)
    BY <1>1 DEF IInv, InOrder
  <2>2. n = Len(Order)
    BY <1>1, <2>1, LeftToStart DEF Started
  <2>3. \A s \in Services : \E i \in 1..n : Order[i] = s
    BY <2>2, LenProperties
  <2>4. qpc = "none" => \A s \in Services : alive[s]
    <3>1. qpc = "none" => \A i \in 1..n : alive[Order[i]]
      BY <1>1, <2>1 DEF Started
    <3>2. ASSUME qpc = "none", NEW s \in Services
          PROVE  alive[s]
      <4>1. PICK i \in 1..n : Order[i] = s
        BY <2>3
      <4>2. alive[Order[i]]
        BY <3>1, <3>2
      <4> QED
        BY <4>1, <4>2
    <3> QED
      BY <3>2
  <2> QED
    BY <1>1, <2>4 DEF InOrder, serviceVars, quitVars
<1> QED
  BY <1>2, <1>3, <1>4 DEF IInv

(* Service Central takes a copy of the list, or ends.                      *)
LEMMA WatchStep == ASSUME IInv, Watch PROVE IInv'
<1>1. /\ UNCHANGED <<executorVars, serviceVars, quitVars, faults>>
      /\ pc = "watch" /\ pc' \in {"check", "dead"} /\ current' = current
      /\ todo' \in {threads, todo} /\ central' \in BOOLEAN
  BY DEF Watch, IInv, TypeOK
<1>2. OnePresent' /\ ListsOK'
  BY <1>1, CentralStep
<1>3. threads \in Seq(Threads) /\ todo \in Seq(Services \cup Threads)
  BY DEF IInv, TypeOK
<1>4. TypeOK'
  <2>1. threads \in Seq(Services \cup Threads)
    BY <1>3, SeqMonotonic, Zenon
  <2> QED
    BY <1>1, <1>3, <2>1 DEF IInv, TypeOK, executorVars, serviceVars, quitVars, faults
<1>5. InOrder'
  <2>1. \A i \in DOMAIN threads : threads[i] \in Threads /\ Made(threads[i])
    BY <1>3 DEF IInv, ListsOK
  <2>2. \A i \in DOMAIN todo : todo[i] \in Threads /\ Made(todo[i])
    BY <1>1 DEF IInv, InOrder
  <2>3. \A t \in Threads : Made(t)' <=> Made(t)
    BY <1>1, CentralStep
  <2>4. \A i \in DOMAIN todo' : todo'[i] \in Threads /\ Made(todo[i])'
    BY <1>1, <2>1, <2>2, <2>3
  <2> QED
    BY <1>1, <2>4 DEF IInv, InOrder, serviceVars, quitVars
<1> QED
  BY <1>2, <1>4, <1>5 DEF IInv

(* The next thread of the copy is looked at.                               *)
LEMMA CheckThreadStep == ASSUME IInv, CheckThread PROVE IInv'
<1>1. /\ UNCHANGED <<executorVars, serviceVars, quitVars, faults>>
      /\ pc = "check" /\ todo # << >> /\ todo' = Tail(todo) /\ central' = central
  BY DEF CheckThread
<1>2. /\ Head(todo) = todo[1] /\ 1 \in DOMAIN todo /\ Tail(todo) \in Seq(Services \cup Threads)
      /\ \A i \in DOMAIN Tail(todo) : i + 1 \in DOMAIN todo /\ Tail(todo)[i] = todo[i + 1]
  <2>1. todo \in Seq(Services \cup Threads)
    BY DEF IInv, TypeOK
  <2> QED
    BY <1>1, <2>1, HeadAndTail
<1>3. /\ \A i \in DOMAIN todo : todo[i] \in Threads /\ Made(todo[i])
      /\ qpc = "none" => \A s \in Services : alive[s]
  BY <1>1 DEF IInv, InOrder
<1>4. Head(todo) \in Threads
  BY <1>2, <1>3
<1>5. \/ pc' = "found" /\ Dead(Head(todo)) /\ current' = Head(todo)
      \/ pc' = "check" /\ current' = current
  BY <1>1 DEF CheckThread
<1>6. OnePresent' /\ ListsOK' /\ \A t \in Threads : Made(t)' <=> Made(t)
  BY <1>1, <1>5, CentralStep DEF Dead, serviceVars
<1>7. TypeOK'
  BY <1>1, <1>2, <1>4, <1>5 DEF IInv, TypeOK, executorVars, serviceVars, quitVars, faults
<1>8. \A i \in DOMAIN todo' : todo'[i] \in Threads /\ Made(todo[i])'
  BY <1>1, <1>2, <1>3, <1>6
<1>9. InOrder'
  BY <1>1, <1>3, <1>5, <1>8 DEF InOrder, serviceVars, quitVars
<1> QED
  BY <1>6, <1>7, <1>9 DEF IInv

(* The walk ends, or goes on, or the exception ends it.                    *)
LEMMA CheckSteps == ASSUME IInv, ReviveRaises \/ Revived \/ CheckEnds PROVE IInv'
<1>1. /\ UNCHANGED <<executorVars, serviceVars, quitVars, faults>>
      /\ todo' = todo /\ central' = central
      /\ pc \notin {"start", "starting"} /\ pc' \notin {"start", "starting", "found"}
  BY DEF ReviveRaises, Revived, CheckEnds
<1>2. OnePresent' /\ ListsOK' /\ \A t \in Threads : Made(t)' <=> Made(t)
  BY <1>1, CentralStep
<1>3. /\ pc' \in {"crashed", "check", "watch"}
      /\ current' \in CASE pc' \in {"starting", "reviving"} -> Services
                        [] pc' \in {"found", "crashed"} -> Threads
                        [] OTHER -> {None}
  BY DEF ReviveRaises, Revived, CheckEnds, IInv, TypeOK
<1>4. TypeOK'
  BY <1>1, <1>3 DEF IInv, TypeOK, executorVars, serviceVars, quitVars, faults
<1>5. InOrder'
  BY <1>1, <1>2 DEF IInv, InOrder, serviceVars, quitVars
<1> QED
  BY <1>2, <1>4, <1>5 DEF IInv
-----------------------------------------------------------------------------
(* A thread that has not been made is in no list, and does not run.        *)
LEMMA FreshThread ==
  ASSUME IInv, NEW t \in Threads, IsFresh(t)
  PROVE  step[t] = "none" /\ ~Made(t) /\ ~Present(t) /\ t \notin ToSet(threads)
BY DEF IsFresh, Unmade, IInv, ListsOK, Present, Running, Made, ToSet

(* A new thread for a service that no other thread is present for, and is  *)
(* put on a list that holds some of the threads that were listed.          *)
LEMMA NewThread ==
  ASSUME IInv, NEW t \in Threads, NEW s \in Services,
         NEW list \in Seq(Threads), Distinct(list), ToSet(list) \subseteq ToSet(threads),
         \A u \in Threads : service_of[u] = s => ~Running(u) /\ u \notin ToSet(list),
         StartThread(t, s, list), UNCHANGED <<quitVars, faults>>, pc' # "found"
  PROVE  /\ OnePresent' /\ ListsOK'
         /\ threads' \in Seq(Threads)
         /\ service_of' = [service_of EXCEPT ![t] = s]
         /\ service_of' \in [Threads -> Services \cup {None}]
         /\ step' \in [Threads -> {"none", "init", "test", "loop", "dead"}]
         /\ alive' = alive /\ qpc' = qpc
         /\ \A u \in Threads : Made(u)' <=> Made(u) \/ u = t
<1>1. /\ IsFresh(t) /\ threads' = Append(list, t) /\ alive' = alive
      /\ service_of' = [service_of EXCEPT ![t] = s]
      /\ step' = [step EXCEPT ![t] = "init"]
      /\ qpc' = qpc /\ qtodo' = qtodo
  BY DEF StartThread, quitVars
<1>2. ~Made(t) /\ t \notin ToSet(threads)
  BY <1>1, FreshThread
<1>3. /\ threads' \in Seq(Threads) /\ ToSet(threads') = ToSet(list) \cup {t}
      /\ Distinct(threads')
  BY <1>1, <1>2, Appended
<1>4. /\ service_of \in [Threads -> Services \cup {None}]
      /\ step \in [Threads -> {"none", "init", "test", "loop", "dead"}]
      /\ qtodo \in Seq(Threads)
  BY DEF IInv, TypeOK
<1>5. /\ service_of' \in [Threads -> Services \cup {None}]
      /\ step' \in [Threads -> {"none", "init", "test", "loop", "dead"}]
      /\ service_of'[t] = s /\ step'[t] = "init"
      /\ \A u \in Threads \ {t} : service_of'[u] = service_of[u] /\ step'[u] = step[u]
  BY <1>1, <1>4
<1>6. \A u \in Threads : Made(u)' <=> Made(u) \/ u = t
  BY <1>5 DEF Made
<1>7. \A u \in Threads \ {t} : Present(u)' <=> Running(u) \/ u \in ToSet(list)
  BY <1>3, <1>5 DEF Present, Running
<1>8. OnePresent'
  <2> SUFFICES ASSUME NEW u \in Threads, NEW v \in Threads, Present(u)', Present(v)',
                      service_of'[u] = service_of'[v]
               PROVE  u = v
    BY DEF OnePresent
  <2>1. CASE u = t
    BY <1>5, <1>7, <2>1
  <2>2. CASE v = t
    BY <1>5, <1>7, <2>2
  <2>3. CASE u # t /\ v # t
    <3>1. Present(u) /\ Present(v)
      BY <1>7, <2>3 DEF Present
    <3> QED
      BY <1>5, <2>3, <3>1 DEF IInv, OnePresent
  <2> QED
    BY <2>1, <2>2, <2>3
<1>9. ListsOK'
  <2>1. \A x \in ToSet(threads) : x \in Threads /\ Made(x)
    BY DEF IInv, TypeOK, ListsOK, ToSet
  <2>2. \A x \in ToSet(threads') : x \in Threads /\ Made(x)'
    BY <1>3, <1>6, <2>1
  <2>3. \A i \in DOMAIN threads' : threads'[i] \in ToSet(threads')
    BY DEF ToSet
  <2>4. \A i \in DOMAIN threads' : Made(threads[i])'
    BY <2>2, <2>3
  <2>5. \A i \in DOMAIN qtodo : qtodo[i] \in Threads /\ Made(qtodo[i])
    BY <1>4 DEF IInv, ListsOK
  <2>6. \A i \in DOMAIN qtodo' : Made(qtodo[i])'
    BY <1>1, <1>6, <2>5
  <2>7. \A u \in Threads : Made(u)' => service_of'[u] \in Services
    BY <1>5, <1>6 DEF IInv, ListsOK
  <2>8. Distinct(threads)'
    BY <1>3 DEF Distinct
  <2> QED
    BY <1>1, <2>4, <2>6, <2>7, <2>8 DEF IInv, ListsOK
<1> QED
  BY <1>1, <1>3, <1>5, <1>6, <1>8, <1>9

(* The next service in order is started: none of those before it is it.    *)
LEMMA StartServiceStep == ASSUME IInv, StartService PROVE IInv'
<1>1. /\ pc = "start" /\ pc' = "starting" /\ todo # << >> /\ todo' = Tail(todo)
      /\ current' = Head(todo) /\ central' = central /\ UNCHANGED <<quitVars, faults>>
  BY DEF StartService
<1>2. PICK t \in Threads : StartThread(t, Head(todo), threads)
  BY DEF StartService
<1>3. PICK n \in 0..Len(Order) : Started(n)
  BY <1>1 DEF IInv, InOrder
<1>4. /\ n + 1 \in 1..Len(Order) /\ Order[n + 1] \in Services
      /\ Head(todo) = Order[n + 1] /\ Tail(todo) = SubSeq(Order, (n + 1) + 1, Len(Order))
  BY <1>1, <1>3, LeftToStart DEF Started
<1>5. /\ DOMAIN Order = 1..Len(Order) /\ Len(Order) \in Nat
      /\ \A i, j \in DOMAIN Order : Order[i] = Order[j] => i = j
  BY LenProperties
<1>6. \A u \in Threads : service_of[u] = Order[n + 1] => ~Made(u)
  <2> SUFFICES ASSUME NEW u \in Threads, service_of[u] = Order[n + 1], Made(u)
               PROVE  FALSE
    OBVIOUS
  <2>1. PICK i \in 1..n : service_of[u] = Order[i]
    BY <1>3 DEF Started
  <2>2. i \in DOMAIN Order /\ n + 1 \in DOMAIN Order /\ i # n + 1
    BY <1>4, <1>5
  <2> QED
    BY <1>5, <2>1, <2>2
<1>7. \A u \in Threads : service_of[u] = Order[n + 1] => ~Running(u) /\ u \notin ToSet(threads)
  BY <1>6, PresentIsMade DEF Present
<1>8. threads \in Seq(Threads) /\ Distinct(threads) /\ pc' # "found"
  BY <1>1 DEF IInv, TypeOK, ListsOK
<1>9. /\ OnePresent' /\ ListsOK' /\ threads' \in Seq(Threads)
      /\ service_of' = [service_of EXCEPT ![t] = Order[n + 1]]
      /\ service_of' \in [Threads -> Services \cup {None}]
      /\ step' \in [Threads -> {"none", "init", "test", "loop", "dead"}]
      /\ alive' = alive /\ qpc' = qpc
      /\ \A u \in Threads : Made(u)' <=> Made(u) \/ u = t
  BY <1>1, <1>2, <1>4, <1>7, <1>8, NewThread
<1>10. TypeOK'
  <2>1. todo \in Seq(Services \cup Threads)
    BY DEF IInv, TypeOK
  <2>2. todo' \in Seq(Services \cup Threads)
    BY <1>1, <2>1, HeadTailProperties
  <2>3. current' \in Services
    BY <1>1, <1>4
  <2> QED
    BY <1>1, <1>9, <2>2, <2>3 DEF IInv, TypeOK, quitVars, faults
<1>11. Started(n + 1)'
  <2>1. \A i \in 1..n + 1 : i \in 1..n \/ i = n + 1
    OBVIOUS
  <2>2. n + 1 > 0 /\ current' = Order[n + 1] /\ todo' = SubSeq(Order, (n + 1) + 1, Len(Order))
    BY <1>1, <1>4
  <2>3. ASSUME NEW u \in Threads, Made(u)'
        PROVE  \E i \in 1..n + 1 : service_of'[u] = Order[i]
    <3>1. CASE u = t
      <4>1. n + 1 \in 1..n + 1 /\ service_of'[t] = Order[n + 1]
        BY <1>9 DEF IInv, TypeOK
      <4> QED
        BY <3>1, <4>1
    <3>2. CASE u # t
      <4>1. PICK i \in 1..n : service_of[u] = Order[i]
        BY <1>3, <1>9, <2>3, <3>2 DEF Started
      <4>2. i \in 1..n + 1 /\ service_of'[u] = service_of[u]
        BY <1>9, <3>2 DEF IInv, TypeOK
      <4> QED
        BY <4>1, <4>2
    <3> QED
      BY <3>1, <3>2
  <2>4. qpc' = "none" => \A i \in 1..n + 1 : alive'[Order[i]] \/ i = n + 1
    BY <1>1, <1>3, <1>9, <2>1 DEF Started
  <2> QED
    BY <1>1, <2>2, <2>3, <2>4 DEF Started
<1>12. InOrder'
  BY <1>1, <1>4, <1>11 DEF InOrder
<1> QED
  BY <1>9, <1>10, <1>12 DEF IInv

(* A new thread takes the place of a dead one that was listed: no other    *)
(* thread of the service was present.                                      *)
LEMMA ReviveStep == ASSUME IInv, Revive PROVE IInv'
<1>1. /\ pc = "found" /\ pc' = "reviving" /\ current \in ToSet(threads)
      /\ current' = service_of[current] /\ todo' = todo /\ central' = central
      /\ UNCHANGED <<quitVars, faults>>
  BY DEF Revive
<1>2. PICK t \in Threads : StartThread(t, service_of[current], Without(current))
  BY DEF Revive
<1>3. threads \in Seq(Threads) /\ Distinct(threads) /\ current \in Threads /\ pc' # "found"
  BY <1>1 DEF IInv, TypeOK, ListsOK
<1>4. Present(current) /\ ~Running(current) /\ service_of[current] \in Services
  <2>1. Dead(current) /\ Present(current)
    BY <1>1 DEF IInv, ListsOK, Present
  <2> QED
    BY <1>3, <2>1, PresentIsMade DEF Dead, Running
<1>5. /\ Without(current) \in Seq(Threads) /\ Distinct(Without(current))
      /\ ToSet(Without(current)) = ToSet(threads) \ {current}
  BY <1>1, <1>3, Removed
<1>6. \A u \in Threads : service_of[u] = service_of[current]
                           => ~Running(u) /\ u \notin ToSet(Without(current))
  BY <1>3, <1>4, <1>5 DEF IInv, OnePresent, Present
<1>7. /\ OnePresent' /\ ListsOK' /\ threads' \in Seq(Threads)
      /\ service_of' \in [Threads -> Services \cup {None}]
      /\ step' \in [Threads -> {"none", "init", "test", "loop", "dead"}]
      /\ alive' = alive /\ qpc' = qpc
      /\ \A u \in Threads : Made(u)' <=> Made(u) \/ u = t
  BY <1>1, <1>2, <1>3, <1>4, <1>5, <1>6, NewThread
<1>8. TypeOK'
  BY <1>1, <1>4, <1>7 DEF IInv, TypeOK, quitVars, faults
<1>9. InOrder'
  BY <1>1, <1>7 DEF IInv, InOrder
<1> QED
  BY <1>7, <1>8, <1>9 DEF IInv
-----------------------------------------------------------------------------
(* What a step of the thread that quits does not touch.                    *)
LEMMA QuitStep ==
  ASSUME IInv, Untouched, UNCHANGED <<pc, todo, current>>,
         central' \in BOOLEAN, stopped' \subseteq Services,
         qtodo' \in Seq(Threads), \A i \in DOMAIN qtodo' : Made(qtodo'[i]),
         qpc' \in {"next", "polling", "failed", "waiting", "done"},
         qpc' = "polling" => qtodo' # << >>
  PROVE  IInv'
<1>1. /\ OnePresent' /\ \A t \in Threads : Made(t)' <=> Made(t)
      /\ \A i \in DOMAIN threads' : Made(threads'[i])
      /\ Distinct(threads)'
      /\ \A t \in Threads : Made(t)' => service_of'[t] \in Services
  BY NoNewThread
<1>2. TypeOK'
  BY DEF IInv, TypeOK, Untouched, faults
<1>3. /\ \A i \in DOMAIN threads' : threads'[i] \in Threads
      /\ \A i \in DOMAIN qtodo' : qtodo'[i] \in Threads
  BY DEF Untouched
<1>4. /\ \A i \in DOMAIN threads' : Made(threads[i])'
      /\ \A i \in DOMAIN qtodo' : Made(qtodo[i])'
  BY <1>1, <1>3
<1>5. pc' = "found" => Dead(current)'
  BY DEF IInv, ListsOK, Untouched, Dead
<1>6. ListsOK'
  BY <1>1, <1>4, <1>5 DEF ListsOK
<1>7. InOrder'
  <2>1. qpc' # "none"
    OBVIOUS
  <2>2. CASE pc \in {"start", "starting"}
    <3>1. PICK n \in 0..Len(Order) : Started(n)
      BY <2>2 DEF IInv, InOrder
    <3>2. Started(n)'
      BY <1>1, <2>1, <3>1 DEF Started, Untouched
    <3> QED
      BY <2>2, <3>2 DEF InOrder
  <2>3. CASE pc \notin {"start", "starting"}
    BY <1>1, <2>1, <2>3 DEF IInv, InOrder
  <2> QED
    BY <2>2, <2>3
<1> QED
  BY <1>1, <1>2, <1>6, <1>7 DEF IInv

(* quit() clears the flags of what it stops, and takes it off the list if  *)
(* it is still there.                                                      *)
LEMMA QuitSteps == ASSUME IInv, quit \/ Quitting PROVE IInv'
<1>1. /\ threads \in Seq(Threads) /\ Distinct(threads) /\ qtodo \in Seq(Threads)
      /\ central \in BOOLEAN /\ alive \in [Services -> BOOLEAN] /\ stopped \subseteq Services
      /\ \A i \in DOMAIN threads : Made(threads[i])
      /\ \A i \in DOMAIN qtodo : qtodo[i] \in Threads /\ Made(qtodo[i])
  BY DEF IInv, TypeOK, ListsOK
<1>2. CASE quit
  <2>1. Untouched
    BY <1>1, <1>2 DEF quit, Untouched, executorVars, serviceVars
  <2> QED
    BY <1>1, <1>2, <2>1, QuitStep DEF quit
<1>3. CASE _stop
  <2>1. Head(qtodo) \in Threads /\ Made(Head(qtodo))
    <3>1. qtodo # << >>
      BY <1>3 DEF _stop
    <3> QED
      BY <1>1, <3>1
  <2>2. service_of[Head(qtodo)] \in Services
    BY <2>1 DEF IInv, ListsOK
  <2>3. Untouched
    BY <1>1, <1>3, <2>2 DEF _stop, Untouched, executorVars
  <2> QED
    BY <1>1, <1>3, <2>2, <2>3, QuitStep DEF _stop, centralVars
<1>4. CASE StopEnds
  <2>1. qtodo # << >>
    BY <1>4 DEF StopEnds, IInv, ListsOK
  <2>2. /\ qtodo' = Tail(qtodo) /\ Tail(qtodo) \in Seq(Threads)
        /\ \A i \in DOMAIN Tail(qtodo) : i + 1 \in DOMAIN qtodo /\ Tail(qtodo)[i] = qtodo[i + 1]
    BY <1>1, <1>4, <2>1, HeadAndTail DEF StopEnds
  <2>3. Untouched
    <3>1. CASE Head(qtodo) \in ToSet(threads)
      BY <1>1, <1>4, <3>1, Removed DEF StopEnds, Untouched, serviceVars
    <3>2. CASE Head(qtodo) \notin ToSet(threads)
      BY <1>1, <1>4, <3>2 DEF StopEnds, Untouched, serviceVars
    <3> QED
      BY <3>1, <3>2
  <2>4. /\ UNCHANGED <<pc, todo, current>> /\ central' = central /\ stopped' = stopped
        /\ qpc' \in {"next", "failed"}
    BY <1>4 DEF StopEnds, centralVars
  <2> QED
    BY <1>1, <2>2, <2>3, <2>4, QuitStep
<1>5. CASE StopAllEnds \/ QuitReturns
  <2>1. Untouched
    BY <1>1, <1>5 DEF StopAllEnds, QuitReturns, Untouched, executorVars, serviceVars
  <2> QED
    BY <1>1, <1>5, <2>1, QuitStep DEF StopAllEnds, QuitReturns, centralVars
<1> QED
  BY <1>2, <1>3, <1>4, <1>5 DEF Quitting

-----------------------------------------------------------------------------
(* Every step keeps the invariant.                                         *)
LEMMA NextInv == ASSUME IInv, [Next]_vars PROVE IInv'
<1>1. CASE UNCHANGED vars
  <2>1. /\ UNCHANGED <<executorVars, serviceVars, quitVars, faults>>
        /\ pc' = pc /\ todo' = todo /\ current' = current /\ central' = central
    BY <1>1 DEF vars, centralVars
  <2>2. OnePresent' /\ ListsOK' /\ \A t \in Threads : Made(t)' <=> Made(t)
    BY <2>1, CentralStep DEF IInv, ListsOK, Dead, serviceVars
  <2>3. TypeOK'
    BY <2>1 DEF IInv, TypeOK, executorVars, serviceVars, quitVars, faults
  <2>4. InOrder'
    <3>1. CASE pc \in {"start", "starting"}
      <4>1. PICK n \in 0..Len(Order) : Started(n)
        BY <3>1 DEF IInv, InOrder
      <4>2. Started(n)'
        BY <2>1, <4>1 DEF Started, Made, executorVars, serviceVars, quitVars
      <4> QED
        BY <2>1, <3>1, <4>2 DEF InOrder
    <3>2. CASE pc \notin {"start", "starting"}
      BY <2>1, <2>2, <3>2 DEF IInv, InOrder, serviceVars, quitVars
    <3> QED
      BY <3>1, <3>2
  <2> QED
    BY <2>2, <2>3, <2>4 DEF IInv
<1>2. ASSUME run PROVE IInv'
  BY <1>2, StartServiceStep, ServiceStartedStep, AllStartedStep, WatchStep, CheckThreadStep,
     ReviveStep, CheckSteps DEF run
<1>3. ASSUME NEW t \in Threads, _exec(t) \/ InitRaises(t) \/ LoopRaises(t) PROVE IInv'
  BY <1>3, ServiceSteps
<1>4. ASSUME quit \/ Quitting PROVE IInv'
  BY <1>4, QuitSteps
<1> QED
  BY <1>1, <1>2, <1>3, <1>4 DEF Next, Serve

(* In every state, the services that have a thread are those the order has *)
(* come to, the lists hold threads that were made, and of the threads made *)
(* for a service one at most runs or is on the executor's list.            *)
THEOREM Invariant == Spec => []IInv
BY InitInv, NextInv, PTL DEF Spec

(* Every variable keeps its type, whatever raises or is stopped.           *)
THEOREM TypeCorrect == Spec => []TypeOK
<1>1. IInv => TypeOK
  BY DEF IInv
<1> QED
  BY <1>1, Invariant, PTL

(* A service never runs in two threads: not when it is started again after *)
(* its thread has died, nor when quit() takes the list apart meanwhile.    *)
THEOREM OneThread == Spec => []OneThreadPerService
<1>1. IInv => OneThreadPerService
  BY DEF IInv, OnePresent, Present, OneThreadPerService
<1> QED
  BY <1>1, Invariant, PTL

(* No service exists before the services it depends on have been through   *)
(* init(), whatever the services and their dependencies are.               *)
THEOREM Dependencies == Spec => []DependenciesFirst
<1>1. IInv => DependenciesFirst
  <2> SUFFICES ASSUME IInv, NEW t \in Threads, NEW s \in Services, qpc = "none", Running(t),
                      <<service_of[t], s>> \in DependsOn
               PROVE  alive[s]
    BY DEF DependenciesFirst
  <2>1. CASE pc \notin {"start", "starting"}
    BY <2>1 DEF IInv, InOrder
  <2>2. CASE pc \in {"start", "starting"}
    <3>1. PICK n \in 0..Len(Order) : Started(n)
      BY <2>2 DEF IInv, InOrder
    <3>2. DOMAIN Order = 1..Len(Order) /\ Len(Order) \in Nat
      BY LenProperties
    <3>3. PICK j \in 1..n : service_of[t] = Order[j]
      BY <3>1 DEF Started, Made, Running
    <3>4. PICK i \in DOMAIN Order : Order[i] = s
      OBVIOUS
    <3>5. j \in DOMAIN Order
      BY <3>2
    <3>6. i < j
      BY <3>3, <3>4, <3>5
    <3>7. i \in 1..n /\ i # n
      BY <3>2, <3>6
    <3>8. alive[Order[i]]
      BY <3>1, <3>7 DEF Started
    <3> QED
      BY <3>4, <3>8
  <2> QED
    BY <2>1, <2>2
<1> QED
  BY <1>1, Invariant, PTL

-----------------------------------------------------------------------------
(* The flag is set when init() returns and cleared by _stop() only.        *)
LEMMA ServingIsReadyStays == ASSUME IInv, ServingIsReady, [Next]_vars PROVE ServingIsReady'
<1> SUFFICES ASSUME qpc' = "none", NEW t \in Threads, step'[t] \in {"test", "loop"}
             PROVE  alive'[service_of'[t]]
  BY DEF ServingIsReady
<1>0. /\ step \in [Threads -> {"none", "init", "test", "loop", "dead"}]
      /\ alive \in [Services -> BOOLEAN] /\ service_of \in [Threads -> Services \cup {None}]
      /\ \A u \in Threads : step[u] # "none" => service_of[u] \in Services
  BY DEF IInv, TypeOK, ListsOK, Made
<1>1. ASSUME UNCHANGED <<service_of, step, alive>>, qpc = "none"
      PROVE  alive'[service_of'[t]]
  BY <1>1 DEF ServingIsReady
<1>2. ASSUME NEW u \in Threads, _exec(u) \/ InitRaises(u) \/ LoopRaises(u)
      PROVE  alive'[service_of'[t]]
  <2>1. qpc = "none" /\ service_of' = service_of
    BY <1>2 DEF _exec, InitReturns, TestAlive, LoopAndWait, InitRaises, LoopRaises,
                quitVars, executorVars
  <2>2. CASE InitReturns(u)
    BY <1>0, <2>1, <2>2 DEF InitReturns, ServingIsReady
  <2>3. CASE TestAlive(u)
    BY <1>0, <2>1, <2>3 DEF TestAlive, ServingIsReady
  <2>4. CASE LoopAndWait(u) \/ InitRaises(u) \/ LoopRaises(u)
    BY <1>0, <2>1, <2>4 DEF LoopAndWait, InitRaises, LoopRaises, ServingIsReady
  <2> QED
    BY <1>2, <2>2, <2>3, <2>4 DEF _exec
<1>3. ASSUME NEW u \in Threads, NEW s, NEW l, StartThread(u, s, l), qpc = "none"
      PROVE  alive'[service_of'[t]]
  BY <1>0, <1>3 DEF StartThread, IsFresh, Unmade, ServingIsReady
<1>4. CASE StartService \/ Revive
  BY <1>3, <1>4 DEF StartService, Revive, quitVars
<1>5. CASE \/ ServiceStarted \/ AllStarted \/ Watch \/ CheckThread
           \/ ReviveRaises \/ Revived \/ CheckEnds
  BY <1>1, <1>5 DEF ServiceStarted, AllStarted, Watch, CheckThread, ReviveRaises, Revived,
                    CheckEnds, quitVars, executorVars, serviceVars
<1>6. CASE quit \/ Quitting
  BY <1>6 DEF quit, Quitting, _stop, StopEnds, StopAllEnds, QuitReturns
<1>7. CASE UNCHANGED vars
  BY <1>1, <1>7 DEF vars, quitVars, executorVars, serviceVars
<1> QED
  BY <1>2, <1>4, <1>5, <1>6, <1>7 DEF Next, Serve, run

(* Until the process exits, a service's thread that is past init() finds   *)
(* its service ready, together with all that the invariant says.           *)
THEOREM Supervised == Spec => []SInv
<1>1. Init => SInv
  BY InitInv DEF Init, ServingIsReady, SInv
<1>2. SInv /\ [Next]_vars => SInv'
  BY NextInv, ServingIsReadyStays DEF SInv
<1> QED
  BY <1>1, <1>2, PTL DEF Spec

-----------------------------------------------------------------------------
(* The refinement of Supervisor: what the state of the flags and threads   *)
(* looks like from outside does not change ...                             *)
LEMMA SuperStays ==
  ASSUME UNCHANGED <<service_of, step, alive>>, qpc' = "none" <=> qpc = "none"
  PROVE  UNCHANGED Super!vars
<1>1. \A s \in Services : Serving(s)' = Serving(s)
  BY DEF Serving, Running
<1> QED
  BY <1>1 DEF Super!vars

(* ... and when one thread takes a step, one service is served differently. *)
LEMMA ServingStep ==
  ASSUME IInv, NEW t \in Threads, NEW s \in Services, service_of'[t] = s,
         service_of[t] = s \/ ~Running(t),
         \A u \in Threads \ {t} : step'[u] = step[u] /\ service_of'[u] = service_of[u],
         Running(t) \/ Serving(s) = {}
  PROVE  [r \in Services |-> Serving(r)]' =
           [[r \in Services |-> Serving(r)] EXCEPT ![s] = IF Running(t)' THEN {t} ELSE {}]
<1>1. \A r \in Services \ {s} : Serving(r)' = Serving(r)
  BY DEF Serving, Running
<1>2. \A u \in Serving(s) : u = t
  BY DEF Serving, IInv, OnePresent, Present
<1>3. Serving(s)' = IF Running(t)' THEN {t} ELSE {}
  BY <1>2 DEF Serving, Running
<1> QED
  BY <1>1, <1>3

(* A service's thread: it becomes ready, dies, ends, or goes round.        *)
LEMMA ThreadSupervised ==
  ASSUME SInv, NEW t \in Threads, _exec(t) \/ InitRaises(t) \/ LoopRaises(t)
  PROVE  [Super!Next]_Super!vars
<1>0. /\ step \in [Threads -> {"none", "init", "test", "loop", "dead"}]
      /\ alive \in [Services -> BOOLEAN] /\ IInv /\ ServingIsReady
  BY DEF SInv, IInv, TypeOK
<1>1. step[t] \in {"init", "test", "loop"} /\ service_of' = service_of /\ qpc' = qpc
  BY DEF _exec, InitReturns, TestAlive, LoopAndWait, InitRaises, LoopRaises,
         quitVars, executorVars
<1>2. service_of[t] \in Services /\ Running(t)
  BY <1>0, <1>1 DEF IInv, ListsOK, Made, Running
<1> PICK s \in Services : s = service_of[t]
  BY <1>2
<1>3. step'[t] \in {"test", "loop", "dead"} /\ \A u \in Threads \ {t} : step'[u] = step[u]
  BY <1>0 DEF _exec, InitReturns, TestAlive, LoopAndWait, InitRaises, LoopRaises
<1>4. [r \in Services |-> Serving(r)]' =
        [[r \in Services |-> Serving(r)] EXCEPT ![s] = IF Running(t)' THEN {t} ELSE {}]
  <2>1. service_of'[t] = s /\ service_of[t] = s /\ Running(t) /\ IInv
    BY <1>0, <1>1, <1>2
  <2>2. \A u \in Threads \ {t} : step'[u] = step[u] /\ service_of'[u] = service_of[u]
    BY <1>1, <1>3
  <2> QED
    BY ONLY <2>1, <2>2, ServingStep, t \in Threads, s \in Services
<1>5. Serving(s) = {t}
  BY <1>0, <1>2 DEF Serving, IInv, OnePresent, Present
<1>6. {u \in Threads : step[u] # "none"}' = {u \in Threads : step[u] # "none"}
  BY <1>1, <1>3
<1>7. ASSUME Running(t)'
      PROVE  [r \in Services |-> Serving(r)]' = [r \in Services |-> Serving(r)]
  BY <1>4, <1>5, <1>7
<1>8. CASE InitReturns(t)
  <2>1. Running(t)' /\ alive' = [alive EXCEPT ![s] = TRUE]
    BY <1>0, <1>8 DEF InitReturns, Running
  <2>2. {r \in Services : alive[r]}' = {r \in Services : alive[r]} \cup {s}
    BY <1>0, <2>1
  <2>3. Super!BecomesReady(s)
    BY <1>1, <1>5, <1>6, <1>7, <2>1, <2>2 DEF Super!BecomesReady
  <2> QED
    BY <2>3 DEF Super!Next
<1>9. CASE InitRaises(t) \/ LoopRaises(t)
  <2>1. ~Running(t)' /\ alive' = alive
    BY <1>0, <1>9 DEF InitRaises, LoopRaises, Running
  <2>2. Super!Dies(s)
    BY <1>1, <1>4, <1>5, <1>6, <2>1 DEF Super!Dies
  <2> QED
    BY <2>2 DEF Super!Next
<1>10. CASE LoopAndWait(t) \/ (TestAlive(t) /\ alive[s])
  <2>1. Running(t)' /\ alive' = alive
    BY <1>0, <1>10 DEF LoopAndWait, TestAlive, Running
  <2> QED
    BY <1>1, <1>6, <1>7, <2>1 DEF Super!vars
<1>11. CASE TestAlive(t) /\ ~alive[s]
  <2>1. ~Running(t)' /\ alive' = [alive EXCEPT ![s] = TRUE] /\ step[t] = "test"
    BY <1>0, <1>11 DEF TestAlive, Running
  <2>2. {r \in Services : alive[r]}' = {r \in Services : alive[r]} \cup {s}
    BY <1>0, <2>1
  <2>3. qpc # "none"
    BY <1>0, <1>11, <2>1 DEF ServingIsReady
  <2>4. Super!Ends(s)
    BY <1>1, <1>4, <1>5, <1>6, <1>11, <2>1, <2>2, <2>3 DEF Super!Ends
  <2> QED
    BY <2>4 DEF Super!Next
<1> QED
  BY <1>8, <1>9, <1>10, <1>11 DEF _exec

(* A new thread, for a service that nobody serves and may be started.      *)
LEMMA StartSupervised ==
  ASSUME IInv, NEW t \in Threads, NEW s \in Services, NEW l, StartThread(t, s, l), qpc' = qpc,
         Serving(s) = {},
         qpc = "none" => \A p \in Services : <<s, p>> \in DependsOn => alive[p]
  PROVE  Super!Next
<1>0. /\ step \in [Threads -> {"none", "init", "test", "loop", "dead"}]
      /\ service_of \in [Threads -> Services \cup {None}]
  BY DEF IInv, TypeOK
<1>1. step[t] = "none" /\ alive' = alive
  BY DEF StartThread, IsFresh, Unmade
<1>2. /\ step'[t] = "init" /\ service_of'[t] = s
      /\ \A u \in Threads \ {t} : step'[u] = step[u] /\ service_of'[u] = service_of[u]
  BY <1>0 DEF StartThread
<1>3. ~Running(t) /\ Running(t)'
  BY <1>1, <1>2 DEF Running
<1>4. [r \in Services |-> Serving(r)]' = [[r \in Services |-> Serving(r)] EXCEPT ![s] = {t}]
  BY <1>2, <1>3, ServingStep
<1>5. {u \in Threads : step[u] # "none"}' = {u \in Threads : step[u] # "none"} \cup {t}
  BY <1>2
<1>6. Super!Start(s, t)
  BY <1>1, <1>4, <1>5 DEF Super!Start, Super!Parents
<1> QED
  BY <1>6 DEF Super!Next

(* run() starts the services in the order of the list, each when all those *)
(* it waited for are ready ...                                             *)
LEMMA FirstStartSupervised ==
  ASSUME IInv, StartService
  PROVE  Super!Next
<1>1. PICK n \in 0..Len(Order) : Started(n)
  BY DEF StartService, IInv, InOrder
<1>2. /\ n + 1 \in 1..Len(Order) /\ Head(todo) = Order[n + 1] /\ Order[n + 1] \in Services
      /\ Len(Order) \in Nat /\ DOMAIN Order = 1..Len(Order)
  BY <1>1, LeftToStart, LenProperties DEF Started, StartService
<1> PICK s \in Services : s = Head(todo)
  BY <1>2
<1>3. Serving(s) = {}
  <2> SUFFICES ASSUME NEW t \in Threads, Running(t), service_of[t] = s
               PROVE  FALSE
    BY DEF Serving
  <2>1. PICK i \in 1..n : service_of[t] = Order[i]
    BY <1>1 DEF Started, Made, Running
  <2>2. i \in DOMAIN Order /\ n + 1 \in DOMAIN Order /\ i # n + 1
    BY <1>2, <2>1
  <2> QED
    BY <1>2, <2>1, <2>2
<1>4. ASSUME qpc = "none", NEW p \in Services, <<s, p>> \in DependsOn
      PROVE  alive[p]
  <2>1. PICK i \in DOMAIN Order : Order[i] = p
    OBVIOUS
  <2>2. i < n + 1
    BY <1>2, <1>4, <2>1
  <2>3. i \in 1..n /\ pc # "starting"
    BY <1>2, <2>1, <2>2 DEF StartService
  <2> QED
    BY <1>1, <1>4, <2>1, <2>3 DEF Started
<1>5. PICK t \in Threads : StartThread(t, s, threads)
  BY DEF StartService
<1> QED
  BY <1>3, <1>4, <1>5, StartSupervised DEF StartService, quitVars

(* ... and check() starts them again when their thread is dead.            *)
LEMMA RestartSupervised ==
  ASSUME IInv, Revive
  PROVE  Super!Next
<1>1. /\ current \in Threads /\ Dead(current) /\ Made(current)
      /\ service_of[current] \in Services /\ Present(current)
  BY DEF Revive, IInv, TypeOK, ListsOK, Dead, Made, Present
<1> PICK s \in Services : s = service_of[current]
  BY <1>1
<1>2. Serving(s) = {}
  BY <1>1 DEF Serving, IInv, OnePresent, Present, Running, Dead
<1>3. qpc = "none" => \A p \in Services : alive[p]
  BY DEF Revive, IInv, InOrder
<1>4. PICK t \in Threads : StartThread(t, s, Without(current))
  BY DEF Revive
<1> QED
  BY <1>2, <1>3, <1>4, StartSupervised DEF Revive, quitVars

(* The thread that quits.                                                  *)
LEMMA QuitSupervised ==
  ASSUME IInv, quit \/ Quitting
  PROVE  [Super!Next]_Super!vars
<1>1. CASE quit
  <2>1. UNCHANGED <<service_of, step, alive>> /\ qpc' # "none"
    BY <1>1 DEF quit, executorVars, serviceVars
  <2>2. \A s \in Services : Serving(s)' = Serving(s)
    BY <2>1 DEF Serving, Running
  <2>3. Super!Quit
    BY <2>1, <2>2 DEF Super!Quit
  <2> QED
    BY <2>3 DEF Super!Next
<1>2. CASE _stop
  <2>1. /\ qtodo \in Seq(Threads) /\ qtodo # << >> /\ alive \in [Services -> BOOLEAN]
        /\ \A i \in DOMAIN qtodo : Made(qtodo[i])
    BY <1>2 DEF _stop, IInv, TypeOK, ListsOK
  <2>2. Head(qtodo) \in Threads /\ Made(Head(qtodo))
    BY <2>1, HeadAndTail
  <2>3. service_of[Head(qtodo)] \in Services
    BY <2>2 DEF IInv, ListsOK
  <2> PICK s \in Services : s = service_of[Head(qtodo)]
    BY <2>3
  <2>4. /\ alive' = [alive EXCEPT ![s] = FALSE] /\ UNCHANGED <<service_of, step>>
        /\ qpc # "none" /\ qpc' # "none"
    BY <1>2 DEF _stop, executorVars
  <2>5. \A r \in Services : Serving(r)' = Serving(r)
    BY <2>4 DEF Serving, Running
  <2>6. {r \in Services : alive[r]}' = {r \in Services : alive[r]} \ {s}
    BY <2>1, <2>4
  <2>7. Super!Stop(s)
    BY <2>4, <2>5, <2>6 DEF Super!Stop
  <2> QED
    BY <2>7 DEF Super!Next
<1>3. CASE StopEnds \/ StopAllEnds \/ QuitReturns
  BY <1>3, SuperStays DEF StopEnds, StopAllEnds, QuitReturns, executorVars, serviceVars
<1> QED
  BY <1>1, <1>2, <1>3 DEF Quitting

(* Service Central, its executor and the services it runs keep all that    *)
(* Supervisor promises, whatever they are and however often they fail.     *)
THEOREM SupervisorImplemented == Spec => ImplementsSupervisor
<1>1. Init => Super!Init
  BY DEF Init, Super!Init, Serving, Running
<1>2. SInv /\ [Next]_vars => [Super!Next]_Super!vars
  <2> SUFFICES ASSUME SInv, [Next]_vars
               PROVE  [Super!Next]_Super!vars
    OBVIOUS
  <2>0. IInv
    BY DEF SInv
  <2>1. CASE \/ ServiceStarted \/ AllStarted \/ Watch \/ CheckThread
             \/ ReviveRaises \/ Revived \/ CheckEnds
    BY <2>1, SuperStays
    DEF ServiceStarted, AllStarted, Watch, CheckThread, ReviveRaises, Revived, CheckEnds,
        quitVars, executorVars, serviceVars
  <2>2. CASE StartService \/ Revive
    BY <2>0, <2>2, FirstStartSupervised, RestartSupervised
  <2>3. CASE \E t \in Threads : _exec(t) \/ InitRaises(t) \/ LoopRaises(t)
    BY <2>3, ThreadSupervised
  <2>4. CASE quit \/ Quitting
    BY <2>0, <2>4, QuitSupervised
  <2>5. CASE UNCHANGED vars
    BY <2>5, SuperStays DEF vars, quitVars, executorVars, serviceVars
  <2> QED
    BY <2>1, <2>2, <2>3, <2>4, <2>5 DEF Next, Serve, run
<1> QED
  BY <1>1, <1>2, Supervised, PTL DEF Spec, ImplementsSupervisor, Super!Spec

=============================================================================

-------------------------- MODULE LeftNavKnownProofs --------------------------
(***************************************************************************)
(* The theorem that nothing stale in the navigator goes unnoticed, for     *)
(* every number of pools, servers, VMs, changes and requests under way.    *)
(*                                                                         *)
(* The answers under way are what makes it hard: any of them may arrive    *)
(* next, and those that were read too early spoil the tree.  HarmIsMended  *)
(* says of each that it is known to be too old, or that a better one is    *)
(* behind it or will be; each step of the proof is about what keeps that.  *)
(***************************************************************************)
EXTENDS LeftNavProofs

USE NamesAssumption, BoundsAssumption

-----------------------------------------------------------------------------
(* What an answer under way is made of.                                    *)
LEMMA AnswerParts ==
  ASSUME IInv, NEW k \in DOMAIN answers
  PROVE  /\ answers[k] \in Good
         /\ answers[k].of \in Containers
         /\ answers[k].live \in BOOLEAN
         /\ answers[k].after \in SUBSET Containers
         /\ answers[k].nodes \subseteq LevelOf(answers[k].of)
         /\ answers[k].nodes \subseteq Items
         /\ answers[k].states \in [answers[k].nodes \cap Vms -> {"up", "down"}]
<1>1. answers \in [1..Len(answers) -> Good]
  BY GoodAnswersInv, LenProperties, Zenon
<1>2. answers[k] \in Good
  <2>1. k \in 1..Len(answers)
    BY <1>1
  <2> QED
    BY <1>1, <2>1, Zenon
<1>3. PICK S \in SUBSET Vms : answers[k].states \in [S -> {"up", "down"}]
  BY <1>2 DEF Good, Answers
<1>4. DOMAIN answers[k].states = answers[k].nodes \cap Vms
  BY <1>2 DEF Good, WellFormed
<1>5. answers[k].states \in [answers[k].nodes \cap Vms -> {"up", "down"}]
  BY <1>3, <1>4
<1> QED
  BY <1>2, <1>5 DEF Good, Answers, WellFormed

(* What an answer is too old for grows, nothing else of it changes.        *)
LEMMA TooOldParts ==
  ASSUME IInv, NEW k \in DOMAIN answers, NEW M
  PROVE  /\ TooOld(answers[k], M).of = answers[k].of
         /\ TooOld(answers[k], M).nodes = answers[k].nodes
         /\ TooOld(answers[k], M).states = answers[k].states
         /\ TooOld(answers[k], M).live = answers[k].live
         /\ TooOld(answers[k], M).after = answers[k].after \cup (M \cap Containers)
BY AnswerParts DEF TooOld, Good, Answers

(* The positions of the answers under way are numbers.                     *)
LEMMA AnswersDomain ==
  ASSUME IInv
  PROVE  /\ Len(answers) \in Nat /\ DOMAIN answers = 1..Len(answers)
         /\ \A k \in DOMAIN answers : k \in Nat
<1>1. Len(answers) \in Nat /\ answers \in [1..Len(answers) -> Good]
  BY GoodAnswersInv, LenProperties, Zenon
<1> QED
  BY <1>1

-----------------------------------------------------------------------------
(* A step that leaves the tree alone, and the answers but for their age.   *)
(* What it does to the database or to the session has to be expected after *)
(* it, or missed.                                                          *)
LEMMA TreeStays ==
  ASSUME KInv, NEW M,
         answers' = [k \in DOMAIN answers |-> TooOld(answers[k], M)],
         missed' = missed \cup (M \cap loaded),
         UNCHANGED tree,
         \A c \in Containers : asked'[c] > 0 => asked[c] > 0 \/ InTree(c),
         \A c \in Containers : Exists(c)' => Exists(c),
         \A c \in Containers : \/ c \in M \/ ~Exists(c)' \/ ~InTree(c) \/ Expected(c)'
                               \/ /\ ~Expected(c)
                                  /\ Content(c)' = Content(c)
                                  /\ StateOf(c)' = StateOf(c)
  PROVE  /\ GhostsAreHosts' /\ OpenedAreInTree' /\ HarmIsMended' /\ StaleIsKnown'
<1>0. IInv
  BY DEF KInv
<1>1. DOMAIN answers' = DOMAIN answers
  OBVIOUS
<1>2. \A k \in DOMAIN answers :
        /\ answers'[k].of = answers[k].of
        /\ answers'[k].nodes = answers[k].nodes
        /\ answers'[k].states = answers[k].states
        /\ answers'[k].live = answers[k].live
        /\ answers'[k].after = answers[k].after \cup (M \cap Containers)
  BY <1>0, TooOldParts
<1>3. UNCHANGED <<childNodes, nodeHash, icon, loaded>>
  BY DEF tree
<1>4. \A c \in Containers : InTree(c)' <=> InTree(c)
  BY <1>3 DEF InTree
<1>5. \A c \in Containers : Opened(c)' => Opened(c) \/ InTree(c)
  BY <1>1, <1>2, <1>3 DEF Opened
<1>6. OpenedAreInTree'
  BY <1>4, <1>5 DEF KInv, OpenedAreInTree
<1>7. GhostsAreHosts'
  BY <1>1, <1>2 DEF KInv, GhostsAreHosts
<1>8. ASSUME NEW c \in Containers, Content(c)' = Content(c), StateOf(c)' = StateOf(c)
      PROVE  /\ \A k \in DOMAIN answers : Right(k, c)' <=> Right(k, c)
             /\ Agrees(c)' <=> Agrees(c)
  <2>1. \A k \in DOMAIN answers : Right(k, c)' <=> Right(k, c)
    BY <1>2, <1>8 DEF Right
  <2>2. IconsIn(c)' = IconsIn(c)
    BY <1>3 DEF IconsIn
  <2> QED
    BY <1>3, <1>8, <2>1, <2>2 DEF Agrees
<1>9. \A k \in DOMAIN answers, c \in Containers : Bound(k, c)' => Bound(k, c)
  <2> SUFFICES ASSUME NEW k \in DOMAIN answers, NEW c \in Containers, Bound(k, c)'
               PROVE  Bound(k, c)
    OBVIOUS
  <2>1. 1..k \subseteq DOMAIN answers
    BY <1>0, AnswersDomain
  <2> QED
    BY <1>2, <1>3, <2>1 DEF Bound
<1>10. ASSUME NEW k \in DOMAIN answers, NEW c \in Containers, Bound(k, c)
       PROVE  InTree(c)
  <2>1. 1..k \subseteq DOMAIN answers
    BY <1>0, AnswersDomain
  <2>2. Opened(c)
    BY <1>10, <2>1 DEF Bound, Opened
  <2> QED
    BY <2>2 DEF KInv, OpenedAreInTree
<1>11. HarmIsMended'
  <2> SUFFICES ASSUME NEW c \in Containers, NEW k \in DOMAIN answers,
                      Harmful(k, c)', ~Expected(c)'
               PROVE  \E j \in DOMAIN answers : j > k /\ Right(j, c)'
    BY <1>1 DEF HarmIsMended, Mended
  <2>1. c \notin answers[k].after /\ c \notin M /\ Exists(c)' /\ Bound(k, c) /\ Spoils(k, c)'
    BY <1>2, <1>9 DEF Harmful
  <2>2. InTree(c) /\ Exists(c)
    BY <1>10, <2>1
  <2>3. ~Expected(c) /\ Content(c)' = Content(c) /\ StateOf(c)' = StateOf(c)
    BY <2>1, <2>2
  <2>4. Spoils(k, c)
    BY <1>2, <1>8, <2>1, <2>3 DEF Spoils
  <2>5. Mended(k, c)
    BY <2>1, <2>2, <2>4 DEF KInv, HarmIsMended, Harmful
  <2> QED
    BY <1>8, <2>3, <2>5 DEF Mended
<1>12. StaleIsKnown'
  <2> SUFFICES ASSUME NEW c \in loaded, ~Expected(c)', Exists(c)', c \notin missed'
               PROVE  Agrees(c)' \/ Underway(c)'
    BY <1>3 DEF StaleIsKnown, Settled
  <2>0. c \in Containers
    BY <1>0 DEF IInv, TypeOK
  <2>1. c \notin missed /\ c \notin M
    OBVIOUS
  <2>2. InTree(c) /\ Exists(c)
    BY <2>0 DEF KInv, OpenedAreInTree, Opened
  <2>3. ~Expected(c) /\ Content(c)' = Content(c) /\ StateOf(c)' = StateOf(c)
    BY <2>0, <2>1, <2>2
  <2>4. Agrees(c) \/ Underway(c)
    BY <2>1, <2>2, <2>3 DEF KInv, StaleIsKnown, Settled
  <2> QED
    BY <1>1, <1>8, <2>0, <2>3, <2>4 DEF Underway
<1> QED
  BY <1>6, <1>7, <1>11, <1>12

-----------------------------------------------------------------------------
(* What an answer appended says was read last: it is the best there is for *)
(* its container, and it spoils no other, since nothing is at two places.  *)
LEMMA ReadLast ==
  ASSUME KInv, NEW d \in Containers, NEW live \in BOOLEAN,
         live \/ d \in Hosts, live => InTree(d),
         answers' = Append(answers, Answer(d, live)),
         UNCHANGED <<database, writers, session, tree, told, missed, events>>,
         \A c \in Containers : asked'[c] > 0 => asked[c] > 0,
         \A c \in Containers : asked[c] > 0 => asked'[c] > 0 \/ (live /\ c = d)
  PROVE  /\ GhostsAreHosts' /\ OpenedAreInTree' /\ HarmIsMended' /\ StaleIsKnown'
<1> PICK n : n = Len(answers) + 1
  OBVIOUS
<1>0. IInv
  BY DEF KInv
<1>1. /\ Len(answers) \in Nat /\ DOMAIN answers = 1..Len(answers)
      /\ DOMAIN answers' = 1..n
      /\ \A k \in 1..Len(answers) : answers'[k] = answers[k]
      /\ answers'[n] = Answer(d, live)
  <2>1. answers \in Seq(Good) /\ Answer(d, live) \in Good
    BY <1>0, GoodAnswersInv, AnswerIsGood
  <2>2. /\ Append(answers, Answer(d, live)) \in Seq(Good)
        /\ Len(Append(answers, Answer(d, live))) = Len(answers) + 1
        /\ \A k \in 1..Len(answers) : Append(answers, Answer(d, live))[k] = answers[k]
        /\ Append(answers, Answer(d, live))[Len(answers) + 1] = Answer(d, live)
    BY ONLY <2>1, AppendProperties
  <2>3. answers' \in [1..Len(answers') -> Good]
    BY <2>2, LenProperties, Zenon
  <2> QED
    BY <1>0, <2>2, <2>3, AnswersDomain
<1>2. UNCHANGED <<parent, st, childNodes, nodeHash, icon, loaded, owed, pending, told, missed>>
  BY DEF database, tree, writers, session
<1>3. /\ \A c \in Containers : Content(c)' = Content(c) /\ StateOf(c)' = StateOf(c)
      /\ \A c \in Containers : (InTree(c)' <=> InTree(c)) /\ (Exists(c)' <=> Exists(c))
      /\ \A c \in Containers : (Agrees(c)' <=> Agrees(c)) /\ (Owed(c)' <=> Owed(c))
  <2>1. \A c \in Containers : Content(c)' = Content(c) /\ StateOf(c)' = StateOf(c)
    BY <1>2 DEF Content, StateOf
  <2>2. \A c \in Containers : (InTree(c)' <=> InTree(c)) /\ (Exists(c)' <=> Exists(c))
    BY <1>2 DEF InTree, Exists
  <2>3. \A c \in Containers : Agrees(c)' <=> Agrees(c)
    BY <1>2, <2>1 DEF Agrees, IconsIn
  <2>4. \A c \in Containers : Owed(c)' <=> Owed(c)
    BY <1>2 DEF Owed, Hierarchies, get_hierarchy, Exists
  <2> QED
    BY <2>1, <2>2, <2>3, <2>4
<1>4. \A c \in Containers : Expected(c) => Expected(c)' \/ (live /\ c = d)
  BY <1>2, <1>3 DEF Expected, Unread
<1>5. \A c \in Containers : \A k \in 1..Len(answers) : Right(k, c)' <=> Right(k, c)
  BY <1>1, <1>3 DEF Right
<1>6. /\ answers'[n].of = d /\ answers'[n].live = live
      /\ answers'[n].nodes = Content(d) /\ answers'[n].states = StateOf(d)
  BY <1>1 DEF Answer
<1>7. live => Right(n, d)'
  BY <1>3, <1>6 DEF Right
<1>n. n \in 1..n /\ n \notin 1..Len(answers) /\ \A k \in 1..n : k = n \/ k \in 1..Len(answers)
  BY <1>1
<1>8. GhostsAreHosts'
  BY <1>1, <1>6, <1>n DEF KInv, GhostsAreHosts
<1>9. OpenedAreInTree'
  <2> SUFFICES ASSUME NEW c \in Containers, Opened(c)' PROVE InTree(c)
    BY <1>3 DEF OpenedAreInTree
  <2>1. c \in loaded \/ asked[c] > 0
        \/ \E k \in 1..n : answers'[k].live /\ answers'[k].of = c
    BY <1>1, <1>2 DEF Opened
  <2>2. Opened(c) \/ (live /\ c = d)
    BY <1>1, <1>6, <1>n, <2>1 DEF Opened
  <2> QED
    BY <2>2 DEF KInv, OpenedAreInTree
<1>10. HarmIsMended'
  <2> SUFFICES ASSUME NEW c \in Containers, NEW k \in 1..n, Harmful(k, c)'
               PROVE  Mended(k, c)'
    BY <1>1 DEF HarmIsMended
  <2>1. CASE k = n
    <3>1. Spoils(n, c)'
      BY <2>1 DEF Harmful
    <3>2. c = d \/ Content(d) \cap Content(c) = {}
      BY DEF Content
    <3> QED
      BY <1>3, <1>6, <1>7, <3>1, <3>2 DEF Spoils
  <2>2. CASE k \in 1..Len(answers)
    <3>1. n > k /\ 1..k \subseteq 1..Len(answers)
      BY <1>1, <2>2
    <3>2. Harmful(k, c)
      BY <1>1, <1>2, <1>3, <1>5, <2>2, <3>1 DEF Harmful, Bound, Spoils
    <3>3. Mended(k, c)
      BY <1>1, <2>2, <3>2 DEF KInv, HarmIsMended
    <3>4. CASE Expected(c)
      BY <1>1, <1>4, <1>7, <1>n, <3>1, <3>4 DEF Mended
    <3>5. ASSUME NEW j \in DOMAIN answers, j > k, Right(j, c)
          PROVE  Mended(k, c)'
      BY <1>1, <1>5, <1>n, <3>5 DEF Mended
    <3> QED
      BY <3>3, <3>4, <3>5 DEF Mended
  <2> QED
    BY <1>n, <2>1, <2>2
<1>11. StaleIsKnown'
  <2> SUFFICES ASSUME NEW c \in loaded, ~Settled(c)', ~Expected(c)'
               PROVE  Underway(c)'
    BY <1>2 DEF StaleIsKnown
  <2>0. c \in Containers
    BY <1>0 DEF IInv, TypeOK
  <2>1. ~Settled(c)
    BY <1>2, <1>3, <2>0 DEF Settled
  <2>2. CASE live /\ c = d
    BY <1>1, <1>7, <1>n, <2>2 DEF Underway
  <2>3. CASE ~(live /\ c = d)
    <3>1. Underway(c)
      BY <1>4, <2>0, <2>1, <2>3 DEF KInv, StaleIsKnown
    <3> QED
      BY <1>1, <1>5, <1>n, <2>0, <3>1 DEF Underway
  <2> QED
    BY <2>2, <2>3
<1> QED
  BY <1>8, <1>9, <1>10, <1>11

-----------------------------------------------------------------------------
(* Where the answer that is the k-th, once answer i is gone, was before.   *)
Before(i, k) == IF k < i THEN k ELSE k + 1

(* The places of the answers that stay keep their order.                   *)
LEMMA SkippedPlaces ==
  ASSUME NEW n \in Nat, NEW i \in 1..n
  PROVE  /\ n - 1 \in Nat
         /\ \A k \in 1..n - 1 : /\ Before(i, k) \in 1..n /\ Before(i, k) # i
                                /\ k < i <=> Before(i, k) < i
                                /\ \A j \in 1..n - 1 : k < j <=> Before(i, k) < Before(i, j)
         /\ \A j \in 1..n : j # i => \E k \in 1..n - 1 : Before(i, k) = j
<1>1. ASSUME NEW j \in 1..n, j # i
      PROVE  \E k \in 1..n - 1 : Before(i, k) = j
  <2>1. CASE j < i
    <3>1. j \in 1..n - 1 /\ Before(i, j) = j
      BY <2>1 DEF Before
    <3> QED
      BY <3>1
  <2>2. CASE j > i
    <3>1. j - 1 \in 1..n - 1 /\ Before(i, j - 1) = j
      BY <2>2 DEF Before
    <3> QED
      BY <3>1
  <2> QED
    BY <1>1, <2>1, <2>2
<1>2. \A k \in 1..n - 1 : /\ Before(i, k) \in 1..n /\ Before(i, k) # i
                          /\ k < i <=> Before(i, k) < i
                          /\ \A j \in 1..n - 1 : k < j <=> Before(i, k) < Before(i, j)
  BY DEF Before
<1> QED
  BY <1>1, <1>2

(* Answer i is gone.  Those before it are too old for what it was about,   *)
(* and the containers in G have left the tree: what that leaves of KInv.   *)
LEMMA OneLess ==
  ASSUME KInv, NEW i \in DOMAIN answers, NEW G \in SUBSET Hosts,
         UNCHANGED <<parent, st>>,
         DOMAIN answers' = 1..Len(answers) - 1,
         \A k \in 1..Len(answers) - 1 :
           LET r == answers[Before(i, k)] IN
             /\ answers'[k].of = r.of
             /\ answers'[k].nodes = r.nodes
             /\ answers'[k].states = r.states
             /\ (answers'[k].live <=> r.live /\ r.of \notin G)
             /\ r.after \subseteq answers'[k].after
             /\ k < i /\ answers[i].live => answers[i].of \in answers'[k].after,
         \A c \in loaded' : c \notin G /\ (c \in loaded \/ (answers[i].live /\ c = answers[i].of)),
         \A c \in Containers \ G : Expected(c) => Expected(c)',
         \A c \in Containers : asked'[c] > 0 => asked[c] > 0 /\ c \notin G,
         \A c \in Containers \ G : InTree(c) => InTree(c)'
  PROVE  /\ GhostsAreHosts' /\ OpenedAreInTree' /\ HarmIsMended'
         /\ \A c \in Containers \ G : \A j \in DOMAIN answers : j # i /\ Right(j, c) => Underway(c)'
<1>0. IInv
  BY DEF KInv
<1> PICK n : n = Len(answers)
  OBVIOUS
<1>1. n \in Nat /\ DOMAIN answers = 1..n /\ i \in 1..n /\ DOMAIN answers' = 1..n - 1
  BY <1>0, AnswersDomain
<1>2. /\ n - 1 \in Nat
      /\ \A k \in 1..n - 1 : /\ Before(i, k) \in 1..n /\ Before(i, k) # i
                             /\ k < i <=> Before(i, k) < i
                             /\ \A j \in 1..n - 1 : k < j <=> Before(i, k) < Before(i, j)
      /\ \A j \in 1..n : j # i => \E k \in 1..n - 1 : Before(i, k) = j
  BY ONLY <1>1, SkippedPlaces
<1>3. \A k \in 1..n - 1 :
        /\ answers'[k].of = answers[Before(i, k)].of
        /\ answers'[k].nodes = answers[Before(i, k)].nodes
        /\ answers'[k].states = answers[Before(i, k)].states
        /\ (answers'[k].live <=> answers[Before(i, k)].live /\ answers[Before(i, k)].of \notin G)
        /\ answers[Before(i, k)].after \subseteq answers'[k].after
        /\ k < i /\ answers[i].live => answers[i].of \in answers'[k].after
  OBVIOUS
<1>4. /\ \A c \in Containers : Content(c)' = Content(c) /\ StateOf(c)' = StateOf(c)
      /\ \A c \in Containers : Exists(c)' <=> Exists(c)
  BY DEF Content, StateOf, Exists
<1>5. \A c \in Containers : \A k \in 1..n - 1 :
        Right(k, c)' <=> Right(Before(i, k), c) /\ c \notin G
  <2> SUFFICES ASSUME NEW c \in Containers, NEW k \in 1..n - 1
               PROVE  Right(k, c)' <=> Right(Before(i, k), c) /\ c \notin G
    OBVIOUS
  <2>1. Content(c)' = Content(c) /\ StateOf(c)' = StateOf(c)
    BY <1>4
  <2> QED
    BY <1>3, <2>1 DEF Right
<1>6. GhostsAreHosts'
  BY <1>1, <1>2, <1>3 DEF KInv, GhostsAreHosts
<1>7. ASSUME NEW c \in Containers, Opened(c)'
      PROVE  Opened(c) /\ c \notin G
  <2>1. CASE c \in loaded'
    BY <2>1 DEF Opened
  <2>2. CASE asked'[c] > 0
    BY <2>2 DEF Opened
  <2>3. ASSUME NEW k \in 1..n - 1, answers'[k].live, answers'[k].of = c
        PROVE  Opened(c) /\ c \notin G
    BY <1>1, <1>2, <1>3, <2>3 DEF Opened
  <2> QED
    BY <1>1, <1>7, <2>1, <2>2, <2>3 DEF Opened
<1>8. OpenedAreInTree'
  BY <1>7 DEF KInv, OpenedAreInTree
<1>9. ASSUME NEW c \in Containers \ G, NEW j \in 1..n, j # i, Right(j, c)
      PROVE  \E k \in 1..n - 1 : Before(i, k) = j /\ Right(k, c)'
  BY <1>2, <1>5, <1>9
<1>10. ASSUME NEW c \in Containers, NEW k \in 1..n - 1, Bound(k, c)'
       PROVE  /\ c \notin G
              /\ Bound(Before(i, k), c) \/ (k < i /\ answers[i].live /\ c = answers[i].of)
  <2>1. CASE c \in loaded'
    <3>1. c \notin G /\ (c \in loaded \/ (answers[i].live /\ c = answers[i].of))
      BY <2>1
    <3>2. k < i \/ i \in 1..Before(i, k)
      BY <1>1, <1>2 DEF Before
    <3> QED
      BY <3>1, <3>2 DEF Bound
  <2>2. ASSUME NEW j \in 1..k, answers'[j].live, answers'[j].of = c
        PROVE  c \notin G /\ Bound(Before(i, k), c)
    <3>1. j \in 1..n - 1 /\ Before(i, j) \in 1..Before(i, k)
      BY <1>1, <2>2 DEF Before
    <3> QED
      BY <1>3, <2>2, <3>1 DEF Bound
  <2> QED
    BY <1>10, <2>1, <2>2 DEF Bound
<1>11. HarmIsMended'
  <2> SUFFICES ASSUME NEW c \in Containers, NEW k \in 1..n - 1, Harmful(k, c)'
               PROVE  Mended(k, c)'
    BY <1>1 DEF HarmIsMended
  <2>1. /\ c \notin answers[Before(i, k)].after /\ Exists(c)
        /\ ~(k < i /\ answers[i].live /\ c = answers[i].of)
        /\ Bound(k, c)' /\ Spoils(k, c)'
    BY <1>3, <1>4 DEF Harmful
  <2>2. c \notin G /\ Bound(Before(i, k), c)
    BY <1>10, <2>1
  <2>3. Spoils(Before(i, k), c)
    BY <1>3, <1>4, <1>5, <2>1, <2>2 DEF Spoils
  <2>4. Mended(Before(i, k), c)
    BY <1>1, <1>2, <2>1, <2>2, <2>3 DEF Harmful, HarmIsMended, KInv
  <2>5. CASE Expected(c)
    BY <2>2, <2>5 DEF Mended
  <2>6. ASSUME NEW j \in 1..n, j > Before(i, k), Right(j, c)
        PROVE  Mended(k, c)'
    <3>1. CASE j = i
      <4>1. k < i
        BY <1>1, <1>2, <2>6, <3>1
      <4>2. answers[i].live /\ c = answers[i].of
        BY <2>6, <3>1 DEF Right
      <4> QED
        BY <2>1, <4>1, <4>2
    <3>2. CASE j # i
      <4>1. PICK m \in 1..n - 1 : Before(i, m) = j /\ Right(m, c)'
        BY <1>9, <2>2, <2>6, <3>2
      <4>2. m > k
        BY <1>1, <1>2, <2>6, <4>1
      <4> QED
        BY <1>1, <4>1, <4>2 DEF Mended
    <3> QED
      BY <3>1, <3>2
  <2> QED
    BY <1>1, <2>4, <2>5, <2>6 DEF Mended
<1>12. ASSUME NEW c \in Containers \ G, NEW j \in DOMAIN answers, j # i, Right(j, c)
       PROVE  Underway(c)'
  BY <1>1, <1>9, <1>12 DEF Underway
<1> QED
  BY <1>6, <1>8, <1>11, <1>12

-----------------------------------------------------------------------------
(* An answer that is too old for nothing more is the same answer.          *)
LEMMA AnswersStay ==
  ASSUME IInv, UNCHANGED answers
  PROVE  answers' = [k \in DOMAIN answers |-> TooOld(answers[k], {})]
<1>1. ASSUME NEW k \in DOMAIN answers
      PROVE  TooOld(answers[k], {}) = answers[k]
  <2>1. answers[k] \in Answers
    BY AnswerParts DEF Good
  <2>2. answers[k].after \cup ({} \cap Containers) = answers[k].after
    OBVIOUS
  <2> QED
    BY ONLY <2>1, <2>2 DEF TooOld, Answers
<1>2. answers = [k \in DOMAIN answers |-> answers[k]]
  BY GoodAnswersInv, LenProperties
<1> QED
  BY <1>1, <1>2

(* Who is above whom, in a database as it is.                              *)
Ancestry ==
  /\ \A v \in Vms : parent[v] # None =>
       /\ parent[v] \in Hosts /\ parent[parent[v]] \in Pools /\ Exists(parent[v])
       /\ get_hierarchy(v) = {v, parent[v], parent[parent[v]]}
  /\ \A h \in Hosts : parent[h] # None =>
       parent[h] \in Pools /\ get_hierarchy(h) = {h, parent[h]}
  /\ \A e \in Items : parent[e] = None => get_hierarchy(e) = {}
  /\ \A p \in Pools : get_hierarchy(p) = {p}

(* What get_hierarchy() finds above an entity is what is above it.         *)
LEMMA Above == IInv => Ancestry
<1> SUFFICES ASSUME IInv PROVE Ancestry
  OBVIOUS
<1>0. /\ Items = Hosts \cup Vms /\ Hosts \cap Vms = {}
      /\ Pools \cap Items = {} /\ None \notin Pools \cup Items
  BY DEF Items, Entities
<1>1. /\ \A i \in Items : parent[i] \in Pools \cup Hosts \cup {None}
      /\ \A v \in Vms : parent[v] \notin Pools
      /\ \A h \in Hosts : parent[h] \notin Hosts
      /\ \A v \in Vms : parent[v] # None => parent[parent[v]] # None
  <2>1. parent \in [Items -> Pools \cup Hosts \cup {None}]
    BY DEF IInv, TypeOK, Containers
  <2>2. \A i \in Items, c \in Pools \cup Hosts : parent[i] = c => i \in LevelOf(c)
    BY DEF IInv, Levels, Containers
  <2>3. \A v \in Vms : parent[v] # None => parent[parent[v]] # None
    BY DEF IInv, Levels
  <2>4. \A v \in Vms : parent[v] \notin Pools
    BY ONLY <1>0, <2>2 DEF LevelOf
  <2>5. \A h \in Hosts : parent[h] \notin Hosts
    BY ONLY <1>0, <2>2 DEF LevelOf
  <2> QED
    BY ONLY <2>1, <2>3, <2>4, <2>5
<1>2. ASSUME NEW v \in Vms, parent[v] # None
      PROVE  parent[v] \in Hosts /\ parent[parent[v]] \in Pools
  BY ONLY <1>0, <1>1, <1>2
<1>3. ASSUME NEW v \in Vms, parent[v] # None
      PROVE  Exists(parent[v]) /\ get_hierarchy(v) = {v, parent[v], parent[parent[v]]}
  <2>1. Exists(parent[v]) /\ Exists(v) /\ v \notin Pools /\ v \notin Hosts
    BY ONLY <1>0, <1>1, <1>2, <1>3 DEF Exists
  <2> QED
    BY ONLY <1>3, <2>1 DEF get_hierarchy
<1>4. ASSUME NEW h \in Hosts, parent[h] # None
      PROVE  parent[h] \in Pools /\ get_hierarchy(h) = {h, parent[h]}
  <2>1. Exists(h) /\ h \notin Pools /\ parent[h] \in Pools /\ h \notin Vms
    BY ONLY <1>0, <1>1, <1>4 DEF Exists
  <2> QED
    BY ONLY <1>4, <2>1 DEF get_hierarchy
<1>5. ASSUME NEW e \in Items, parent[e] = None
      PROVE  get_hierarchy(e) = {}
  <2>1. ~Exists(e)
    BY ONLY <1>0, <1>5 DEF Exists
  <2> QED
    BY ONLY <2>1 DEF get_hierarchy
<1>6. ASSUME NEW p \in Pools
      PROVE  get_hierarchy(p) = {p}
  <2>1. Exists(p) /\ p \notin Hosts /\ p \notin Vms
    BY ONLY <1>0, <1>6 DEF Exists
  <2> QED
    BY ONLY <1>6, <2>1 DEF get_hierarchy
<1> QED
  BY <1>2, <1>3, <1>4, <1>5, <1>6 DEF Ancestry

(* The same after a step.                                                  *)
LEMMA AboveAfter == IInv' => Ancestry'
BY Above, PTL

(* A container is expected if somebody who is owed is below it.            *)
LEMMA OwedBelow ==
  ASSUME NEW c
  PROVE  Owed(c) <=> \E k \in Changes : \E e \in owed[k] : c \in get_hierarchy(e)
BY DEF Owed, Hierarchies

(* A commit owes what it names, beside all that was owed before.           *)
LEMMA CommitOwes ==
  ASSUME KInv, NEW ids, Commit(ids)
  PROVE  /\ NothingOwedYet'
         /\ \E j \in Changes : owed'[j] = ids
         /\ \A k \in Changes : \A e \in owed[k] : e \in owed'[k]
<1>1. /\ events + 1 \in Changes /\ events \in Nat /\ MaxEvents \in Nat
      /\ owed[events + 1] = {} /\ events + 1 > events
  BY DEF KInv, NothingOwedYet, IInv, TypeOK, Commit, Changes
<1>2. DOMAIN owed = Changes /\ \A k \in Changes : k \in Int
  BY DEF KInv, IInv, TypeOK, Changes
<1>3. owed' = [owed EXCEPT ![events + 1] = ids] /\ events' = events + 1
  BY DEF Commit
<1>4. owed'[events + 1] = ids /\ \A k \in Changes : k # events + 1 => owed'[k] = owed[k]
  BY <1>1, <1>2, <1>3
<1>5. NothingOwedYet'
  BY <1>1, <1>2, <1>3, <1>4 DEF KInv, NothingOwedYet
<1> QED
  BY <1>1, <1>4, <1>5 DEF Commit

(* A change of the database keeps what the answers under way are good for. *)
LEMMA ChangeIsExpected ==
  ASSUME KInv, IInv', NEW M, NEW ids, Commit(ids), Miss(M, answers),
         \A c \in Containers : Exists(c)' => Exists(c),
         \A c \in Containers : \/ c \in M \/ ~Exists(c)'
                               \/ \E e \in ids : c \in get_hierarchy(e)'
                               \/ /\ Content(c)' = Content(c) /\ StateOf(c)' = StateOf(c)
                                  /\ \A e \in Entities :
                                       c \in get_hierarchy(e) => c \in get_hierarchy(e)'
  PROVE  KInv'
<1>1. /\ NothingOwedYet'
      /\ UNCHANGED <<beat, session, tree, told, requests>>
      /\ \E j \in Changes : owed'[j] = ids
      /\ \A k \in Changes : \A e \in owed[k] : e \in owed'[k]
  BY CommitOwes DEF Commit
<1>2. \A c : Owed(c) <=> \E k \in Changes : \E e \in owed[k] : c \in get_hierarchy(e)
  BY OwedBelow
<1>3. \A c : Owed(c)' <=> \E k \in Changes : \E e \in owed'[k] : c \in get_hierarchy(e)'
  BY DEF Owed, Hierarchies
<1>4. \A k \in Changes : owed[k] \subseteq Entities
  BY DEF KInv, IInv, TypeOK
<1>5. /\ answers' = [k \in DOMAIN answers |-> TooOld(answers[k], M)]
      /\ missed' = missed \cup (M \cap loaded)
  BY DEF Miss
<1>6. \A c \in Containers : Unread(c)' <=> Unread(c)
  BY <1>1 DEF Unread, session, requests
<1>7. UNCHANGED tree /\ UNCHANGED asked
  BY <1>1 DEF requests
<1>8. ASSUME NEW c \in Containers
      PROVE  \/ c \in M \/ ~Exists(c)' \/ ~InTree(c) \/ Expected(c)'
             \/ ~Expected(c) /\ Content(c)' = Content(c) /\ StateOf(c)' = StateOf(c)
  <2>1. CASE \E e \in ids : c \in get_hierarchy(e)'
    BY <1>1, <1>3, <2>1 DEF Expected
  <2>2. CASE /\ Content(c)' = Content(c) /\ StateOf(c)' = StateOf(c)
             /\ \A e \in Entities :
                  c \in get_hierarchy(e) => c \in get_hierarchy(e)'
    <3>1. Owed(c) => Owed(c)'
      BY <1>1, <1>2, <1>3, <1>4, <2>2
    <3> QED
      BY <1>6, <2>2, <3>1 DEF Expected
  <2> QED
    BY <2>1, <2>2
<1>9. GhostsAreHosts' /\ OpenedAreInTree' /\ HarmIsMended' /\ StaleIsKnown'
  BY <1>5, <1>7, <1>8, TreeStays
<1> QED
  BY <1>1, <1>9 DEF KInv

(* A VM starts or stops: its host shows it.                                *)
LEMMA StartOrStopKnown ==
  ASSUME KInv, IInv', NEW v \in Vms, StartOrStopVm(v)
  PROVE  KInv'
<1>0. IInv /\ Ancestry /\ Vms \subseteq Items
  BY Above DEF KInv, Items
<1>1. /\ Commit({v}) /\ UNCHANGED <<parent, missed, answers>>
      /\ \A w \in Vms : w # v => st'[w] = st[w]
  BY <1>0 DEF StartOrStopVm, history, IInv, TypeOK
<1>2. Miss({}, answers)
  BY <1>0, <1>1, AnswersStay DEF Miss
<1>3. \A e : (Exists(e)' <=> Exists(e)) /\ get_hierarchy(e)' = get_hierarchy(e)
  BY <1>1 DEF Exists, get_hierarchy
<1>4. \A c : Content(c)' = Content(c)
  BY <1>1 DEF Content
<1>5. parent[v] # None
  BY <1>0 DEF StartOrStopVm, Exists, Items, Entities
<1>6. ASSUME NEW c \in Containers, c # parent[v]
      PROVE  StateOf(c)' = StateOf(c)
  <2>1. \A w \in Content(c) \cap Vms : w # v
    BY <1>6 DEF Content
  <2> QED
    BY <1>1, <1>4, <2>1 DEF StateOf
<1>7. parent[v] \in get_hierarchy(v)
  BY <1>0, <1>5 DEF Ancestry
<1>8. \A c \in Containers : \/ c \in {} \/ ~Exists(c)'
                            \/ \E e \in {v} : c \in get_hierarchy(e)'
                            \/ /\ Content(c)' = Content(c) /\ StateOf(c)' = StateOf(c)
                               /\ \A e \in Entities :
                                    c \in get_hierarchy(e) => c \in get_hierarchy(e)'
  BY <1>3, <1>4, <1>6, <1>7
<1> QED
  BY <1>1, <1>2, <1>3, <1>8, ChangeIsExpected

(* A VM leaves a host, for another or for good: the other is named, and    *)
(* the one it leaves is named or missed.                                   *)
LEMMA VmLeavesKnown ==
  ASSUME KInv, IInv', NEW v \in Vms, parent[v] # None,
         NEW ids, ids \subseteq Hosts, Commit(ids),
         UNCHANGED st, Miss(Unannounced(parent[v], ids), answers),
         NEW q, parent' = [parent EXCEPT ![v] = q],
         q = None \/ (q \in Hosts /\ q \in ids)
  PROVE  KInv'
<1>0. IInv /\ Ancestry /\ Ancestry' /\ Vms \subseteq Items /\ DOMAIN parent = Items
  BY Above, AboveAfter DEF KInv, Items, IInv, TypeOK
<1>n. /\ Items = Hosts \cup Vms /\ Hosts \cap Vms = {} /\ Pools \cap Items = {}
      /\ None \notin Pools \cup Items
      /\ Entities = Pools \cup Items /\ Containers = Pools \cup Hosts
  BY DEF Items, Entities, Containers
<1>1. /\ parent'[v] = q
      /\ \A e \in Items : e # v => parent'[e] = parent[e]
  BY <1>0
<1>3. \A e \in Containers : Exists(e)' <=> Exists(e)
  BY <1>n, <1>1 DEF Exists
<1>h. PICK h, p : h = parent[v] /\ p = parent[parent[v]]
  OBVIOUS
<1>2. PICK M : M = Unannounced(h, ids) /\ Miss(M, answers)
  BY <1>h
<1>4. ASSUME NEW c \in Containers, c # h, c # q
      PROVE  Content(c)' = Content(c) /\ StateOf(c)' = StateOf(c)
  <2>1. Content(c)' = Content(c)
    BY <1>0, <1>1, <1>4, <1>h DEF Content
  <2> QED
    BY <2>1 DEF StateOf
<1>5. /\ h \in Hosts /\ p \in Pools
      /\ get_hierarchy(v) = {v, h, p} /\ get_hierarchy(h) = {h, p}
  BY <1>0, <1>n, <1>h DEF Ancestry, Exists
<1>6. ASSUME NEW e \in Hosts
      PROVE  get_hierarchy(e)' = get_hierarchy(e)
  <2>1. e \in Items /\ parent'[e] = parent[e]
    BY <1>n, <1>1
  <2>2. CASE parent[e] = None
    BY <1>0, <2>1, <2>2 DEF Ancestry
  <2>3. CASE parent[e] # None
    BY <1>0, <2>1, <2>3 DEF Ancestry
  <2> QED
    BY <2>2, <2>3
<1>7. \A c : c = h \/ c = p => c \in M \/ \E e \in ids : c \in get_hierarchy(e)'
  BY <1>2, <1>5, <1>6 DEF Unannounced, Hierarchies
<1>8. ASSUME q # None
      PROVE  q \in ids /\ q \in get_hierarchy(q)'
  <2>1. parent'[v] # None /\ parent'[v] = q
    BY <1>1, <1>8
  <2>2. parent'[q] # None /\ q \in Hosts
    BY <1>0, <1>n, <2>1 DEF Ancestry
  <2> QED
    BY <1>0, <1>8, <2>2 DEF Ancestry
<1>9. ASSUME NEW c \in Containers, NEW e \in Entities, e # v, c \in get_hierarchy(e)
      PROVE  c \in get_hierarchy(e)'
  <2>1. CASE e \in Pools
    BY <1>0, <1>9, <2>1 DEF Ancestry
  <2>2. CASE e \in Hosts
    BY <1>6, <1>9, <2>2
  <2>3. CASE e \in Vms /\ parent[e] = None
    BY <1>0, <1>9, <2>3 DEF Ancestry
  <2>4. CASE e \in Vms /\ parent[e] # None
    <3>1. parent[e] \in Hosts /\ get_hierarchy(e) = {e, parent[e], parent[parent[e]]}
      BY <1>0, <2>4 DEF Ancestry
    <3>2. parent'[e] = parent[e] /\ parent'[parent[e]] = parent[parent[e]]
      BY <1>n, <1>1, <1>9, <2>4, <3>1
    <3>3. get_hierarchy(e)' = {e, parent'[e], parent'[parent'[e]]}
      BY <1>0, <2>4, <3>2 DEF Ancestry
    <3> QED
      BY <1>9, <3>1, <3>2, <3>3
  <2> QED
    BY <1>n, <2>1, <2>2, <2>3, <2>4
<1>10. \A c \in Containers : \/ c \in M \/ ~Exists(c)'
                             \/ \E e \in ids : c \in get_hierarchy(e)'
                             \/ /\ Content(c)' = Content(c) /\ StateOf(c)' = StateOf(c)
                                /\ \A e \in Entities :
                                     c \in get_hierarchy(e) => c \in get_hierarchy(e)'
  <2> SUFFICES ASSUME NEW c \in Containers, c \notin M,
                      \A e \in ids : c \notin get_hierarchy(e)'
               PROVE  /\ Content(c)' = Content(c) /\ StateOf(c)' = StateOf(c)
                      /\ \A e \in Entities :
                           c \in get_hierarchy(e) => c \in get_hierarchy(e)'
    OBVIOUS
  <2>1. c # h /\ c # p
    BY <1>7
  <2>2. c # q /\ c # v
    BY <1>8, <1>n
  <2>3. c \notin get_hierarchy(v)
    BY <1>5, <2>1, <2>2
  <2> QED
    BY <1>4, <1>9, <2>1, <2>2, <2>3
<1> QED
  BY <1>2, <1>3, <1>10, ChangeIsExpected

(* A server leaves its pool, for another or for good, then with its VMs:   *)
(* the pools are missed.                                                   *)
LEMMA HostLeavesKnown ==
  ASSUME KInv, IInv', NEW h \in Hosts, parent[h] # None,
         NEW ids, NEW M, parent[h] \in M, Commit(ids), Miss(M, answers),
         UNCHANGED st,
         NEW q,
         \/ /\ q = None
            /\ parent' = [i \in Items |-> IF i = h \/ parent[i] = h THEN None ELSE parent[i]]
         \/ /\ q \in Pools /\ q \in M
            /\ parent' = [parent EXCEPT ![h] = q]
  PROVE  KInv'
<1>0. IInv /\ Ancestry /\ Ancestry' /\ DOMAIN parent = Items
  BY Above, AboveAfter DEF KInv, IInv, TypeOK
<1>n. /\ Items = Hosts \cup Vms /\ Hosts \cap Vms = {} /\ Pools \cap Items = {}
      /\ None \notin Pools \cup Items
      /\ Entities = Pools \cup Items /\ Containers = Pools \cup Hosts
  BY DEF Items, Entities, Containers
<1>1. /\ parent'[h] = q
      /\ \A e \in Items : e # h /\ ~(q = None /\ parent[e] = h) => parent'[e] = parent[e]
      /\ \A e \in Items : e # h /\ q = None /\ parent[e] = h => parent'[e] = None
  BY <1>0, <1>n
<1>h. PICK p : p = parent[h]
  OBVIOUS
<1>2. \A c \in Containers : /\ Exists(c)' => Exists(c)
                            /\ q = None => ~Exists(h)'
  BY <1>n, <1>1 DEF Exists
<1>p. p \in Pools /\ p # h
  BY <1>0, <1>n, <1>h DEF Ancestry
<1>3. ASSUME NEW c \in Containers, c \notin M, q # None \/ c # h
      PROVE  Content(c)' = Content(c) /\ StateOf(c)' = StateOf(c)
  <2>0. c # p /\ c # q
    BY <1>n, <1>h, <1>3
  <2>1. Content(c)' = Content(c)
    BY <1>0, <1>1, <1>n, <1>h, <1>3, <2>0 DEF Content
  <2> QED
    BY <2>1 DEF StateOf
<1>4. ASSUME NEW c \in Containers, c \notin M, q # None \/ c # h,
             NEW e \in Entities, c \in get_hierarchy(e)
      PROVE  c \in get_hierarchy(e)'
  <2>0. c # p
    BY <1>h, <1>4
  <2>1. CASE e \in Pools
    BY <1>0, <1>4, <2>1 DEF Ancestry
  <2>2. CASE e \in Items /\ parent[e] = None
    BY <1>0, <1>4, <2>2 DEF Ancestry
  <2>3. CASE e \in Hosts /\ e # h /\ parent[e] # None
    <3>1. parent'[e] = parent[e]
      BY <1>0, <1>n, <1>1, <2>3 DEF Ancestry
    <3> QED
      BY <1>0, <1>4, <2>3, <3>1 DEF Ancestry
  <2>4. CASE e = h
    <3>1. c = h /\ q # None
      BY <1>0, <1>h, <1>4, <2>0, <2>4 DEF Ancestry
    <3>2. get_hierarchy(e)' = {h, q}
      BY <1>0, <1>1, <2>4, <3>1 DEF Ancestry
    <3> QED
      BY <3>1, <3>2
  <2>5. CASE e \in Vms /\ parent[e] # None
    <3> PICK g : g = parent[e]
      OBVIOUS
    <3>1. /\ g \in Hosts /\ get_hierarchy(e) = {e, g, parent[g]}
          /\ parent[g] \in Pools /\ e # h /\ c # e
      BY <1>0, <1>n, <2>5 DEF Ancestry
    <3>2. ASSUME parent'[e] = g
          PROVE  get_hierarchy(e)' = {e, g, parent'[g]}
      BY <1>0, <1>n, <2>5, <3>1, <3>2 DEF Ancestry
    <3>3. CASE g # h
      <4>1. parent'[g] = parent[g] /\ parent'[e] = g
        BY <1>n, <1>1, <2>5, <3>1, <3>3
      <4> QED
        BY <1>4, <3>1, <3>2, <4>1
    <3>4. CASE g = h
      <4>1. c = h /\ q # None
        BY <1>4, <1>h, <2>0, <3>1, <3>4
      <4>2. parent'[e] = g
        BY <1>n, <1>1, <2>5, <3>1, <4>1
      <4> QED
        BY <3>2, <3>4, <4>1, <4>2
    <3> QED
      BY <3>3, <3>4
  <2> QED
    BY <1>n, <2>1, <2>2, <2>3, <2>4, <2>5
<1>5. \A c \in Containers : \/ c \in M \/ ~Exists(c)'
                            \/ \E e \in ids : c \in get_hierarchy(e)'
                            \/ /\ Content(c)' = Content(c) /\ StateOf(c)' = StateOf(c)
                               /\ \A e \in Entities :
                                    c \in get_hierarchy(e) => c \in get_hierarchy(e)'
  BY <1>2, <1>3, <1>4
<1> QED
  BY <1>2, <1>5, ChangeIsExpected

(* A task changes the database.                                            *)
LEMMA ChangeKnown ==
  ASSUME KInv, Change
  PROVE  KInv'
<1>0. IInv /\ Ancestry /\ IInv'
  BY Above, ChangeStep DEF KInv
<1>n. /\ Items = Hosts \cup Vms /\ Hosts \cap Vms = {} /\ Pools \cap Items = {}
      /\ None \notin Pools \cup Items
      /\ Entities = Pools \cup Items /\ Containers = Pools \cup Hosts
  BY DEF Items, Entities, Containers
<1>1. ASSUME NEW v \in Vms, StartOrStopVm(v) PROVE KInv'
  BY <1>0, <1>1, StartOrStopKnown
<1>2. ASSUME NEW v \in Vms, NEW s \in Hosts, RemoveVm(v, s) PROVE KInv'
  <2>1. /\ parent[v] # None /\ Commit({s}) /\ UNCHANGED st
        /\ Miss(Unannounced(parent[v], {s}), answers) /\ parent' = [parent EXCEPT ![v] = None]
    BY <1>n, <1>2 DEF RemoveVm, Exists
  <2> QED
    BY <1>0, <2>1, VmLeavesKnown
<1>3. ASSUME NEW v \in Vms, NEW s \in Hosts, NEW h \in Hosts, MigrateVm(v, s, h) PROVE KInv'
  <2>1. /\ parent[v] # None /\ Commit({s, h}) /\ UNCHANGED st
        /\ Miss(Unannounced(parent[v], {s, h}), answers) /\ parent' = [parent EXCEPT ![v] = h]
    BY <1>3 DEF MigrateVm
  <2>2. {s, h} \subseteq Hosts /\ h \in {s, h} /\ h \in Hosts
    OBVIOUS
  <2> QED
    BY ONLY KInv, <1>0, <2>1, <2>2, VmLeavesKnown
<1>4. ASSUME NEW h \in Hosts, RemoveServer(h) PROVE KInv'
  <2>1. /\ parent[h] # None /\ Commit({h}) /\ Miss({parent[h]}, answers) /\ UNCHANGED st
        /\ parent' = [i \in Items |-> IF i = h \/ parent[i] = h THEN None ELSE parent[i]]
    BY <1>n, <1>4 DEF RemoveServer, Exists
  <2> QED
    BY <1>0, <2>1, HostLeavesKnown
<1>5. ASSUME NEW h \in Hosts, NEW p \in Pools, TransferServer(h, p) PROVE KInv'
  <2>1. /\ parent[h] # None /\ Commit({}) /\ Miss({parent[h], p}, answers)
        /\ UNCHANGED st /\ parent' = [parent EXCEPT ![h] = p]
    BY <1>n, <1>5 DEF TransferServer, Exists
  <2>2. parent[h] \in {parent[h], p} /\ p \in {parent[h], p}
    OBVIOUS
  <2> QED
    BY ONLY KInv, <1>0, <2>1, <2>2, HostLeavesKnown
<1> QED
  BY <1>1, <1>2, <1>3, <1>4, <1>5 DEF Change

-----------------------------------------------------------------------------
(* A step of the session or of those who tell it: it changes no parent,    *)
(* and nothing in the tree.  What was expected still is, or is missed.     *)
LEMMA SessionKnown ==
  ASSUME KInv, IInv', NEW M, Miss(M, answers),
         UNCHANGED parent, UNCHANGED tree,
         \A k \in Changes : owed'[k] \subseteq owed[k], events' >= events,
         \A c \in Containers : asked'[c] > 0 => asked[c] > 0 \/ InTree(c),
         \A c \in Containers : Expected(c) /\ c \notin M /\ InTree(c) => Expected(c)',
         \A c \in Containers : StateOf(c)' = StateOf(c) \/ c \in M \/ Expected(c)'
  PROVE  KInv'
<1>1. \A c \in Containers : Exists(c)' <=> Exists(c)
  BY DEF Exists
<1>2. \A c \in Containers : Content(c)' = Content(c)
  BY DEF Content
<1>3. \A c \in Containers : \/ c \in M \/ ~Exists(c)' \/ ~InTree(c) \/ Expected(c)'
                            \/ ~Expected(c) /\ Content(c)' = Content(c) /\ StateOf(c)' = StateOf(c)
  BY <1>2
<1>4. GhostsAreHosts' /\ OpenedAreInTree' /\ HarmIsMended' /\ StaleIsKnown'
  BY <1>1, <1>3, TreeStays DEF Miss
<1>5. NothingOwedYet'
  <2>1. events \in Int /\ events' \in Int /\ \A k \in Changes : k \in Int
    BY DEF KInv, IInv, TypeOK, Changes
  <2> QED
    BY <2>1 DEF KInv, NothingOwedYet
<1> QED
  BY <1>4, <1>5 DEF KInv

(* set_updated_entities(): what the session does not take is missed.       *)
LEMMA ToldKnown ==
  ASSUME KInv, NEW ids, set_updated_entities(ids)
  PROVE  \E M : /\ Miss(M, answers)
                /\ \A c : c \in pending \/ c \in Hierarchies(ids) => c \in M \/ c \in pending'
<1>1. CASE ~registered
  <2>1. pending' = pending /\ Miss(Hierarchies(ids), answers)
    BY <1>1 DEF set_updated_entities
  <2> QED
    BY <2>1
<1>2. CASE registered /\ Cardinality(pending) > MaxPending
  <2>1. pending' = Hierarchies(ids) /\ Miss(pending \ Hierarchies(ids), answers)
    BY <1>2 DEF set_updated_entities
  <2> QED
    BY <2>1
<1>3. CASE registered /\ ~(Cardinality(pending) > MaxPending)
  <2>1. pending' = pending \cup Hierarchies(ids) /\ Miss({}, answers)
    BY <1>3 DEF set_updated_entities
  <2> QED
    BY <2>1
<1> QED
  BY <1>1, <1>2, <1>3

(* A change is announced, or the announcement is lost.                     *)
LEMMA AnnounceKnown ==
  ASSUME KInv,
         \/ \E j \in Changes : Announce(j) \/ WalkRaises(j) \/ TaskFails(j)
         \/ \E resumed \in SUBSET Changes : Restart(resumed)
         \/ \E v \in Vms : BeatAnnounces(v) \/ BeatCommits(v)
  PROVE  KInv'
<1>0. IInv /\ IInv'
  BY AnnounceStep DEF KInv
<1>t. owed \in [Changes -> SUBSET Entities] /\ events \in Nat /\ events' \in Nat
      /\ st \in [Vms -> {"up", "down"}]
  BY <1>0 DEF IInv, TypeOK
<1>g. ASSUME UNCHANGED parent
      PROVE  \A e : get_hierarchy(e)' = get_hierarchy(e)
  BY <1>g DEF get_hierarchy, Exists
<1>h. ASSUME UNCHANGED parent
      PROVE  \A ids : Hierarchies(ids)' = Hierarchies(ids)
  BY <1>h DEF Hierarchies, get_hierarchy, Exists
<1>s. ASSUME UNCHANGED <<parent, st>>
      PROVE  \A c : StateOf(c)' = StateOf(c)
  BY <1>s DEF StateOf, Content
<1>1. ASSUME NEW j \in Changes, Announce(j) PROVE KInv'
  <2>1. /\ set_updated_entities(owed[j]) /\ owed' = [owed EXCEPT ![j] = {}]
        /\ UNCHANGED <<parent, st, tree, told, asked, events>>
    BY <1>1 DEF Announce, database, requests
  <2>2. PICK M : /\ Miss(M, answers)
                 /\ \A c : c \in pending \/ c \in Hierarchies(owed[j]) => c \in M \/ c \in pending'
    BY <2>1, ToldKnown
  <2>3. \A c \in Containers : Expected(c) /\ c \notin M => Expected(c)'
    <3> SUFFICES ASSUME NEW c \in Containers, Expected(c), c \notin M PROVE Expected(c)'
      OBVIOUS
    <3>1. CASE c \in pending \/ c \in Hierarchies(owed[j])
      BY <2>2, <3>1 DEF Expected, Unread
    <3>2. CASE asked[c] > 0 \/ \E p \in DOMAIN told : c \in told[p]
      BY <2>1, <3>2 DEF Expected, Unread
    <3>3. ASSUME NEW k \in Changes, k # j, c \in Hierarchies(owed[k])
          PROVE  Expected(c)'
      <4>1. owed'[k] = owed[k]
        BY <1>t, <2>1, <3>3
      <4>2. PICK e \in owed'[k] : c \in get_hierarchy(e)'
        BY <1>g, <2>1, <3>3, <4>1 DEF Hierarchies
      <4> QED
        BY <4>2 DEF Expected, Owed, Hierarchies
    <3> QED
      BY <3>1, <3>2, <3>3 DEF Expected, Unread, Owed
  <2>4. \A k \in Changes : owed'[k] \subseteq owed[k]
    BY <1>t, <2>1
  <2> QED
    BY <1>0, <1>s, <1>t, <2>1, <2>2, <2>3, <2>4, SessionKnown
<1>2. ASSUME NEW j \in Changes, WalkRaises(j) \/ TaskFails(j) PROVE KInv'
  <2>1. /\ owed' = [owed EXCEPT ![j] = {}] /\ events' = events + 1
        /\ UNCHANGED <<parent, st, tree, pending, told, asked>>
    BY <1>2 DEF WalkRaises, TaskFails, database, requests, session
  <2>2. PICK M : Miss(M, answers) /\ M = Hierarchies(owed[j])
    BY <1>2 DEF WalkRaises, TaskFails
  <2>3. \A c \in Containers : Expected(c) /\ c \notin M => Expected(c)'
    <3> SUFFICES ASSUME NEW c \in Containers, Expected(c), c \notin M PROVE Expected(c)'
      OBVIOUS
    <3>1. CASE Unread(c)
      BY <2>1, <3>1 DEF Expected, Unread
    <3>2. ASSUME NEW k \in Changes, c \in Hierarchies(owed[k])
          PROVE  Expected(c)'
      <4>1. owed'[k] = owed[k]
        BY <1>t, <2>1, <2>2, <3>2
      <4>2. PICK e \in owed'[k] : c \in get_hierarchy(e)'
        BY <1>g, <2>1, <3>2, <4>1 DEF Hierarchies
      <4> QED
        BY <4>2 DEF Expected, Owed, Hierarchies
    <3> QED
      BY <3>1, <3>2 DEF Expected, Owed
  <2>4. \A k \in Changes : owed'[k] \subseteq owed[k]
    BY <1>t, <2>1
  <2> QED
    BY <1>0, <1>s, <1>t, <2>1, <2>2, <2>3, <2>4, SessionKnown
<1>o. ASSUME UNCHANGED <<parent, owed>>
      PROVE  \A c : Owed(c)' <=> Owed(c)
  BY <1>h, <1>o DEF Owed
<1>3. ASSUME NEW v \in Vms, BeatAnnounces(v) PROVE KInv'
  <2>1. /\ set_updated_entities({v}) /\ events' = events + 1
        /\ UNCHANGED <<parent, st, owed, tree, told, asked>>
    BY <1>3 DEF BeatAnnounces, database, requests
  <2>2. PICK M : /\ Miss(M, answers)
                 /\ \A c : c \in pending \/ c \in Hierarchies({v}) => c \in M \/ c \in pending'
    BY <2>1, ToldKnown
  <2>3. \A c \in Containers : Expected(c) /\ c \notin M => Expected(c)'
    BY <1>o, <2>1, <2>2 DEF Expected, Unread
  <2> QED
    BY <1>0, <1>s, <1>t, <2>1, <2>2, <2>3, SessionKnown
<1>4. ASSUME NEW v \in Vms, BeatCommits(v) PROVE KInv'
  <2>1. /\ st' = [st EXCEPT ![v] = Flip(st[v])]
        /\ UNCHANGED <<parent, owed, pending, tree, told, asked, events>>
    BY <1>4 DEF BeatCommits, session, requests
  <2>2. PICK M : Miss(M, answers) /\ M = {c \in {parent[v]} \cap Containers : ~Unread(c)}
    BY <1>4 DEF BeatCommits
  <2>3. \A c \in Containers : Expected(c) => Expected(c)'
    BY <1>o, <2>1 DEF Expected, Unread
  <2>4. ASSUME NEW c \in Containers, c # parent[v]
        PROVE  StateOf(c)' = StateOf(c)
    <3>1. \A w \in Content(c) \cap Vms : st'[w] = st[w]
      BY <1>t, <2>1, <2>4 DEF Content
    <3>2. Content(c)' = Content(c)
      BY <2>1 DEF Content
    <3> QED
      BY <3>1, <3>2 DEF StateOf
  <2>5. \A c \in Containers : StateOf(c)' = StateOf(c) \/ c \in M \/ Expected(c)'
    BY <2>2, <2>3, <2>4 DEF Expected
  <2> QED
    BY <1>0, <1>t, <2>1, <2>2, <2>3, <2>5, SessionKnown
<1>5. ASSUME NEW resumed \in SUBSET Changes, Restart(resumed) PROVE KInv'
  <2>1. /\ owed' = [k \in Changes |-> IF k \in resumed THEN owed[k] ELSE {}]
        /\ events' = events + 1
        /\ UNCHANGED <<parent, st, tree, told, asked>>
    BY <1>5 DEF Restart, database, requests
  <2>2. PICK M : /\ Miss(M, answers)
                 /\ M = pending \cup UNION {Hierarchies(owed[k]) : k \in Changes \ resumed}
    BY <1>5 DEF Restart
  <2>3. \A c \in Containers : Expected(c) /\ c \notin M => Expected(c)'
    <3> SUFFICES ASSUME NEW c \in Containers, Expected(c), c \notin M PROVE Expected(c)'
      OBVIOUS
    <3>1. CASE Unread(c)
      BY <2>1, <2>2, <3>1 DEF Expected, Unread
    <3>2. ASSUME NEW k \in Changes, c \in Hierarchies(owed[k])
          PROVE  Expected(c)'
      <4>1. owed'[k] = owed[k]
        BY <2>1, <2>2, <3>2
      <4>2. PICK e \in owed'[k] : c \in get_hierarchy(e)'
        BY <1>g, <2>1, <3>2, <4>1 DEF Hierarchies
      <4> QED
        BY <4>2 DEF Expected, Owed, Hierarchies
    <3> QED
      BY <3>1, <3>2 DEF Expected, Owed
  <2>4. \A k \in Changes : owed'[k] \subseteq owed[k]
    BY <1>t, <2>1
  <2> QED
    BY <1>0, <1>s, <1>t, <2>1, <2>2, <2>3, <2>4, SessionKnown
<1> QED
  BY <1>1, <1>2, <1>3, <1>4, <1>5

(* Polls, their answers and clicks: what the browser is told of it asks    *)
(* for, unless it is not in the tree.                                      *)
LEMMA RequestKnown ==
  ASSUME KInv,
         \/ Poll
         \/ \E p \in DOMAIN told : PollAnswered(p) \/ PollFails(p)
         \/ \E c \in Containers : Click(c)
  PROVE  KInv'
<1>0. IInv /\ IInv'
  BY RequestStep DEF KInv
<1>t. /\ told \in [1..MaxPolls -> SUBSET Entities] /\ events \in Nat /\ events' \in Nat
      /\ asked \in [Containers -> Nat]
  BY <1>0 DEF IInv, TypeOK
<1>s. ASSUME UNCHANGED <<parent, st, owed>>
      PROVE  \A c : StateOf(c)' = StateOf(c) /\ (Owed(c)' <=> Owed(c))
  BY <1>s DEF StateOf, Content, Owed, Hierarchies, get_hierarchy, Exists
<1>m. ASSUME UNCHANGED <<missed, answers>>
      PROVE  Miss({}, answers)
  BY <1>0, <1>m, AnswersStay DEF Miss
<1>1. ASSUME Poll PROVE KInv'
  <2>1. UNCHANGED <<parent, st, owed, tree, asked, events, missed, answers>>
    BY <1>1 DEF Poll, database, writers, requests, history
  <2>2. \A c : Unread(c) => Unread(c)'
    <3>1. CASE UNCHANGED <<told, pending>>
      BY <2>1, <3>1 DEF Unread
    <3>2. ASSUME NEW p \in DOMAIN told, told[p] = {}, told' = [told EXCEPT ![p] = pending]
          PROVE  \A c : Unread(c) => Unread(c)'
      BY <1>t, <2>1, <3>2 DEF Unread
    <3> QED
      BY <1>1, <3>1, <3>2 DEF Poll
  <2> QED
    BY <1>0, <1>m, <1>s, <1>t, <2>1, <2>2, SessionKnown DEF Expected
<1>2. ASSUME NEW p \in DOMAIN told, PollAnswered(p) PROVE KInv'
  <2>1. /\ told' = [told EXCEPT ![p] = {}]
        /\ asked' = [c \in Containers |->
              IF c \in {d \in told[p] \cap Containers : InTree(d)} THEN asked[c] + 1 ELSE asked[c]]
        /\ UNCHANGED <<parent, st, owed, tree, pending, events, missed, answers>>
    BY <1>2 DEF PollAnswered, database, writers, session, history
  <2>2. \A c \in Containers : Unread(c) /\ InTree(c) => Unread(c)'
    <3> SUFFICES ASSUME NEW c \in Containers, Unread(c), InTree(c) PROVE Unread(c)'
      OBVIOUS
    <3>1. CASE c \in told[p]
      <4>1. asked'[c] > 0
        BY <1>t, <2>1, <3>1
      <4> QED
        BY <4>1 DEF Unread
    <3>2. CASE asked[c] > 0
      <4>1. asked'[c] > 0
        BY <1>t, <2>1, <3>2
      <4> QED
        BY <4>1 DEF Unread
    <3>3. ASSUME NEW q \in DOMAIN told, q # p, c \in told[q]
          PROVE  Unread(c)'
      BY <1>t, <2>1, <3>3 DEF Unread
    <3>4. CASE c \in pending
      BY <2>1, <3>4 DEF Unread
    <3> QED
      BY <3>1, <3>2, <3>3, <3>4 DEF Unread
  <2>3. \A c \in Containers : asked'[c] > 0 => asked[c] > 0 \/ InTree(c)
    BY <2>1
  <2> QED
    BY <1>0, <1>m, <1>s, <1>t, <2>1, <2>2, <2>3, SessionKnown DEF Expected
<1>3. ASSUME NEW p \in DOMAIN told, PollFails(p) PROVE KInv'
  <2>1. /\ told' = [told EXCEPT ![p] = {}] /\ events' = events + 1
        /\ UNCHANGED <<parent, st, owed, tree, pending, asked>>
    BY <1>3 DEF PollFails, database, writers, session, requests
  <2>2. PICK M : Miss(M, answers) /\ M = told[p]
    BY <1>3 DEF PollFails
  <2>3. \A c \in Containers : Unread(c) /\ c \notin M => Unread(c)'
    BY <1>t, <2>1, <2>2 DEF Unread
  <2> QED
    BY <1>0, <1>s, <1>t, <2>1, <2>2, <2>3, SessionKnown DEF Expected
<1>4. ASSUME NEW d \in Containers, Click(d) PROVE KInv'
  <2>1. /\ asked' = [asked EXCEPT ![d] = @ + 1] /\ events' = events + 1 /\ InTree(d)
        /\ UNCHANGED <<parent, st, owed, tree, pending, told, missed, answers>>
    BY <1>4 DEF Click, database, writers, session, history
  <2>2. \A c \in Containers : /\ asked[c] > 0 => asked'[c] > 0
                              /\ asked'[c] > 0 => asked[c] > 0 \/ InTree(c)
    BY <1>t, <2>1
  <2>3. \A c \in Containers : Unread(c) => Unread(c)'
    BY <2>1, <2>2 DEF Unread
  <2> QED
    BY <1>0, <1>m, <1>s, <1>t, <2>1, <2>2, <2>3, SessionKnown DEF Expected
<1> QED
  BY <1>1, <1>2, <1>3, <1>4

-----------------------------------------------------------------------------
(* The server reads the database for a request.                            *)
LEMMA ReadKnown ==
  ASSUME KInv,
         \/ \E c \in Containers : dashboardservice(c)
         \/ \E h \in Hosts : AnswerGhost(h)
  PROVE  KInv'
<1>0. IInv /\ IInv'
  BY AnswerStep DEF KInv
<1>t. asked \in [Containers -> Nat]
  BY <1>0 DEF IInv, TypeOK
<1>1. ASSUME NEW d \in Containers, dashboardservice(d) PROVE KInv'
  <2>1. /\ asked[d] > 0 /\ asked' = [asked EXCEPT ![d] = @ - 1]
        /\ answers' = Append(answers, Answer(d, TRUE))
        /\ UNCHANGED <<database, writers, session, tree, told, missed, events>>
    BY <1>1 DEF dashboardservice
  <2>2. InTree(d)
    BY <2>1 DEF KInv, OpenedAreInTree, Opened
  <2>3. \A c \in Containers : /\ asked'[c] > 0 => asked[c] > 0
                              /\ asked[c] > 0 => asked'[c] > 0 \/ (TRUE /\ c = d)
    BY <1>t, <2>1
  <2>4. GhostsAreHosts' /\ OpenedAreInTree' /\ HarmIsMended' /\ StaleIsKnown'
    BY <2>1, <2>2, <2>3, ReadLast
  <2> QED
    BY <1>0, <2>1, <2>4 DEF KInv, NothingOwedYet, writers
<1>2. ASSUME NEW d \in Hosts, AnswerGhost(d) PROVE KInv'
  <2>1. /\ UNCHANGED asked
        /\ answers' = Append(answers, Answer(d, FALSE))
        /\ UNCHANGED <<database, writers, session, tree, told, missed, events>>
    BY <1>2 DEF AnswerGhost
  <2>2. d \in Containers
    BY DEF Containers
  <2>3. \A c \in Containers : /\ asked'[c] > 0 => asked[c] > 0
                              /\ asked[c] > 0 => asked'[c] > 0 \/ (FALSE /\ c = d)
    BY <2>1
  <2>4. GhostsAreHosts' /\ OpenedAreInTree' /\ HarmIsMended' /\ StaleIsKnown'
    BY <2>1, <2>2, <2>3, ReadLast
  <2> QED
    BY <1>0, <2>1, <2>4 DEF KInv, NothingOwedYet, writers
<1> QED
  BY <1>1, <1>2

(* A part of a sequence is as long as it is, and starts where it starts.   *)
LEMMA LenBefore ==
  ASSUME NEW as, NEW n \in Nat, NEW i \in 1..n
  PROVE  Len(SubSeq(as, 1, i - 1)) = i - 1
BY ONLY n \in Nat, i \in 1..n

(* The rest of a sequence.                                                 *)
LEMMA LenAfter ==
  ASSUME NEW as, NEW n \in Nat, NEW i \in 1..n
  PROVE  Len(SubSeq(as, i + 1, n)) = n - i
BY ONLY n \in Nat, i \in 1..n

(* The elements of a part of a sequence.                                   *)
LEMMA AtOfPart ==
  ASSUME NEW as, NEW n \in Int, NEW m \in Int, NEW k \in 1..1 + n - m
  PROVE  SubSeq(as, m, n)[k] = as[k + m - 1]
BY ONLY n \in Int, m \in Int, k \in 1..1 + n - m

(* The sequence without one of its elements.                               *)
LEMMA RemoveAtSkips ==
  ASSUME NEW as \in Seq(Good), NEW i \in DOMAIN as
  PROVE  /\ DOMAIN RemoveAt(as, i) = 1..Len(as) - 1
         /\ \A k \in 1..Len(as) - 1 : RemoveAt(as, i)[k] = as[Before(i, k)]
<1>1. PICK n : n = Len(as)
  OBVIOUS
<1>2. n \in Nat /\ i \in 1..n /\ as \in [1..n -> Good]
  BY LenProperties, <1>1, Zenon
<1>3. PICK s, t, u : s = SubSeq(as, 1, i - 1) /\ t = SubSeq(as, i + 1, n) /\ u = s \o t
  OBVIOUS
<1>4. RemoveAt(as, i) = u /\ u \in Seq(Good)
  BY <1>1, <1>3, FewerAnswers, Zenon DEF RemoveAt
<1>5. /\ 1 \in Int /\ i - 1 \in Int /\ i + 1 \in Int /\ n \in Int
      /\ \A k \in 1..i - 1 : k \in 1..n
      /\ \A k \in i + 1..n : k \in 1..n
  BY ONLY <1>2
<1>6. s \in Seq(Good) /\ t \in Seq(Good)
  <2>1. (\A k \in 1..i - 1 : as[k] \in Good) /\ (\A k \in i + 1..n : as[k] \in Good)
    BY ONLY <1>2, <1>5, Zenon
  <2> QED
    BY ONLY <1>3, <1>5, <2>1, SubSeqProperties, Zenon
<1>7. Len(s) = i - 1 /\ Len(t) = n - i
  BY ONLY <1>2, <1>3, LenBefore, LenAfter, Zenon
<1>8. /\ \A k \in 1..1 + (i - 1) - 1 : s[k] = as[k + 1 - 1]
      /\ \A k \in 1..1 + n - (i + 1) : t[k] = as[k + (i + 1) - 1]
  BY ONLY <1>3, <1>5, AtOfPart, Zenon
<1>9. /\ Len(u) = Len(s) + Len(t)
      /\ \A k \in 1..Len(s) + Len(t) : u[k] = IF k <= Len(s) THEN s[k] ELSE t[k - Len(s)]
  BY ONLY <1>3, <1>6, ConcatProperties, Zenon
<1>10. PICK l, m : l = Len(s) /\ m = Len(t)
  OBVIOUS
<1>11. l = i - 1 /\ m = n - i
  BY ONLY <1>7, <1>10, Zenon
<1>12. \A k \in 1..l + m : u[k] = IF k <= l THEN s[k] ELSE t[k - l]
  BY ONLY <1>9, <1>10, Zenon
<1>13. DOMAIN u = 1..n - 1
  <2>1. Len(u) = l + m
    BY ONLY <1>9, <1>10, Zenon
  <2>2. l + m = n - 1
    BY ONLY <1>2, <1>11
  <2>3. DOMAIN u = 1..Len(u)
    BY ONLY <1>4, LenProperties, Zenon
  <2> QED
    BY ONLY <2>1, <2>2, <2>3, Zenon
<1>14. ASSUME NEW k \in 1..n - 1
       PROVE  u[k] = as[Before(i, k)]
  <2>1. CASE k < i
    <3>1. /\ k \in 1..l + m /\ k <= l /\ Before(i, k) = k
          /\ k \in 1..1 + (i - 1) - 1 /\ k + 1 - 1 = k
      BY ONLY <1>2, <1>11, <1>14, <2>1 DEF Before
    <3> QED
      BY ONLY <1>8, <1>12, <3>1, Zenon
  <2>2. CASE ~(k < i)
    <3>1. /\ k \in 1..l + m /\ ~(k <= l) /\ Before(i, k) = k + 1
          /\ k - l \in 1..1 + n - (i + 1) /\ (k - l) + (i + 1) - 1 = k + 1
      BY ONLY <1>2, <1>11, <1>14, <2>2 DEF Before
    <3> QED
      BY ONLY <1>8, <1>12, <3>1, Zenon
  <2> QED
    BY ONLY <2>1, <2>2
<1> QED
  BY ONLY <1>1, <1>4, <1>13, <1>14, Zenon

(* An answer is lost: its container is missed, if it was still wanted.     *)
LEMMA FailKnown ==
  ASSUME KInv, NEW i \in DOMAIN answers, AnswerFails(i)
  PROVE  KInv'
<1>0. IInv /\ IInv' /\ answers \in Seq(Good)
  BY AnswerStep, GoodAnswersInv DEF KInv
<1>1. PICK M, as : /\ M = (IF answers[i].live THEN {answers[i].of} ELSE {})
                   /\ as = RemoveAt(answers, i) /\ Miss(M, as)
  BY DEF AnswerFails
<1>2. /\ UNCHANGED <<parent, st, owed, tree, pending, told, asked>> /\ events' = events + 1
  BY DEF AnswerFails, database, writers, session, requests
<1>3. /\ DOMAIN as = 1..Len(answers) - 1
      /\ \A k \in 1..Len(answers) - 1 : as[k] = answers[Before(i, k)]
  BY <1>0, <1>1, RemoveAtSkips
<1>4. answers' = [k \in DOMAIN as |-> TooOld(as[k], M)] /\ missed' = missed \cup (M \cap loaded)
  BY <1>1 DEF Miss
<1>5. Len(answers) \in Nat /\ DOMAIN answers = 1..Len(answers)
  BY <1>0, AnswersDomain
<1>6. \A k \in 1..Len(answers) - 1 : Before(i, k) \in DOMAIN answers
  BY <1>5, SkippedPlaces
<1>7. M \subseteq Containers
  BY <1>0, <1>1, AnswerParts
<1>8. ASSUME NEW k \in 1..Len(answers) - 1
      PROVE  LET r == answers[Before(i, k)] IN
             /\ answers'[k].of = r.of
             /\ answers'[k].nodes = r.nodes
             /\ answers'[k].states = r.states
             /\ (answers'[k].live <=> r.live /\ r.of \notin {})
             /\ r.after \subseteq answers'[k].after
             /\ k < i /\ answers[i].live => answers[i].of \in answers'[k].after
  <2>1. answers'[k] = TooOld(answers[Before(i, k)], M)
    BY <1>3, <1>4
  <2>2. answers[i].live => answers[i].of \in M \cap Containers
    BY <1>1, <1>7
  <2> QED
    BY <1>0, <1>6, <2>1, <2>2, TooOldParts
<1>9. UNCHANGED <<childNodes, nodeHash, icon, loaded>>
  BY <1>2 DEF tree
<1>10. \A c \in Containers : /\ Owed(c)' <=> Owed(c)
                             /\ Unread(c)' <=> Unread(c)
                             /\ InTree(c)' <=> InTree(c)
                             /\ Agrees(c)' <=> Agrees(c)
                             /\ Exists(c)' <=> Exists(c)
  <2>1. \A c \in Containers : Owed(c)' <=> Owed(c)
    BY <1>2 DEF Owed, Hierarchies, get_hierarchy, Exists
  <2>2. \A c \in Containers : Unread(c)' <=> Unread(c)
    BY <1>2 DEF Unread
  <2>3. \A c \in Containers : Agrees(c)' <=> Agrees(c)
    BY <1>2, <1>9 DEF Agrees, IconsIn, StateOf, Content
  <2>4. \A c \in Containers : (InTree(c)' <=> InTree(c)) /\ (Exists(c)' <=> Exists(c))
    BY <1>2, <1>9 DEF InTree, Exists
  <2> QED
    BY <2>1, <2>2, <2>3, <2>4
<1>11. DOMAIN answers' = 1..Len(answers) - 1
  BY <1>3, <1>4
<1>12. /\ GhostsAreHosts' /\ OpenedAreInTree' /\ HarmIsMended'
       /\ \A c \in Containers \ {} : \A j \in DOMAIN answers : j # i /\ Right(j, c) => Underway(c)'
  BY <1>2, <1>8, <1>9, <1>10, <1>11, OneLess DEF Expected
<1>13. StaleIsKnown'
  <2> SUFFICES ASSUME NEW c \in loaded, ~Settled(c)', ~Expected(c)'
               PROVE  Underway(c)'
    BY <1>9 DEF StaleIsKnown
  <2>0. c \in Containers
    BY <1>0 DEF IInv, TypeOK
  <2>1. ~Settled(c) /\ ~Expected(c) /\ c \notin M
    BY <1>4, <1>10, <2>0 DEF Settled, Expected
  <2>2. PICK j \in DOMAIN answers : Right(j, c)
    BY <2>1 DEF KInv, StaleIsKnown, Underway
  <2>3. j # i
    BY <1>1, <2>1, <2>2 DEF Right
  <2> QED
    BY <1>12, <2>0, <2>2, <2>3
<1>14. NothingOwedYet'
  <2>1. events \in Int /\ \A k \in Changes : k \in Int
    BY <1>0 DEF IInv, TypeOK, Changes
  <2> QED
    BY <1>2, <2>1 DEF KInv, NothingOwedYet
<1> QED
  BY <1>0, <1>12, <1>13, <1>14 DEF KInv

-----------------------------------------------------------------------------
(* The other answers, when answer i has arrived.                           *)
LEMMA OthersParts ==
  ASSUME IInv, NEW i \in DOMAIN answers, NEW k \in 1..Len(answers) - 1
  PROVE  LET o == Others(i, answers[i])[k]
             r == answers[Before(i, k)]
         IN /\ o.of = r.of /\ o.nodes = r.nodes /\ o.states = r.states /\ o.live = r.live
            /\ r.after \subseteq o.after
            /\ k < i => Touched(answers[i]) \subseteq o.after
            /\ o \in Good
<1> DEFINE T == Touched(answers[i])
<1>1. Len(answers) \in Nat /\ DOMAIN answers = 1..Len(answers)
  BY AnswersDomain
<1>2. Before(i, k) \in DOMAIN answers
  BY <1>1, SkippedPlaces
<1>3. T \subseteq Containers
  BY DEF Touched
<1>4. CASE k < i
  <2>1. Before(i, k) = k
    BY <1>4 DEF Before
  <2>2. Others(i, answers[i])[k] = TooOld(answers[k], T)
    BY <1>4 DEF Others
  <2> HIDE DEF T
  <2>3. TooOld(answers[k], T) \in Good
    BY <1>2, <2>1, AnswerParts, TooOldIsGood
  <2> QED
    BY <1>2, <1>3, <2>1, <2>2, <2>3, TooOldParts DEF T
<1>5. CASE ~(k < i)
  <2>1. Before(i, k) = k + 1
    BY <1>5 DEF Before
  <2>2. Others(i, answers[i])[k] = answers[k + 1]
    BY <1>5 DEF Others
  <2> QED
    BY <1>2, <1>5, <2>1, <2>2, AnswerParts
<1> QED
  BY <1>4, <1>5

(* A container that shows what it should and that loses something to an    *)
(* answer for another is known to have been read later than that answer,   *)
(* or a better answer for it is under way.                                 *)
LEMMA LossIsMended ==
  ASSUME KInv, NEW i \in DOMAIN answers, NEW c \in loaded, Exists(c), Agrees(c),
         c # answers[i].of, MovedFrom(answers[i], c) # {}, c \notin Overtaken(answers[i])
  PROVE  Mended(i, c)
<1>0. IInv /\ c \in Containers
  BY DEF KInv, IInv, TypeOK
<1>1. c \notin answers[i].after
  BY <1>0 DEF Overtaken, Touched
<1>2. PICK v \in answers[i].nodes : nodeHash[v] = c
  BY DEF MovedFrom, get_new_nodes
<1>3. v \in Items
  BY <1>0, <1>2, AnswerParts
<1>4. v \in Content(c)
  BY <1>0, <1>2, <1>3 DEF Agrees, IInv, AppearsOnce
<1>5. Harmful(i, c)
  BY <1>1, <1>2, <1>4 DEF Harmful, Bound, Spoils
<1> QED
  BY <1>0, <1>5 DEF KInv, HarmIsMended

(* The answer for a node of the tree arrives.                              *)
LEMMA UpdateNodeKnown ==
  ASSUME KInv, NEW i \in DOMAIN answers, UpdateNode(i)
  PROVE  KInv'
<1>0. IInv /\ IInv'
  BY UpdateNodeStep DEF KInv
<1> PICK r : r = answers[i]
  OBVIOUS
<1> PICK new, del : new = get_new_nodes(r) /\ del = get_del_nodes(r)
  OBVIOUS
<1> PICK gone : gone = del \cup {n \in new : nodeHash[n] # None}
  OBVIOUS
<1>1. /\ r.of \in Containers /\ r.nodes \subseteq Items /\ r.nodes \subseteq LevelOf(r.of)
      /\ r.states \in [r.nodes \cap Vms -> {"up", "down"}] /\ r.live
  BY <1>0, AnswerParts DEF UpdateNode
<1>2. /\ childNodes' = [c \in Containers |->
           CASE c = r.of -> (childNodes[c] \cup new) \ del
             [] c \in gone \ {r.of} -> {}
             [] OTHER -> childNodes[c] \ MovedFrom(r, c)]
      /\ nodeHash' = [n \in Items |->
           CASE n \in new -> r.of
             [] n \notin new /\ (n \in del \/ nodeHash[n] \in gone) -> None
             [] OTHER -> nodeHash[n]]
      /\ icon' = [v \in Vms |-> IF v \in r.nodes THEN r.states[v] ELSE icon[v]]
      /\ loaded' = (loaded \ gone) \cup {r.of}
      /\ asked' = [c \in Containers |-> IF c \in gone THEN 0 ELSE asked[c]]
      /\ answers' = [j \in DOMAIN Others(i, r) |->
                        [Others(i, r)[j] EXCEPT !.live = @ /\ Others(i, r)[j].of \notin gone]]
      /\ UNCHANGED <<parent, st, owed, pending, told, events>>
      /\ missed' = ((missed \ Seen(r)) \cup Overtaken(r)) \cap loaded'
  BY DEF UpdateNode, database, writers, session
<1>3. /\ new \subseteq r.nodes /\ del \cap r.nodes = {} /\ del \subseteq childNodes[r.of]
      /\ \A n \in Items : n \in new <=> n \in r.nodes /\ nodeHash[n] # r.of
      /\ \A n \in Items : n \in del <=> n \in childNodes[r.of] /\ n \notin r.nodes
  BY <1>1 DEF get_new_nodes, get_del_nodes
<1>4. gone \subseteq Items /\ gone \subseteq LevelOf(r.of)
  BY <1>0, <1>1, <1>3 DEF IInv, TypeOK, AppearsOnce, Levels
<1>n. /\ Items = Hosts \cup Vms /\ Hosts \cap Vms = {} /\ Pools \cap Items = {}
      /\ None \notin Pools \cup Items
      /\ Containers = Pools \cup Hosts /\ Vms \subseteq Items
  BY DEF Items, Entities, Containers
<1>5. r.of \notin gone
  BY <1>n, <1>1, <1>4 DEF LevelOf
<1> PICK G : G = gone \cap Hosts
  OBVIOUS
<1>6. G \subseteq Hosts /\ \A c \in Containers : c \in G <=> c \in gone
  BY <1>n, <1>4
<1>7. DOMAIN answers' = 1..Len(answers) - 1
  BY <1>2 DEF Others
<1>8. ASSUME NEW k \in 1..Len(answers) - 1
      PROVE  LET b == answers[Before(i, k)] IN
             /\ answers'[k].of = b.of
             /\ answers'[k].nodes = b.nodes
             /\ answers'[k].states = b.states
             /\ (answers'[k].live <=> b.live /\ b.of \notin G)
             /\ b.after \subseteq answers'[k].after
             /\ k < i /\ answers[i].live => answers[i].of \in answers'[k].after
  <2> PICK o : o = Others(i, r)[k]
    OBVIOUS
  <2> PICK b : b = answers[Before(i, k)]
    OBVIOUS
  <2>1. answers'[k] = [o EXCEPT !.live = @ /\ o.of \notin gone]
    BY <1>2, <1>7
  <2>2. /\ o.of = b.of /\ o.nodes = b.nodes /\ o.states = b.states /\ o.live = b.live
        /\ b.after \subseteq o.after
        /\ k < i => Touched(r) \subseteq o.after
        /\ o \in Good
    BY <1>0, OthersParts
  <2>3. r.of \in Touched(r)
    BY <1>1 DEF Touched
  <2>4. o \in Answers /\ o.of \in Containers
    BY <2>2 DEF Good, Answers
  <2>5. /\ answers'[k].of = o.of /\ answers'[k].nodes = o.nodes /\ answers'[k].states = o.states
        /\ (answers'[k].live <=> o.live /\ o.of \notin gone) /\ answers'[k].after = o.after
    BY ONLY <2>1, <2>4 DEF Answers
  <2> QED
    BY <1>6, <2>2, <2>3, <2>4, <2>5
<1>9. \A c \in loaded' : c \notin G /\ (c \in loaded \/ (answers[i].live /\ c = answers[i].of))
  BY <1>1, <1>2, <1>5, <1>6
<1>10. \A c \in Containers : /\ Content(c)' = Content(c) /\ StateOf(c)' = StateOf(c)
                             /\ Exists(c)' <=> Exists(c)
                             /\ Owed(c)' <=> Owed(c)
  <2>1. \A c \in Containers : Owed(c)' <=> Owed(c)
    BY <1>2 DEF Owed, Hierarchies, get_hierarchy, Exists
  <2>2. \A c \in Containers : Exists(c)' <=> Exists(c)
    BY <1>2 DEF Exists
  <2>3. \A c \in Containers : Content(c)' = Content(c) /\ StateOf(c)' = StateOf(c)
    BY <1>2 DEF Content, StateOf
  <2> QED
    BY <2>1, <2>2, <2>3
<1>11. \A c \in Containers \ G : Expected(c) => Expected(c)'
  BY <1>2, <1>6, <1>10 DEF Expected, Unread
<1>12. \A c \in Containers : asked'[c] > 0 => asked[c] > 0 /\ c \notin G
  BY <1>2, <1>6
<1>13. ASSUME NEW c \in Containers \ G, InTree(c)
       PROVE  InTree(c)'
  <2>1. CASE c \in Pools
    BY <2>1 DEF InTree
  <2>2. CASE c \in Hosts
    <3>1. c \in Items /\ nodeHash[c] # None /\ c \notin gone
      BY <1>n, <1>6, <1>13, <2>2 DEF InTree
    <3>2. nodeHash[c] \in Pools
      BY <1>0, <1>n, <2>2, <3>1 DEF IInv, TypeOK, Levels, LevelOf
    <3>3. nodeHash[c] \notin gone /\ c \notin del
      BY <1>n, <1>4, <3>1, <3>2
    <3>4. nodeHash'[c] = r.of \/ nodeHash'[c] = nodeHash[c]
      BY <1>2, <3>1, <3>3
    <3>5. r.of # None
      BY <1>n, <1>1
    <3> QED
      BY <3>1, <3>4, <3>5 DEF InTree
  <2> QED
    BY <1>n, <2>1, <2>2
<1>14. /\ GhostsAreHosts' /\ OpenedAreInTree' /\ HarmIsMended'
       /\ \A c \in Containers \ G : \A j \in DOMAIN answers : j # i /\ Right(j, c) => Underway(c)'
  <2>1. G \in SUBSET Hosts /\ UNCHANGED <<parent, st>>
    BY <1>2, <1>6
  <2>2. \A c \in Containers \ G : Expected(c) => Expected(c)'
    BY <1>11
  <2>3. \A c \in Containers \ G : InTree(c) => InTree(c)'
    BY <1>13
  <2>4. \A k \in 1..Len(answers) - 1 :
          LET b == answers[Before(i, k)] IN
            /\ answers'[k].of = b.of
            /\ answers'[k].nodes = b.nodes
            /\ answers'[k].states = b.states
            /\ (answers'[k].live <=> b.live /\ b.of \notin G)
            /\ b.after \subseteq answers'[k].after
            /\ k < i /\ answers[i].live => answers[i].of \in answers'[k].after
    BY <1>8
  <2> QED
    <3>1. KInv /\ i \in DOMAIN answers
      OBVIOUS
    <3> QED
      BY ONLY <3>1, <2>1, <1>7, <2>4, <1>9, <2>2, <1>12, <2>3, OneLess
<1>15. \A c \in Containers \ G : Mended(i, c) => Expected(c)' \/ Underway(c)'
  <2>1. i \in Nat
    BY <1>0, AnswersDomain
  <2> QED
    BY <1>11, <1>14, <2>1 DEF Mended
<1>16. ASSUME r.of \notin missed'
       PROVE  ~Exists(r.of) \/ (\E c \in {r.of} : Agrees(c)' \/ Expected(c)' \/ Underway(c)')
  <2> PICK d : d = r.of
    OBVIOUS
  <2>0. d \in Containers \ G
    BY <1>1, <1>5, <1>6
  <2>1. d \notin r.after
    <3>1. d \in Touched(r) /\ d \in loaded'
      BY <1>1, <1>2 DEF Touched
    <3> QED
      BY <1>2, <1>16, <3>1 DEF Overtaken
  <2>2. CASE Right(i, d)
    <3>1. r.nodes = Content(d) /\ r.states = StateOf(d)
      BY <2>2 DEF Right
    <3>2. childNodes'[d] = (childNodes[d] \cup new) \ del
      BY <1>2, <2>0
    <3>3. \A n \in Items : n \in childNodes[d] <=> nodeHash[n] = d
      BY <1>0, <2>0 DEF IInv, AppearsOnce
    <3>4. childNodes[d] \subseteq Items
      BY <1>0, <2>0 DEF IInv, TypeOK
    <3>5. childNodes'[d] = r.nodes
      BY <1>1, <1>3, <3>2, <3>3, <3>4
    <3>6. IconsIn(d)' = StateOf(d)
      <4>1. IconsIn(d)' = [v \in r.nodes \cap Vms |-> icon'[v]]
        BY <3>5 DEF IconsIn
      <4>2. \A v \in r.nodes \cap Vms : icon'[v] = r.states[v]
        BY <1>2
      <4>3. r.states = [v \in r.nodes \cap Vms |-> r.states[v]]
        BY <1>1
      <4> QED
        BY <3>1, <4>1, <4>2, <4>3
    <3> QED
      BY <1>10, <2>0, <3>1, <3>5, <3>6 DEF Agrees
  <2>3. CASE ~Right(i, d) /\ Exists(d)
    <3>1. i \in 1..i
      BY <1>0, AnswersDomain
    <3>2. Harmful(i, d)
      BY <1>1, <2>1, <2>3, <3>1 DEF Harmful, Bound, Spoils
    <3> QED
      BY <1>15, <2>0, <3>2 DEF KInv, HarmIsMended
  <2> QED
    BY <2>2, <2>3
<1>17. ASSUME NEW c \in loaded, c \notin gone, c # r.of, c \notin missed', Exists(c)
       PROVE  Agrees(c)' \/ Expected(c)' \/ Underway(c)'
  <2>0. c \in Containers \ G /\ c \in loaded'
    BY <1>0, <1>2, <1>6, <1>17 DEF IInv, TypeOK
  <2>1. c \notin missed /\ c \notin Overtaken(r)
    BY <1>2, <1>17, <2>0 DEF Seen
  <2>2. CASE Expected(c)
    BY <1>11, <2>0, <2>2
  <2>3. CASE Underway(c)
    <3>1. PICK j \in DOMAIN answers : Right(j, c)
      BY <2>3 DEF Underway
    <3>2. j # i
      BY <1>17, <3>1 DEF Right
    <3> QED
      BY <1>14, <2>0, <3>1, <3>2
  <2>4. CASE Agrees(c) /\ MovedFrom(r, c) # {}
    BY <1>15, <1>17, <2>0, <2>1, <2>4, LossIsMended
  <2>5. CASE Agrees(c) /\ MovedFrom(r, c) = {}
    <3>1. childNodes'[c] = childNodes[c]
      BY <1>2, <1>17, <2>0, <2>5
    <3>2. ASSUME NEW v \in childNodes[c] \cap Vms
          PROVE  icon'[v] = icon[v]
      <4>1. v \in Items /\ nodeHash[v] = c
        BY <1>0, <1>n, <2>0, <3>2 DEF IInv, AppearsOnce
      <4>2. v \notin r.nodes
        BY <1>17, <2>5, <4>1 DEF MovedFrom, get_new_nodes
      <4> QED
        BY <1>2, <3>2, <4>2
    <3>3. IconsIn(c)' = IconsIn(c)
      BY <3>1, <3>2 DEF IconsIn
    <3> QED
      BY <1>10, <2>0, <2>5, <3>1, <3>3 DEF Agrees
  <2> QED
    BY <1>17, <2>1, <2>2, <2>3, <2>4, <2>5 DEF KInv, StaleIsKnown, Settled
<1>18. StaleIsKnown'
  <2> SUFFICES ASSUME NEW c \in loaded', c \notin missed', Exists(c)'
               PROVE  Agrees(c)' \/ Expected(c)' \/ Underway(c)'
    BY DEF StaleIsKnown, Settled
  <2>1. c \in Containers /\ Exists(c)
    BY <1>0, <1>1, <1>2, <1>10 DEF IInv, TypeOK
  <2>2. CASE c = r.of
    BY <1>16, <2>1, <2>2
  <2>3. CASE c # r.of
    BY <1>2, <1>17, <2>1, <2>3
  <2> QED
    BY <2>2, <2>3
<1>19. NothingOwedYet'
  BY <1>2 DEF KInv, NothingOwedYet
<1> QED
  BY <1>0, <1>14, <1>18, <1>19 DEF KInv

(* The answer for a host that has left the tree arrives.                   *)
LEMMA UpdateGhostKnown ==
  ASSUME KInv, NEW i \in DOMAIN answers, UpdateGhost(i)
  PROVE  KInv'
<1>0. IInv /\ IInv'
  BY UpdateGhostStep DEF KInv
<1> PICK r : r = answers[i]
  OBVIOUS
<1>n. /\ Items = Hosts \cup Vms /\ Hosts \cap Vms = {} /\ Pools \cap Items = {}
      /\ Containers = Pools \cup Hosts /\ Vms \subseteq Items
  BY DEF Items, Entities, Containers
<1>1. /\ r.of \in Hosts /\ r.nodes \subseteq Vms /\ ~r.live /\ ~answers[i].live
  <2>1. ~answers[i].live
    BY DEF UpdateGhost
  <2>2. r.of \in Hosts
    BY <2>1 DEF KInv, GhostsAreHosts
  <2>3. r.nodes \subseteq LevelOf(r.of)
    BY <1>0, AnswerParts
  <2> QED
    BY <1>n, <2>1, <2>2, <2>3 DEF LevelOf
<1>2. /\ childNodes' = [c \in Containers |-> childNodes[c] \ MovedFrom(r, c)]
      /\ nodeHash' = [n \in Items |-> IF n \in r.nodes /\ nodeHash[n] \notin {None, r.of}
                                      THEN None ELSE nodeHash[n]]
      /\ answers' = Others(i, r)
      /\ missed' = ((missed \ Seen(r)) \cup Overtaken(r)) \cap loaded
      /\ UNCHANGED <<parent, st, owed, pending, told, icon, loaded, asked, events>>
  BY DEF UpdateGhost, database, writers, session
<1>3. DOMAIN answers' = 1..Len(answers) - 1
  BY <1>2 DEF Others
<1>4. \A k \in 1..Len(answers) - 1 :
        LET b == answers[Before(i, k)] IN
          /\ answers'[k].of = b.of
          /\ answers'[k].nodes = b.nodes
          /\ answers'[k].states = b.states
          /\ (answers'[k].live <=> b.live /\ b.of \notin {})
          /\ b.after \subseteq answers'[k].after
          /\ k < i /\ answers[i].live => answers[i].of \in answers'[k].after
  BY <1>0, <1>1, <1>2, OthersParts
<1>5. \A c \in Containers : /\ Content(c)' = Content(c) /\ StateOf(c)' = StateOf(c)
                            /\ Exists(c)' <=> Exists(c)
                            /\ Expected(c)' <=> Expected(c)
                            /\ InTree(c)' <=> InTree(c)
  <2>1. \A c \in Containers : Owed(c)' <=> Owed(c)
    BY <1>2 DEF Owed, Hierarchies, get_hierarchy, Exists
  <2>2. \A c \in Containers : Expected(c)' <=> Expected(c)
    BY <1>2, <2>1 DEF Expected, Unread
  <2>3. \A c \in Containers : Exists(c)' <=> Exists(c)
    BY <1>2 DEF Exists
  <2>4. \A c \in Containers : Content(c)' = Content(c) /\ StateOf(c)' = StateOf(c)
    BY <1>2 DEF Content, StateOf
  <2>5. \A c \in Containers : InTree(c)' <=> InTree(c)
    <3>1. \A c \in Hosts : nodeHash'[c] = nodeHash[c]
      BY <1>1, <1>2, <1>n
    <3> QED
      BY <1>n, <3>1 DEF InTree
  <2> QED
    BY <2>2, <2>3, <2>4, <2>5
<1>6. /\ GhostsAreHosts' /\ OpenedAreInTree' /\ HarmIsMended'
      /\ \A c \in Containers \ {} : \A j \in DOMAIN answers : j # i /\ Right(j, c) => Underway(c)'
  <2>1. UNCHANGED <<parent, st>> /\ KInv /\ i \in DOMAIN answers
    BY <1>2
  <2>2. \A c \in Containers \ {} : Expected(c) => Expected(c)'
    BY <1>5
  <2>3. \A c \in Containers \ {} : InTree(c) => InTree(c)'
    BY <1>5
  <2>4. \A c \in Containers : asked'[c] > 0 => asked[c] > 0 /\ c \notin {}
    BY <1>2
  <2>5. \A c \in loaded' : c \notin {} /\ (c \in loaded \/ (answers[i].live /\ c = answers[i].of))
    BY <1>2
  <2> QED
    BY ONLY <2>1, <1>3, <1>4, <2>5, <2>2, <2>4, <2>3, OneLess
<1>7. \A c \in Containers : Mended(i, c) => Expected(c)' \/ Underway(c)'
  <2>1. i \in Nat
    BY <1>0, AnswersDomain
  <2> QED
    BY <1>5, <1>6, <2>1 DEF Mended
<1>8. StaleIsKnown'
  <2> SUFFICES ASSUME NEW c \in loaded, c \notin missed', Exists(c)'
               PROVE  Agrees(c)' \/ Expected(c)' \/ Underway(c)'
    BY <1>2 DEF StaleIsKnown, Settled
  <2>1. c \in Containers /\ Exists(c)
    BY <1>0, <1>5 DEF IInv, TypeOK
  <2>2. c \notin missed /\ c \notin Overtaken(r)
    BY <1>1, <1>2 DEF Seen
  <2>3. CASE Expected(c)
    BY <1>5, <2>1, <2>3
  <2>4. CASE Underway(c)
    <3>1. PICK j \in DOMAIN answers : Right(j, c)
      BY <2>4 DEF Underway
    <3>2. j # i
      BY <1>1, <3>1 DEF Right
    <3> QED
      BY <1>6, <2>1, <3>1, <3>2
  <2>5. CASE Agrees(c) /\ MovedFrom(r, c) # {}
    <3>1. c # r.of
      BY <2>5 DEF MovedFrom, get_new_nodes
    <3> QED
      BY <1>7, <2>1, <2>2, <2>5, <3>1, LossIsMended
  <2>6. CASE Agrees(c) /\ MovedFrom(r, c) = {}
    <3>1. childNodes'[c] = childNodes[c]
      BY <1>2, <2>1, <2>6
    <3>2. IconsIn(c)' = IconsIn(c)
      BY <1>2, <3>1 DEF IconsIn
    <3> QED
      BY <1>5, <2>1, <2>6, <3>1, <3>2 DEF Agrees
  <2> QED
    BY <2>1, <2>2, <2>3, <2>4, <2>5, <2>6 DEF KInv, StaleIsKnown, Settled
<1>9. NothingOwedYet'
  BY <1>2 DEF KInv, NothingOwedYet
<1> QED
  BY <1>0, <1>6, <1>8, <1>9 DEF KInv

-----------------------------------------------------------------------------
(* At first the tree shows what the database has.                          *)
LEMMA InitKnown == Init => KInv
<1> SUFFICES ASSUME Init PROVE KInv
  OBVIOUS
<1>0. IInv
  BY InitHolds
<1>n. Items = Hosts \cup Vms /\ Containers = Pools \cup Hosts /\ None \notin Pools \cup Items
  BY DEF Items, Entities, Containers
<1>1. DOMAIN answers = {}
  BY DEF Init
<1>2. GhostsAreHosts /\ HarmIsMended /\ NothingOwedYet
  BY <1>1 DEF Init, GhostsAreHosts, HarmIsMended, NothingOwedYet
<1>3. \A c \in Containers : InTree(c)
  BY <1>n DEF Init, InTree
<1>4. OpenedAreInTree
  BY <1>3 DEF OpenedAreInTree
<1>5. \A c \in Containers : Agrees(c)
  <2> SUFFICES ASSUME NEW c \in Containers PROVE Agrees(c)
    OBVIOUS
  <2>1. childNodes[c] = Content(c) /\ icon = st
    BY DEF Init
  <2>2. IconsIn(c) = StateOf(c)
    BY <2>1 DEF IconsIn, StateOf
  <2> QED
    BY <2>1, <2>2 DEF Agrees
<1>6. StaleIsKnown
  BY <1>5 DEF Init, StaleIsKnown, Settled
<1> QED
  BY <1>0, <1>2, <1>4, <1>6 DEF KInv

(* Nothing happens.                                                        *)
LEMMA StutterKnown ==
  ASSUME KInv, UNCHANGED vars
  PROVE  KInv'
<1>1. UNCHANGED <<parent, st, owed, beat, registered, pending, childNodes, nodeHash, icon,
                  loaded, told, asked, ghosts, missed, answers, events>>
  BY DEF vars, database, writers, session, tree, requests, history
<1>2. IInv'
  BY <1>1 DEF KInv, IInv, TypeOK, AppearsOnce, Levels, LevelOf, WellFormed
<1>3. \A c \in Containers : /\ Expected(c)' <=> Expected(c)
                            /\ Exists(c)' <=> Exists(c)
                            /\ InTree(c)' <=> InTree(c)
                            /\ Content(c)' = Content(c)
                            /\ StateOf(c)' = StateOf(c)
                            /\ Agrees(c)' <=> Agrees(c)
  <2>1. \A c \in Containers : Owed(c)' <=> Owed(c)
    BY <1>1 DEF Owed, Hierarchies, get_hierarchy, Exists
  <2>2. \A c \in Containers : Unread(c)' <=> Unread(c)
    BY <1>1 DEF Unread
  <2>3. \A c \in Containers : (InTree(c)' <=> InTree(c)) /\ (Exists(c)' <=> Exists(c))
    BY <1>1 DEF InTree, Exists
  <2>4. \A c \in Containers : Content(c)' = Content(c) /\ StateOf(c)' = StateOf(c)
    BY <1>1 DEF Content, StateOf
  <2>5. \A c \in Containers : Agrees(c)' <=> Agrees(c)
    BY <1>1, <2>4 DEF Agrees, IconsIn
  <2> QED
    BY <2>1, <2>2, <2>3, <2>4, <2>5 DEF Expected
<1>4. \A c \in Containers, k \in DOMAIN answers : Right(k, c)' <=> Right(k, c)
  BY <1>1, <1>3 DEF Right
<1>5. NothingOwedYet' /\ GhostsAreHosts'
  BY <1>1 DEF KInv, NothingOwedYet, GhostsAreHosts
<1>6. OpenedAreInTree'
  BY <1>1, <1>3 DEF KInv, OpenedAreInTree, Opened
<1>7. HarmIsMended'
  <2>1. \A c \in Containers, k \in DOMAIN answers : Harmful(k, c)' <=> Harmful(k, c)
    BY <1>1, <1>3, <1>4 DEF Harmful, Bound, Spoils
  <2>2. \A c \in Containers, k \in DOMAIN answers : Mended(k, c) => Mended(k, c)'
    BY <1>1, <1>3, <1>4 DEF Mended
  <2> QED
    BY <1>1, <2>1, <2>2 DEF KInv, HarmIsMended
<1>8. StaleIsKnown'
  <2>1. loaded \subseteq Containers
    BY DEF KInv, IInv, TypeOK
  <2> QED
    BY <1>1, <1>3, <1>4, <2>1 DEF KInv, StaleIsKnown, Settled, Underway
<1> QED
  BY <1>2, <1>5, <1>6, <1>7, <1>8 DEF KInv

-----------------------------------------------------------------------------
(* KInv holds always, whatever overtakes what.                             *)
THEOREM KnownInvariant == Spec => []KInv
<1>1. Init => KInv
  BY InitKnown
<1>2. KInv /\ [Next]_vars => KInv'
  <2> SUFFICES ASSUME KInv, [Next]_vars PROVE KInv'
    OBVIOUS
  <2>1. CASE Progress
    BY <2>1, AnnounceKnown, RequestKnown, ReadKnown, UpdateNodeKnown, UpdateGhostKnown
       DEF Progress, update_expanded_node
  <2>2. CASE Event
    BY <2>2, ChangeKnown, AnnounceKnown, RequestKnown, FailKnown DEF Event
  <2>3. CASE UNCHANGED vars
    BY <2>3, StutterKnown
  <2> QED
    BY <2>1, <2>2, <2>3 DEF Next
<1> QED
  BY <1>1, <1>2, PTL DEF Spec

(* Whatever the order in which changes are announced and polls, requests   *)
(* and answers arrive or fail: a container that the user has opened and    *)
(* that does not show what the database has is still to be announced, or   *)
(* collected, or read, or the right answer for it is on its way, unless    *)
(* nobody announces the change (a transfer, a host the task does not name, *)
(* a task that fails after its commit, a process that ends before it has   *)
(* announced), or what was announced got lost (see missed).                *)
THEOREM NothingStaleIsUnknown == Spec => []StaleIsKnown
<1>1. KInv => StaleIsKnown
  BY DEF KInv
<1> QED
  BY <1>1, KnownInvariant, PTL

(* An answer under way that would spoil a container that the user has      *)
(* opened was read before a change of it that is announced to nobody, or   *)
(* before an answer taken in already; or a right one is behind it, or the  *)
(* container will be asked for again.                                      *)
THEOREM NoLastingHarm == Spec => []HarmIsMended
<1>1. KInv => HarmIsMended
  BY DEF KInv
<1> QED
  BY <1>1, KnownInvariant, PTL

(* Nothing is left to announce, to collect, to ask for or to read; clicks, *)
(* polls and heartbeats may come again.                                    *)
Quiet == /\ \A k \in Changes : owed[k] = {}
         /\ pending = {}
         /\ \A p \in DOMAIN told : told[p] = {}
         /\ \A c \in Containers : asked[c] = 0
         /\ answers = << >>

(* Whenever the session has come to rest, every container that the user    *)
(* has opened shows what the database has, but for those that were missed: *)
(* whose change nobody announced, its task having failed or the process    *)
(* ended after the commit, say, or whose answer was lost or overtaken.  Of *)
(* Converges, what is left to TLC is that the session does come to rest.   *)
THEOREM RestIsRight == Spec => [](Quiet => \A c \in loaded : Settled(c))
<1>1. ASSUME KInv, Quiet, NEW c \in loaded
      PROVE  Settled(c)
  <2>1. c \in Containers
    BY <1>1 DEF KInv, IInv, TypeOK
  <2>2. ~Unread(c)
    BY <1>1, <2>1 DEF Quiet, Unread
  <2>3. ~Owed(c)
    BY <1>1 DEF Quiet, Owed, Hierarchies
  <2>4. ~Underway(c)
    <3>1. DOMAIN answers = {}
      BY <1>1 DEF Quiet
    <3> QED
      BY <3>1 DEF Underway
  <2> QED
    BY <1>1, <2>2, <2>3, <2>4 DEF KInv, StaleIsKnown, Expected
<1>2. KInv => (Quiet => \A c \in loaded : Settled(c))
  BY <1>1
<1> QED
  BY <1>2, KnownInvariant, PTL
=============================================================================

---------------------------- MODULE ServiceOrder ----------------------------
(***************************************************************************)
(* ServiceCentral._order() (core/services/core.py): the loop that sorts    *)
(* the services so that each comes after those it depends on, or finds     *)
(* that this cannot be done.  One step is one turn of its while loop.      *)
(***************************************************************************)
EXTENDS FiniteSets, Sequences, Integers

CONSTANT Services

ASSUME ServicesAssumption == IsFiniteSet(Services)

VARIABLES services,      \* the list it takes from the front of
          dependencies,  \* the pairs <<dependent, parent>> still unmet
          ordered,       \* the list it returns
          count,         \* turns since a service was last taken
          outcome,       \* "sorting", "returned" or "raised"
          given          \* the dependencies it was called with

vars == <<services, dependencies, ordered, count, outcome, given>>

Listed(list) == {list[i] : i \in DOMAIN list}

IsDistinct(list) == \A i, j \in DOMAIN list : list[i] = list[j] => i = j

(* run() passes a copy of the rows, in the order the database gave them.   *)
Init == /\ services \in [1..Cardinality(Services) -> Services]
        /\ IsDistinct(services) /\ Listed(services) = Services
        /\ dependencies \in SUBSET (Services \X Services)
        /\ given = dependencies
        /\ ordered = <<>>
        /\ count = 0
        /\ outcome = "sorting"

(* Mutant: the pair is looked up the wrong way round.                      *)
IsIndependentSwapped(s, others) ==
  \A p \in Listed(others) : <<p, s>> \notin dependencies

(* The service has been popped from the list when this looks at it.        *)
_is_independent(s, others) == \A p \in Listed(others) : <<s, p>> \notin dependencies

(* Once the service is popped its pairs are no longer looked at, so this   *)
(* only spares the later turns some work.                                  *)
_remove_deps(s) == {d \in dependencies : d[2] # s}

(* Mutant: one turn short of trying every service that is left.            *)
TooManyEarly == count + 1 >= Len(services)

TooMany == count + 1 > Len(services)

Take == /\ outcome = "sorting"
        /\ services # <<>>
        /\ ~TooMany
        /\ _is_independent(Head(services), Tail(services))
        /\ dependencies' = _remove_deps(Head(services))
        /\ ordered' = Append(ordered, Head(services))
        /\ services' = Tail(services)
        /\ count' = 0
        /\ UNCHANGED <<outcome, given>>

(* Mutants: the turn is not counted; the service is not put back.          *)
PutBackUncounted == /\ outcome = "sorting"
                    /\ services # <<>>
                    /\ ~TooMany
                    /\ ~_is_independent(Head(services), Tail(services))
                    /\ services' = Append(Tail(services), Head(services))
                    /\ UNCHANGED <<dependencies, ordered, count, outcome, given>>
DropDependent == /\ outcome = "sorting"
                 /\ services # <<>>
                 /\ ~TooMany
                 /\ ~_is_independent(Head(services), Tail(services))
                 /\ services' = Tail(services)
                 /\ count' = count + 1
                 /\ UNCHANGED <<dependencies, ordered, outcome, given>>

PutBack == /\ outcome = "sorting"
           /\ services # <<>>
           /\ ~TooMany
           /\ ~_is_independent(Head(services), Tail(services))
           /\ services' = Append(Tail(services), Head(services))
           /\ count' = count + 1
           /\ UNCHANGED <<dependencies, ordered, outcome, given>>

Raise == /\ outcome = "sorting"
         /\ services # <<>>
         /\ TooMany
         /\ outcome' = "raised"
         /\ UNCHANGED <<services, dependencies, ordered, count, given>>

Return == /\ outcome = "sorting"
          /\ services = <<>>
          /\ outcome' = "returned"
          /\ UNCHANGED <<services, dependencies, ordered, count, given>>

Next == Take \/ PutBack \/ Raise \/ Return

Spec == Init /\ [][Next]_vars
FairSpec == Spec /\ WF_vars(Next)

-----------------------------------------------------------------------------
TypeOK == /\ services \in Seq(Services)
          /\ dependencies \subseteq Services \X Services
          /\ given \subseteq Services \X Services
          /\ ordered \in Seq(Services)
          /\ count \in Nat
          /\ outcome \in {"sorting", "returned", "raised"}

(* "An ordered list of services which does not violate the dependencies":  *)
(* a service is listed only after every other that it depends on.          *)
RespectsDependencies ==
  \A i \in DOMAIN ordered, p \in Services :
    <<ordered[i], p>> \in given /\ p # ordered[i] =>
      \E j \in DOMAIN ordered : j < i /\ ordered[j] = p

(* No service is lost or listed twice: what is returned is all of them.    *)
ReturnsAll == outcome = "returned" => IsDistinct(ordered) /\ Listed(ordered) = Services

(* "A cycle has been detected": among some of the services each depends on *)
(* another of them.                                                        *)
IsCyclic == \E C \in SUBSET Services :
              C # {} /\ \A s \in C : \E p \in C : p # s /\ <<s, p>> \in given
RaisesOnlyOnCycle == outcome = "raised" => IsCyclic

(* The loop comes to an end, whether or not there is an order.             *)
SortEnds == <>(outcome # "sorting")

-----------------------------------------------------------------------------
(* The invariant that shows it: no service is lost between the two lists,  *)
(* the pairs still kept are those a service left to sort may depend on,    *)
(* and what was put back since the last service was taken does depend on   *)
(* another that is left.                                                   *)
ListsInv == /\ IsDistinct(services) /\ IsDistinct(ordered)
            /\ Listed(services) \cap Listed(ordered) = {}
            /\ Listed(services) \cup Listed(ordered) = Services
DependenciesInv == dependencies = {d \in given : d[2] \notin Listed(ordered)}
CountInv == /\ count <= Len(services)
            /\ \A i \in DOMAIN services : i > Len(services) - count =>
                 \E j \in DOMAIN services : j # i /\ <<services[i], services[j]>> \in given
OutcomeInv == /\ outcome = "returned" => services = <<>>
              /\ outcome = "raised" => services # <<>> /\ count = Len(services)
IInv == /\ TypeOK
        /\ ListsInv
        /\ DependenciesInv
        /\ CountInv
        /\ OutcomeInv
        /\ RespectsDependencies
=============================================================================

----------------------------- MODULE Supervisor -----------------------------
(***************************************************************************)
(* What Service Central promises to the services it looks after, without   *)
(* its list of threads, its rounds, its waits or the order it starts them  *)
(* in: a service is served by one thread at a time, always a new one; it   *)
(* is first served when the services it depends on are ready, and nothing  *)
(* but quitting takes a service's readiness away.  ServiceCentral          *)
(* implements this.                                                        *)
(***************************************************************************)
CONSTANTS Services,
          DependsOn,  \* pairs <<dependent, parent>>
          Threads     \* threads that may be made

VARIABLES serving,    \* the threads that serve each service
          ready,      \* the services others may count on
          made,       \* threads made so far
          quitting    \* the process has begun to exit

vars == <<serving, ready, made, quitting>>

Init == /\ serving = [s \in Services |-> {}]
        /\ ready = {}
        /\ made = {}
        /\ quitting = FALSE

Parents(s) == {p \in Services : <<s, p>> \in DependsOn}

(* Once the process exits, dependencies do not matter any more.            *)
Start(s, t) == /\ serving[s] = {}
               /\ t \notin made
               /\ quitting \/ Parents(s) \subseteq ready
               /\ serving' = [serving EXCEPT ![s] = {t}]
               /\ made' = made \cup {t}
               /\ UNCHANGED <<ready, quitting>>

BecomesReady(s) == /\ serving[s] # {}
                   /\ ready' = ready \cup {s}
                   /\ UNCHANGED <<serving, made, quitting>>

(* A service that dies still counts as ready: it will be started again.    *)
Dies(s) == /\ serving[s] # {}
           /\ serving' = [serving EXCEPT ![s] = {}]
           /\ UNCHANGED <<ready, made, quitting>>

Quit == quitting' = TRUE /\ UNCHANGED <<serving, ready, made>>

Stop(s) == /\ quitting
           /\ ready' = ready \ {s}
           /\ UNCHANGED <<serving, made, quitting>>

(* A service that was told to stop ends, and says so with the same flag.   *)
Ends(s) == /\ quitting
           /\ s \notin ready
           /\ serving[s] # {}
           /\ serving' = [serving EXCEPT ![s] = {}]
           /\ ready' = ready \cup {s}
           /\ UNCHANGED <<made, quitting>>

Next == \/ \E s \in Services : \/ \E t \in Threads : Start(s, t)
                               \/ BecomesReady(s) \/ Dies(s) \/ Stop(s) \/ Ends(s)
        \/ Quit

Spec == Init /\ [][Next]_vars
=============================================================================

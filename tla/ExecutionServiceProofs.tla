----------------------- MODULE ExecutionServiceProofs -----------------------
(***************************************************************************)
(* Theorems about the worker pool, for every number of workers, callers    *)
(* and works.                                                              *)
(***************************************************************************)
EXTENDS ExecutionService, FiniteSetTheorems, TLAPS

USE NumThreadsAssumption, JobsAssumption, NoneAssumption DEF workers

(* The state of the service keeps its type, whatever the threads do.       *)
THEOREM TypeCorrect == Spec => []TypeOK
<1>1. Init => TypeOK
  BY DEF Init, TypeOK
<1>2. TypeOK /\ [Next]_vars => TypeOK'
  <2> SUFFICES ASSUME TypeOK, [Next]_vars PROVE TypeOK'
    OBVIOUS
  <2> USE DEF TypeOK
  <2>1. CASE \E c \in Callers : new_work(c)
    <3> PICK c \in Callers : new_work(c)
      BY <2>1
    <3>1. CASE \E j \in Jobs : Call(c, j)
      BY <3>1 DEF Call, workerVars, stopVars
    <3>2. CASE Acquire(c)
      BY <3>2 DEF Acquire, workerVars, stopVars
    <3>3. CASE SkipBusy(c)
      BY <3>3 DEF SkipBusy, workerVars, stopVars
    <3>4. CASE RaiseThreadLimit(c)
      BY <3>4 DEF RaiseThreadLimit, workerVars, stopVars
    <3>5. CASE DoSetWork(c)
      BY <3>5 DEF DoSetWork, stopVars
    <3>6. CASE DoNotify(c)
      BY <3>6 DEF DoNotify, Notify, stopVars
    <3>7. CASE SetBusy(c)
      BY <3>7 DEF SetBusy, stopVars
    <3>8. CASE PutRunning(c)
      BY <3>8 DEF PutRunning, workerVars, stopVars
    <3>9. CASE Release(c)
      BY <3>9 DEF Release, workerVars, stopVars
    <3> QED
      BY <3>1, <3>2, <3>3, <3>4, <3>5, <3>6, <3>7, <3>8, <3>9 DEF new_work
  <2>2. CASE \E w \in workers : run(w)
    <3> PICK w \in workers : run(w)
      BY <2>2
    <3>1. CASE ClearBusy(w)
      BY <3>1 DEF ClearBusy, callerVars, stopVars
    <3>2. CASE Wait(w)
      BY <3>2 DEF Wait, callerVars, stopVars
    <3>3. CASE WakeToWork(w)
      BY <3>3 DEF WakeToWork, callerVars, stopVars
    <3>4. CASE WakeToDie(w)
      BY <3>4 DEF WakeToDie, callerVars, stopVars
    <3>5. CASE clear_running_task_obj(w)
      BY <3>5 DEF clear_running_task_obj, callerVars, stopVars
    <3>6. CASE WorkReturns(w)
      BY <3>6 DEF WorkReturns, callerVars, stopVars
    <3> QED
      BY <3>1, <3>2, <3>3, <3>4, <3>5, <3>6 DEF run
  <2>3. CASE StopBegin \/ stop
    <3>1. CASE StopBegin
      BY <3>1 DEF StopBegin, callerVars, workerVars
    <3>2. CASE StopMark
      BY <3>2 DEF StopMark, callerVars
    <3>3. CASE StopNotify
      <4>1. wpc' \in [workers -> {"loop", "wait", "waiting", "notified", "work",
                                  "return", "dead"}]
        BY <3>3 DEF StopNotify, Notify
      <4>2. stop_pc' \in {"idle", "mark", "notify", "stopped"} /\ stop_cur' \in workers
        BY <3>3 DEF StopNotify
      <4> QED
        BY <3>3, <4>1, <4>2 DEF StopNotify, callerVars
    <3> QED
      BY <2>3, <3>1, <3>2, <3>3 DEF stop
  <2>4. CASE UNCHANGED vars
    BY <2>4 DEF vars, callerVars, workerVars, stopVars
  <2> QED
    BY <2>1, <2>2, <2>3, <2>4 DEF Next, Serve
<1> QED
  BY <1>1, <1>2, PTL DEF Spec


-----------------------------------------------------------------------------
(* Each step of each thread keeps the inductive invariant.                 *)
LEMMA CallKeepsInv ==
  ASSUME IInv, TypeOK', NEW c \in Callers, NEW j \in Jobs, Call(c, j) PROVE IInv'
<1> USE DEF IInv, TypeOK, HandingTo, Call, workerVars, stopVars
<1>1. LockInv'
  BY DEF LockInv
<1>2. CallInv'
  BY DEF LockInv, CallInv, WorkInv, StopInv, BusyCoversWork
<1>3. WorkInv'
  BY DEF LockInv, CallInv, WorkInv, StopInv, BusyCoversWork
<1>4. StopInv'
  BY DEF LockInv, CallInv, WorkInv, StopInv, BusyCoversWork
<1>5. BusyCoversWork'
  BY DEF LockInv, CallInv, WorkInv, StopInv, BusyCoversWork
<1>6. HeldInv'
  BY DEF LockInv, CallInv, WorkInv, HeldInv, StopInv, BusyCoversWork
<1> QED
  BY <1>1, <1>2, <1>3, <1>4, <1>5, <1>6

(* A caller takes task_lock: nobody else had it.                           *)
LEMMA AcquireKeepsInv ==
  ASSUME IInv, TypeOK', NEW c \in Callers, Acquire(c) PROVE IInv'
<1> USE DEF IInv, TypeOK, HandingTo, Acquire, workerVars, stopVars
<1>1. LockInv'
  BY DEF LockInv
<1>2. CallInv'
  BY DEF LockInv, CallInv, WorkInv, StopInv, BusyCoversWork
<1>3. WorkInv'
  BY DEF LockInv, CallInv, WorkInv, StopInv, BusyCoversWork
<1>4. StopInv'
  BY DEF LockInv, CallInv, WorkInv, StopInv, BusyCoversWork
<1>5. BusyCoversWork'
  BY DEF LockInv, CallInv, WorkInv, StopInv, BusyCoversWork
<1>6. HeldInv'
  <2> SUFFICES ASSUME NEW j \in Jobs, status'[j] \in {"accepted", "running"}
               PROVE  \E v \in workers :
                        /\ work'[v] = j
                        /\ wpc'[v] \in IF status'[j] = "accepted" THEN {"notified"}
                                      ELSE {"work", "return"}
                        /\ busy'[v] \/ \E d \in Callers : HandingTo(d, v)'
    BY DEF HeldInv
  <2>1. status[j] \in {"accepted", "running"}
    OBVIOUS
  <2>2. PICK v \in workers : /\ work[v] = j
                             /\ wpc[v] \in IF status[j] = "accepted" THEN {"notified"}
                                          ELSE {"work", "return"}
                             /\ busy[v] \/ \E d \in Callers : HandingTo(d, v)
    BY <2>1 DEF HeldInv
  <2>3. \A d \in Callers : HandingTo(d, v) => HandingTo(d, v)'
    BY DEF LockInv
  <2> QED
    BY <2>2, <2>3
<1> QED
  BY <1>1, <1>2, <1>3, <1>4, <1>5, <1>6

(* A caller passes over a busy worker.                                     *)
LEMMA SkipBusyKeepsInv ==
  ASSUME IInv, TypeOK', NEW c \in Callers, SkipBusy(c) PROVE IInv'
<1> USE DEF IInv, TypeOK, HandingTo, SkipBusy, workerVars, stopVars
<1>1. LockInv'
  BY DEF LockInv
<1>2. CallInv'
  BY DEF LockInv, CallInv, WorkInv, StopInv, BusyCoversWork
<1>3. WorkInv'
  BY DEF LockInv, CallInv, WorkInv, StopInv, BusyCoversWork
<1>4. StopInv'
  BY DEF LockInv, CallInv, WorkInv, StopInv, BusyCoversWork
<1>5. BusyCoversWork'
  BY DEF LockInv, CallInv, WorkInv, StopInv, BusyCoversWork
<1>6. HeldInv'
  BY DEF LockInv, CallInv, WorkInv, HeldInv, StopInv, BusyCoversWork
<1> QED
  BY <1>1, <1>2, <1>3, <1>4, <1>5, <1>6

(* A caller that finds all workers busy accepts nothing.                   *)
LEMMA RaiseKeepsInv ==
  ASSUME IInv, TypeOK', NEW c \in Callers, RaiseThreadLimit(c) PROVE IInv'
<1> USE DEF IInv, TypeOK, HandingTo, RaiseThreadLimit, workerVars, stopVars
<1>1. LockInv'
  BY DEF LockInv
<1>2. CallInv'
  BY DEF LockInv, CallInv, WorkInv, StopInv, BusyCoversWork
<1>3. WorkInv'
  BY DEF LockInv, CallInv, WorkInv, StopInv, BusyCoversWork
<1>4. StopInv'
  BY DEF LockInv, CallInv, WorkInv, StopInv, BusyCoversWork
<1>5. BusyCoversWork'
  BY DEF LockInv, CallInv, WorkInv, StopInv, BusyCoversWork
<1>6. HeldInv'
  BY DEF LockInv, CallInv, WorkInv, HeldInv, StopInv, BusyCoversWork
<1> QED
  BY <1>1, <1>2, <1>3, <1>4, <1>5, <1>6

(* do() stores the work in a free worker, where there was none.            *)
LEMMA DoSetWorkKeepsInv ==
  ASSUME IInv, TypeOK', NEW c \in Callers, DoSetWork(c) PROVE IInv'
<1> USE DEF IInv, TypeOK, HandingTo, DoSetWork, stopVars
<1>1. LockInv'
  BY DEF LockInv
<1>2. CallInv'
  BY DEF LockInv, CallInv, WorkInv, StopInv, BusyCoversWork
<1>3. WorkInv'
  BY DEF LockInv, CallInv, WorkInv, StopInv, BusyCoversWork
<1>4. StopInv'
  BY DEF LockInv, CallInv, WorkInv, StopInv, BusyCoversWork
<1>5. BusyCoversWork'
  BY DEF LockInv, CallInv, WorkInv, StopInv, BusyCoversWork
<1>6. HeldInv'
  <2> SUFFICES ASSUME NEW j \in Jobs, status'[j] \in {"accepted", "running"}
               PROVE  \E v \in workers :
                        /\ work'[v] = j
                        /\ wpc'[v] \in IF status'[j] = "accepted" THEN {"notified"}
                                      ELSE {"work", "return"}
                        /\ busy'[v] \/ \E d \in Callers : HandingTo(d, v)'
    BY DEF HeldInv
  <2>1. status[j] \in {"accepted", "running"}
    OBVIOUS
  <2>2. PICK v \in workers : /\ work[v] = j
                             /\ wpc[v] \in IF status[j] = "accepted" THEN {"notified"}
                                          ELSE {"work", "return"}
                             /\ busy[v] \/ \E d \in Callers : HandingTo(d, v)
    BY <2>1 DEF HeldInv
  <2>3. \A d \in Callers : HandingTo(d, v) => HandingTo(d, v)'
    BY DEF LockInv
  <2>4. v # cur[c]
    BY <2>2 DEF LockInv
  <2> QED
    BY <2>2, <2>3, <2>4
<1> QED
  BY <1>1, <1>2, <1>3, <1>4, <1>5, <1>6

(* do() wakes the worker for the work it has stored.                       *)
LEMMA DoNotifyKeepsInv ==
  ASSUME IInv, TypeOK', NEW c \in Callers, DoNotify(c) PROVE IInv'
<1> USE DEF IInv, TypeOK, HandingTo, DoNotify, Notify, WorkNotifyLockFree, stopVars
<1>1. LockInv'
  BY DEF LockInv
<1>2. CallInv'
  BY DEF LockInv, CallInv, WorkInv, StopInv, BusyCoversWork
<1>3. WorkInv'
  BY DEF LockInv, CallInv, WorkInv, StopInv, BusyCoversWork
<1>4. StopInv'
  BY DEF LockInv, CallInv, WorkInv, StopInv, BusyCoversWork
<1>5. BusyCoversWork'
  BY DEF LockInv, CallInv, WorkInv, StopInv, BusyCoversWork
<1>6. HeldInv'
  <2> SUFFICES ASSUME NEW j \in Jobs, status'[j] \in {"accepted", "running"}
               PROVE  \E v \in workers :
                        /\ work'[v] = j
                        /\ wpc'[v] \in IF status'[j] = "accepted" THEN {"notified"}
                                      ELSE {"work", "return"}
                        /\ busy'[v] \/ \E d \in Callers : HandingTo(d, v)'
    BY DEF HeldInv
  <2>1. CASE j = arg[c]
    <3>1. cur[c] \in workers /\ work[cur[c]] = j
      BY <2>1 DEF CallInv
    <3>2. wpc'[cur[c]] = "notified" /\ HandingTo(c, cur[c])'
      BY <3>1
    <3>3. status'[j] = "accepted"
      BY <2>1
    <3> QED
      BY <3>1, <3>2, <3>3
  <2>2. CASE j # arg[c]
    <3>1. status'[j] = status[j]
      BY <2>2
    <3>2. PICK v \in workers : /\ work[v] = j
                               /\ wpc[v] \in IF status[j] = "accepted" THEN {"notified"}
                                            ELSE {"work", "return"}
                               /\ busy[v] \/ \E d \in Callers : HandingTo(d, v)
      BY <3>1 DEF HeldInv
    <3>3. \A d \in Callers : HandingTo(d, v) => HandingTo(d, v)'
      BY DEF CallInv
    <3>4. wpc'[v] = wpc[v]
      BY <3>2
    <3> QED
      BY <3>1, <3>2, <3>3, <3>4
  <2> QED
    BY <2>1, <2>2
<1> QED
  BY <1>1, <1>2, <1>3, <1>4, <1>5, <1>6

(* The caller marks the worker it has woken.                               *)
LEMMA SetBusyKeepsInv ==
  ASSUME IInv, TypeOK', NEW c \in Callers, SetBusy(c) PROVE IInv'
<1> USE DEF IInv, TypeOK, HandingTo, SetBusy, stopVars
<1>1. LockInv'
  BY DEF LockInv
<1>2. CallInv'
  BY DEF LockInv, CallInv, WorkInv, StopInv, BusyCoversWork
<1>3. WorkInv'
  BY DEF LockInv, CallInv, WorkInv, StopInv, BusyCoversWork
<1>4. StopInv'
  BY DEF LockInv, CallInv, WorkInv, StopInv, BusyCoversWork
<1>5. BusyCoversWork'
  BY DEF LockInv, CallInv, WorkInv, StopInv, BusyCoversWork
<1>6. HeldInv'
  BY DEF LockInv, CallInv, WorkInv, HeldInv, StopInv, BusyCoversWork
<1> QED
  BY <1>1, <1>2, <1>3, <1>4, <1>5, <1>6

(* The caller registers the work.                                          *)
LEMMA PutRunningKeepsInv ==
  ASSUME IInv, TypeOK', NEW c \in Callers, PutRunning(c) PROVE IInv'
<1> USE DEF IInv, TypeOK, HandingTo, PutRunning, workerVars, stopVars
<1>1. LockInv'
  BY DEF LockInv
<1>2. CallInv'
  BY DEF LockInv, CallInv, WorkInv, StopInv, BusyCoversWork
<1>3. WorkInv'
  BY DEF LockInv, CallInv, WorkInv, StopInv, BusyCoversWork
<1>4. StopInv'
  BY DEF LockInv, CallInv, WorkInv, StopInv, BusyCoversWork
<1>5. BusyCoversWork'
  <2>1. \A d \in Callers, w \in workers : HandingTo(d, w) => HandingTo(d, w)'
    OBVIOUS
  <2>2. UNCHANGED <<wpc, busy, alive>>
    OBVIOUS
  <2> QED
    BY <2>1, <2>2 DEF BusyCoversWork
<1>6. HeldInv'
  BY DEF LockInv, CallInv, WorkInv, HeldInv, StopInv, BusyCoversWork
<1> QED
  BY <1>1, <1>2, <1>3, <1>4, <1>5, <1>6

(* A caller gives task_lock back, with no worker half taken.               *)
LEMMA ReleaseKeepsInv ==
  ASSUME IInv, TypeOK', NEW c \in Callers, Release(c) PROVE IInv'
<1> USE DEF IInv, TypeOK, HandingTo, Release, workerVars, stopVars
<1>1. LockInv'
  BY DEF LockInv
<1>2. CallInv'
  BY DEF LockInv, CallInv, WorkInv, StopInv, BusyCoversWork
<1>3. WorkInv'
  BY DEF LockInv, CallInv, WorkInv, StopInv, BusyCoversWork
<1>4. StopInv'
  BY DEF LockInv, CallInv, WorkInv, StopInv, BusyCoversWork
<1>5. BusyCoversWork'
  BY DEF LockInv, CallInv, WorkInv, StopInv, BusyCoversWork
<1>6. HeldInv'
  BY DEF LockInv, CallInv, WorkInv, HeldInv, StopInv, BusyCoversWork
<1> QED
  BY <1>1, <1>2, <1>3, <1>4, <1>5, <1>6

(* A worker that has no work in hand clears its mark.                      *)
LEMMA ClearBusyKeepsInv ==
  ASSUME IInv, TypeOK', NEW w \in workers, ClearBusy(w) PROVE IInv'
<1> USE DEF IInv, TypeOK, HandingTo, ClearBusy, callerVars, stopVars
<1>1. LockInv'
  BY DEF LockInv
<1>2. CallInv'
  BY DEF LockInv, CallInv, WorkInv, StopInv, BusyCoversWork
<1>3. WorkInv'
  BY DEF LockInv, CallInv, WorkInv, StopInv, BusyCoversWork
<1>4. StopInv'
  BY DEF LockInv, CallInv, WorkInv, StopInv, BusyCoversWork
<1>5. BusyCoversWork'
  BY DEF LockInv, CallInv, WorkInv, StopInv, BusyCoversWork
<1>6. HeldInv'
  <2> SUFFICES ASSUME NEW j \in Jobs, status'[j] \in {"accepted", "running"}
               PROVE  \E v \in workers :
                        /\ work'[v] = j
                        /\ wpc'[v] \in IF status'[j] = "accepted" THEN {"notified"}
                                      ELSE {"work", "return"}
                        /\ busy'[v] \/ \E d \in Callers : HandingTo(d, v)'
    BY DEF HeldInv
  <2>2. PICK v \in workers : /\ work[v] = j
                             /\ wpc[v] \in IF status[j] = "accepted" THEN {"notified"}
                                          ELSE {"work", "return"}
                             /\ busy[v] \/ \E d \in Callers : HandingTo(d, v)
    BY DEF HeldInv
  <2>3. v # w
    BY <2>2
  <2> QED
    BY <2>2, <2>3
<1> QED
  BY <1>1, <1>2, <1>3, <1>4, <1>5, <1>6

(* A worker goes to sleep.                                                 *)
LEMMA WaitKeepsInv ==
  ASSUME IInv, TypeOK', NEW w \in workers, Wait(w) PROVE IInv'
<1> USE DEF IInv, TypeOK, HandingTo, Wait, callerVars, stopVars
<1>1. LockInv'
  BY DEF LockInv
<1>2. CallInv'
  BY DEF LockInv, CallInv, WorkInv, StopInv, BusyCoversWork
<1>3. WorkInv'
  BY DEF LockInv, CallInv, WorkInv, StopInv, BusyCoversWork
<1>4. StopInv'
  BY DEF LockInv, CallInv, WorkInv, StopInv, BusyCoversWork
<1>5. BusyCoversWork'
  BY DEF LockInv, CallInv, WorkInv, StopInv, BusyCoversWork
<1>6. HeldInv'
  <2> SUFFICES ASSUME NEW j \in Jobs, status'[j] \in {"accepted", "running"}
               PROVE  \E v \in workers :
                        /\ work'[v] = j
                        /\ wpc'[v] \in IF status'[j] = "accepted" THEN {"notified"}
                                      ELSE {"work", "return"}
                        /\ busy'[v] \/ \E d \in Callers : HandingTo(d, v)'
    BY DEF HeldInv
  <2>1. status[j] \in {"accepted", "running"}
    OBVIOUS
  <2>2. PICK v \in workers : /\ work[v] = j
                             /\ wpc[v] \in IF status[j] = "accepted" THEN {"notified"}
                                          ELSE {"work", "return"}
                             /\ busy[v] \/ \E d \in Callers : HandingTo(d, v)
    BY <2>1 DEF HeldInv
  <2> QED
    BY <2>2
<1> QED
  BY <1>1, <1>2, <1>3, <1>4, <1>5, <1>6

(* A worker that was notified takes up the work it was woken for.          *)
LEMMA WakeToWorkKeepsInv ==
  ASSUME IInv, TypeOK', NEW w \in workers, WakeToWork(w) PROVE IInv'
<1> USE DEF IInv, TypeOK, HandingTo, WakeToWork, callerVars, stopVars
<1>1. LockInv'
  BY DEF LockInv
<1>2. CallInv'
  BY DEF LockInv, CallInv, WorkInv, StopInv, BusyCoversWork
<1>3. WorkInv'
  BY DEF LockInv, CallInv, WorkInv, StopInv, BusyCoversWork
<1>4. StopInv'
  BY DEF LockInv, CallInv, WorkInv, StopInv, BusyCoversWork
<1>5. BusyCoversWork'
  BY DEF LockInv, CallInv, WorkInv, StopInv, BusyCoversWork
<1>6. HeldInv'
  BY DEF LockInv, CallInv, WorkInv, HeldInv, StopInv, BusyCoversWork
<1> QED
  BY <1>1, <1>2, <1>3, <1>4, <1>5, <1>6

(* A worker that stop() has notified ends.                                 *)
LEMMA WakeToDieKeepsInv ==
  ASSUME IInv, TypeOK', NEW w \in workers, WakeToDie(w) PROVE IInv'
<1> USE DEF IInv, TypeOK, HandingTo, WakeToDie, callerVars, stopVars
<1>1. LockInv'
  BY DEF LockInv
<1>2. CallInv'
  BY DEF LockInv, CallInv, WorkInv, StopInv, BusyCoversWork
<1>3. WorkInv'
  BY DEF LockInv, CallInv, WorkInv, StopInv, BusyCoversWork
<1>4. StopInv'
  BY DEF LockInv, CallInv, WorkInv, StopInv, BusyCoversWork
<1>5. BusyCoversWork'
  BY DEF LockInv, CallInv, WorkInv, StopInv, BusyCoversWork
<1>6. HeldInv'
  <2> SUFFICES ASSUME NEW j \in Jobs, status'[j] \in {"accepted", "running"}
               PROVE  \E v \in workers :
                        /\ work'[v] = j
                        /\ wpc'[v] \in IF status'[j] = "accepted" THEN {"notified"}
                                      ELSE {"work", "return"}
                        /\ busy'[v] \/ \E d \in Callers : HandingTo(d, v)'
    BY DEF HeldInv
  <2>1. status[j] \in {"accepted", "running"}
    OBVIOUS
  <2>2. PICK v \in workers : /\ work[v] = j
                             /\ wpc[v] \in IF status[j] = "accepted" THEN {"notified"}
                                          ELSE {"work", "return"}
                             /\ busy[v] \/ \E d \in Callers : HandingTo(d, v)
    BY <2>1 DEF HeldInv
  <2>3. v # w
    BY <2>2
  <2> QED
    BY <2>2, <2>3
<1> QED
  BY <1>1, <1>2, <1>3, <1>4, <1>5, <1>6

(* A worker clears the entry of the task it has finished.                  *)
LEMMA ClearTaskKeepsInv ==
  ASSUME IInv, TypeOK', NEW w \in workers, clear_running_task_obj(w) PROVE IInv'
<1> USE DEF IInv, TypeOK, HandingTo, clear_running_task_obj, callerVars, stopVars
<1>1. LockInv'
  BY DEF LockInv
<1>2. CallInv'
  BY DEF LockInv, CallInv, WorkInv, StopInv, BusyCoversWork
<1>3. WorkInv'
  BY DEF LockInv, CallInv, WorkInv, StopInv, BusyCoversWork
<1>4. StopInv'
  BY DEF LockInv, CallInv, WorkInv, StopInv, BusyCoversWork
<1>5. BusyCoversWork'
  BY DEF LockInv, CallInv, WorkInv, StopInv, BusyCoversWork
<1>6. HeldInv'
  BY DEF LockInv, CallInv, WorkInv, HeldInv, StopInv, BusyCoversWork
<1> QED
  BY <1>1, <1>2, <1>3, <1>4, <1>5, <1>6

(* Work ends.                                                              *)
LEMMA WorkReturnsKeepsInv ==
  ASSUME IInv, TypeOK', NEW w \in workers, WorkReturns(w) PROVE IInv'
<1> USE DEF IInv, TypeOK, HandingTo, WorkReturns, callerVars, stopVars
<1>1. LockInv'
  BY DEF LockInv
<1>2. CallInv'
  BY DEF LockInv, CallInv, WorkInv, StopInv, BusyCoversWork
<1>3. WorkInv'
  BY DEF LockInv, CallInv, WorkInv, StopInv, BusyCoversWork
<1>4. StopInv'
  BY DEF LockInv, CallInv, WorkInv, StopInv, BusyCoversWork
<1>5. BusyCoversWork'
  BY DEF LockInv, CallInv, WorkInv, StopInv, BusyCoversWork
<1>6. HeldInv'
  <2> SUFFICES ASSUME NEW j \in Jobs, status'[j] \in {"accepted", "running"}
               PROVE  \E v \in workers :
                        /\ work'[v] = j
                        /\ wpc'[v] \in IF status'[j] = "accepted" THEN {"notified"}
                                      ELSE {"work", "return"}
                        /\ busy'[v] \/ \E d \in Callers : HandingTo(d, v)'
    BY DEF HeldInv
  <2>1. status[j] \in {"accepted", "running"}
    OBVIOUS
  <2>2. PICK v \in workers : /\ work[v] = j
                             /\ wpc[v] \in IF status[j] = "accepted" THEN {"notified"}
                                          ELSE {"work", "return"}
                             /\ busy[v] \/ \E d \in Callers : HandingTo(d, v)
    BY <2>1 DEF HeldInv
  <2>3. v # w
    BY <2>2 DEF WorkInv
  <2> QED
    BY <2>2, <2>3
<1> QED
  BY <1>1, <1>2, <1>3, <1>4, <1>5, <1>6

(* stop() is called.                                                       *)
LEMMA StopBeginKeepsInv ==
  ASSUME IInv, TypeOK', StopBegin PROVE IInv'
<1> USE DEF IInv, TypeOK, HandingTo, StopBegin, callerVars, workerVars
<1>1. LockInv'
  BY DEF LockInv
<1>2. CallInv'
  BY DEF LockInv, CallInv, WorkInv, StopInv, BusyCoversWork
<1>3. WorkInv'
  BY DEF LockInv, CallInv, WorkInv, StopInv, BusyCoversWork
<1>4. StopInv'
  BY DEF LockInv, CallInv, WorkInv, StopInv, BusyCoversWork
<1>5. BusyCoversWork'
  BY DEF LockInv, CallInv, WorkInv, StopInv, BusyCoversWork
<1>6. HeldInv'
  BY DEF LockInv, CallInv, WorkInv, HeldInv, StopInv, BusyCoversWork
<1> QED
  BY <1>1, <1>2, <1>3, <1>4, <1>5, <1>6

(* stop() clears the flag of a worker.                                     *)
LEMMA StopMarkKeepsInv ==
  ASSUME IInv, TypeOK', StopMark PROVE IInv'
<1> USE DEF IInv, TypeOK, HandingTo, StopMark, callerVars
<1>1. LockInv'
  BY DEF LockInv
<1>2. CallInv'
  BY DEF LockInv, CallInv, WorkInv, StopInv, BusyCoversWork
<1>3. WorkInv'
  BY DEF LockInv, CallInv, WorkInv, StopInv, BusyCoversWork
<1>4. StopInv'
  BY DEF LockInv, CallInv, WorkInv, StopInv, BusyCoversWork
<1>5. BusyCoversWork'
  BY DEF LockInv, CallInv, WorkInv, StopInv, BusyCoversWork
<1>6. HeldInv'
  BY DEF LockInv, CallInv, WorkInv, HeldInv, StopInv, BusyCoversWork
<1> QED
  BY <1>1, <1>2, <1>3, <1>4, <1>5, <1>6

(* stop() wakes a worker so that it sees its flag.                         *)
LEMMA StopNotifyKeepsInv ==
  ASSUME IInv, TypeOK', StopNotify PROVE IInv'
<1> USE DEF IInv, TypeOK, HandingTo, StopNotify, Notify, WorkNotifyLockFree, callerVars
<1>1. LockInv'
  BY DEF LockInv
<1>2. CallInv'
  BY DEF LockInv, CallInv, WorkInv, StopInv, BusyCoversWork
<1>3. WorkInv'
  BY DEF LockInv, CallInv, WorkInv, StopInv, BusyCoversWork
<1>4. StopInv'
  BY DEF LockInv, CallInv, WorkInv, StopInv, BusyCoversWork
<1>5. BusyCoversWork'
  BY DEF LockInv, CallInv, WorkInv, StopInv, BusyCoversWork
<1>6. HeldInv'
  <2> SUFFICES ASSUME NEW j \in Jobs, status'[j] \in {"accepted", "running"}
               PROVE  \E v \in workers :
                        /\ work'[v] = j
                        /\ wpc'[v] \in IF status'[j] = "accepted" THEN {"notified"}
                                      ELSE {"work", "return"}
                        /\ busy'[v] \/ \E d \in Callers : HandingTo(d, v)'
    BY DEF HeldInv
  <2>2. PICK v \in workers : /\ work[v] = j
                             /\ wpc[v] \in IF status[j] = "accepted" THEN {"notified"}
                                          ELSE {"work", "return"}
                             /\ busy[v] \/ \E d \in Callers : HandingTo(d, v)
    BY DEF HeldInv
  <2>3. wpc'[v] = wpc[v]
    BY <2>2
  <2> QED
    BY <2>2, <2>3
<1> QED
  BY <1>1, <1>2, <1>3, <1>4, <1>5, <1>6

(* The inductive invariant holds in every state of the service, stopped at *)
(* any time.                                                               *)
THEOREM Invariant == Spec => []IInv
<1>1. Init => IInv
  BY DEF Init, IInv, TypeOK, LockInv, CallInv, WorkInv, HeldInv,
         StopInv, BusyCoversWork
<1>2. IInv /\ TypeOK' /\ [Next]_vars => IInv'
  <2> SUFFICES ASSUME IInv, TypeOK', [Next]_vars PROVE IInv'
    OBVIOUS
  <2>1. CASE \E c \in Callers : new_work(c)
    BY <2>1, CallKeepsInv, AcquireKeepsInv, SkipBusyKeepsInv, RaiseKeepsInv,
       DoSetWorkKeepsInv, DoNotifyKeepsInv, SetBusyKeepsInv, PutRunningKeepsInv,
       ReleaseKeepsInv DEF new_work
  <2>2. CASE \E w \in workers : run(w)
    BY <2>2, ClearBusyKeepsInv, WaitKeepsInv, WakeToWorkKeepsInv, WakeToDieKeepsInv,
       ClearTaskKeepsInv, WorkReturnsKeepsInv DEF run
  <2>3. CASE StopBegin \/ stop
    BY <2>3, StopBeginKeepsInv, StopMarkKeepsInv, StopNotifyKeepsInv DEF stop
  <2>4. CASE UNCHANGED vars
    BY <2>4 DEF vars, callerVars, workerVars, stopVars, IInv, TypeOK, LockInv, CallInv,
                WorkInv, HeldInv, StopInv, BusyCoversWork, HandingTo
  <2> QED
    BY <2>1, <2>2, <2>3, <2>4 DEF Next, Serve
<1> QED
  BY <1>1, <1>2, TypeCorrect, PTL DEF Spec

(* No worker that is at work, or woken for some, can be taken for free.    *)
THEOREM BusyIsTrue == Spec => []BusyCoversWork
<1>1. IInv => BusyCoversWork
  BY DEF IInv
<1> QED
  BY <1>1, Invariant, PTL

(* No two workers carry out one work, and none loses the work it is at.    *)
THEOREM OneWorker == Spec => []OneWorkerPerWork
<1>1. IInv => OneWorkerPerWork
  BY DEF IInv, WorkInv, OneWorkerPerWork
<1> QED
  BY <1>1, Invariant, PTL

(* A submission never waits for running work to end.                       *)
THEOREM NeverWaitsForWork == Spec => []NewWorkNeverWaitsForWork
<1>1. IInv => NewWorkNeverWaitsForWork
  BY DEF IInv, CallInv, StopInv, NewWorkNeverWaitsForWork
<1> QED
  BY <1>1, Invariant, PTL

-----------------------------------------------------------------------------
(* A work begins only when it was accepted and has not begun before.       *)
THEOREM WorkBegunOnce == Spec => BegunOnce
<1>1. IInv /\ [Next]_vars =>
        [\A j \in Jobs : status'[j] = "running" /\ status[j] # "running"
                          => status[j] = "accepted"]_vars
  <2> SUFFICES ASSUME IInv, Next, NEW j \in Jobs,
                      status'[j] = "running", status[j] # "running"
               PROVE  status[j] = "accepted"
    OBVIOUS
  <2> USE DEF IInv, TypeOK
  <2>1. CASE \E w \in workers : WakeToWork(w)
    BY <2>1 DEF WakeToWork, WorkInv
  <2>2. CASE \E w \in workers : WakeToDie(w) \/ WorkReturns(w)
    <3> PICK w \in workers : WakeToDie(w) \/ WorkReturns(w)
      BY <2>2
    <3>1. CASE WakeToDie(w)
      BY <3>1 DEF WakeToDie
    <3>2. CASE WorkReturns(w)
      BY <3>2 DEF WorkReturns
    <3> QED
      BY <3>1, <3>2
  <2>3. CASE \E c \in Callers : DoNotify(c)
    BY <2>3 DEF DoNotify
  <2>4. CASE UNCHANGED status
    BY <2>4
  <2> QED
    BY <2>1, <2>2, <2>3, <2>4
    DEF Next, Serve, new_work, run, stop, Call, Acquire, SkipBusy, RaiseThreadLimit,
        DoSetWork, SetBusy, PutRunning, Release, ClearBusy, Wait, clear_running_task_obj,
        StopBegin, StopMark, StopNotify
<1> QED
  BY <1>1, Invariant, PTL DEF Spec, BegunOnce

-----------------------------------------------------------------------------
(* An entry of running_tasks is made by the caller that has handed over    *)
(* the work, and cleared by the worker that carries it out.                *)
LEMMA RegisteredStep ==
  ASSUME OneTaskIdEach, IInv, Registered, [Next]_vars
  PROVE  Registered'
<1> USE DEF TypeOK
<1>0. TypeOK /\ LockInv /\ CallInv /\ WorkInv /\ BusyCoversWork
  BY DEF IInv
<1> SUFFICES ASSUME NEW j \in Jobs, InHand(j)'
             PROVE  \/ running_tasks'[TaskId[j]] = j
                    \/ \E c \in Callers : cpc'[c] \in {"set_busy", "put"} /\ arg'[c] = j
  BY DEF Registered
<1>1. ASSUME NEW c \in Callers, DoNotify(c)
      PROVE  \/ running_tasks'[TaskId[j]] = j
             \/ \E d \in Callers : cpc'[d] \in {"set_busy", "put"} /\ arg'[d] = j
  <2>1. CASE j = arg[c]
    BY <1>0, <1>1, <2>1 DEF DoNotify
  <2>2. CASE j # arg[c]
    <3>1. InHand(j)
      BY <1>0, <1>1, <2>2 DEF DoNotify, InHand, Notify
    <3>2. \A d \in Callers : cpc[d] \in {"set_busy", "put"} => cpc'[d] = cpc[d]
      BY <1>0, <1>1 DEF DoNotify
    <3> QED
      BY <1>1, <3>1, <3>2 DEF DoNotify, Registered
  <2> QED
    BY <2>1, <2>2
<1>2. ASSUME NEW c \in Callers, DoSetWork(c)
      PROVE  InHand(j)
  <2>1. cur[c] \in workers /\ wpc[cur[c]] # "work"
    <3>1. cur[c] \in workers /\ ~busy[cur[c]] /\ \A d \in Callers : ~HandingTo(d, cur[c])
      BY <1>0, <1>2 DEF DoSetWork, LockInv, HandingTo
    <3> QED
      BY <1>0, <3>1 DEF BusyCoversWork
  <2> QED
    BY <1>0, <1>2, <2>1 DEF DoSetWork, InHand
<1>3. ASSUME NEW c \in Callers, PutRunning(c)
      PROVE  \/ running_tasks'[TaskId[j]] = j
             \/ \E d \in Callers : cpc'[d] \in {"set_busy", "put"} /\ arg'[d] = j
  <2>1. InHand(j)
    BY <1>3 DEF PutRunning, InHand, workerVars
  <2>2. CASE j = arg[c]
    BY <1>0, <1>3, <2>2 DEF PutRunning
  <2>3. CASE j # arg[c]
    <3>1. arg[c] \in Jobs
      BY <1>0, <1>3 DEF PutRunning, CallInv
    <3>2. running_tasks'[TaskId[j]] = running_tasks[TaskId[j]]
      BY <1>0, <1>3, <2>3, <3>1 DEF PutRunning, OneTaskIdEach
    <3>3. \A d \in Callers : cpc[d] \in {"set_busy", "put"} => d = c
      BY <1>0, <1>3 DEF PutRunning, LockInv
    <3> QED
      BY <2>1, <2>3, <3>2, <3>3 DEF Registered
  <2> QED
    BY <2>2, <2>3
<1>4. ASSUME NEW w \in workers, clear_running_task_obj(w)
      PROVE  \/ running_tasks'[TaskId[j]] = j
             \/ \E d \in Callers : cpc'[d] \in {"set_busy", "put"} /\ arg'[d] = j
  <2>1. work[w] \in Jobs /\ status[work[w]] = "running"
    BY <1>0, <1>4 DEF clear_running_task_obj, WorkInv
  <2>2. InHand(j) /\ j # work[w]
    BY <1>0, <1>4, <2>1 DEF clear_running_task_obj, InHand, WorkInv
  <2>3. running_tasks'[TaskId[j]] = running_tasks[TaskId[j]]
    BY <1>0, <1>4, <2>1, <2>2 DEF clear_running_task_obj, OneTaskIdEach
  <2> QED
    BY <1>4, <2>2, <2>3 DEF clear_running_task_obj, callerVars, Registered
<1>5. ASSUME InHand(j), UNCHANGED running_tasks,
             \A c \in Callers : cpc[c] \in {"set_busy", "put"} =>
               cpc'[c] \in {"set_busy", "put"} /\ arg'[c] = arg[c]
      PROVE  \/ running_tasks'[TaskId[j]] = j
             \/ \E c \in Callers : cpc'[c] \in {"set_busy", "put"} /\ arg'[c] = j
  BY <1>5 DEF Registered
<1>6. ASSUME NEW w \in workers, WakeToWork(w)
      PROVE  InHand(j)
  <2>1. work[w] \in Jobs /\ status[work[w]] = "accepted"
    BY <1>0, <1>6 DEF WakeToWork, WorkInv
  <2> QED
    BY <1>0, <1>6, <2>1 DEF WakeToWork, InHand
<1>7. ASSUME NEW w \in workers, ClearBusy(w) \/ Wait(w) \/ WakeToDie(w) \/ WorkReturns(w)
      PROVE  InHand(j)
  BY <1>0, <1>7 DEF ClearBusy, Wait, WakeToDie, WorkReturns, InHand
<1>8. ASSUME StopBegin \/ StopMark \/ StopNotify
      PROVE  InHand(j)
  BY <1>0, <1>8 DEF StopBegin, StopMark, StopNotify, Notify, workerVars, InHand
<1>9. ASSUME NEW c \in Callers, \/ \E i \in Jobs : Call(c, i)
                                \/ Acquire(c) \/ SkipBusy(c) \/ RaiseThreadLimit(c)
                                \/ SetBusy(c) \/ Release(c)
      PROVE  /\ InHand(j) /\ UNCHANGED running_tasks
             /\ \A d \in Callers : cpc[d] \in {"set_busy", "put"} =>
                  cpc'[d] \in {"set_busy", "put"} /\ arg'[d] = arg[d]
  BY <1>0, <1>9 DEF Call, Acquire, SkipBusy, RaiseThreadLimit, SetBusy, Release, workerVars, InHand
<1>10. ASSUME UNCHANGED vars
       PROVE  /\ InHand(j) /\ UNCHANGED running_tasks
              /\ \A d \in Callers : cpc[d] \in {"set_busy", "put"} =>
                   cpc'[d] \in {"set_busy", "put"} /\ arg'[d] = arg[d]
  BY <1>10 DEF vars, callerVars, workerVars, InHand
<1>11. ASSUME \/ StopBegin \/ StopMark \/ StopNotify
              \/ \E w \in workers : \/ ClearBusy(w) \/ Wait(w) \/ WakeToWork(w)
                                    \/ WakeToDie(w) \/ WorkReturns(w)
       PROVE  UNCHANGED <<running_tasks, cpc, arg>>
  BY <1>11 DEF StopBegin, StopMark, StopNotify, ClearBusy, Wait, WakeToWork, WakeToDie,
               WorkReturns, callerVars
<1>12. ASSUME NEW c \in Callers, DoSetWork(c)
       PROVE  /\ UNCHANGED running_tasks
              /\ \A d \in Callers : cpc[d] \in {"set_busy", "put"} =>
                   cpc'[d] \in {"set_busy", "put"} /\ arg'[d] = arg[d]
  BY <1>0, <1>12 DEF DoSetWork
<1> QED
  BY <1>1, <1>2, <1>3, <1>4, <1>5, <1>6, <1>7, <1>8, <1>9, <1>10, <1>11, <1>12
  DEF Next, Serve, new_work, run, stop

(* While each submission has a task_id of its own, get_running_task_obj()  *)
(* finds the work that a worker carries out, unless its submission has     *)
(* still to enter it.                                                      *)
THEOREM RunningIsFound ==
  ASSUME OneTaskIdEach
  PROVE  Spec => []RunningIsRegistered
<1>1. Init => Registered
  BY DEF Init, Registered, InHand
<1>2. IInv /\ Registered /\ [Next]_vars => Registered'
  BY RegisteredStep
<1>3. IInv /\ Registered => RunningIsRegistered
  BY DEF IInv, Registered, RunningIsRegistered, InHand, LockInv, WorkInv
<1> QED
  BY <1>1, <1>2, <1>3, Invariant, PTL DEF Spec

-----------------------------------------------------------------------------
(* The abstract pool counts as this module does.                           *)
LEMMA SameCardinality == \A S : Pool!Cardinality(S) = Cardinality(S)
  BY Zenon DEF Pool!Cardinality, Cardinality

(* While new_work hands over a work there is a worker that holds none.     *)
LEMMA RoomForOneMore ==
  ASSUME IInv, NEW c \in Callers, cpc[c] = "notify"
  PROVE  IsFiniteSet(Pool!Held) /\ Cardinality(Pool!Held) < NumThreads
<1> USE DEF IInv, TypeOK
<1> DEFINE others == workers \ {cur[c]}
           holder == [j \in Pool!Held |-> CHOOSE w \in workers : work[w] = j]
<1>1. cur[c] \in workers /\ work[cur[c]] = arg[c] /\ status[arg[c]] = "new"
  BY DEF CallInv
<1>2. \A j \in Pool!Held : holder[j] \in workers /\ work[holder[j]] = j
  BY DEF Pool!Held, HeldInv
<1>3. holder \in [Pool!Held -> others]
  <2>1. \A j \in Pool!Held : holder[j] # cur[c]
    <3>1. \A j \in Pool!Held : status[j] # "new"
      BY DEF Pool!Held
    <3> HIDE DEF holder
    <3> QED
      BY <1>1, <1>2, <3>1
  <2> QED
    BY <1>2, <2>1
<1>4. holder \in Injection(Pool!Held, others)
  <2> HIDE DEF holder, others
  <2> QED
    BY <1>2, <1>3 DEF Injection, IsInjective
<1>5. IsFiniteSet(workers) /\ Cardinality(workers) = NumThreads
  BY FS_Interval
<1>6. IsFiniteSet(others) /\ Cardinality(others) = NumThreads - 1
  <2>1. /\ IsFiniteSet(workers \ {cur[c]})
        /\ Cardinality(workers \ {cur[c]}) = Cardinality(workers) - 1
    BY <1>1, <1>5, FS_RemoveElement, Zenon
  <2> QED
    BY <1>5, <2>1
<1>7. Cardinality(Pool!Held) <= Cardinality(others) /\ IsFiniteSet(Pool!Held)
  BY <1>4, <1>6, FS_Injection
<1> HIDE DEF others
<1> QED
  BY <1>5, <1>6, <1>7, FS_CardinalityType

(* The worker pool keeps the promise of the abstract pool: never more      *)
(* works in hand than workers, each carried out once, none dropped before  *)
(* stop().                                                                 *)
THEOREM PoolImplemented == Spec => ImplementsPool
<1>1. Init => Pool!Init
  BY DEF Init, Pool!Init
<1>2. IInv /\ [Next]_vars => [Pool!Next]_Pool!vars
  <2> SUFFICES ASSUME IInv, [Next]_vars PROVE Pool!Next \/ UNCHANGED Pool!vars
    OBVIOUS
  <2> USE DEF IInv, TypeOK
  <2>1. CASE \E c \in Callers : DoNotify(c)
    <3> PICK c \in Callers : DoNotify(c)
      BY <2>1
    <3>1. arg[c] \in Jobs /\ status[arg[c]] = "new" /\ cpc[c] = "notify"
      BY DEF DoNotify, CallInv
    <3>2. IsFiniteSet(Pool!Held) /\ Cardinality(Pool!Held) < NumThreads
      BY <3>1, RoomForOneMore
    <3>3. ~Pool!Full
      BY <3>2, SameCardinality, FS_CardinalityType DEF Pool!Full
    <3> PICK j \in Jobs : j = arg[c]
      BY <3>1
    <3>4. Pool!Accept(j)
      BY <3>1, <3>3 DEF DoNotify, Pool!Accept, Pool!Becomes, stopVars
    <3> QED
      BY <3>4 DEF Pool!Next
  <2>2. CASE \E w \in workers : WakeToWork(w)
    <3> PICK w \in workers : WakeToWork(w)
      BY <2>2
    <3> PICK j \in Jobs : j = work[w] /\ status[j] = "accepted"
      BY DEF WakeToWork, WorkInv
    <3>1. Pool!Start(j)
      BY DEF WakeToWork, Pool!Start, Pool!Becomes, stopVars
    <3> QED
      BY <3>1 DEF Pool!Next
  <2>3. CASE \E w \in workers : WorkReturns(w)
    <3> PICK w \in workers : WorkReturns(w)
      BY <2>3
    <3> PICK j \in Jobs : j = work[w] /\ status[j] = "running"
      BY DEF WorkReturns, WorkInv
    <3>1. Pool!Finish(j)
      BY DEF WorkReturns, Pool!Finish, Pool!Becomes, stopVars
    <3> QED
      BY <3>1 DEF Pool!Next
  <2>4. CASE \E w \in workers : WakeToDie(w)
    <3> PICK w \in workers : WakeToDie(w)
      BY <2>4
    <3>1. UNCHANGED stop_pc /\ stop_pc # "idle"
      BY DEF WakeToDie, StopInv, stopVars
    <3>2. CASE \E j \in Jobs : j = work[w] /\ status[j] = "accepted"
      <4> PICK j \in Jobs : j = work[w] /\ status[j] = "accepted"
        BY <3>2
      <4>1. status' = [status EXCEPT ![j] = "lost"]
        BY DEF WakeToDie
      <4>2. Pool!Drop(j)
        BY <3>1, <4>1 DEF Pool!Drop, Pool!Becomes
      <4> QED
        BY <4>2 DEF Pool!Next
    <3>3. CASE ~\E j \in Jobs : j = work[w] /\ status[j] = "accepted"
      <4>1. UNCHANGED status
        BY <3>3 DEF WakeToDie
      <4> QED
        BY <3>1, <4>1 DEF Pool!vars
    <3> QED
      BY <3>2, <3>3
  <2>5. CASE StopBegin
    BY <2>5 DEF StopBegin, Pool!Stop, Pool!Next
  <2>6. CASE StopMark \/ StopNotify
    <3>1. UNCHANGED status /\ stop_pc # "idle" /\ stop_pc' # "idle"
      BY <2>6 DEF StopMark, StopNotify
    <3> QED
      BY <3>1 DEF Pool!vars
  <2>7. CASE UNCHANGED <<status, stop_pc>>
    BY <2>7 DEF Pool!vars
  <2> QED
    BY <2>1, <2>2, <2>3, <2>4, <2>5, <2>6, <2>7
    DEF Next, Serve, new_work, run, stop, vars, stopVars, Call, Acquire, SkipBusy,
        RaiseThreadLimit, DoSetWork, SetBusy, PutRunning, Release, ClearBusy, Wait,
        clear_running_task_obj
<1> QED
  BY <1>1, <1>2, Invariant, PTL DEF Spec, ImplementsPool, Pool!Spec

=============================================================================

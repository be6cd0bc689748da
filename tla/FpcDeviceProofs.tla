-------------------------- MODULE FpcDeviceProofs ---------------------------
(***************************************************************************)
(* Proofs about the HAL device: its worker thread (FpcWorker), for any     *)
(* set of calling threads and any number of tasks, and opening, using and  *)
(* closing the device (FpcDevice), for any error numbers and any number    *)
(* of opens and failures.                                                  *)
(***************************************************************************)
EXTENDS FpcWorker, FpcDevice, TLAPS

-----------------------------------------------------------------------------
(* The worker thread: fpc_worker.c. *)

(* The inductive invariant of the worker: who holds the lock, and
   what each place in the code knows about the worker's fields. *)
Stopping == {"destroy_signal", "destroy_join", "destroyed"}

WorkerInv ==
    /\ \A c \in Callers : lock = c <=> ~At(c, "out")
    /\ func # 0 => lock \in Callers /\ pc[lock] = "run_wait"
    /\ terminate <=> lock \in Callers /\ pc[lock] \in Stopping
    /\ \A c \in Callers : At(c, "joined") => state = "IDLE"
    /\ Worker \in waiting => At(Worker, "wait")
    /\ At(Worker, "task") => state = "RUNNING"
    /\ state = "RUNNING" => pc[Worker] \in {"task", "head"}
    /\ At(Worker, "returned") => terminate
    /\ \A c \in Callers : At(c, "destroyed") => At(Worker, "returned")

IInv == TypeOK /\ WorkerInv /\ NoLostWakeup /\ EachTaskOnce

(* One signal either finds nobody or takes exactly one thread out. *)
LEMMA WokenShape ==
    ASSUME NEW W, NEW w \in Woken(W)
    PROVE  (W = {} /\ w = {}) \/ (\E t \in W : w = {t})
BY DEF Woken

(* A blocked thread is the worker or the one caller that holds the lock. *)
LEMMA OnlyHolderWaits ==
    ASSUME IInv, NEW t \in waiting, t # Worker
    PROVE  t \in Callers /\ t = lock /\ pc[t] \in {"run_wait", "join_wait"}
BY DEF IInv, TypeOK, WorkerInv, NoLostWakeup, WaitsForCause, At, Threads

(* The invariant holds initially. *)
LEMMA InitIInv == Init => IInv
<1> SUFFICES ASSUME Init PROVE IInv
  OBVIOUS
<1>1. TypeOK
  BY WorkerAssumption DEF Init, TypeOK, Threads, CallerPC, WorkerPC
<1>2. WorkerInv
  BY WorkerAssumption DEF Init, WorkerInv, At, Threads
<1>3. NoLostWakeup /\ EachTaskOnce
  BY DEF Init, NoLostWakeup, EachTaskOnce
<1> QED
  BY <1>1, <1>2, <1>3 DEF IInv

(* Every step keeps the invariant: one case per action. *)
LEMMA NextIInv == IInv /\ [Next]_vars => IInv'
<1> SUFFICES ASSUME IInv, [Next]_vars PROVE IInv'
  OBVIOUS
<1> USE WorkerAssumption
<1> USE DEF IInv, TypeOK, WorkerInv, NoLostWakeup, EachTaskOnce,
            WaitsForCause, At, Goto, Threads, CallerPC, WorkerPC, Stopping,
            Inside
<1>1. ASSUME NEW c \in Callers, Enter(c) PROVE IInv'
  BY <1>1 DEF Enter
<1>2. ASSUME NEW c \in Callers, Leave(c) PROVE IInv'
  BY <1>2 DEF Leave
<1>3. ASSUME NEW c \in Callers, RunTask(c) PROVE IInv'
  <2>1. PICK w \in Woken(waiting) : waiting' = (waiting \ w) \cup {c}
    BY <1>3 DEF RunTask
  <2>2. waiting \ w = {}
    BY <1>3, <2>1, WokenShape, OnlyHolderWaits DEF RunTask
  <2> QED
    BY <1>3, <2>1, <2>2 DEF RunTask
<1>4. ASSUME NEW c \in Callers, JoinTask(c) PROVE IInv'
  BY <1>4 DEF JoinTask, JoinCheck
<1>5. ASSUME NEW c \in Callers, Destroy(c) PROVE IInv'
  BY <1>5 DEF Destroy
<1>6. ASSUME NEW c \in Callers, RunTaskWake(c) PROVE IInv'
  BY <1>6 DEF RunTaskWake
<1>7. ASSUME NEW c \in Callers, JoinTaskWake(c) PROVE IInv'
  BY <1>7 DEF JoinTaskWake, JoinCheck
<1>8. ASSUME NEW c \in Callers, DestroySignal(c) PROVE IInv'
  <2>1. PICK w \in Woken(waiting) : waiting' = waiting \ w
    BY <1>8 DEF DestroySignal
  <2>2. waiting' = {}
    BY <1>8, <2>1, WokenShape, OnlyHolderWaits DEF DestroySignal
  <2> QED
    BY <1>8, <2>2 DEF DestroySignal
<1>9. ASSUME NEW c \in Callers, DestroyJoin(c) PROVE IInv'
  BY <1>9 DEF DestroyJoin
<1>10. CASE WorkerHead
  <2>1. PICK w \in Woken(waiting) : InnerLoop(waiting \ w, "IDLE")
    BY <1>10 DEF WorkerHead
  <2>2. waiting \ w = {}
    BY <1>10, <2>1, WokenShape, OnlyHolderWaits DEF WorkerHead
  <2>3. InnerLoop({}, "IDLE")
    BY <2>1, <2>2
  <2>4. waiting' \subseteq {Worker}
    BY <2>3, WokenShape DEF InnerLoop
  <2> QED
    BY <1>10, <2>3, <2>4 DEF WorkerHead, InnerLoop
<1>11. CASE WorkerWake
  <2>1. InnerLoop(waiting, state)
    BY <1>11 DEF WorkerWake
  <2>2. CASE /\ ~terminate /\ func # 0 /\ state' = "RUNNING" /\ func' = 0
             /\ ran' = ran + 1 /\ Goto(Worker, "task")
             /\ \E w \in Woken(waiting) : waiting' = waiting \ w
    <3>1. waiting' = {}
      BY <1>11, <2>2, WokenShape, OnlyHolderWaits DEF WorkerWake
    <3> QED
      BY <1>11, <2>2, <3>1 DEF WorkerWake
  <2> QED
    BY <1>11, <2>1, <2>2 DEF WorkerWake, InnerLoop
<1>12. CASE TaskReturns
  BY <1>12 DEF TaskReturns
<1>13. ASSUME NEW t \in Threads, SpuriousWakeup(t) PROVE IInv'
  BY <1>13 DEF SpuriousWakeup
<1>14. CASE UNCHANGED vars
  BY <1>14 DEF vars
<1> QED
  BY <1>1, <1>2, <1>3, <1>4, <1>5, <1>6, <1>7, <1>8, <1>9, <1>10, <1>11,
     <1>12, <1>13, <1>14 DEF Next

(* The worker's type invariant holds for any callers and any task count. *)
THEOREM WorkerTypeCorrect == Spec => []TypeOK
<1>1. IInv => TypeOK
  BY DEF IInv
<1> QED
  BY InitIInv, NextIInv, <1>1, PTL DEF Spec

(* Single-waiter signals on a shared condition variable never strand a
   thread of fpc_worker.c, however many threads call it under the lock. *)
THEOREM WorkerNoLostWakeup == Spec => []NoLostWakeup
<1>1. IInv => NoLostWakeup
  BY DEF IInv
<1> QED
  BY InitIInv, NextIInv, <1>1, PTL DEF Spec

(* After fpc_worker_join_task no task executes until the holder posts. *)
THEOREM WorkerJoinMeansIdle == Spec => []JoinMeansIdle
<1>1. IInv => JoinMeansIdle
  BY DEF IInv, JoinMeansIdle, WorkerInv, TypeOK, At, Threads
<1> QED
  BY InitIInv, NextIInv, <1>1, PTL DEF Spec

(* No posted task is overwritten, dropped or started twice. *)
THEOREM WorkerEachTaskOnce == Spec => []EachTaskOnce
<1>1. IInv => EachTaskOnce
  BY DEF IInv
<1> QED
  BY InitIInv, NextIInv, <1>1, PTL DEF Spec
-----------------------------------------------------------------------------
(* The steps of fpc_worker.c as steps of the abstract task runner. *)

AbsCall == [c \in Callers |-> CallOf(pc[c])]

(* A step that moves only caller c moves only c's abstract call. *)
LEMMA CallMoves ==
    ASSUME TypeOK, NEW c \in Callers, NEW p, Goto(c, p)
    PROVE  AbsCall' = [AbsCall EXCEPT ![c] = CallOf(p)]
BY WorkerAssumption DEF TypeOK, Goto, AbsCall, Threads

(* The worker's own steps leave every abstract call alone. *)
LEMMA CallStays ==
    ASSUME TypeOK, NEW p, Goto(Worker, p)
    PROVE  AbsCall' = AbsCall
BY WorkerAssumption DEF TypeOK, Goto, AbsCall, Threads

(* The lock holder is the only thread with a call under way. *)
LEMMA HolderAlone ==
    ASSUME IInv, NEW c \in Callers, pc[c] # "out"
    PROVE  \A d \in Callers \ {c} : CallOf(pc[d]) = "none"
BY DEF IInv, WorkerInv, At, CallOf

(* The initial states map to initial states of FpcTaskRunner. *)
LEMMA InitRunner == Init => Runner!Init
BY WorkerAssumption DEF Init, Runner!Init, Threads, CallOf, At

(* Every step maps to a step of FpcTaskRunner or to none. *)
LEMMA StepRunner == IInv /\ IInv' /\ [Next]_vars => [Runner!Next]_(Runner!avars)
<1> SUFFICES ASSUME IInv, IInv', [Next]_vars
             PROVE  [Runner!Next]_(Runner!avars)
  OBVIOUS
<1> USE WorkerAssumption
<1>t. TypeOK /\ TypeOK'
  BY DEF IInv
<1>w. pc[Worker] \in WorkerPC /\ At(Worker, "task") \in BOOLEAN
  BY <1>t DEF TypeOK, At
<1>u. ASSUME AbsCall' = AbsCall, posted' = posted, ran' = ran,
             pc'[Worker] = pc[Worker]
      PROVE  UNCHANGED Runner!avars
  BY <1>u DEF Runner!avars, AbsCall, At
<1>1. ASSUME NEW c \in Callers, Enter(c) PROVE UNCHANGED Runner!avars
  <2>1. AbsCall' = [AbsCall EXCEPT ![c] = "none"]
    BY <1>t, <1>1, CallMoves DEF Enter, CallOf
  <2>2. AbsCall[c] = "none"
    BY <1>1 DEF Enter, AbsCall, CallOf, At
  <2> QED
    BY <1>1, <1>t, <1>u, <2>1, <2>2 DEF Enter, AbsCall, Goto, TypeOK, Threads
<1>2. ASSUME NEW c \in Callers, Leave(c)
      PROVE  Runner!Forget(c) \/ UNCHANGED Runner!avars
  <2>1. AbsCall' = [AbsCall EXCEPT ![c] = "none"]
    BY <1>t, <1>2, CallMoves DEF Leave, CallOf
  <2>2. posted' = posted /\ ran' = ran /\ pc'[Worker] = pc[Worker]
    BY <1>2, <1>t DEF Leave, Goto, TypeOK, Threads
  <2>3. CASE pc[c] = "joined"
    BY <2>1, <2>2, <2>3 DEF Runner!Forget, Runner!SetCall, AbsCall, CallOf, At
  <2>4. CASE pc[c] = "in"
    BY <1>u, <2>1, <2>2, <2>4 DEF AbsCall, CallOf
  <2> QED
    BY <1>2, <2>3, <2>4 DEF Leave, Inside
<1>3. ASSUME NEW c \in Callers, RunTask(c) PROVE Runner!Post(c)
  <2>1. AbsCall' = [AbsCall EXCEPT ![c] = "run"]
    BY <1>t, <1>3, CallMoves DEF RunTask, CallOf
  <2>2. posted = ran /\ ~terminate
    BY <1>3 DEF RunTask, IInv, WorkerInv, EachTaskOnce, At, Inside, TypeOK,
                Stopping
  <2>3. pc[c] # "out" /\ CallOf(pc[c]) \in {"none", "idle"}
    BY <1>3 DEF RunTask, Inside, CallOf
  <2>4. pc[Worker] # "returned" /\ pc'[Worker] = pc[Worker]
    BY <1>3, <1>t, <2>2 DEF RunTask, IInv, WorkerInv, At, Goto, TypeOK, Threads
  <2> QED
    BY <1>3, <2>1, <2>2, <2>3, <2>4, HolderAlone
       DEF RunTask, Runner!Post, Runner!Free, Runner!Alone, Runner!SetCall,
           AbsCall, At
<1>4. ASSUME NEW c \in Callers, pc[c] # "out", JoinCheck(c),
             CallOf(pc[c]) \in {"none", "idle", "join"}
      PROVE  \/ Runner!JoinReturns(c)
             \/ CallOf(pc[c]) # "join" /\ Runner!JoinBlocks(c)
             \/ UNCHANGED Runner!avars
  <2>1. pc'[Worker] = pc[Worker] /\ posted' = posted /\ ran' = ran
    BY <1>4, <1>t DEF JoinCheck, Goto, TypeOK, Threads
  <2>2. CASE state = "IDLE" /\ Goto(c, "joined")
    <3>1. AbsCall' = [AbsCall EXCEPT ![c] = "idle"]
      BY <1>t, <2>2, CallMoves DEF CallOf
    <3>2. pc[Worker] # "task" /\ func = 0 /\ posted = ran
      BY <2>2, <1>4 DEF IInv, WorkerInv, EachTaskOnce, At, TypeOK, CallOf
    <3> QED
      BY <1>4, <2>1, <3>1, <3>2, HolderAlone
         DEF Runner!JoinReturns, Runner!Free, Runner!Alone, Runner!SetCall,
             AbsCall, At
  <2>3. CASE state # "IDLE" /\ Goto(c, "join_wait")
    <3>1. AbsCall' = [AbsCall EXCEPT ![c] = "join"]
      BY <1>t, <2>3, CallMoves DEF CallOf
    <3>2. CASE CallOf(pc[c]) = "join"
      BY <1>u, <2>1, <3>1, <3>2 DEF AbsCall
    <3>3. CASE CallOf(pc[c]) \in {"none", "idle"}
      BY <1>4, <2>1, <3>1, <3>3, HolderAlone
         DEF Runner!JoinBlocks, Runner!Free, Runner!Alone, Runner!SetCall,
             AbsCall, At
    <3> QED
      BY <1>4, <3>2, <3>3
  <2> QED
    BY <1>4, <2>2, <2>3 DEF JoinCheck
<1>5. ASSUME NEW c \in Callers, JoinTask(c) \/ JoinTaskWake(c)
      PROVE  [Runner!Next]_(Runner!avars)
  <2>1. /\ pc[c] # "out" /\ JoinCheck(c)
        /\ CallOf(pc[c]) \in {"none", "idle", "join"}
    BY <1>5 DEF JoinTask, JoinTaskWake, Inside, At, CallOf
  <2> QED
    BY <1>4, <2>1 DEF Runner!Next
<1>6. ASSUME NEW c \in Callers, Destroy(c) PROVE Runner!Stop(c)
  <2>1. AbsCall' = [AbsCall EXCEPT ![c] = "stop"]
    BY <1>t, <1>6, CallMoves DEF Destroy, CallOf
  <2>2. pc[c] # "out" /\ CallOf(pc[c]) \in {"none", "idle"}
    BY <1>6 DEF Destroy, Inside, CallOf
  <2>3. pc'[Worker] = pc[Worker]
    BY <1>6, <1>t DEF Destroy, Goto, TypeOK, Threads
  <2> QED
    BY <1>6, <2>1, <2>2, <2>3, HolderAlone
       DEF Destroy, Runner!Stop, Runner!Free, Runner!Alone, Runner!SetCall,
           AbsCall, At
<1>7. ASSUME NEW c \in Callers, RunTaskWake(c)
      PROVE  Runner!RunReturns(c) \/ UNCHANGED Runner!avars
  <2>1. CASE func # 0
    BY <1>7, <2>1 DEF RunTaskWake, Runner!avars, At
  <2>2. CASE func = 0
    <3>1. AbsCall' = [AbsCall EXCEPT ![c] = "none"]
      BY <1>t, <1>7, <2>2, CallMoves DEF RunTaskWake, CallOf
    <3>2. posted = ran /\ pc'[Worker] = pc[Worker] /\ CallOf(pc[c]) = "run"
      BY <1>7, <1>t, <2>2 DEF RunTaskWake, IInv, EachTaskOnce, Goto, TypeOK,
                              Threads, At, CallOf
    <3> QED
      BY <1>7, <3>1, <3>2 DEF RunTaskWake, Runner!RunReturns, Runner!SetCall,
                              AbsCall, At
  <2> QED
    BY <2>1, <2>2
<1>8. ASSUME NEW c \in Callers, DestroySignal(c) PROVE UNCHANGED Runner!avars
  <2>1. AbsCall' = [AbsCall EXCEPT ![c] = "stop"] /\ AbsCall[c] = "stop"
    BY <1>t, <1>8, CallMoves DEF DestroySignal, CallOf, AbsCall, At
  <2> QED
    BY <1>8, <1>t, <1>u, <2>1
       DEF DestroySignal, AbsCall, Goto, TypeOK, Threads
<1>9. ASSUME NEW c \in Callers, DestroyJoin(c) PROVE Runner!StopReturns(c)
  <2>1. AbsCall' = [AbsCall EXCEPT ![c] = "stopped"] /\ AbsCall[c] = "stop"
    BY <1>t, <1>9, CallMoves DEF DestroyJoin, CallOf, AbsCall, At
  <2> QED
    BY <1>9, <1>t, <2>1
       DEF DestroyJoin, AbsCall, Goto, TypeOK, Threads, At,
           Runner!StopReturns, Runner!SetCall
<1>10. ASSUME NEW W, NEW s, InnerLoop(W, s), posted' = posted,
              pc[Worker] \in {"head", "wait"}
       PROVE  Runner!Take \/ Runner!Exit \/ UNCHANGED Runner!avars
  <2>1. CASE terminate /\ Goto(Worker, "returned") /\ ran' = ran
    <3>1. AbsCall' = AbsCall /\ pc'[Worker] = "returned"
      BY <1>t, <2>1, CallStays DEF Goto, TypeOK, Threads
    <3>2. lock \in Callers /\ CallOf(pc[lock]) \in {"stop", "stopped"} /\ func = 0
      BY <2>1 DEF IInv, WorkerInv, Stopping, CallOf
    <3>3. posted = ran
      BY <3>2 DEF IInv, EachTaskOnce, TypeOK
    <3>4. pc[lock] # "destroyed"
      BY <1>10, <3>2 DEF IInv, WorkerInv, At
    <3> QED
      BY <1>10, <2>1, <3>1, <3>2, <3>3, <3>4 DEF Runner!Exit, AbsCall, At, CallOf
  <2>2. CASE ~terminate /\ func # 0 /\ ran' = ran + 1 /\ Goto(Worker, "task")
    <3>1. AbsCall' = AbsCall /\ pc'[Worker] = "task"
      BY <1>t, <2>2, CallStays DEF Goto, TypeOK, Threads
    <3>2. posted = ran + 1 /\ ran \in Nat
      BY <2>2 DEF IInv, EachTaskOnce, TypeOK
    <3> QED
      BY <1>10, <2>2, <3>1, <3>2 DEF Runner!Take, AbsCall, At
  <2>3. CASE Goto(Worker, "wait") /\ ran' = ran
    <3>1. AbsCall' = AbsCall /\ pc'[Worker] = "wait"
      BY <1>t, <2>3, CallStays DEF Goto, TypeOK, Threads
    <3> QED
      BY <1>10, <2>3, <3>1 DEF Runner!avars, AbsCall, At
  <2> QED
    BY <1>10, <2>1, <2>2, <2>3 DEF InnerLoop
<1>11. CASE WorkerHead \/ WorkerWake
  <2>1. /\ pc[Worker] \in {"head", "wait"} /\ posted' = posted
        /\ \E W, s : InnerLoop(W, s)
    BY <1>11 DEF WorkerHead, WorkerWake, At
  <2> QED
    BY <1>10, <2>1 DEF Runner!Next
<1>12. CASE TaskReturns
  <2>1. AbsCall' = AbsCall /\ pc'[Worker] = "head"
    BY <1>t, <1>12, CallStays DEF TaskReturns, Goto, TypeOK, Threads
  <2>2. Runner!Finish
    BY <1>12, <2>1 DEF TaskReturns, Runner!Finish, AbsCall, At
  <2> QED
    BY <2>2 DEF Runner!Next
<1>13. ASSUME NEW t \in Threads, SpuriousWakeup(t)
       PROVE  UNCHANGED Runner!avars
  BY <1>13 DEF SpuriousWakeup, Runner!avars, At
<1>14. CASE UNCHANGED vars
  BY <1>14 DEF vars, Runner!avars, At
<1> QED
  BY <1>1, <1>2, <1>3, <1>5, <1>6, <1>7, <1>8, <1>9, <1>11, <1>12, <1>13,
     <1>14 DEF Next, Runner!Next

(* fpc_worker.c implements the abstract one-task executor: what the HAL's
   composition assumes of its two workers is what this thread provides. *)
THEOREM WorkerImplementsRunner == Spec => ImplementsRunner
BY InitIInv, NextIInv, InitRunner, StepRunner, PTL
   DEF Spec, ImplementsRunner, Runner!Spec

-----------------------------------------------------------------------------
(* The device: fpc_hal_open, fpc_hal_close, fpc_tac_transfer. *)

(* What fpc_hal_open has acquired and stored before its n-th step. *)
Before(n) == {OpenSteps[i] : i \in 1 .. n - 1}
OpenHeld(n) == Before(n) \ Commands
OpenFields(n) == {Completes[s] : s \in Before(n) \cap DOMAIN Completes}

DeviceParts == {"tee", "sensor", "worker", "eng", "test", "nav", "cal", "recal"}

(* Resources h of a device with the parts f: beside the device's own memory
   and the global input device, what the release of those parts frees. *)
Owned(h, f) ==
    /\ "dev" \in h
    /\ \A r \in AllResources \ {"dev", "input"} : r \in h <=> \E p \in f : r \in Frees[p]
    /\ "sensor" \in f => "tee" \in f

(* What exists is what the parts stored so far own, at every step of an open,
   and what fpc_hal_close has not released yet, at every step of a close. *)
DeviceBuilt ==
    /\ phase = "opening" => held = OpenHeld(step) /\ fields = OpenFields(step)
    /\ phase = "open" => fields = DeviceParts
    /\ phase = "closing" => /\ step \in 1 .. Len(CloseSteps) /\ Owned(held, fields)
                            /\ \A i \in 1 .. step - 1 : CloseSteps[i] \notin fields
                            /\ step > 6 => "input" \notin held

(* The threads are busy only in a complete device, and no longer once
   fpc_hal_close has joined them. *)
ThreadsJoined ==
    /\ task \/ nav => phase \in {"open", "closing"} /\ held = AllResources
    /\ phase = "closing" /\ step > 2 => ~task
    /\ phase = "closing" /\ step > 5 => ~nav

(* Before the trusted application is ready, every initialisation of a module
   belongs to one that failed. *)
InitsCounted == ~ready => \A m \in 1 .. Len(TaModules) : inits[m] <= faults

(* The inductive invariant. *)
DeviceInv == NothingLeft /\ DeviceBuilt /\ ThreadsJoined /\ InitsCounted

(* The lists of fpc_hal_open's and fpc_hal_close's steps, and of the modules
   in the trusted application's table, are as long as they look. *)
LEMMA Lengths == Len(OpenSteps) = 30 /\ Len(CloseSteps) = 16 /\ Len(TaModules) = 5
BY DEF OpenSteps, CloseSteps, TaModules

(* What a complete device holds: the steps of fpc_hal_open that are not
   commands. *)
LEMMA Resources ==
    AllResources = {"dev", "tee", "context", "session", "tac", "sysfs", "shared", "input",
                    "sensor", "irq", "irqfd", "pipe", "worker", "thread", "eng", "test",
                    "nav", "navirq", "navirqfd", "navpipe", "navworker", "navthread",
                    "cal", "recal"}
BY Lengths DEF AllResources, OpenSteps, Commands

(* A step of fpc_hal_open that succeeds adds what it acquires, and stores the
   part it completes. *)
LEMMA OpenNext ==
    ASSUME NEW n \in 1 .. 30
    PROVE  /\ OpenHeld(n + 1) = OpenHeld(n) \cup ({OpenSteps[n]} \ Commands)
           /\ OpenFields(n + 1) =
                OpenFields(n) \cup
                (IF OpenSteps[n] \in DOMAIN Completes THEN {Completes[OpenSteps[n]]} ELSE {})
<1>1. 1 .. (n + 1) - 1 = (1 .. n - 1) \cup {n}
  OBVIOUS
<1>2. Before(n + 1) = Before(n) \cup {OpenSteps[n]}
  BY <1>1 DEF Before
<1>3. OpenHeld(n + 1) = OpenHeld(n) \cup ({OpenSteps[n]} \ Commands)
  BY <1>2 DEF OpenHeld
<1>4. OpenFields(n + 1) =
        OpenFields(n) \cup
        (IF OpenSteps[n] \in DOMAIN Completes THEN {Completes[OpenSteps[n]]} ELSE {})
  BY <1>2 DEF OpenFields
<1> QED
  BY <1>3, <1>4

(* fpc_hal_open begins with nothing and ends with every part. *)
LEMMA OpenEnds ==
    /\ OpenHeld(1) = {} /\ OpenFields(1) = {}
    /\ OpenHeld(31) = AllResources /\ OpenFields(31) = DeviceParts
<1>1. OpenHeld(1) = {} /\ OpenFields(1) = {}
  BY DEF OpenHeld, OpenFields, Before
<1>2. OpenHeld(31) = AllResources
  BY Lengths DEF OpenHeld, Before, AllResources
<1>3. OpenFields(31) = DeviceParts
  BY DEF OpenFields, Before, OpenSteps, Completes, DeviceParts
<1> QED
  BY <1>1, <1>2, <1>3

(* Only parts of the device are stored in it. *)
LEMMA OpenFieldsType == \A n \in 1 .. 31 : OpenFields(n) \subseteq DeviceParts
BY DEF OpenFields, Completes, DeviceParts

(* fpc_hal_open allocates the device itself first, and once. *)
LEMMA OpenSteps1 == OpenSteps[1] = "dev" /\ \A n \in 1 .. 30 : OpenSteps[n] = "dev" => n = 1
BY DEF OpenSteps

(* The error path of any later step leaves exactly what the parts that are
   already stored own, so that fpc_hal_close can release the rest; this is
   where a constructor that leaks or frees twice would show. *)
LEMMA FailedStep ==
    ASSUME NEW n \in 2 .. 30
    PROVE  Owned(OpenHeld(n) \ Unwind(OpenSteps[n]), OpenFields(n))
BY DEF Owned, OpenHeld, OpenFields, Before, OpenSteps, Unwind, Frees, Completes, Commands,
   Ignored, TeeInitErr, TacOpenErr, SensorInitErr, WorkerNewErr, NavigationDestroy, Tee, Tac,
   Irq, NavIrq, NavWorker

(* A complete device owns all its resources through its parts. *)
LEMMA CompleteOwned == Owned(AllResources, DeviceParts)
BY Resources DEF Owned, DeviceParts, Frees, NavigationDestroy, Tee, Tac, Irq, NavIrq, NavWorker

(* Every command fpc_hal_open sends goes through a session it has opened. *)
LEMMA CommandsLive ==
    ASSUME NEW n \in 1 .. 30, OpenSteps[n] \in Commands
    PROVE  Tee \subseteq OpenHeld(n)
BY DEF OpenHeld, Before, OpenSteps, Commands, Tee, Tac

(* fpc_tac_transfer returns a negative number exactly if the trusted
   application's status was negative, although it is put together from four
   signed bytes. *)
LEMMA TransferSign ==
    ASSUME NEW n \in -127 .. 0
    PROVE  TransferStatus(n) \in Int /\ (TransferStatus(n) < 0 <=> n < 0)
<1>1. CASE n = 0
  BY <1>1 DEF TransferStatus, Byte, Signed
<1>2. CASE n < 0
  <2>1. /\ Byte(n, 1) = n + 256 /\ Byte(n, 256) = 255
        /\ Byte(n, 65536) = 255 /\ Byte(n, 16777216) = 255
    BY <1>2 DEF Byte
  <2> QED
    BY <1>2, <2>1 DEF TransferStatus, Signed
<1> QED
  BY <1>1, <1>2

(* The invariant holds before the first open. *)
LEMMA DeviceInitInv == DeviceInit => DeviceInv
<1> SUFFICES ASSUME DeviceInit PROVE DeviceInv
  OBVIOUS
<1> USE DeviceAssumption, Lengths
<1>1. DeviceTypeOK
  <2>1. {task, nav, paused, cancel, navcancel, ready} \subseteq BOOLEAN
    BY DEF DeviceInit
  <2>2. step \in 1 .. Len(OpenSteps) /\ held \subseteq AllResources
    BY DEF DeviceInit
  <2> QED
    BY <2>1, <2>2 DEF DeviceInit, DeviceTypeOK, None
<1>2. NothingLeft
  BY <1>1 DEF DeviceInit, NothingLeft, None, FPC_ERROR_COMM
<1> QED
  BY <1>2 DEF DeviceInit, DeviceInv, DeviceBuilt, ThreadsJoined, InitsCounted

(* The part of the state that a command changes. *)
TappOK ==
    /\ ready \in BOOLEAN
    /\ \A m \in 1 .. 5 : inits[m] \in Nat /\ inits[m] <= 1 + faults
    /\ ready => \A m \in 1 .. 5 : inits[m] >= 1
    /\ ~ready => \A m \in 1 .. 5 : inits[m] <= faults
    /\ xfer.sent \in Statuses \cup {None} /\ xfer.got \in Int
    /\ xfer.got < 0 <=> (xfer.sent < 0 \/ (xfer.sent = None /\ xfer.got = -FPC_ERROR_COMM))
    /\ faults \in 0 .. MaxFaults

(* The invariant gives the commands' part of the state. *)
LEMMA IInvTapp == DeviceInv => TappOK
BY Lengths DEF DeviceInv, NothingLeft, DeviceTypeOK, InitsCounted, TappOK

(* A command, whether it succeeds, fails or is not delivered, counts a module's
   second initialisation against a failure, and its caller sees an error exactly
   if the handler returned one or did not run. *)
LEMMA CommandTapp ==
    ASSUME TappOK, CommandOk \/ CommandErr
    PROVE  TappOK' /\ faults' >= faults
<1> USE DeviceAssumption, Lengths
<1> USE DEF TappOK, None, FPC_ERROR_COMM
<1>s. Statuses \subseteq -127 .. 0 /\ 0 \in Statuses
  <2>1. \A e \in Errors : e \in 1 .. 127 /\ -e \in -127 .. 0
    OBVIOUS
  <2>2. \A s \in Statuses : s = 0 \/ \E e \in Errors : s = -e
    BY DEF Statuses
  <2>3. 0 \in Statuses
    BY DEF Statuses
  <2> QED
    BY <2>1, <2>2, <2>3
<1>t. \A n \in Statuses : TransferStatus(n) \in Int /\ (TransferStatus(n) < 0 <=> n < 0)
  BY <1>s, TransferSign
<1>r. ASSUME RouterInit, faults' \in Nat, faults' >= faults
      PROVE  /\ ready' \in BOOLEAN
             /\ \A m \in 1 .. 5 : inits'[m] \in Nat /\ inits'[m] <= 1 + faults'
             /\ ready' => \A m \in 1 .. 5 : inits'[m] >= 1
             /\ ~ready' => \A m \in 1 .. 5 : inits'[m] <= faults'
  <2>1. CASE ready
    BY <1>r, <2>1 DEF RouterInit
  <2>2. CASE ~ready
    <3>1. ready' = TRUE /\ \A m \in 1 .. 5 : inits'[m] = inits[m] + 1
      BY <1>r, <2>2 DEF RouterInit, InitialisedUpTo
    <3> QED
      BY <1>r, <2>2, <3>1
  <2> QED
    BY <2>1, <2>2
<1>1. CASE CommandOk
  <2>1. faults' = faults /\ RouterInit
    BY <1>1 DEF CommandOk
  <2>2. /\ xfer'.sent \in Statuses \cup {None} /\ xfer'.got \in Int
        /\ xfer'.got < 0 <=> (xfer'.sent < 0 \/ (xfer'.sent = None
            /\ xfer'.got = -FPC_ERROR_COMM))
    BY <1>1, <1>s, <1>t DEF CommandOk
  <2> QED
    BY <2>1, <2>2, <1>r
<1>2. CASE CommandErr
  <2>1. faults' = faults + 1 /\ faults' \in 0 .. MaxFaults
    BY <1>2 DEF CommandErr, Fails
  <2>2. /\ xfer'.sent \in Statuses \cup {None} /\ xfer'.got \in Int
        /\ xfer'.got < 0 <=> (xfer'.sent < 0 \/ (xfer'.sent = None
            /\ xfer'.got = -FPC_ERROR_COMM))
    BY <1>2, <1>s, <1>t DEF CommandErr
  <2>3. CASE RouterInit
    BY <2>1, <2>2, <2>3, <1>r
  <2>4. CASE UNCHANGED <<ready, inits>>
    BY <2>1, <2>2, <2>4
  <2>5. ASSUME NEW k \in 1 .. 5, RouterInitFails(k)
        PROVE  TappOK'
    BY <2>1, <2>2, <2>5 DEF RouterInitFails, InitialisedUpTo
  <2> QED
    BY <1>2, <2>1, <2>3, <2>4, <2>5 DEF CommandErr
<1> QED
  BY <1>1, <1>2

(* The order of fpc_hal_close: the threads are joined before anything is
   freed, the sensor before the TEE, the device itself last. *)
LEMMA CloseNames ==
    /\ \A i \in 1 .. 16 : CloseSteps[i] = "input" => i = 6
    /\ \A i \in 1 .. 16 : CloseSteps[i] = "dev" => i = 16
    /\ \A i \in 1 .. 16 : CloseSteps[i] = "Join" => i = 2
    /\ \A i \in 1 .. 16 : CloseSteps[i] = "NavJoin" => i = 5
    /\ \A i \in 1 .. 16 : CloseSteps[i] \in DOMAIN Frees => i > 5
    /\ \A i \in 1 .. 16 : CloseSteps[i] \notin DOMAIN Frees => i # 6 /\ i # 16
    /\ \A i \in 1 .. 16 : CloseSteps[i] \notin DOMAIN Frees => CloseSteps[i] \notin DeviceParts
    /\ \A i \in 1 .. 16 : CloseSteps[i] = "tee" => i > 14 /\ CloseSteps[14] = "sensor"
    /\ \A p \in DeviceParts : \E i \in 1 .. 15 : CloseSteps[i] = p
BY DEF CloseSteps, Frees, DeviceParts

(* No two parts of the device own the same resource. *)
LEMMA FreesFacts ==
    /\ \A p \in DeviceParts : Frees[p] \subseteq AllResources \ {"dev", "input"}
    /\ \A p, q \in DeviceParts : p # q => Frees[p] \cap Frees[q] = {}
    /\ Frees["input"] = {"input"} /\ Frees["dev"] = {"dev"}
    /\ DOMAIN Frees = DeviceParts \cup {"input", "dev"}
BY Resources DEF Frees, DeviceParts, NavigationDestroy, Tee, Tac, Irq, NavIrq, NavWorker

(* A step of fpc_hal_close that frees nothing keeps the invariant. *)
LEMMA CloseOk ==
    ASSUME DeviceInv, phase = "closing", CloseSteps[step] \notin DOMAIN Frees, Done, TappOK',
           UNCHANGED <<held, fields, opens>>,
           {task', nav', paused', cancel', navcancel'} \subseteq BOOLEAN,
           task' = task, nav' = nav, step = 2 => ~task, step = 5 => ~nav
    PROVE  DeviceInv'
<1> USE DeviceAssumption, Lengths
<1>1. /\ step \in 1 .. 15 /\ step' = step + 1 /\ phase' = "closing"
  BY CloseNames DEF DeviceInv, DeviceBuilt, Done
<1>2. DeviceTypeOK' /\ NothingLeft'
  BY <1>1 DEF DeviceInv, NothingLeft, DeviceTypeOK, TappOK
<1>3. DeviceBuilt'
  <2>1. \A i \in 1 .. step' - 1 : CloseSteps[i] \notin fields
    <3> SUFFICES ASSUME NEW i \in 1 .. step, i = step PROVE CloseSteps[i] \notin fields
      BY <1>1 DEF DeviceInv, DeviceBuilt
    <3> QED
      BY <1>1, CloseNames DEF DeviceInv, NothingLeft, DeviceTypeOK, DeviceParts
  <2>2. Owned(held', fields')
    BY DEF DeviceInv, DeviceBuilt
  <2>3. step' > 6 => "input" \notin held'
    BY <1>1, CloseNames DEF DeviceInv, DeviceBuilt
  <2> QED
    BY <1>1, <2>1, <2>2, <2>3 DEF DeviceBuilt
<1>4. ThreadsJoined' /\ InitsCounted'
  BY <1>1 DEF DeviceInv, ThreadsJoined, InitsCounted, TappOK
<1> QED
  BY <1>2, <1>3, <1>4 DEF DeviceInv

(* A step of fpc_hal_close that releases a part, stored or not, keeps the
   invariant. *)
LEMMA ReleaseOk == ASSUME DeviceInv, NEW part \in DOMAIN Frees, Release(part) PROVE DeviceInv'
<1> USE DeviceAssumption, Lengths
<1>0. phase = "closing" /\ CloseSteps[step] = part /\ step \in 6 .. 16 /\ ~task /\ ~nav
  BY CloseNames DEF DeviceInv, DeviceBuilt, ThreadsJoined, Release, Doing
<1>1. /\ UNCHANGED <<task, nav, paused, cancel, navcancel, ready, inits, xfer, opens, faults>>
      /\ held' \subseteq held /\ fields' \subseteq fields /\ part \notin fields'
  BY DEF Release, threads, tapp
<1>2. CASE part = "dev"
  <2>1. step = 16 /\ fields = {}
    <3>1. step = 16
      BY <1>0, <1>2, CloseNames
    <3>2. \A p \in DeviceParts : p \notin fields
      BY <1>0, <3>1, CloseNames DEF DeviceInv, DeviceBuilt
    <3> QED
      BY <3>1, <3>2 DEF DeviceInv, NothingLeft, DeviceTypeOK, DeviceParts
  <2>2. held \subseteq {"dev"}
    BY <1>0, <2>1 DEF DeviceInv, NothingLeft, DeviceTypeOK, DeviceBuilt, Owned
  <2>3. phase' = "closed" /\ step' = 1 /\ held' = {} /\ fields' = {}
    BY <1>0, <1>1, <1>2, <2>1, <2>2, FreesFacts DEF Release, Done
  <2> QED
    BY <1>0, <1>1, <2>3
       DEF DeviceInv, NothingLeft, DeviceTypeOK, DeviceBuilt, ThreadsJoined, InitsCounted
<1>3. CASE part # "dev"
  <2>1. step \in 6 .. 15 /\ phase' = "closing" /\ step' = step + 1
    BY <1>0, <1>3, CloseNames DEF Release, Done, CloseSteps
  <2>2. \A i \in 1 .. step' - 1 : CloseSteps[i] \notin fields'
    BY <1>0, <1>1, <2>1 DEF DeviceInv, DeviceBuilt
  <2>3. CASE part = "input"
    <3>1. step = 6 /\ held' = held \ {"input"} /\ fields' = fields
      BY <1>0, <2>3, CloseNames, FreesFacts DEF Release, DeviceInv, NothingLeft, DeviceTypeOK
    <3>2. Owned(held', fields')
      BY <1>0, <3>1 DEF DeviceInv, DeviceBuilt, Owned
    <3> QED
      BY <1>0, <1>1, <2>1, <2>2, <3>1, <3>2
         DEF DeviceInv, NothingLeft, DeviceTypeOK, DeviceBuilt, ThreadsJoined, InitsCounted
  <2>4. CASE part # "input"
    <3>1. part \in DeviceParts /\ step > 6
      BY <1>0, <1>3, <2>4, FreesFacts DEF CloseSteps
    <3>2. held' = (IF part \in fields THEN held \ Frees[part] ELSE held)
           /\ fields' = fields \ {part}
      BY <1>3, <2>4 DEF Release
    <3>3. Owned(held', fields')
      <4>1. "dev" \in held'
        BY <1>0, <3>1, <3>2, FreesFacts DEF DeviceInv, DeviceBuilt, Owned
      <4>2. ASSUME NEW r \in AllResources \ {"dev", "input"}
            PROVE  r \in held' <=> \E p \in fields' : r \in Frees[p]
        <5>1. r \in held <=> \E p \in fields : r \in Frees[p]
          BY <1>0 DEF DeviceInv, DeviceBuilt, Owned
        <5>2. fields \subseteq DeviceParts
          BY DEF DeviceInv, NothingLeft, DeviceTypeOK, DeviceParts
        <5> QED
          BY <3>1, <3>2, <5>1, <5>2, FreesFacts
      <4>3. "sensor" \in fields' => "tee" \in fields'
        <5>1. part = "tee" => "sensor" \notin fields
          BY <1>0, CloseNames DEF DeviceInv, DeviceBuilt
        <5> QED
          BY <1>0, <3>2, <5>1 DEF DeviceInv, DeviceBuilt, Owned
      <4> QED
        BY <4>1, <4>2, <4>3 DEF Owned
    <3> QED
      BY <1>0, <1>1, <2>1, <2>2, <3>1, <3>3
         DEF DeviceInv, NothingLeft, DeviceTypeOK, DeviceBuilt, ThreadsJoined, InitsCounted
  <2> QED
    BY <2>3, <2>4
<1> QED
  BY <1>2, <1>3

(* A step of fpc_hal_open that succeeds keeps the invariant. *)
LEMMA ProceedOk ==
    ASSUME DeviceInv, phase = "opening", held' = held \cup ({Now} \ Commands), Proceed,
             TappOK',
           opens' = opens
    PROVE  DeviceInv'
<1> USE DeviceAssumption, Lengths
<1>1. step \in 1 .. 30 /\ held = OpenHeld(step) /\ fields = OpenFields(step) /\ ~task /\ ~nav
  BY DEF DeviceInv, NothingLeft, DeviceTypeOK, DeviceBuilt, ThreadsJoined
<1>2. held' = OpenHeld(step + 1) /\ fields' = OpenFields(step + 1)
  BY <1>1, OpenNext DEF Proceed, Now
<1>3. CASE step < 30
  <2>1. phase' = "opening" /\ step' = step + 1 /\ UNCHANGED <<task, nav, paused, cancel,
                                                              navcancel>>
    BY <1>3 DEF Proceed, threads
  <2>2. held' \subseteq AllResources /\ fields' \subseteq DeviceParts
    BY <1>1, <1>2, <1>3, OpenFieldsType DEF OpenHeld, Before, AllResources
  <2> QED
    BY <1>1, <1>2, <1>3, <2>1, <2>2 DEF DeviceInv, NothingLeft, DeviceTypeOK, DeviceBuilt,
       ThreadsJoined, InitsCounted, TappOK, DeviceParts
<1>4. CASE step = 30
  <2>1. /\ phase' = "open" /\ step' = 1 /\ nav' = TRUE /\ paused' = FALSE
        /\ UNCHANGED <<task, cancel, navcancel>>
    BY <1>4 DEF Proceed
  <2>2. held' = AllResources /\ fields' = DeviceParts
    BY <1>2, <1>4, OpenEnds
  <2>3. {task', nav', paused', cancel', navcancel', ready'} \subseteq BOOLEAN
    BY <2>1 DEF DeviceInv, NothingLeft, DeviceTypeOK, TappOK
  <2> QED
    BY <1>1, <2>1, <2>2, <2>3 DEF DeviceInv, NothingLeft, DeviceTypeOK, DeviceBuilt,
       ThreadsJoined, InitsCounted, TappOK, DeviceParts
<1> QED
  BY <1>1, <1>3, <1>4

(* A step of fpc_hal_open that fails keeps the invariant. *)
LEMMA OpenFailsOk ==
    ASSUME DeviceInv, phase = "opening", held' = held \ Unwind(Now), UNCHANGED <<fields,
                                                                                 threads,
                                                                                   opens>>,
           step' = 1, phase' = IF Now = "dev" THEN "closed" ELSE "closing", TappOK'
    PROVE  DeviceInv'
<1> USE DeviceAssumption, Lengths
<1>1. step \in 1 .. 30 /\ held = OpenHeld(step) /\ fields = OpenFields(step) /\ ~task /\ ~nav
  BY DEF DeviceInv, NothingLeft, DeviceTypeOK, DeviceBuilt, ThreadsJoined
<1>2. CASE step = 1
  <2>1. phase' = "closed" /\ held' = {} /\ fields' = {}
    BY <1>1, <1>2, OpenEnds, OpenSteps1 DEF Now
  <2> QED
    BY <1>1, <2>1 DEF DeviceInv, NothingLeft, DeviceTypeOK, DeviceBuilt, ThreadsJoined,
       InitsCounted, TappOK, threads
<1>3. CASE step # 1
  <2>1. phase' = "closing" /\ Owned(held', fields')
    <3>1. step \in 2 .. 30
      BY <1>1, <1>3
    <3>2. Owned(OpenHeld(step) \ Unwind(OpenSteps[step]), OpenFields(step))
      BY <3>1, FailedStep
    <3>3. OpenSteps[step] # "dev"
      BY <3>1, OpenSteps1
    <3> QED
      BY <1>1, <3>2, <3>3 DEF Now
  <2> QED
    BY <1>1, <2>1 DEF DeviceInv, NothingLeft, DeviceTypeOK, DeviceBuilt, ThreadsJoined,
       InitsCounted, TappOK, threads
<1> QED
  BY <1>2, <1>3

(* Every step of the open, the close, the threads and the trusted application
   keeps the invariant. *)
LEMMA DeviceNextInv == DeviceInv /\ [DeviceNext]_devvars => DeviceInv'
<1> SUFFICES ASSUME DeviceInv, [DeviceNext]_devvars PROVE DeviceInv'
  OBVIOUS
<1> USE DeviceAssumption, Lengths
<1>t. TappOK
  BY IInvTapp
<1>u. ASSUME UNCHANGED <<ready, inits, xfer, faults>>
      PROVE  TappOK'
  BY <1>t, <1>u DEF TappOK
<1>f. ASSUME UNCHANGED <<ready, inits, xfer>>, Fails
      PROVE  TappOK'
  BY <1>t, <1>f DEF TappOK, Fails
<1>b. phase = "opening" => ~task /\ ~nav
  BY DEF DeviceInv, ThreadsJoined
<1>1. CASE Open
  <2>1. held = {} /\ fields = {} /\ ~task /\ ~nav
    BY <1>1 DEF Open, DeviceInv, NothingLeft, ThreadsJoined
  <2> QED
    BY <1>1, <2>1, OpenEnds DEF Open, DeviceInv, NothingLeft, DeviceTypeOK, DeviceBuilt,
       ThreadsJoined, InitsCounted, threads, tapp
<1>2. CASE Acquire
  <2>1. held' = held \cup ({Now} \ Commands)
    BY <1>2 DEF Acquire
  <2> QED
    BY <1>2, <1>u, <2>1, ProceedOk DEF Acquire, tapp
<1>3. CASE AcquireFails
  BY <1>3, <1>f, OpenFailsOk DEF AcquireFails, tapp
<1>4. CASE OpenCommand \/ OpenCommandIgnored
  <2>1. held' = held \cup ({Now} \ Commands)
    BY <1>4 DEF OpenCommand, OpenCommandIgnored, Ignored, Commands
  <2>2. TappOK'
    BY <1>4, <1>t, CommandTapp DEF OpenCommand, OpenCommandIgnored
  <2> QED
    BY <1>4, <2>1, <2>2, ProceedOk DEF OpenCommand, OpenCommandIgnored
<1>5. CASE OpenCommandFails
  <2>1. TappOK'
    BY <1>5, <1>t, CommandTapp DEF OpenCommandFails
  <2>2. Now # "dev"
    BY <1>5 DEF OpenCommandFails, Commands
  <2> QED
    BY <1>5, <2>1, <2>2, OpenFailsOk DEF OpenCommandFails
<1>6. CASE Request
  <2>b. {task', nav', paused', cancel', navcancel', ready'} \subseteq BOOLEAN
    BY <1>6 DEF Request, DeviceInv, NothingLeft, DeviceTypeOK, tapp
  <2> QED
    BY <1>6, <2>b DEF Request, DeviceInv, NothingLeft, DeviceTypeOK, DeviceBuilt,
       ThreadsJoined, InitsCounted, device, tapp
<1>7. CASE TaskCommand
  <2>1. TappOK'
    BY <1>7, <1>t, CommandTapp DEF TaskCommand
  <2> QED
    BY <1>7, <2>1 DEF TaskCommand, DeviceInv, NothingLeft, DeviceTypeOK, DeviceBuilt,
       ThreadsJoined, InitsCounted, TappOK, device, threads
<1>8. CASE TaskEnds
  <2>b. {task', nav', paused', cancel', navcancel', ready'} \subseteq BOOLEAN
    BY <1>8 DEF TaskEnds, DeviceInv, NothingLeft, DeviceTypeOK, tapp
  <2>1. /\ phase \in {"open", "closing"} /\ held = AllResources
        /\ phase = "closing" => step <= 2
    BY <1>8 DEF TaskEnds, DeviceInv, NothingLeft, DeviceTypeOK, ThreadsJoined
  <2> QED
    BY <1>8, <2>b, <2>1 DEF TaskEnds, DeviceInv, NothingLeft, DeviceTypeOK, DeviceBuilt,
       ThreadsJoined, InitsCounted, device, tapp
<1>9. CASE NavLoopEnds
  <2>b. {task', nav', paused', cancel', navcancel', ready'} \subseteq BOOLEAN
    BY <1>9 DEF NavLoopEnds, DeviceInv, NothingLeft, DeviceTypeOK, tapp
  <2> QED
    BY <1>9, <2>b DEF NavLoopEnds, DeviceInv, NothingLeft, DeviceTypeOK, DeviceBuilt,
       ThreadsJoined, InitsCounted, device, tapp
<1>10. CASE Close
  <2>1. Owned(held', fields')
    BY <1>10, CompleteOwned DEF Close, DeviceInv, NothingLeft, DeviceBuilt
  <2> QED
    BY <1>10, <2>1 DEF Close, DeviceInv, NothingLeft, DeviceTypeOK, DeviceBuilt,
       ThreadsJoined, InitsCounted, threads, tapp
<1>c. /\ "SetCancel" \notin DOMAIN Frees /\ "Join" \notin DOMAIN Frees
      /\ "ClearCancel" \notin DOMAIN Frees /\ "NavCancel" \notin DOMAIN Frees
      /\ "NavJoin" \notin DOMAIN Frees /\ "DEEP_SLEEP" \notin DOMAIN Frees
  BY DEF Frees
<1>d. phase = "closing" => step \in 1 .. 16
  BY DEF DeviceInv, DeviceBuilt
<1>e. /\ phase = "closing" /\ CloseSteps[step] = "Join" <=> phase = "closing" /\ step = 2
      /\ phase = "closing" /\ CloseSteps[step] = "NavJoin" <=> phase = "closing" /\ step = 5
  BY <1>d, CloseNames DEF CloseSteps
<1>g. ASSUME NEW s \in {"SetCancel", "Join", "ClearCancel", "NavCancel", "NavJoin",
               "DEEP_SLEEP"},
             Doing(s), Done, TappOK', UNCHANGED <<held, fields, task, nav, opens>>,
             {paused', cancel', navcancel'} \subseteq BOOLEAN,
             s = "Join" => ~task, s = "NavJoin" => ~nav
      PROVE  DeviceInv'
  <2>1. phase = "closing" /\ CloseSteps[step] = s /\ CloseSteps[step] \notin DOMAIN Frees
    BY <1>c, <1>g DEF Doing
  <2>2. {task', nav', paused', cancel', navcancel'} \subseteq BOOLEAN
    BY <1>g DEF DeviceInv, NothingLeft, DeviceTypeOK
  <2>3. (step = 2 => ~task) /\ (step = 5 => ~nav)
    BY <1>e, <1>g, <2>1
  <2> QED
    BY <1>g, <2>1, <2>2, <2>3, CloseOk
<1>h. {task, nav, paused, cancel, navcancel} \subseteq BOOLEAN
  BY DEF DeviceInv, NothingLeft, DeviceTypeOK
<1>11. CASE SetCancel
  <2>1. {paused', cancel', navcancel'} \subseteq BOOLEAN
    BY <1>11, <1>h DEF SetCancel
  <2> QED
    BY <1>11, <1>g, <1>u, <2>1 DEF SetCancel, tapp
<1>12. CASE Join
  <2>1. {paused', cancel', navcancel'} \subseteq BOOLEAN
    BY <1>12, <1>h DEF Join, threads
  <2> QED
    BY <1>12, <1>g, <1>u, <2>1 DEF Join, tapp, threads
<1>13. CASE ClearCancel
  <2>1. {paused', cancel', navcancel'} \subseteq BOOLEAN
    BY <1>13, <1>h DEF ClearCancel
  <2> QED
    BY <1>13, <1>g, <1>u, <2>1 DEF ClearCancel, tapp
<1>14. CASE NavCancel
  <2>1. {paused', cancel', navcancel'} \subseteq BOOLEAN
    BY <1>14, <1>h DEF NavCancel
  <2> QED
    BY <1>14, <1>g, <1>u, <2>1 DEF NavCancel, tapp
<1>15. CASE NavJoin
  <2>1. {paused', cancel', navcancel'} \subseteq BOOLEAN
    BY <1>15, <1>h DEF NavJoin
  <2> QED
    BY <1>15, <1>g, <1>u, <2>1 DEF NavJoin, tapp
<1>16. CASE CloseDeepSleep \/ CloseDeepSleepFails
  <2>1. {paused', cancel', navcancel'} \subseteq BOOLEAN
    BY <1>16, <1>h DEF CloseDeepSleep, CloseDeepSleepFails, threads
  <2>2. TappOK'
    BY <1>16, <1>t, <1>u, CommandTapp DEF CloseDeepSleep, CloseDeepSleepFails, tapp
  <2> QED
    BY <1>16, <1>g, <2>1, <2>2 DEF CloseDeepSleep, CloseDeepSleepFails, threads
<1>17. ASSUME NEW part \in DOMAIN Frees, Release(part)
       PROVE  DeviceInv'
  BY <1>17, ReleaseOk
<1>18. CASE UNCHANGED devvars
  BY <1>18 DEF devvars, device, threads, tapp, DeviceInv, NothingLeft, DeviceTypeOK,
     DeviceBuilt, ThreadsJoined, InitsCounted
<1> QED
  BY <1>1, <1>2, <1>3, <1>4, <1>5, <1>6, <1>7, <1>8, <1>9, <1>10, <1>11, <1>12, <1>13, <1>14,
     <1>15, <1>16, <1>17, <1>18 DEF DeviceNext, CloseStep

(* What the commands, the worker's task and the navigation loop use exists. *)
LEMMA DeviceLive == DeviceInv => UsesLive
<1> SUFFICES ASSUME DeviceInv PROVE UsesLive
  OBVIOUS
<1> USE Lengths
<1>1. /\ Tee \cup Irq \cup {"sensor", "worker", "thread", "nav",
           "input"} \subseteq AllResources
      /\ Tee \cup NavigationDestroy \cup {"input"} \subseteq AllResources
  BY Resources DEF NavigationDestroy, Tee, Tac, Irq, NavIrq, NavWorker
<1>2. phase = "opening" /\ Now \in Commands => Tee \subseteq held
  BY CommandsLive DEF DeviceInv, NothingLeft, DeviceTypeOK, DeviceBuilt, Now
<1>3. phase = "closing" /\ CloseSteps[step] = "DEEP_SLEEP" /\ "sensor" \in fields
       => Tee \subseteq held
  <2>1. Frees["tee"] = Tee /\ Tee \subseteq AllResources \ {"dev", "input"}
    BY Resources DEF Frees, Tee, Tac
  <2> QED
    BY <2>1 DEF DeviceInv, DeviceBuilt, Owned
<1> QED
  BY <1>1, <1>2, <1>3 DEF UsesLive, DeviceInv, ThreadsJoined

(* fpc_hal_open and fpc_hal_close, whatever fails and however often: an open
   that fails and every close leave no memory, descriptor, thread or session
   behind; no handler runs before every module is initialised; and the caller
   sees an error exactly if the handler returned one or did not run. *)
THEOREM DeviceNothingLeft == DeviceSpec => []NothingLeft
<1>1. DeviceInv => NothingLeft
  BY DEF DeviceInv
<1> QED
  BY DeviceInitInv, DeviceNextInv, <1>1, PTL DEF DeviceSpec

(* No command goes out without its session, and no thread runs on resources
   fpc_hal_close has released. *)
THEOREM DeviceUsesLive == DeviceSpec => []UsesLive
  BY DeviceInitInv, DeviceNextInv, DeviceLive, PTL DEF DeviceSpec

=============================================================================

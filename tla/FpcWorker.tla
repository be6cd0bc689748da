------------------------------ MODULE FpcWorker ------------------------------
(***************************************************************************)
(* The one-task worker thread of fpc_worker.c: a mutex, ONE condition      *)
(* variable shared by the worker and its callers, a one-place task slot    *)
(* (task.func), a state and a terminate flag.  Every pthread_cond_signal   *)
(* wakes at most one waiter, whoever it is, so what keeps a wake-up from   *)
(* being lost is only that the HAL calls a worker under one lock           *)
(* (dev->lock for the HAL's worker, the navigation mutex for navigation's).*)
(*                                                                         *)
(* A step is the code between acquiring worker->mutex and releasing it     *)
(* (by unlock or by waiting).  Tasks are numbered in the order posted; 0   *)
(* is the NULL function.                                                   *)
(***************************************************************************)
EXTENDS Naturals, FiniteSets

CONSTANTS
    Callers,    \* threads that call fpc_worker_*
    Worker,     \* the worker thread itself
    NoOne,      \* "the callers' lock is free"
    MaxPosts    \* bound: number of tasks posted in a run

ASSUME WorkerAssumption ==
    /\ Worker \notin Callers
    /\ NoOne \notin Callers \cup {Worker}
    /\ MaxPosts \in Nat

VARIABLES
    lock,       \* the lock under which the HAL calls the worker
    func,       \* worker->task.func
    state,      \* worker->state
    terminate,  \* worker->terminate
    waiting,    \* threads blocked in pthread_cond_wait(&worker->cond)
    pc,         \* where each thread is
    posted,     \* history: tasks handed to fpc_worker_run_task
    ran         \* history: tasks the worker has started

vars == <<lock, func, state, terminate, waiting, pc, posted, ran>>

Threads == Callers \cup {Worker}

CallerPC == {"out", "in", "joined", "run_wait", "join_wait",
             "destroy_signal", "destroy_join", "destroyed"}
WorkerPC == {"head", "wait", "task", "returned"}

(* At most one waiter leaves the condition variable per signal. *)
Woken(W) == IF W = {} THEN {{}} ELSE {{t} : t \in W}

At(t, p)  == pc[t] = p
Goto(t, p) == pc' = [pc EXCEPT ![t] = p]

(* fpc_worker_new: the thread has been created and has not yet run. *)
Init ==
    /\ lock = NoOne
    /\ func = 0
    /\ state = "IDLE"
    /\ terminate = FALSE
    /\ waiting = {}
    /\ pc = [t \in Threads |-> IF t = Worker THEN "head" ELSE "out"]
    /\ posted = 0
    /\ ran = 0
-----------------------------------------------------------------------------
(* The callers. *)

Inside(c) == pc[c] \in {"in", "joined"}

Enter(c) ==
    /\ At(c, "out")
    /\ lock = NoOne
    /\ lock' = c
    /\ Goto(c, "in")
    /\ UNCHANGED <<func, state, terminate, waiting, posted, ran>>

Leave(c) ==
    /\ Inside(c)
    /\ lock' = NoOne
    /\ Goto(c, "out")
    /\ UNCHANGED <<func, state, terminate, waiting, posted, ran>>

(* Variant for the sensitivity check: no signal after the task is set. *)
RunTaskSilent(c) ==
    /\ Inside(c)
    /\ posted < MaxPosts
    /\ posted' = posted + 1
    /\ func' = posted + 1
    /\ waiting' = waiting \cup {c}
    /\ Goto(c, "run_wait")
    /\ UNCHANGED <<lock, state, terminate, ran>>

(* fpc_worker_run_task up to its first wait: func was just set, so the
   caller always waits at least once. *)
RunTask(c) ==
    /\ Inside(c)
    /\ posted < MaxPosts
    /\ posted' = posted + 1
    /\ func' = posted + 1
    /\ \E w \in Woken(waiting) : waiting' = (waiting \ w) \cup {c}
    /\ Goto(c, "run_wait")
    /\ UNCHANGED <<lock, state, terminate, ran>>

(* Variant for the sensitivity check: an if where the code has a while. *)
RunTaskWakeOnce(c) ==
    /\ At(c, "run_wait")
    /\ c \notin waiting
    /\ Goto(c, "in")
    /\ UNCHANGED <<lock, func, state, terminate, waiting, posted, ran>>

RunTaskWake(c) ==
    /\ At(c, "run_wait")
    /\ c \notin waiting
    /\ \/ /\ func # 0
          /\ waiting' = waiting \cup {c}
          /\ UNCHANGED pc
       \/ /\ func = 0
          /\ Goto(c, "in")
          /\ UNCHANGED waiting
    /\ UNCHANGED <<lock, func, state, terminate, posted, ran>>

(* The loop of fpc_worker_join_task, on entry and after a wake-up. *)
JoinCheck(c) ==
    /\ \/ /\ state # "IDLE"
          /\ waiting' = waiting \cup {c}
          /\ Goto(c, "join_wait")
       \/ /\ state = "IDLE"
          /\ Goto(c, "joined")
          /\ UNCHANGED waiting
    /\ UNCHANGED <<lock, func, state, terminate, posted, ran>>

JoinTask(c) == Inside(c) /\ JoinCheck(c)

JoinTaskWake(c) == At(c, "join_wait") /\ c \notin waiting /\ JoinCheck(c)

(* fpc_worker_destroy: the signal comes after the unlock. *)
Destroy(c) ==
    /\ Inside(c)
    /\ terminate' = TRUE
    /\ Goto(c, "destroy_signal")
    /\ UNCHANGED <<lock, func, state, waiting, posted, ran>>

(* Variant for the sensitivity check: no signal after terminate. *)
DestroySilent(c) ==
    /\ At(c, "destroy_signal")
    /\ Goto(c, "destroy_join")
    /\ UNCHANGED <<lock, func, state, terminate, waiting, posted, ran>>

DestroySignal(c) ==
    /\ At(c, "destroy_signal")
    /\ \E w \in Woken(waiting) : waiting' = waiting \ w
    /\ Goto(c, "destroy_join")
    /\ UNCHANGED <<lock, func, state, terminate, posted, ran>>

DestroyJoin(c) ==
    /\ At(c, "destroy_join")
    /\ At(Worker, "returned")
    /\ Goto(c, "destroyed")
    /\ UNCHANGED <<lock, func, state, terminate, waiting, posted, ran>>
-----------------------------------------------------------------------------
(* The worker thread. *)

(* Variant for the sensitivity check: state is not set to RUNNING. *)
InnerLoopStaysIdle(W, s) ==
    \/ /\ terminate
       /\ waiting' = W
       /\ state' = s
       /\ Goto(Worker, "returned")
       /\ UNCHANGED <<func, ran>>
    \/ /\ ~terminate
       /\ func # 0
       /\ state' = s
       /\ func' = 0
       /\ ran' = ran + 1
       /\ \E w \in Woken(W) : waiting' = W \ w
       /\ Goto(Worker, "task")
    \/ /\ ~terminate
       /\ func = 0
       /\ state' = s
       /\ waiting' = W \cup {Worker}
       /\ Goto(Worker, "wait")
       /\ UNCHANGED <<func, ran>>

(* Variant for the sensitivity check: the slot is not cleared when its task is taken. *)
InnerLoopKeepsFunc(W, s) ==
    /\ ~terminate
    /\ func # 0
    /\ state' = "RUNNING"
    /\ ran' = ran + 1
    /\ \E w \in Woken(W) : waiting' = W \ w
    /\ Goto(Worker, "task")
    /\ UNCHANGED func

(* One turn of worker_function's inner loop, W being the threads still in
   the condition variable and s the state field: return, take the task, or
   wait. *)
InnerLoop(W, s) ==
    \/ /\ terminate
       /\ waiting' = W
       /\ state' = s
       /\ Goto(Worker, "returned")
       /\ UNCHANGED <<func, ran>>
    \/ /\ ~terminate
       /\ func # 0
       /\ state' = "RUNNING"
       /\ func' = 0
       /\ ran' = ran + 1
       /\ \E w \in Woken(W) : waiting' = W \ w
       /\ Goto(Worker, "task")
    \/ /\ ~terminate
       /\ func = 0
       /\ state' = s
       /\ waiting' = W \cup {Worker}
       /\ Goto(Worker, "wait")
       /\ UNCHANGED <<func, ran>>

WorkerHead ==
    /\ At(Worker, "head")
    /\ \E w \in Woken(waiting) : InnerLoop(waiting \ w, "IDLE")
    /\ UNCHANGED <<lock, terminate, posted>>

WorkerWake ==
    /\ At(Worker, "wait")
    /\ Worker \notin waiting
    /\ InnerLoop(waiting, state)
    /\ UNCHANGED <<lock, terminate, posted>>

(* task.func(task.arg) returns. *)
TaskReturns ==
    /\ At(Worker, "task")
    /\ Goto(Worker, "head")
    /\ UNCHANGED <<lock, func, state, terminate, waiting, posted, ran>>

(* pthread_cond_wait may return without a signal. *)
SpuriousWakeup(t) ==
    /\ t \in waiting
    /\ waiting' = waiting \ {t}
    /\ UNCHANGED <<lock, func, state, terminate, pc, posted, ran>>
-----------------------------------------------------------------------------
CallStep(c) ==
    \/ RunTaskWake(c) \/ JoinTaskWake(c) \/ DestroySignal(c) \/ DestroyJoin(c)

WorkerStep == WorkerHead \/ WorkerWake \/ TaskReturns

Next ==
    \/ \E c \in Callers :
          \/ Enter(c) \/ Leave(c) \/ RunTask(c) \/ JoinTask(c) \/ Destroy(c)
          \/ RunTaskWake(c) \/ JoinTaskWake(c)
          \/ DestroySignal(c) \/ DestroyJoin(c)
    \/ WorkerHead \/ WorkerWake \/ TaskReturns
    \/ \E t \in Threads : SpuriousWakeup(t)

Spec == Init /\ [][Next]_vars

(* The scheduler runs every thread that can run, and a task returns: the
   navigation loop and every capture loop leave when they are cancelled,
   which the callers do before they join. *)
FairSpec ==
    /\ Spec
    /\ \A c \in Callers : WF_vars(CallStep(c))
    /\ WF_vars(WorkerStep)
-----------------------------------------------------------------------------
(* Type correctness. *)
TypeOK ==
    /\ lock \in Callers \cup {NoOne}
    /\ func \in Nat
    /\ state \in {"IDLE", "RUNNING"}
    /\ terminate \in BOOLEAN
    /\ waiting \in SUBSET Threads
    /\ pc \in [Threads -> CallerPC \cup WorkerPC]
    /\ pc[Worker] \in WorkerPC
    /\ \A c \in Callers : pc[c] \in CallerPC
    /\ posted \in Nat
    /\ ran \in Nat

(* No wake-up is lost: a thread that is still blocked in the condition
   variable is blocked on a condition that really is false, although every
   signal of fpc_worker.c wakes only one thread and all wait on one
   variable.  The one exception is the gap in fpc_worker_destroy between
   its unlock and its signal. *)
WaitsForCause(t) ==
    \/ t = Worker /\ func = 0
         /\ (terminate => \E c \in Callers : At(c, "destroy_signal"))
    \/ t # Worker /\ At(t, "run_wait") /\ func # 0
    \/ t # Worker /\ At(t, "join_wait") /\ state # "IDLE"

NoLostWakeup == \A t \in waiting : WaitsForCause(t)

(* Once fpc_worker_join_task has returned, no task executes and none is
   queued until the same lock holder posts one: the caller may use what
   the task used (the TEE buffer, current_task, the cancel flag). *)
JoinMeansIdle ==
    \A c \in Callers : At(c, "joined") => ~At(Worker, "task") /\ func = 0

(* Every task handed over is started exactly once and in order: none is
   overwritten in the slot before the worker took it, none is run twice. *)
EachTaskOnce == posted = ran + (IF func = 0 THEN 0 ELSE 1)

(* fpc_worker_run_task, _join_task and _destroy always return. *)
CallsReturn ==
    \A c \in Callers :
        /\ At(c, "run_wait") ~> ~At(c, "run_wait")
        /\ At(c, "join_wait") ~> ~At(c, "join_wait")
        /\ At(c, "destroy_signal") ~> At(c, "destroyed")
-----------------------------------------------------------------------------
(* The abstraction of a caller's program counter. *)
CallOf(p) ==
    CASE p = "run_wait"  -> "run"
      [] p = "join_wait" -> "join"
      [] p = "joined"    -> "idle"
      [] p \in {"destroy_signal", "destroy_join"} -> "stop"
      [] p = "destroyed" -> "stopped"
      [] OTHER           -> "none"

Runner == INSTANCE FpcTaskRunner WITH
    call  <- [c \in Callers |-> CallOf(pc[c])],
    given <- posted,
    taken <- ran,
    busy  <- At(Worker, "task"),
    gone  <- At(Worker, "returned")

(* The worker thread, its mutex and its condition variable implement the
   one-task executor that the HAL relies on: every step of fpc_worker.c is
   a step of FpcTaskRunner or invisible to it. *)
ImplementsRunner == Runner!Spec
=============================================================================

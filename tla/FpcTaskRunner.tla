---------------------------- MODULE FpcTaskRunner ----------------------------
(***************************************************************************)
(* What the worker of fpc_worker.c promises to the HAL and to navigation,  *)
(* without mutex, condition variable or state field: tasks are handed over *)
(* one at a time, each is executed once and never two together, run_task   *)
(* returns when the task was accepted, join_task when nothing executes,    *)
(* and destroy when the thread is gone.  FpcWorker implements it.          *)
(***************************************************************************)
EXTENDS Naturals

CONSTANT Callers

VARIABLES
    call,   \* what each caller is doing, or knows after its last call
    given,  \* tasks posted so far
    taken,  \* tasks the worker has accepted
    busy,   \* a task is executing
    gone    \* the worker thread has ended

avars == <<call, given, taken, busy, gone>>

Free(c) == call[c] \in {"none", "idle"}

Alone(c) == \A d \in Callers \ {c} : call[d] = "none"

SetCall(c, v) == call' = [call EXCEPT ![c] = v]

Init ==
    /\ call = [c \in Callers |-> "none"]
    /\ given = 0
    /\ taken = 0
    /\ busy = FALSE
    /\ gone = FALSE

Post(c) ==
    /\ Free(c) /\ Alone(c) /\ ~gone
    /\ given = taken
    /\ given' = given + 1
    /\ SetCall(c, "run")
    /\ UNCHANGED <<taken, busy, gone>>

RunReturns(c) ==
    /\ call[c] = "run"
    /\ given = taken
    /\ SetCall(c, "none")
    /\ UNCHANGED <<given, taken, busy, gone>>

JoinBlocks(c) ==
    /\ Free(c) /\ Alone(c)
    /\ SetCall(c, "join")
    /\ UNCHANGED <<given, taken, busy, gone>>

JoinReturns(c) ==
    /\ Free(c) \/ call[c] = "join"
    /\ Alone(c)
    /\ ~busy
    /\ given = taken
    /\ SetCall(c, "idle")
    /\ UNCHANGED <<given, taken, busy, gone>>

(* The caller gives the lock back and may no longer rely on what it knew. *)
Forget(c) ==
    /\ call[c] = "idle"
    /\ SetCall(c, "none")
    /\ UNCHANGED <<given, taken, busy, gone>>

Stop(c) ==
    /\ Free(c) /\ Alone(c)
    /\ SetCall(c, "stop")
    /\ UNCHANGED <<given, taken, busy, gone>>

StopReturns(c) ==
    /\ call[c] = "stop"
    /\ gone
    /\ SetCall(c, "stopped")
    /\ UNCHANGED <<given, taken, busy, gone>>

Take ==
    /\ ~busy /\ ~gone
    /\ taken < given
    /\ taken' = taken + 1
    /\ busy' = TRUE
    /\ UNCHANGED <<call, given, gone>>

Finish ==
    /\ busy
    /\ busy' = FALSE
    /\ UNCHANGED <<call, given, taken, gone>>

Exit ==
    /\ \E c \in Callers : call[c] = "stop"
    /\ ~busy /\ ~gone
    /\ given = taken
    /\ gone' = TRUE
    /\ UNCHANGED <<call, given, taken, busy>>

Next ==
    \/ \E c \in Callers :
          \/ Post(c) \/ RunReturns(c) \/ JoinBlocks(c) \/ JoinReturns(c)
          \/ Forget(c) \/ Stop(c) \/ StopReturns(c)
    \/ Take \/ Finish \/ Exit

Spec == Init /\ [][Next]_avars
=============================================================================

------------------------------- MODULE FpcHal -------------------------------
(***************************************************************************)
(* Who may use the TEE, and when: the HAL's entry points (fpc_tee_hal.c),  *)
(* the HAL's worker thread, the navigation module with its own worker      *)
(* (fpc_hal_navigation.c) and the two cancel pipes (fpc_irq_device.c).     *)
(*                                                                         *)
(* Most TEE commands go through ONE shared buffer (tee->shared_buffer)     *)
(* that no lock protects.  API threads hold dev->lock; the HAL worker and  *)
(* the navigation worker hold nothing.  Exclusion comes only from the      *)
(* protocol goto_idle / pause / do_async_work / resume modelled here.  One *)
(* entry point, pre_recalibrate_pn (fpc_hal_ext_recalibration.c), uses the *)
(* buffer outside that protocol.                                           *)
(*                                                                         *)
(* The workers are taken at the level of FpcTaskRunner (FpcWorker          *)
(* implements it): run_task hands the task to an idle worker, join_task    *)
(* waits until no task executes.  "tee" stands for a burst of TEE commands *)
(* between two waits; what the commands do is in the other modules.        *)
(***************************************************************************)
EXTENDS Naturals

CONSTANTS
    Api,        \* threads that enter the HAL and its extensions
    NavApi,     \* threads that call the navigation extension
    HalW,       \* the HAL's worker thread
    NavW,       \* navigation's worker thread
    Opener,     \* the API thread inside fpc_hal_open
    NoOne,
    MaxToggles  \* bound: calls of set_enabled in a run

ASSUME HalAssumption ==
    /\ Opener \in Api
    /\ Api \cap NavApi = {}
    /\ HalW \notin Api \cup NavApi
    /\ NavW \notin Api \cup NavApi \cup {HalW}
    /\ NoOne \notin Api \cup NavApi \cup {HalW, NavW}
    /\ MaxToggles \in Nat

VARIABLES
    devlock,    \* holder of dev->lock
    navmutex,   \* holder of nav->mutex
    pc,         \* where each thread is
    op,         \* the operation an API thread executes
    ret,        \* where an API thread continues after a navigation call
    want,       \* the argument of a set_enabled call under way
    task,       \* what the HAL worker executes: waits for fingers or not
    owner,      \* dev->current_task.owner
    cancelled,  \* sensor->cancelled
    pipe,       \* bytes in the sensor's cancel pipe
    enabled,    \* nav->enabled
    paused,     \* nav->paused
    navcancel,  \* nav->cancel
    navpipe,    \* bytes in navigation's cancel pipe
    toggles     \* set_enabled calls made so far

navvars == <<navmutex, enabled, paused, navcancel, navpipe>>
halvars == <<devlock, op, ret, task, owner, cancelled, pipe>>
vars == <<devlock, navmutex, pc, op, ret, want, task, owner, cancelled, pipe,
          enabled, paused, navcancel, navpipe, toggles>>

Threads == Api \cup NavApi \cup {HalW, NavW}

(* The kinds of operation that differ in control:
   sync        pre_enroll, post_enroll, set_active_group, is_user_valid...
   cancel      fpc_cancel
   ext_cancel  cancel of an extension: goto_idle and resume, any owner
   capture     authenticate, enroll: the task waits for a finger
   command     remove, enumerate: the task only sends commands
   ext_capture an extension's capturing task (verify_user, do_capture)
   close       fpc_hal_close
   pre_recalibrate_pn goes none of these ways; it has actions of its own.
   "open" is the opener's fpc_hal_open, which no thread begins.          *)
Ops == {"sync", "cancel", "ext_cancel", "capture", "command",
        "ext_capture", "close"}
AsyncOps == {"capture", "command", "ext_capture"}

At(t, p)   == pc[t] = p
Goto(t, p) == pc' = [pc EXCEPT ![t] = p]

HalIdle == At(HalW, "off")
NavIdle == At(NavW, "off")

(* The state in which fpc_hal_open reaches its call of
   fingerprint_hal_resume: navigation exists, enabled and paused.  The
   device is not yet known to the other API threads, as if locked. *)
Init ==
    /\ devlock = Opener
    /\ navmutex = NoOne
    /\ pc = [t \in Threads |-> CASE t = Opener -> "rs_join"
                                 [] t \in {HalW, NavW} -> "off"
                                 [] OTHER -> "out"]
    /\ op = [t \in Api |-> IF t = Opener THEN "open" ELSE "sync"]
    /\ ret = [t \in Api |-> "unlock"]
    /\ want = [t \in NavApi |-> FALSE]
    /\ task = "command"
    /\ owner = "HAL"
    /\ cancelled = FALSE
    /\ pipe = 0
    /\ enabled = TRUE
    /\ paused = TRUE
    /\ navcancel = FALSE
    /\ navpipe = 0
    /\ toggles = 0
-----------------------------------------------------------------------------
(* The API threads. *)

(* Variant for the sensitivity check: the goto_idle of fpc_cancel is left out. *)
BeginNoIdle(t, o) ==
    /\ At(t, "out")
    /\ devlock = NoOne
    /\ devlock' = t
    /\ op' = [op EXCEPT ![t] = o]
    /\ Goto(t, IF o = "cancel" THEN "on_error" ELSE "gi_cancel")
    /\ UNCHANGED <<ret, want, task, owner, cancelled, pipe, toggles>>
    /\ UNCHANGED navvars

(* Lock, and the early return of fpc_cancel for a task of an extension.
   The other early returns (wrong gid, wrong token size) change nothing. *)
Begin(t, o) ==
    /\ At(t, "out")
    /\ devlock = NoOne
    /\ devlock' = t
    /\ op' = [op EXCEPT ![t] = o]
    /\ Goto(t, IF o = "cancel" /\ owner # "HAL" THEN "on_error" ELSE "gi_cancel")
    /\ UNCHANGED <<ret, want, task, owner, cancelled, pipe, toggles>>
    /\ UNCHANGED navvars

(* fingerprint_hal_goto_idle: fpc_tee_set_cancel; join; fpc_tee_clear_cancel;
   fpc_navigation_pause. *)
AfterIdle(o) ==
    CASE o \in AsyncOps -> "aw_join"
      [] o \in {"cancel", "ext_cancel"} -> "rs_join"
      [] OTHER -> "tee"

(* Variant for the sensitivity check: the flag without the byte in the pipe. *)
SetCancelFlagOnly(t) ==
    /\ At(t, "gi_cancel")
    /\ cancelled' = TRUE
    /\ Goto(t, "gi_join")
    /\ UNCHANGED <<devlock, op, ret, want, task, owner, pipe, toggles>>
    /\ UNCHANGED navvars

SetCancel(t) ==
    /\ At(t, "gi_cancel")
    /\ cancelled' = TRUE
    /\ pipe' = pipe + 1
    /\ Goto(t, "gi_join")
    /\ UNCHANGED <<devlock, op, ret, want, task, owner, toggles>>
    /\ UNCHANGED navvars

GotoIdleJoin(t) ==
    /\ At(t, "gi_join")
    /\ HalIdle
    /\ Goto(t, "gi_clear")
    /\ UNCHANGED <<halvars, want, toggles>>
    /\ UNCHANGED navvars

(* Variant for the sensitivity check: navigation is not paused. *)
ClearCancelNoPause(t) ==
    /\ At(t, "gi_clear")
    /\ pipe > 0
    /\ pipe' = pipe - 1
    /\ cancelled' = FALSE
    /\ Goto(t, AfterIdle(op[t]))
    /\ UNCHANGED <<devlock, op, ret, want, task, owner, toggles>>
    /\ UNCHANGED navvars

(* Variant for the sensitivity check: the byte stays in the pipe. *)
ClearCancelNoRead(t) ==
    /\ At(t, "gi_clear")
    /\ cancelled' = FALSE
    /\ ret' = [ret EXCEPT ![t] = AfterIdle(op[t])]
    /\ Goto(t, "pause")
    /\ UNCHANGED <<devlock, op, want, task, owner, pipe, toggles>>
    /\ UNCHANGED navvars

(* The read of the pipe blocks while it is empty. *)
ClearCancel(t) ==
    /\ At(t, "gi_clear")
    /\ pipe > 0
    /\ pipe' = pipe - 1
    /\ cancelled' = FALSE
    /\ ret' = [ret EXCEPT ![t] = AfterIdle(op[t])]
    /\ Goto(t, "pause")
    /\ UNCHANGED <<devlock, op, want, task, owner, toggles>>
    /\ UNCHANGED navvars

(* fingerprint_hal_do_async_work: join; pause; current_task; run_task. *)
AsyncJoin(t) ==
    /\ At(t, "aw_join")
    /\ HalIdle
    /\ ret' = [ret EXCEPT ![t] = "aw_run"]
    /\ Goto(t, "pause")
    /\ UNCHANGED <<devlock, op, want, task, owner, cancelled, pipe, toggles>>
    /\ UNCHANGED navvars

AsyncRun(t) ==
    /\ At(t, "aw_run")
    /\ HalIdle
    /\ owner' = IF op[t] = "ext_capture" THEN "EXT" ELSE "HAL"
    /\ task' = IF op[t] = "command" THEN "command" ELSE "capture"
    /\ pc' = [pc EXCEPT ![t] = "unlock", ![HalW] = "tee"]
    /\ UNCHANGED <<devlock, op, ret, want, cancelled, pipe, toggles>>
    /\ UNCHANGED navvars

(* The operation's own TEE commands; fpc_hal_close ends with them. *)
ApiTee(t) ==
    /\ At(t, "tee")
    /\ Goto(t, IF op[t] = "close" THEN "closed" ELSE "rs_join")
    /\ UNCHANGED <<halvars, want, toggles>>
    /\ UNCHANGED navvars

(* fingerprint_hal_resume: join; fpc_navigation_resume. *)
ResumeJoin(t) ==
    /\ At(t, "rs_join")
    /\ HalIdle
    /\ ret' = [ret EXCEPT ![t] = IF op[t] = "cancel" THEN "on_error" ELSE "unlock"]
    /\ Goto(t, "resume")
    /\ UNCHANGED <<devlock, op, want, task, owner, cancelled, pipe, toggles>>
    /\ UNCHANGED navvars

(* fpc_cancel's on_error(ERROR_CANCELED), with dev->lock held. *)
ReportCanceled(t) ==
    /\ At(t, "on_error")
    /\ Goto(t, "unlock")
    /\ UNCHANGED <<halvars, want, toggles>>
    /\ UNCHANGED navvars

(* pre_recalibrate_pn and fpc_tee_pn_get_challenge: the command is written to
   the shared buffer and transferred with no lock, no goto_idle and no pause
   of navigation.  The extension serves calls between open and close. *)
PreRecalibrate(t) ==
    /\ At(t, "out")
    /\ \A a \in Api : op[a] # "open" /\ ~At(a, "closed")
    /\ Goto(t, "pn_tee")
    /\ UNCHANGED <<halvars, want, toggles>>
    /\ UNCHANGED navvars

PreRecalibrateEnds(t) ==
    /\ At(t, "pn_tee")
    /\ Goto(t, "out")
    /\ UNCHANGED <<halvars, want, toggles>>
    /\ UNCHANGED navvars

(* The locals op and ret die with the call. *)
Unlock(t) ==
    /\ At(t, "unlock")
    /\ devlock' = NoOne
    /\ Goto(t, "out")
    /\ op' = [op EXCEPT ![t] = "sync"]
    /\ ret' = [ret EXCEPT ![t] = "unlock"]
    /\ UNCHANGED <<want, task, owner, cancelled, pipe, toggles>>
    /\ UNCHANGED navvars
-----------------------------------------------------------------------------
(* Navigation: pause (API threads), resume (API threads and the HAL        *)
(* worker), set_enabled (navigation's own callers).                        *)

(* Where a thread goes when its navigation call returns; the HAL worker
   resumes navigation as the last thing of hal_work_func. *)
NavReturn(t) ==
    CASE t \in Api    -> ret[t]
      [] t \in NavApi -> "out"
      [] OTHER        -> "off"

Pause(t) ==
    /\ At(t, "pause")
    /\ navmutex = NoOne
    /\ \/ /\ enabled /\ ~paused
          /\ navmutex' = t
          /\ navpipe' = navpipe + 1
          /\ Goto(t, "nc_flag")
          /\ UNCHANGED paused
       \/ /\ ~(enabled /\ ~paused)
          /\ paused' = TRUE
          /\ Goto(t, NavReturn(t))
          /\ UNCHANGED <<navmutex, navpipe>>
    /\ UNCHANGED <<halvars, want, toggles, enabled, navcancel>>

Resume(t) ==
    /\ At(t, "resume")
    /\ navmutex = NoOne
    /\ \/ /\ enabled /\ paused
          /\ navmutex' = t
          /\ Goto(t, "nr_run")
          /\ UNCHANGED paused
       \/ /\ ~(enabled /\ paused)
          /\ paused' = FALSE
          /\ Goto(t, NavReturn(t))
          /\ UNCHANGED navmutex
    /\ UNCHANGED <<halvars, want, toggles, enabled, navcancel, navpipe>>

(* fpc_worker_run_task(nav->worker_thread, nav_loop) from resume. *)
ResumeRun(t) ==
    /\ At(t, "nr_run")
    /\ NavIdle
    /\ paused' = FALSE
    /\ navmutex' = NoOne
    /\ pc' = [pc EXCEPT ![t] = NavReturn(t), ![NavW] = "init"]
    /\ UNCHANGED <<halvars, want, toggles, enabled, navcancel, navpipe>>

(* The navigation service is not called once the HAL is closed. *)
SetEnabled(t, b) ==
    /\ At(t, "out")
    /\ \A a \in Api : ~At(a, "closed")
    /\ toggles < MaxToggles
    /\ navmutex = NoOne
    /\ toggles' = toggles + 1
    /\ want' = [want EXCEPT ![t] = b]
    /\ \/ /\ b /\ ~paused /\ ~enabled
          /\ navmutex' = t
          /\ Goto(t, "se_run")
          /\ UNCHANGED <<enabled, navpipe>>
       \/ /\ ~b /\ ~paused /\ enabled
          /\ navmutex' = t
          /\ navpipe' = navpipe + 1
          /\ Goto(t, "nc_flag")
          /\ UNCHANGED enabled
       \/ /\ paused \/ b = enabled
          /\ enabled' = b
          /\ UNCHANGED <<pc, navmutex, navpipe>>
    /\ UNCHANGED <<halvars, paused, navcancel>>

SetEnabledRun(t) ==
    /\ At(t, "se_run")
    /\ NavIdle
    /\ enabled' = want[t]
    /\ navmutex' = NoOne
    /\ pc' = [pc EXCEPT ![t] = "out", ![NavW] = "init"]
    /\ UNCHANGED <<halvars, want, toggles, paused, navcancel, navpipe>>

(* cancel(nav), after the byte is in the pipe. *)
NavCancelFlag(t) ==
    /\ At(t, "nc_flag")
    /\ navcancel' = TRUE
    /\ Goto(t, "nc_join")
    /\ UNCHANGED <<halvars, want, toggles, navmutex, enabled, paused, navpipe>>

NavCancelJoin(t) ==
    /\ At(t, "nc_join")
    /\ NavIdle
    /\ navcancel' = FALSE
    /\ Goto(t, "nc_clear")
    /\ UNCHANGED <<halvars, want, toggles, navmutex, enabled, paused, navpipe>>

(* fpc_irq_clear_cancel, then the caller's assignment and the unlock. *)
NavCancelClear(t) ==
    /\ At(t, "nc_clear")
    /\ navpipe > 0
    /\ navpipe' = navpipe - 1
    /\ \/ t \in Api /\ paused' = TRUE /\ UNCHANGED enabled
       \/ t \in NavApi /\ enabled' = want[t] /\ UNCHANGED paused
    /\ navmutex' = NoOne
    /\ Goto(t, NavReturn(t))
    /\ UNCHANGED <<halvars, want, toggles, navcancel>>
-----------------------------------------------------------------------------
(* The HAL worker: hal_work_func. *)

(* A capturing task goes to wait for the sensor's interrupt ... *)
TaskWaits ==
    /\ At(HalW, "tee")
    /\ task = "capture"
    /\ Goto(HalW, "irq")
    /\ UNCHANGED <<halvars, want, toggles>>
    /\ UNCHANGED navvars

(* Variant for the sensitivity check: hal_work_func does not resume navigation. *)
TaskEndsNoResume ==
    /\ pc[HalW] \in {"tee", "tee_end"}
    /\ Goto(HalW, "off")
    /\ UNCHANGED <<halvars, want, toggles>>
    /\ UNCHANGED navvars

(* ... and every task ends: a result, too many failures, or an error. *)
TaskEnds ==
    /\ pc[HalW] \in {"tee", "tee_end"}
    /\ Goto(HalW, "resume")
    /\ UNCHANGED <<halvars, want, toggles>>
    /\ UNCHANGED navvars

(* fpc_irq_wait: the line is read first; the cancel pipe only counts once
   the thread polls, but then it wins over an interrupt. *)
IrqHigh(t, next) ==
    /\ At(t, "irq")
    /\ Goto(t, next)
    /\ UNCHANGED <<halvars, want, toggles>>
    /\ UNCHANGED navvars

(* The interrupt's file cannot be opened, read or polled. *)
IrqFails(t, next) ==
    /\ pc[t] \in {"irq", "poll"}
    /\ Goto(t, next)
    /\ UNCHANGED <<halvars, want, toggles>>
    /\ UNCHANGED navvars

IrqLow(t) ==
    /\ At(t, "irq")
    /\ Goto(t, "poll")
    /\ UNCHANGED <<halvars, want, toggles>>
    /\ UNCHANGED navvars

PollCancelled(t, bytes, next) ==
    /\ At(t, "poll")
    /\ bytes > 0
    /\ Goto(t, next)
    /\ UNCHANGED <<halvars, want, toggles>>
    /\ UNCHANGED navvars

PollInterrupt(t, bytes) ==
    /\ At(t, "poll")
    /\ bytes = 0
    /\ Goto(t, "irq")
    /\ UNCHANGED <<halvars, want, toggles>>
    /\ UNCHANGED navvars
-----------------------------------------------------------------------------
(* Navigation's worker: nav_loop. *)

NavStep(from, to) ==
    /\ At(NavW, from)
    /\ Goto(NavW, to)
    /\ UNCHANGED <<halvars, want, toggles>>
    /\ UNCHANGED navvars

(* fpc_tee_nav_set_config and fpc_tee_nav_init; a failure ends the task. *)
NavInit == NavStep("init", "check") \/ NavStep("init", "off")

NavCheckCancel ==
    \/ navcancel /\ NavStep("check", "exit")
    \/ ~navcancel /\ NavStep("check", "nav_poll")

(* fpc_tee_nav_poll_data: an error, a request to wait, or to poll again. *)
NavPollData ==
    \/ NavStep("nav_poll", "exit")
    \/ NavStep("nav_poll", "irq")
    \/ NavStep("nav_poll", "check")

(* fpc_tee_nav_exit. *)
NavExit == NavStep("exit", "off")
-----------------------------------------------------------------------------
ApiStep(t) ==
    \/ SetCancel(t) \/ GotoIdleJoin(t) \/ ClearCancel(t)
    \/ AsyncJoin(t) \/ AsyncRun(t) \/ ApiTee(t) \/ ResumeJoin(t)
    \/ ReportCanceled(t) \/ Unlock(t) \/ PreRecalibrateEnds(t)
    \/ Pause(t) \/ Resume(t) \/ ResumeRun(t)
    \/ NavCancelFlag(t) \/ NavCancelJoin(t) \/ NavCancelClear(t)

NavApiStep(t) ==
    \/ SetEnabledRun(t)
    \/ NavCancelFlag(t) \/ NavCancelJoin(t) \/ NavCancelClear(t)

HalStep ==
    \/ TaskWaits \/ TaskEnds
    \/ IrqHigh(HalW, "tee") \/ IrqLow(HalW) \/ PollCancelled(HalW, pipe, "tee_end")
    \/ IrqFails(HalW, "tee_end")
    \/ Resume(HalW) \/ ResumeRun(HalW)

NavWStep ==
    \/ NavInit \/ NavCheckCancel \/ NavPollData \/ NavExit
    \/ IrqHigh(NavW, "check") \/ IrqLow(NavW) \/ PollCancelled(NavW, navpipe, "exit")
    \/ IrqFails(NavW, "exit")

(* An interrupt while a worker polls: the user moves a finger. *)
Interrupt == PollInterrupt(HalW, pipe) \/ PollInterrupt(NavW, navpipe)

Next ==
    \/ \E t \in Api :
          (\E o \in Ops : Begin(t, o)) \/ PreRecalibrate(t) \/ ApiStep(t)
    \/ \E t \in NavApi : (\E b \in BOOLEAN : SetEnabled(t, b)) \/ NavApiStep(t)
    \/ HalStep
    \/ NavWStep
    \/ Interrupt

Spec == Init /\ [][Next]_vars

(* Threads that can run do run; calls and fingers come or do not.  A HAL
   task that keeps waiting finds the interrupt line low at some time: the
   sensor raises it for a finger event only and the wake-up set-up command
   before each wait lowers it. *)
Fairness ==
    /\ \A t \in Api : WF_vars(ApiStep(t))
    /\ \A t \in NavApi : WF_vars(NavApiStep(t))
    /\ WF_vars(HalStep)
    /\ WF_vars(NavWStep)
    /\ SF_vars(IrqLow(HalW))

FairSpec == Spec /\ Fairness
-----------------------------------------------------------------------------
PCs == {"out", "gi_cancel", "gi_join", "gi_clear", "aw_join", "aw_run", "tee",
        "pn_tee", "closed", "rs_join", "on_error", "unlock", "pause", "resume",
        "nr_run", "se_run", "nc_flag", "nc_join", "nc_clear", "off",
        "tee_end", "irq", "poll", "init", "check", "nav_poll", "exit"}

(* Type correctness. *)
TypeOK ==
    /\ devlock \in Api \cup {NoOne}
    /\ navmutex \in Threads \cup {NoOne}
    /\ pc \in [Threads -> PCs]
    /\ op \in [Api -> Ops \cup {"open"}]
    /\ ret \in [Api -> {"aw_join", "rs_join", "tee", "aw_run", "on_error", "unlock"}]
    /\ want \in [NavApi -> BOOLEAN]
    /\ task \in {"capture", "command"}
    /\ owner \in {"HAL", "EXT"}
    /\ cancelled \in BOOLEAN
    /\ pipe \in Nat
    /\ enabled \in BOOLEAN
    /\ paused \in BOOLEAN
    /\ navcancel \in BOOLEAN
    /\ navpipe \in Nat
    /\ toggles \in Nat

(* Threads inside a TEE command, that is, using tee->shared_buffer. *)
InTee(t) ==
    \/ t \in Api /\ pc[t] \in {"tee", "pn_tee"}
    \/ t = HalW /\ pc[t] \in {"tee", "tee_end"}
    \/ t = NavW /\ pc[t] \in {"init", "nav_poll", "exit"}

(* When two threads use the shared buffer at once, one of them is inside
   pre_recalibrate_pn: API calls, the HAL's task and the navigation loop
   exclude each other although no lock is common to them, and however their
   joins, pauses and resumes interleave with set_enabled and with that call.
   That pre_recalibrate_pn itself meets any of the others is what the code
   does. *)
OnlyChallengeOverlaps ==
    \A s, t \in Threads : InTee(s) /\ InTee(t) => s = t \/ At(s, "pn_tee") \/ At(t, "pn_tee")

(* The sensor's cancel byte or flag is there only between set_cancel and
   clear_cancel of the lock holder. *)
SensorCancelScoped ==
    /\ pipe = IF cancelled THEN 1 ELSE 0
    /\ cancelled <=> devlock \in Api /\ pc[devlock] \in {"gi_join", "gi_clear"}

(* Navigation's only inside cancel, under its mutex. *)
NavCancelScoped ==
    /\ navpipe = IF navmutex # NoOne /\ pc[navmutex] \in {"nc_flag", "nc_join", "nc_clear"}
                 THEN 1 ELSE 0
    /\ navcancel <=> navmutex # NoOne /\ pc[navmutex] = "nc_join"

(* A cancel request never outlives the goto_idle that made it: no later task
   starts cancelled, and the blocking read of clear_cancel finds its byte.
   Nor does navigation's: a loop that starts after a pause is not stopped by
   the request that paused it. *)
CancelScoped == SensorCancelScoped /\ NavCancelScoped

(* Navigation is not left paused: when no call is in progress and the HAL's
   worker has nothing to do, the last of them resumed navigation. *)
NavNotLeftPaused ==
    paused => devlock # NoOne \/ ~HalIdle

(* When fpc_cancel reports ERROR_CANCELED, no framework task executes that
   could still send a result after it. *)
CanceledIsFinal ==
    \A t \in Api : At(t, "on_error") => HalIdle \/ owner = "EXT"

(* Every call of the HAL returns, a cancel in particular, also while a task
   waits for a finger that never comes; and so does every set_enabled. *)
CallsReturn ==
    /\ \A t \in Api : ~At(t, "out") ~> pc[t] \in {"out", "closed"}
    /\ \A t \in NavApi : ~At(t, "out") ~> At(t, "out")
=============================================================================

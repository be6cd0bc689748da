---------------------------- MODULE FpcHalProofs ----------------------------
(***************************************************************************)
(* Proofs about FpcHal for any number of API threads and of navigation     *)
(* callers: only the unlocked pre_recalibrate_pn shares the TEE buffer     *)
(* with another user, cancel requests do not leak                          *)
(* from one task to the next, navigation is not left paused, and           *)
(* ERROR_CANCELED is the last word about a cancelled task.                 *)
(***************************************************************************)
EXTENDS FpcHal, TLAPS

NavCancelPC == {"nc_flag", "nc_join", "nc_clear"}
NavMutexPC  == NavCancelPC \cup {"nr_run", "se_run"}

ApiPC == {"out", "gi_cancel", "gi_join", "gi_clear", "aw_join", "aw_run",
          "tee", "pn_tee", "closed", "rs_join", "on_error", "unlock", "pause",
          "resume", "nr_run"} \cup NavCancelPC
NavApiPC == {"out", "se_run"} \cup NavCancelPC
HalWPC == {"off", "tee", "tee_end", "irq", "poll", "resume", "nr_run"}
NavWPC == {"off", "init", "check", "nav_poll", "irq", "poll", "exit"}

(* Which thread can be where. *)
PlaceInv ==
    /\ \A t \in Api : pc[t] \in ApiPC
    /\ \A t \in NavApi : pc[t] \in NavApiPC
    /\ pc[HalW] \in HalWPC
    /\ pc[NavW] \in NavWPC

(* Holding a lock is being at one of its places. *)
LockInv ==
    /\ \A t \in Api : devlock = t <=> pc[t] \notin {"out", "pn_tee"}
    /\ \A t \in Threads : navmutex = t <=> pc[t] \in NavMutexPC

(* Navigation: its loop runs only when enabled and not paused, and what a
   thread that is inside the mutex has established. *)
NavInv ==
    /\ ~NavIdle => enabled /\ ~paused
    /\ \A t \in Threads :
          /\ At(t, "nc_clear") => NavIdle
          /\ At(t, "nr_run") => enabled /\ paused
          /\ pc[t] \in NavCancelPC => enabled /\ ~paused
    /\ \A t \in NavApi : At(t, "se_run") => ~enabled /\ ~paused /\ want[t]

(* The HAL's worker: it executes only while navigation is paused, and what
   an API thread has established by its joins and its pause. *)
TaskInv ==
    /\ ~HalIdle => paused
    /\ \A t \in Api :
          /\ pc[t] \in {"gi_clear", "aw_join", "aw_run", "tee", "closed", "rs_join",
                        "resume", "nr_run", "pause"} \cup NavCancelPC => HalIdle
          /\ pc[t] \in {"aw_join", "aw_run", "tee", "closed", "rs_join", "nr_run",
                        "resume"} => paused
          /\ pc[t] \in {"pause"} \cup NavCancelPC
                => ret[t] \in {"aw_join", "rs_join", "tee", "aw_run"}
          /\ pc[t] \in {"resume", "nr_run"} => ret[t] \in {"on_error", "unlock"}
          /\ pc[t] \in {"unlock", "on_error"} => (paused => ~HalIdle)

IInv ==
    /\ TypeOK
    /\ PlaceInv
    /\ LockInv
    /\ NavInv
    /\ TaskInv
    /\ SensorCancelScoped
    /\ NavCancelScoped
    /\ CanceledIsFinal
    /\ NavNotLeftPaused

(* The invariant holds initially. *)
LEMMA InitIInv == Init => IInv
<1> SUFFICES ASSUME Init PROVE IInv
  OBVIOUS
<1> USE HalAssumption DEF Init, Threads, At
<1>1. TypeOK
  BY DEF TypeOK, PCs, Ops
<1>2. PlaceInv
  BY DEF PlaceInv, ApiPC, NavApiPC, HalWPC, NavWPC
<1>3. LockInv
  BY DEF LockInv, NavMutexPC, NavCancelPC
<1>4. NavInv
  BY DEF NavInv, NavIdle, NavCancelPC
<1>5. TaskInv
  BY DEF TaskInv, HalIdle, NavCancelPC
<1>6. SensorCancelScoped /\ NavCancelScoped
  BY DEF SensorCancelScoped, NavCancelScoped
<1>7. CanceledIsFinal /\ NavNotLeftPaused
  BY DEF CanceledIsFinal, NavNotLeftPaused, HalIdle
<1> QED
  BY <1>1, <1>2, <1>3, <1>4, <1>5, <1>6, <1>7 DEF IInv

(* Every step keeps the invariant: one case per action. *)
LEMMA NextIInv == IInv /\ [Next]_vars => IInv'
<1> SUFFICES ASSUME IInv, [Next]_vars PROVE IInv'
  OBVIOUS
<1> USE HalAssumption
<1> USE DEF IInv, TypeOK, PlaceInv, LockInv, NavInv, TaskInv, SensorCancelScoped,
            NavCancelScoped, CanceledIsFinal, NavNotLeftPaused, At, Goto,
            HalIdle, NavIdle, Threads, PCs, Ops, NavCancelPC, NavMutexPC,
            ApiPC, NavApiPC, HalWPC, NavWPC, navvars, halvars
<1>1. ASSUME NEW t \in Api, NEW o \in Ops, Begin(t, o) PROVE IInv'
  BY <1>1 DEF Begin
<1>2. ASSUME NEW t \in Api, SetCancel(t) PROVE IInv'
  BY <1>2 DEF SetCancel
<1>3. ASSUME NEW t \in Api, GotoIdleJoin(t) PROVE IInv'
  BY <1>3 DEF GotoIdleJoin
<1>4. ASSUME NEW t \in Api, ClearCancel(t) PROVE IInv'
  <2>1. TypeOK'
    <3>1. AfterIdle(op[t]) \in {"aw_join", "rs_join", "tee"}
      BY DEF AfterIdle
    <3>2. pipe' \in Nat
      BY <1>4 DEF ClearCancel
    <3> QED
      BY ZenonT(30), <1>4, <3>1, <3>2 DEF ClearCancel
  <2>2. PlaceInv'
    BY <1>4 DEF ClearCancel, AfterIdle, AsyncOps
  <2>3. LockInv'
    BY <1>4 DEF ClearCancel, AfterIdle, AsyncOps
  <2>4. NavInv'
    BY <1>4 DEF ClearCancel, AfterIdle, AsyncOps
  <2>5. TaskInv'
    BY <1>4 DEF ClearCancel, AfterIdle, AsyncOps
  <2>6. SensorCancelScoped'
    BY <1>4 DEF ClearCancel, AfterIdle, AsyncOps
  <2>7. NavCancelScoped'
    BY <1>4 DEF ClearCancel, AfterIdle, AsyncOps
  <2>8. (CanceledIsFinal /\ NavNotLeftPaused)'
    BY <1>4 DEF ClearCancel, AfterIdle, AsyncOps
  <2> QED
    BY <2>1, <2>2, <2>3, <2>4, <2>5, <2>6, <2>7, <2>8 DEF IInv
<1>5. ASSUME NEW t \in Api, AsyncJoin(t) PROVE IInv'
  BY <1>5 DEF AsyncJoin
<1>6. ASSUME NEW t \in Api, AsyncRun(t) PROVE IInv'
  BY <1>6 DEF AsyncRun
<1>7. ASSUME NEW t \in Api, ApiTee(t) PROVE IInv'
  BY <1>7 DEF ApiTee
<1>8. ASSUME NEW t \in Api, ResumeJoin(t) PROVE IInv'
  BY <1>8 DEF ResumeJoin
<1>9. ASSUME NEW t \in Api, ReportCanceled(t) PROVE IInv'
  BY <1>9 DEF ReportCanceled
<1>10. ASSUME NEW t \in Api, Unlock(t) PROVE IInv'
  BY <1>10 DEF Unlock
<1>p. ASSUME NEW t \in Api, PreRecalibrate(t) \/ PreRecalibrateEnds(t) PROVE IInv'
  BY <1>p DEF PreRecalibrate, PreRecalibrateEnds
<1>11. ASSUME NEW t \in Api, Pause(t) PROVE IInv'
  <2>1. TypeOK'
    <3>1. NavReturn(t) \in PCs
      BY <1>11 DEF Pause, NavReturn
    <3>2. pc' \in [Threads -> PCs]
      BY <1>11, <3>1 DEF Pause
    <3>3. navmutex' \in Threads \cup {NoOne} /\ navpipe' \in Nat
      BY <1>11 DEF Pause
    <3>4. paused' \in BOOLEAN
      BY <1>11 DEF Pause
    <3> QED
      BY <1>11, <3>2, <3>3, <3>4 DEF Pause
  <2>2. PlaceInv'
    BY <1>11 DEF Pause, NavReturn
  <2>3. LockInv'
    BY <1>11 DEF Pause, NavReturn
  <2>4. NavInv'
    BY <1>11 DEF Pause, NavReturn
  <2>5. TaskInv'
    BY <1>11 DEF Pause, NavReturn
  <2>6. SensorCancelScoped'
    BY <1>11 DEF Pause, NavReturn
  <2>7. NavCancelScoped'
    BY <1>11 DEF Pause, NavReturn
  <2>8. (CanceledIsFinal /\ NavNotLeftPaused)'
    BY <1>11 DEF Pause, NavReturn
  <2> QED
    BY <2>1, <2>2, <2>3, <2>4, <2>5, <2>6, <2>7, <2>8 DEF IInv
<1>12. ASSUME NEW t \in Api \cup {HalW}, Resume(t) PROVE IInv'
  <2>1. TypeOK'
    <3>1. NavReturn(t) \in PCs
      BY <1>12 DEF Resume, NavReturn
    <3>2. pc' \in [Threads -> PCs]
      BY <1>12, <3>1 DEF Resume
    <3>3. navmutex' \in Threads \cup {NoOne} /\ navpipe' \in Nat
      BY <1>12 DEF Resume
    <3>4. paused' \in BOOLEAN
      BY <1>12 DEF Resume
    <3> QED
      BY <1>12, <3>2, <3>3, <3>4 DEF Resume
  <2>2. PlaceInv'
    BY <1>12 DEF Resume, NavReturn
  <2>3. LockInv'
    BY <1>12 DEF Resume, NavReturn
  <2>4. NavInv'
    BY <1>12 DEF Resume, NavReturn
  <2>5. TaskInv'
    BY <1>12 DEF Resume, NavReturn
  <2>6. SensorCancelScoped'
    BY <1>12 DEF Resume, NavReturn
  <2>7. NavCancelScoped'
    BY <1>12 DEF Resume, NavReturn
  <2>8. (CanceledIsFinal /\ NavNotLeftPaused)'
    BY <1>12 DEF Resume, NavReturn
  <2> QED
    BY <2>1, <2>2, <2>3, <2>4, <2>5, <2>6, <2>7, <2>8 DEF IInv
<1>13. ASSUME NEW t \in Api \cup {HalW}, ResumeRun(t) PROVE IInv'
  <2>1. TypeOK'
    BY <1>13 DEF ResumeRun, NavReturn
  <2>2. PlaceInv'
    BY <1>13 DEF ResumeRun, NavReturn
  <2>3. LockInv'
    BY <1>13 DEF ResumeRun, NavReturn
  <2>4. NavInv'
    BY <1>13 DEF ResumeRun, NavReturn
  <2>5. TaskInv'
    BY <1>13 DEF ResumeRun, NavReturn
  <2>6. SensorCancelScoped'
    BY <1>13 DEF ResumeRun, NavReturn
  <2>7. NavCancelScoped'
    BY <1>13 DEF ResumeRun, NavReturn
  <2>8. (CanceledIsFinal /\ NavNotLeftPaused)'
    BY <1>13 DEF ResumeRun, NavReturn
  <2> QED
    BY <2>1, <2>2, <2>3, <2>4, <2>5, <2>6, <2>7, <2>8 DEF IInv
<1>14. ASSUME NEW t \in Api \cup NavApi, NavCancelFlag(t) PROVE IInv'
  BY <1>14 DEF NavCancelFlag, NavReturn
<1>15. ASSUME NEW t \in Api \cup NavApi, NavCancelJoin(t) PROVE IInv'
  <2>1. TypeOK'
    BY <1>15 DEF NavCancelJoin, NavReturn
  <2>2. PlaceInv'
    BY <1>15 DEF NavCancelJoin, NavReturn
  <2>3. LockInv'
    BY <1>15 DEF NavCancelJoin, NavReturn
  <2>4. NavInv'
    BY <1>15 DEF NavCancelJoin, NavReturn
  <2>5. TaskInv'
    BY <1>15 DEF NavCancelJoin, NavReturn
  <2>6. SensorCancelScoped'
    BY <1>15 DEF NavCancelJoin, NavReturn
  <2>7. NavCancelScoped'
    BY <1>15 DEF NavCancelJoin, NavReturn
  <2>8. (CanceledIsFinal /\ NavNotLeftPaused)'
    BY <1>15 DEF NavCancelJoin, NavReturn
  <2> QED
    BY <2>1, <2>2, <2>3, <2>4, <2>5, <2>6, <2>7, <2>8 DEF IInv
<1>16. ASSUME NEW t \in Api \cup NavApi, NavCancelClear(t) PROVE IInv'
  <2>1. TypeOK'
    <3>1. NavReturn(t) \in PCs
      BY <1>16 DEF NavCancelClear, NavReturn
    <3>2. pc' \in [Threads -> PCs]
      BY <1>16, <3>1 DEF NavCancelClear
    <3>3. navpipe' \in Nat
      BY <1>16 DEF NavCancelClear
    <3> QED
      BY ZenonT(30), <1>16, <3>2, <3>3 DEF NavCancelClear
  <2>2. PlaceInv'
    BY <1>16 DEF NavCancelClear, NavReturn
  <2>3. LockInv'
    BY <1>16 DEF NavCancelClear, NavReturn
  <2>4. NavInv'
    BY <1>16 DEF NavCancelClear, NavReturn
  <2>5. TaskInv'
    BY <1>16 DEF NavCancelClear, NavReturn
  <2>6. SensorCancelScoped'
    BY <1>16 DEF NavCancelClear, NavReturn
  <2>7. NavCancelScoped'
    BY <1>16 DEF NavCancelClear, NavReturn
  <2>8. (CanceledIsFinal /\ NavNotLeftPaused)'
    BY <1>16 DEF NavCancelClear, NavReturn
  <2> QED
    BY <2>1, <2>2, <2>3, <2>4, <2>5, <2>6, <2>7, <2>8 DEF IInv
<1>17. ASSUME NEW t \in NavApi, NEW b \in BOOLEAN, SetEnabled(t, b) PROVE IInv'
  BY <1>17 DEF SetEnabled
<1>18. ASSUME NEW t \in NavApi, SetEnabledRun(t) PROVE IInv'
  BY <1>18 DEF SetEnabledRun
<1>19. CASE TaskWaits \/ TaskEnds
  BY <1>19 DEF TaskWaits, TaskEnds
<1>20. CASE IrqHigh(HalW, "tee") \/ IrqLow(HalW)
        \/ PollCancelled(HalW, pipe, "tee_end") \/ PollInterrupt(HalW, pipe)
        \/ IrqFails(HalW, "tee_end")
  BY <1>20 DEF IrqHigh, IrqLow, PollCancelled, PollInterrupt, IrqFails
<1>21. CASE IrqHigh(NavW, "check") \/ IrqLow(NavW)
        \/ PollCancelled(NavW, navpipe, "exit") \/ PollInterrupt(NavW, navpipe)
        \/ IrqFails(NavW, "exit")
  BY <1>21 DEF IrqHigh, IrqLow, PollCancelled, PollInterrupt, IrqFails
<1>22. CASE NavInit \/ NavCheckCancel \/ NavPollData \/ NavExit
  BY <1>22 DEF NavInit, NavCheckCancel, NavPollData, NavExit, NavStep
<1>23. CASE UNCHANGED vars
  BY <1>23 DEF vars
<1> HIDE DEF IInv
<1> QED
  BY <1>1, <1>2, <1>3, <1>4, <1>5, <1>6, <1>7, <1>8, <1>9, <1>10, <1>11,
     <1>12, <1>13, <1>14, <1>15, <1>16, <1>17, <1>18, <1>19, <1>20, <1>21,
     <1>22, <1>23, <1>p
     DEF Next, ApiStep, NavApiStep, HalStep, NavWStep, Interrupt

(* Type correctness of the composed HAL, for any sets of threads. *)
THEOREM HalTypeCorrect == Spec => []TypeOK
<1>1. IInv => TypeOK
  BY DEF IInv
<1> QED
  BY InitIInv, NextIInv, <1>1, PTL DEF Spec

(* No interleaving of API calls, HAL tasks, navigation loops and set_enabled
   calls lets two of them use tee->shared_buffer, however many threads call:
   an overlap always has a pre_recalibrate_pn in it. *)
THEOREM HalOnlyChallengeOverlaps == Spec => []OnlyChallengeOverlaps
<1>1. ASSUME IInv PROVE OnlyChallengeOverlaps
  <2> SUFFICES ASSUME NEW s \in Threads, NEW t \in Threads, InTee(s), InTee(t),
                      ~At(s, "pn_tee"), ~At(t, "pn_tee")
               PROVE  s = t
    BY DEF OnlyChallengeOverlaps
  <2> USE <1>1, HalAssumption DEF IInv, InTee, At, HalIdle, NavIdle
  <2>1. CASE s \in Api /\ t \in Api
    BY <2>1 DEF LockInv, TypeOK
  <2>2. ASSUME NEW a \in Api, pc[a] = "tee" PROVE pc[HalW] = "off" /\ pc[NavW] = "off"
    BY <2>2 DEF TaskInv, NavInv, TypeOK
  <2>3. ~(InTee(HalW) /\ InTee(NavW))
    BY DEF TaskInv, NavInv, TypeOK
  <2> QED
    BY <2>1, <2>2, <2>3 DEF Threads
<1> QED
  BY InitIInv, NextIInv, <1>1, PTL DEF Spec

(* The byte and the flag of goto_idle never reach a later task, nor do those
   of navigation's cancel a later loop. *)
THEOREM HalCancelScoped == Spec => []CancelScoped
<1>1. IInv => CancelScoped
  BY DEF IInv, CancelScoped
<1> QED
  BY InitIInv, NextIInv, <1>1, PTL DEF Spec

(* Every path out of the HAL resumes navigation or leaves a task that will. *)
THEOREM HalNavNotLeftPaused == Spec => []NavNotLeftPaused
<1>1. IInv => NavNotLeftPaused
  BY DEF IInv
<1> QED
  BY InitIInv, NextIInv, <1>1, PTL DEF Spec

(* fpc_cancel reports ERROR_CANCELED only once no framework task executes. *)
THEOREM HalCanceledIsFinal == Spec => []CanceledIsFinal
<1>1. IInv => CanceledIsFinal
  BY DEF IInv
<1> QED
  BY InitIInv, NextIInv, <1>1, PTL DEF Spec
=============================================================================

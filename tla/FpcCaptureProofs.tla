-------------------------- MODULE FpcCaptureProofs --------------------------
(***************************************************************************)
(* The safety properties of FpcCapture proved for every build (with or     *)
(* without the finger-lost interrupt, with every force configuration and   *)
(* every number of transfers, qualify rounds and attempts) and for every   *)
(* number of failures.                                                     *)
(***************************************************************************)
EXTENDS FpcCapture, TLAPS

(* The counters below their limits, whatever is running. *)
Bounded ==
    /\ build \in Builds
    /\ pc # "idle" => failed < MaxAttempts

(* A finger that is off the sensor has been lifted since the last image, and
   so has one that made the line rise after the finger-lost set-up. *)
LineMeansLifted ==
    /\ ~down => lifted
    /\ mode = "lost" /\ line => lifted

(* Where the task is past the finger-lost wait, the finger was lifted; with
   the interrupt, status says so before the check whose result is dropped. *)
PastLost ==
    /\ pc \in {"lost_setup", "lost_read", "lost_poll"} => LostInterrupt
    /\ pc \in {"lost_read", "lost_poll"} => mode = "lost"
    /\ pc = "lost_check" /\ LostInterrupt /\ status = "ok" => lifted
    /\ pc \in {"down_setup", "down_read", "down_poll", "capture"} => lifted

(* What the end of the task relies on: a cancelled status comes from a
   cancel, and the key is down only until the release is waited for. *)
EndsWell ==
    /\ pc # "idle" /\ status = "cancelled" => cancelled
    /\ key = "down" /\ UpForce =>
          \/ pc = "release"
          \/ pc = "idle" /\ (cancelled \/ status \in Errors)

IInv == LeavesClean /\ Bounded /\ LineMeansLifted /\ PastLost /\ EndsWell /\ OneImagePerTouch

(* The invariant holds initially. *)
LEMMA InitIInv == Init => IInv
<1> SUFFICES ASSUME Init PROVE IInv
  OBVIOUS
<1> USE CaptureAssumption
<1>1. /\ MaxTransferRetries \in Nat \ {0} /\ MaxQualify \in Nat \ {0}
      /\ MaxAttempts \in Nat \ {0}
  BY DEF Init, MaxTransferRetries, MaxQualify, MaxAttempts
<1>2. TypeOK
  <2>1. {cancelled, line, down, lifted} \subseteq BOOLEAN
    BY DEF Init
  <2> QED
    BY <1>1, <2>1 DEF Init, TypeOK, Places, Results
<1> QED
  BY <1>1, <1>2 DEF Init, IInv, LeavesClean, Bounded, LineMeansLifted, PastLost, EndsWell,
                    OneImagePerTouch

(* Where the result r of the command at p sends the task, and what becomes of
   status and counters: the common part of every command's action. *)
ReturnedTo(p, r) ==
    /\ pc' \in {"lost_read", "lost_check", "down_setup", "down_read", "image", "out"}
    /\ pc' = "lost_read" => p = "lost_setup" /\ r = "ok"
    /\ pc' = "lost_check" => p = "lost_check" /\ ~LostInterrupt
    /\ pc' = "down_setup" => \/ p = "capture" /\ r = "lost"
                             \/ p = "lost_check" /\ IF LostInterrupt THEN status = "ok"
                                                     ELSE r = "ok"
    /\ pc' = "down_read" => p = "down_setup"
    /\ pc' = "image" => p = "sleep"
    /\ status' \in Results
    /\ status' = "cancelled" => r = "cancelled" \/ status = "cancelled"
    /\ tries' = 0 /\ round' \in 0 .. MaxQualify - 1

(* A command of the capture loop returns to one of the places above. *)
LEMMA ReturnedFacts ==
    ASSUME IInv, NEW p \in Commands, NEW r \in Results, pc = p, Returned(p, r)
    PROVE  ReturnedTo(p, r)
<1> USE CaptureAssumption
<1> USE DEF IInv, LeavesClean, TypeOK, Bounded, Returned, Then, Kept, Results, Errors,
            ReturnedTo
<1>1. MaxQualify \in Nat \ {0}
  BY DEF MaxQualify
<1>2. CASE p = "lost_setup"
  BY <1>1, <1>2
<1>3. CASE p = "lost_check"
  BY <1>1, <1>3
<1>4. CASE p = "down_setup"
  BY <1>1, <1>4
<1>5. CASE p = "capture"
  BY <1>1, <1>5
<1>6. CASE p = "sleep"
  BY <1>1, <1>6
<1> QED
  BY <1>2, <1>3, <1>4, <1>5, <1>6 DEF Commands

(* Every step keeps the invariant: one case per action. *)
LEMMA NextIInv == IInv /\ [Next]_vars => IInv'
<1> SUFFICES ASSUME IInv, [Next]_vars PROVE IInv'
  OBVIOUS
<1> USE CaptureAssumption
<1>r. ASSUME NEW r \in Results, pc \in Commands, Returned(pc, r)
      PROVE  ReturnedTo(pc, r)
  BY <1>r, ReturnedFacts
<1> USE DEF IInv, LeavesClean, TypeOK, Bounded, LineMeansLifted, PastLost, EndsWell,
            OneImagePerTouch, Places, Commands, Waits, Errors, Results
<1>1. /\ MaxTransferRetries \in Nat \ {0} /\ MaxQualify \in Nat \ {0}
      /\ MaxAttempts \in Nat \ {0}
  BY DEF MaxTransferRetries, MaxQualify, MaxAttempts
<1>2. /\ build' = build
      /\ MaxTransferRetries' = MaxTransferRetries /\ MaxQualify' = MaxQualify
      /\ MaxAttempts' = MaxAttempts /\ LostInterrupt' = LostInterrupt /\ UpForce' = UpForce
      /\ ForceSensor' = ForceSensor /\ DownForce' = DownForce
  BY DEF Next, vars, MaxTransferRetries, MaxQualify, MaxAttempts, LostInterrupt, UpForce,
         ForceSensor, DownForce
<1>3. CASE FingerMoves
  BY <1>1, <1>2, <1>3 DEF FingerMoves, task
<1>4. CASE LineRises
  BY <1>1, <1>2, <1>4 DEF LineRises, task, finger
<1>5. CASE SetCancel
  BY <1>1, <1>2, <1>5 DEF SetCancel, task, finger
<1>6. CASE Authenticate
  <2>b. {cancelled', line', down', lifted'} \subseteq BOOLEAN
    BY <1>6 DEF Authenticate, finger
  <2> QED
    BY <2>b, <1>1, <1>2, <1>6 DEF Authenticate, finger
<1>7. CASE CommandFails
  <2>1. PICK e \in {"comm", "io"} : Returned(pc, e)
    BY <1>7 DEF CommandFails
  <2> QED
    BY <1>1, <1>2, <1>7, <2>1, <1>r DEF ReturnedTo, CommandFails, finger
<1>8. CASE CommandResets
  <2>b. {cancelled', line', down', lifted'} \subseteq BOOLEAN
    BY <1>8 DEF CommandResets, finger
  <2>1. CASE tries + 1 < MaxTransferRetries
    BY <2>b, <1>1, <1>2, <1>8, <2>1 DEF CommandResets, finger
  <2>2. CASE ~(tries + 1 < MaxTransferRetries)
    <3>1. Returned(pc, "hardware")
      BY <1>8, <2>2 DEF CommandResets
    <3> QED
      BY <2>b, <1>1, <1>2, <1>8, <3>1, <1>r DEF ReturnedTo, CommandResets, finger
  <2> QED
    BY <2>1, <2>2
<1>9. CASE LostSetup
  <2>b. {cancelled', line', down', lifted'} \subseteq BOOLEAN
    BY <1>9 DEF LostSetup, Executes, finger
  <2>1. pc = "lost_setup" /\ Returned(pc, "ok")
    BY <1>9 DEF LostSetup, Executes
  <2> QED
    BY <2>b, <1>1, <1>2, <1>9, <2>1, <1>r DEF ReturnedTo, LostSetup, Executes, finger
<1>10. CASE DownSetup
  <2>b. {cancelled', line', down', lifted'} \subseteq BOOLEAN
    BY <1>10 DEF DownSetup, Executes, finger
  <2>1. pc = "down_setup" /\ Returned(pc, "ok")
    BY <1>10 DEF DownSetup, Executes
  <2> QED
    BY <2>b, <1>1, <1>2, <1>10, <2>1, <1>r DEF ReturnedTo, DownSetup, Executes, finger
<1>11. CASE CheckLost
  <2>b. {cancelled', line', down', lifted'} \subseteq BOOLEAN
    BY <1>11 DEF CheckLost, Executes, finger
  <2>1. ASSUME NEW r \in {"ok", "retry", "stuck"}, r = "ok" => ~down,
               Executes("lost_check", r, "awake"), UNCHANGED finger
        PROVE  IInv'
    <3>1. pc = "lost_check" /\ Returned(pc, r)
      BY <2>1 DEF Executes
    <3> QED
      BY <2>b, <1>1, <1>2, <2>1, <3>1, <1>r DEF ReturnedTo, Executes, finger
  <2> QED
    BY <1>11, <2>1 DEF CheckLost
<1>12. CASE CheckCancelled
  BY <1>1, <1>2, <1>12 DEF CheckCancelled, finger
<1>13. CASE QualifyCapture
  <2>b. {cancelled', line', down', lifted'} \subseteq BOOLEAN
    BY <1>13 DEF QualifyCapture, Executes, finger
  <2>1. img' # "stale" /\ img' \in {"none", "fresh", "stale"}
    BY <1>13 DEF QualifyCapture, Executes, finger
  <2>2. CASE Executes("capture", "ok", "image")
    <3>1. pc = "capture" /\ Returned(pc, "ok")
      BY <2>2 DEF Executes
    <3> QED
      BY <2>b, <1>1, <1>2, <1>13, <2>1, <2>2, <3>1, <1>r
         DEF ReturnedTo, QualifyCapture, Executes, finger
  <2>3. CASE Executes("capture", "lost", "awake") /\ UNCHANGED finger
    <3>1. pc = "capture" /\ Returned(pc, "lost")
      BY <2>3 DEF Executes
    <3> QED
      BY <2>b, <1>1, <1>2, <2>1, <2>3, <3>1, <1>r DEF ReturnedTo, Executes, finger
  <2> QED
    BY <1>13, <2>2, <2>3 DEF QualifyCapture
<1>14. CASE DeepSleep
  <2>b. {cancelled', line', down', lifted'} \subseteq BOOLEAN
    BY <1>14 DEF DeepSleep, Executes, finger
  <2>1. pc = "sleep" /\ Returned(pc, "ok")
    BY <1>14 DEF DeepSleep, Executes
  <2> QED
    BY <2>b, <1>1, <1>2, <1>14, <2>1, <1>r DEF ReturnedTo, DeepSleep, Executes, finger
<1>15. CASE ReadHigh
  BY <1>1, <1>2, <1>15 DEF ReadHigh, Waited, finger
<1>16. CASE ReadLow
  BY <1>1, <1>2, <1>16 DEF ReadLow, Polls, finger
<1>17. CASE Poll
  BY <1>1, <1>2, <1>17 DEF Poll, Waited, Reads, finger
<1>18. CASE IrqFails
  BY <1>1, <1>2, <1>18 DEF IrqFails, Waited, finger
<1>19. CASE WakeupEnable
  BY <1>1, <1>2, <1>19 DEF WakeupEnable, AfterEnable, finger
<1>20. CASE Out
  BY <1>1, <1>2, <1>20 DEF Out, finger
<1>21. CASE HandleImage
  BY <1>1, <1>2, <1>21 DEF HandleImage, NotMatched, Ends, finger
<1>22. CASE ButtonDown
  BY <1>1, <1>2, <1>22 DEF ButtonDown, Touched, Ends, finger
<1>23. CASE ButtonUp
  BY <1>1, <1>2, <1>23 DEF ButtonUp, Touched, Ends, finger
<1>24. CASE Identify
  BY <1>1, <1>2, <1>24 DEF Identify, NotMatched, Ends, finger
<1>25. CASE UNCHANGED vars
  BY <1>1, <1>2, <1>25 DEF vars, system, task, finger
<1> QED
  BY <1>3, <1>4, <1>5, <1>6, <1>7, <1>8, <1>9, <1>10, <1>11, <1>12, <1>13, <1>14, <1>15,
     <1>16, <1>17, <1>18, <1>19, <1>20, <1>21, <1>22, <1>23, <1>24, <1>25
     DEF Next, TaskStep

(* Type correctness of the capture, for every build and number of faults. *)
THEOREM CaptureTypeCorrect == Spec => []TypeOK
<1>1. IInv => TypeOK
  BY DEF IInv, LeavesClean
<1> QED
  BY InitIInv, NextIInv, <1>1, PTL DEF Spec

(* A touch gives at most one image: in every build the finger-lost wait of
   fpc_tee_capture_image stands between any two images, through any number of
   resets, retries, rounds, failures and tasks. *)
THEOREM CaptureOneImagePerTouch == Spec => []OneImagePerTouch
<1>1. IInv => OneImagePerTouch
  BY DEF IInv
<1> QED
  BY InitIInv, NextIInv, <1>1, PTL DEF Spec

(* A capture without an image leaves the sensor asleep, reset or its sleep
   command failed; do_authenticate is silent only when it was cancelled; the
   sense touch key stays down only after a cancelled or failed release. *)
THEOREM CaptureLeavesClean == Spec => []LeavesClean
<1>1. IInv => LeavesClean
  BY DEF IInv
<1> QED
  BY InitIInv, NextIInv, <1>1, PTL DEF Spec
=============================================================================

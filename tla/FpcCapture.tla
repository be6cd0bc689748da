----------------------------- MODULE FpcCapture -----------------------------
(***************************************************************************)
(* Capturing images for an authentication: do_authenticate with            *)
(* capture_image and sense_touch_capture_image (fpc_tee_hal.c), the sensor *)
(* client (fpc_tee_sensor.c) with its interrupt and reset devices, and the *)
(* sensor module of the trusted application (fpc_ta_sensor.c).             *)
(*                                                                         *)
(* One task runs; the finger comes and goes, the interrupt line rises and  *)
(* another thread cancels at any time.  A command to the trusted           *)
(* application fails in the transfer, answers an error, or asks for a      *)
(* hardware reset and is tried again.  The sensor itself is external: its  *)
(* line rises on a lifted finger after the finger-lost set-up, and on a    *)
(* touch or on noise after the wake-up set-up.                             *)
(***************************************************************************)
EXTENDS Naturals

CONSTANTS Builds,       \* builds and configurations, with the bounds explored for each
          MaxFaults     \* bound on failures of the environment

ASSUME CaptureAssumption ==
    /\ Builds \subseteq [lostInterrupt : BOOLEAN,   \* FPC_CONFIG_FINGER_LOST_INTERRUPT
                         force : BOOLEAN,           \* FPC_CONFIG_FORCE_SENSOR
                         down : BOOLEAN,            \* auth_enable_down_force
                         up : BOOLEAN,              \* auth_enable_up_force
                         retries : Nat \ {0},       \* MAX_TRANSFER_RETRIES
                         qualify : Nat \ {0},       \* MAX_QUALIFY_CAPTURE_RETRIES
                         attempts : Nat \ {0}]      \* FPC_MAX_FAILED_ATTEMPTS
    /\ MaxFaults \in Nat

VARIABLES build,      \* the build and the configuration that run
          pc, status,
          tries,      \* transfers of the command under way
          round,      \* qualify rounds of fpc_tee_capture_image
          failed,     \* failed_attempts of do_authenticate
          cancelled,  \* sensor->cancelled and the cancel pipe
          line,       \* the interrupt line
          mode,       \* what the sensor was last set up for
          down,       \* a finger is on the sensor
          lifted,     \* history: it was lifted since the last image
          img,        \* history: was the last image of a new touch
          key,        \* the sense touch key event the task reported last
          told,       \* history: what the framework was told last
          faults

LostInterrupt == build.lostInterrupt
ForceSensor == build.force
DownForce == build.down
UpForce == build.up
MaxTransferRetries == build.retries
MaxQualify == build.qualify
MaxAttempts == build.attempts

task == <<pc, status, tries, round, failed>>
finger == <<down, lifted, img>>
system == <<task, cancelled, line, mode, finger, key, told, faults>>
vars == <<build, system>>

Commands == {"lost_setup", "lost_check", "down_setup", "capture", "sleep"}
Waits == {"lost_read", "lost_poll", "down_read", "down_poll"}
Places == Commands \cup Waits
            \cup {"idle", "enable", "out", "image", "press", "release", "identify"}
Errors == {"comm", "io", "hardware"}
Results == Errors \cup {"ok", "cancelled", "lost", "abort", "stuck", "retry"}

TypeOK ==
    /\ pc \in Places /\ status \in Results
    /\ tries \in 0 .. MaxTransferRetries - 1
    /\ round \in 0 .. MaxQualify - 1
    /\ failed \in 0 .. MaxAttempts
    /\ {cancelled, line, down, lifted} \subseteq BOOLEAN
    /\ mode \in {"sleep", "reset", "awake", "lost", "down", "image", "unknown"}
    /\ img \in {"none", "fresh", "stale"}
    /\ key \in {"up", "down"}
    /\ told \in {"nothing", "match", "nomatch", "error", "silent"}
    /\ faults \in 0 .. MaxFaults

Init ==
    /\ build \in Builds
    /\ pc = "idle" /\ status = "ok" /\ tries = 0 /\ round = 0 /\ failed = 0
    /\ cancelled = FALSE /\ line = FALSE /\ mode = "sleep"
    /\ down = FALSE /\ lifted = TRUE /\ img = "none"
    /\ key = "up" /\ told = "nothing" /\ faults = 0

-----------------------------------------------------------------------------
(* The environment: the finger, the line and the thread that cancels.      *)

FingerMoves ==
    /\ down' = ~down
    /\ lifted' = (lifted \/ down)
    /\ UNCHANGED <<task, cancelled, line, mode, img, key, told, faults>>

LineRises ==
    /\ ~line
    /\ mode = "down" \/ (mode = "lost" /\ ~down)
    /\ line' = TRUE
    /\ UNCHANGED <<task, cancelled, mode, finger, key, told, faults>>

\* fpc_tee_set_cancel, by a thread that goes on to join the task.
SetCancel ==
    /\ pc # "idle" /\ ~cancelled
    /\ cancelled' = TRUE
    /\ UNCHANGED <<task, line, mode, finger, key, told, faults>>

-----------------------------------------------------------------------------
(* The task's places.  Where a result sends it:                            *)

\* Variant for the sensitivity check: no finger-lost wait.
AfterEnableNoWait == "down_setup"

AfterEnable == IF LostInterrupt THEN "lost_setup" ELSE "lost_check"

\* The place after the command at p has returned r; the result of the
\* finger-lost check after an interrupt, and of the sleep, is dropped.
Then(p, r) ==
    CASE p = "lost_setup" -> IF r = "ok" THEN "lost_read" ELSE "out"
      [] p = "lost_check" ->
            IF LostInterrupt
            THEN IF status = "ok" THEN "down_setup" ELSE "out"
            ELSE CASE r = "ok" -> "down_setup"
                   [] r = "retry" -> "lost_check"
                   [] OTHER -> "out"
      [] p = "down_setup" -> IF r = "ok" THEN "down_read" ELSE "out"
      [] p = "capture" -> IF r = "lost" /\ round + 1 < MaxQualify
                          THEN "down_setup" ELSE "out"
      [] p = "sleep" -> "image"

Kept(p) == p = "sleep" \/ (p = "lost_check" /\ LostInterrupt)

Returned(p, r) ==
    /\ pc' = Then(p, r)
    /\ tries' = 0
    /\ status' = CASE Kept(p) -> status
                   [] p = "capture" /\ r = "lost" /\ round + 1 = MaxQualify -> "abort"
                   [] p = "lost_check" /\ r = "retry" -> status
                   [] OTHER -> r
    /\ round' = IF p = "capture" /\ Then(p, r) = "down_setup" THEN round + 1 ELSE round

\* sensor_transfer gives up at once when the transfer fails, and so when the
\* handler could not start or stop talking to the sensor, or on another error.
CommandFails ==
    /\ pc \in Commands /\ faults < MaxFaults
    /\ faults' = faults + 1
    /\ \E e \in {"comm", "io"} : Returned(pc, e)
    /\ mode' = "unknown"
    /\ UNCHANGED <<failed, cancelled, line, finger, key, told>>

\* The answer is FPC_ERROR_RESET_HARDWARE: reset the sensor and try again.
CommandResets ==
    /\ pc \in Commands /\ faults < MaxFaults
    /\ faults' = faults + 1
    /\ mode' = "reset" /\ line' = FALSE
    /\ IF tries + 1 < MaxTransferRetries
       THEN tries' = tries + 1 /\ UNCHANGED <<pc, status, round>>
       ELSE Returned(pc, "hardware")
    /\ UNCHANGED <<failed, cancelled, finger, key, told>>

Executes(p, r, m) ==
    /\ pc = p
    /\ Returned(p, r)
    /\ mode' = m /\ line' = FALSE
    /\ UNCHANGED <<failed, cancelled, key, told, faults>>

LostSetup == Executes("lost_setup", "ok", "lost") /\ UNCHANGED finger

DownSetup == Executes("down_setup", "ok", "down") /\ UNCHANGED finger

\* fpc_ta_check_finger_lost: lost only if no finger is there.
CheckLost ==
    /\ LostInterrupt \/ ~cancelled
    /\ \/ ~down /\ Executes("lost_check", "ok", "awake")
       \/ Executes("lost_check", "retry", "awake")
       \/ ~LostInterrupt /\ Executes("lost_check", "stuck", "awake")
    /\ UNCHANGED finger

\* The polling loop looks at the cancel flag before each check.
CheckCancelled ==
    /\ pc = "lost_check" /\ ~LostInterrupt /\ cancelled
    /\ pc' = "out" /\ status' = "cancelled"
    /\ UNCHANGED <<tries, round, failed, cancelled, line, mode, finger, key,
                   told, faults>>

\* fpc_ta_qualify_capture: qualify, poll for 30 ms, then take the image.
QualifyCapture ==
    \/ /\ down
       /\ Executes("capture", "ok", "image")
       /\ img' = IF lifted THEN "fresh" ELSE "stale"
       /\ lifted' = FALSE
       /\ UNCHANGED down
    \/ Executes("capture", "lost", "awake") /\ UNCHANGED finger

DeepSleep == Executes("sleep", "ok", "sleep") /\ UNCHANGED finger

-----------------------------------------------------------------------------
(* fpc_irq_wait: read the line, then poll line and cancel pipe.            *)

Polls(p) == IF p = "lost_read" THEN "lost_poll" ELSE "down_poll"
Reads(p) == IF p = "lost_poll" THEN "lost_read" ELSE "down_read"

\* A wait ends: the finger-lost wait checks the sensor whatever the outcome.
Waited(p, r) ==
    /\ status' = r
    /\ pc' = IF p \in {"lost_read", "lost_poll"} THEN "lost_check"
             ELSE IF r = "ok" THEN "capture" ELSE "out"

ReadHigh ==
    /\ pc \in {"lost_read", "down_read"} /\ line
    /\ Waited(pc, "ok")
    /\ UNCHANGED <<tries, round, failed, cancelled, line, mode, finger, key,
                   told, faults>>

ReadLow ==
    /\ pc \in {"lost_read", "down_read"} /\ ~line
    /\ pc' = Polls(pc)
    /\ UNCHANGED <<status, tries, round, failed, cancelled, line, mode, finger,
                   key, told, faults>>

\* Variant for the sensitivity check: the cancel pipe is not polled.
PollLineOnly ==
    /\ pc \in {"lost_poll", "down_poll"} /\ line
    /\ pc' = Reads(pc)
    /\ UNCHANGED <<status, tries, round, failed, cancelled, line, mode, finger, key,
                   told, faults>>

Poll ==
    /\ pc \in {"lost_poll", "down_poll"}
    /\ \/ cancelled /\ Waited(pc, "cancelled")
       \/ ~cancelled /\ line /\ pc' = Reads(pc) /\ UNCHANGED status
    /\ UNCHANGED <<tries, round, failed, cancelled, line, mode, finger, key,
                   told, faults>>

IrqFails ==
    /\ pc \in Waits /\ faults < MaxFaults
    /\ faults' = faults + 1
    /\ Waited(pc, "io")
    /\ UNCHANGED <<tries, round, failed, cancelled, line, mode, finger, key, told>>

-----------------------------------------------------------------------------
(* fpc_tee_capture_image: wake-up source on, ..., wake-up source off.  The *)
(* node only tells the kernel whether the line may wake the system.        *)

WakeupEnable ==
    /\ pc = "enable"
    /\ \/ pc' = AfterEnable /\ status' = "ok" /\ UNCHANGED faults
       \/ /\ faults < MaxFaults /\ faults' = faults + 1
          /\ pc' = "out" /\ status' = "io"
    /\ round' = 0
    /\ UNCHANGED <<tries, failed, cancelled, line, mode, finger, key, told>>

\* Variant for the sensitivity check: only a negative status puts the sensor to sleep.
OutErrorsOnly ==
    /\ pc = "out"
    /\ pc' = IF status \in {"ok", "abort"} THEN "image" ELSE "sleep"
    /\ UNCHANGED <<status, tries, round, failed, cancelled, line, mode, finger, key,
                   told, faults>>

Out ==
    /\ pc = "out"
    /\ pc' = IF status = "ok" THEN "image" ELSE "sleep"
    /\ UNCHANGED <<status, tries, round, failed, cancelled, line, mode, finger, key,
                   told, faults>>

-----------------------------------------------------------------------------
(* sense_touch_capture_image and do_authenticate.                          *)

\* do_authenticate ends with r; what is reported depends on r alone.
Ends(r) ==
    /\ pc' = "idle"
    /\ status' = r
    /\ told' = CASE r = "ok" -> told [] r = "cancelled" -> "silent" [] OTHER -> "error"

\* on_authenticated(0): one more failed attempt, the last one ends the task.
NotMatched ==
    /\ failed' = failed + 1
    /\ IF failed + 1 >= MaxAttempts
       THEN pc' = "idle" /\ status' = "cancelled"
       ELSE pc' = "enable" /\ status' = "ok"
    /\ told' = "nomatch"

HandleImage ==
    /\ pc = "image"
    /\ CASE status = "ok" ->
              /\ pc' = IF ForceSensor /\ DownForce THEN "press"
                       ELSE IF ForceSensor /\ UpForce THEN "release" ELSE "identify"
              /\ UNCHANGED <<status, failed, told>>
         [] status \in {"abort", "stuck"} -> NotMatched
         [] OTHER -> Ends(status) /\ UNCHANGED failed
    /\ UNCHANGED <<tries, round, cancelled, line, mode, finger, key, faults>>

\* sense_touch_capture_image returns r: FPC_CAPTURE_RETRY captures again.
Touched(r) ==
    IF r = "retry" THEN pc' = "enable" /\ UNCHANGED <<status, told>> ELSE Ends(r)

\* fpc_tee_wait_for_button_down_force, one turn of its loop.
ButtonDown ==
    /\ pc = "press"
    /\ \/ faults < MaxFaults /\ faults' = faults + 1 /\ Touched("comm") /\ UNCHANGED key
       \/ ~down /\ Touched("retry") /\ UNCHANGED <<key, faults>>
       \/ cancelled /\ Touched("cancelled") /\ UNCHANGED <<key, faults>>
       \/ /\ ~cancelled
          /\ \/ Touched("retry") /\ UNCHANGED key              \* timed out
             \/ /\ key' = "down"
                /\ pc' = IF UpForce THEN "release" ELSE "identify"
                /\ UNCHANGED <<status, told>>
          /\ UNCHANGED faults
    /\ UNCHANGED <<tries, round, failed, cancelled, line, mode, finger>>

\* fpc_tee_wait_for_button_up_force, one turn of its loop.
ButtonUp ==
    /\ pc = "release"
    /\ \/ faults < MaxFaults /\ faults' = faults + 1 /\ Touched("comm") /\ UNCHANGED key
       \/ cancelled /\ Touched("cancelled") /\ UNCHANGED <<key, faults>>
       \/ /\ ~cancelled
          /\ key' = "up"
          /\ \/ Touched("retry")                               \* timed out
             \/ pc' = "identify" /\ UNCHANGED <<status, told>>
          /\ UNCHANGED faults
    /\ UNCHANGED <<tries, round, failed, cancelled, line, mode, finger>>

\* fpc_tee_identify and what follows: a match ends the task, a mismatch
\* counts, an image of bad quality does not.
Identify ==
    /\ pc = "identify"
    /\ \/ /\ pc' = "idle" /\ told' = "match" /\ UNCHANGED <<status, failed, faults>>
       \/ NotMatched /\ UNCHANGED faults
       \/ pc' = "enable" /\ UNCHANGED <<status, failed, told, faults>>
       \/ /\ faults < MaxFaults /\ faults' = faults + 1
          /\ Ends("comm") /\ UNCHANGED failed
    /\ UNCHANGED <<tries, round, cancelled, line, mode, finger, key>>

\* fpc_authenticate, after goto_idle has cleared an earlier cancel.
Authenticate ==
    /\ pc = "idle"
    /\ pc' = "enable" /\ status' = "ok" /\ failed' = 0
    /\ cancelled' = FALSE /\ told' = "nothing" /\ key' = "up"
    /\ UNCHANGED <<tries, round, line, mode, finger, faults>>

TaskStep ==
    \/ CommandFails \/ CommandResets
    \/ LostSetup \/ DownSetup \/ CheckLost \/ CheckCancelled \/ QualifyCapture \/ DeepSleep
    \/ ReadHigh \/ ReadLow \/ Poll \/ IrqFails
    \/ WakeupEnable \/ Out \/ HandleImage \/ ButtonDown \/ ButtonUp \/ Identify

Next ==
    /\ FingerMoves \/ LineRises \/ SetCancel \/ Authenticate \/ TaskStep
    /\ UNCHANGED build

\* The task is scheduled, and a set-up sometimes wins its race with the line.
Fairness == WF_system(TaskStep) /\ SF_system(ReadLow)

Spec == Init /\ [][Next]_vars /\ Fairness

-----------------------------------------------------------------------------
(* Properties.                                                             *)

\* A touch gives at most one image: the finger-lost wait of
\* fpc_tee_capture_image stands between any two images, through resets,
\* retries, rounds and new tasks.
OneImagePerTouch == img # "stale"

\* What a task leaves behind, whatever failed on the way: a capture that gave
\* no image leaves the sensor asleep or freshly reset, or its sleep command
\* failed (fpc_tee_capture_image puts it to sleep on every status but 0); an
\* authentication ends without a word only when it was cancelled; and the sense
\* touch key stays down only where the wait for the release was cancelled or
\* failed, never after a timeout or used-up attempts.
LeavesClean ==
    /\ TypeOK
    /\ pc = "image" /\ status # "ok" => mode \in {"sleep", "reset", "unknown"}
    /\ told = "silent" => cancelled
    /\ pc = "idle" /\ key = "down" /\ UpForce => cancelled \/ status \in Errors

\* A cancelled authentication ends, whatever finger and line do
\* (goto_idle joins the task).
CancelEnds == cancelled ~> pc = "idle"
=============================================================================

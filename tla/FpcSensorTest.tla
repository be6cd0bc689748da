--------------------------- MODULE FpcSensorTest ----------------------------
(***************************************************************************)
(* The sensor test extension: FingerprintSensorTest.java, the services of  *)
(* the same name (HIDL and legacy binder), fpc_hal_ext_sensortest.c, its   *)
(* TEE client and fpc_ta_sensortest.c.                                     *)
(*                                                                         *)
(* The application's calls are executed one by one by the service's only   *)
(* thread; tests and captures run on the HAL's worker; their results go    *)
(* back as one-way messages.  The vendor's test library, the interrupt pin *)
(* and the finger are external: a command fails in the transfer, answers   *)
(* an error, or reports a good or a bad sensor.                            *)
(***************************************************************************)
EXTENDS Integers, FiniteSets, Sequences

CONSTANTS Scenarios,  \* [hidl, patient, supported, product], one per behaviour
          MaxStarts,  \* bound: tests and captures started
          MaxCalls,   \* bound: the other calls
          MaxFaults   \* bound: failing TEE commands

\* Checkerboard; reset pixel, AFD calibration and PN image; image quality;
\* the two AFD rubber stamp tests; module quality; OTP validation.
Always == {"self", "checker"}
Optional == {"pixel", "quality", "stamp", "module", "otp"}
Tests == Always \cup Optional \cup {"unknown"}
Captures == {"wait", "snapshot", "uncalibrated", "wait_uncalibrated"}

ASSUME SensorTestAssumption ==
    /\ Scenarios \subseteq [hidl : BOOLEAN, patient : BOOLEAN,
                            supported : SUBSET Optional,
                            product : {"1028", "1245", "other"}]
    /\ {MaxStarts, MaxCalls, MaxFaults} \subseteq Nat

VARIABLES
    scenario,         \* the service, the application and the sensor
    jtest, jcap,      \* mSensorTestCallback, mCaptureCallback of the Java object
    got,              \* history: what each request's callback received
    queue,            \* one-way messages on their way to the application
    alive, notices,   \* the application lives; death notices still to come
    testCb, capCb,    \* the service's callbacks are set
    isTest, isCap,    \* mSensorTest, mCapture
    bpc, bop,         \* the service's thread: place, call
    cancelled,        \* sensor->cancelled
    wpc, wkind, wreq, \* the worker: place, kind of task, its request
    status, bad,      \* status, and whether result says that the sensor is bad
    fetch, limit,     \* image_fetched, the SNR limit of the module quality test
    pin, sent,        \* the last pin reading, and the result field sent last
    testMode,         \* the sensor is in the mode of the self test
    img,              \* the request whose image the trusted application holds
    listed,           \* the tests getSensorTests returned
    starts, calls, faults,
    wrong,            \* history: something was wrong in the running test
    leftOn,           \* history: the self test's clean-up failed
    crashed           \* the service called a callback that was cleared

java == <<jtest, jcap, got, queue>>
death == <<alive, notices>>
svc == <<testCb, capCb, isTest, isCap>>
binder == <<bpc, bop>>
task == <<wkind, wreq>>
data == <<status, bad, fetch, limit, pin, sent>>
ta == <<testMode, img>>
bounds == <<starts, calls>>
hist == <<wrong, leftOn>>
testvars == <<java, death, svc, binder, cancelled, wpc, task, data, ta, listed, bounds,
              faults, hist, crashed, scenario>>

Hidl == scenario.hidl           \* the HIDL service, otherwise the legacy one
Patient == scenario.patient     \* the application waits for an answer before the next start
Supported == scenario.supported \* the optional tests the trusted application supports
Product == scenario.product     \* product type of the sensor

Requests == 1 .. MaxStarts

\* module_quality_test_limits: SNR thresholds by product type.
SnrLimit == [p \in {"1028", "1245"} |-> IF p = "1028" THEN 9 ELSE 3]
Snrs == {2, 5, 9}
NoLimit == -1

TestTypeOK ==
    /\ scenario \in Scenarios
    /\ {jtest, jcap} \subseteq 0 .. MaxStarts
    /\ notices \subseteq {"test", "capture"}
    /\ {alive, testCb, capCb, isTest, isCap, cancelled, bad, fetch, testMode, wrong,
        leftOn, crashed} \subseteq BOOLEAN
    /\ bpc \in {"free", "module", "join", "return"}
    /\ bop \in Tests \cup Captures \cup {"cancel", "info", "tests"}
    /\ wpc \in {"off", "test", "init", "pin0", "selftest", "pin1", "clean", "pin2", "abort",
                "down", "command", "limits", "otp", "image", "answer", "send", "capture",
                "cap_answer", "cap_send"}
    /\ wkind \in Tests \cup Captures /\ wreq \in 0 .. MaxStarts
    /\ status \in {"ok", "cancelled", "unsupported", "sensor", "error", "io", "quality"}
    /\ pin \in {"none", "low", "high"} /\ sent \in {"none", "low", "high", "junk"}
    /\ limit \in Snrs \cup {3, NoLimit}
    /\ img \in 0 .. MaxStarts
    /\ listed \subseteq Always \cup Optional
    /\ starts \in 0 .. MaxStarts /\ calls \in 0 .. MaxCalls /\ faults \in 0 .. MaxFaults

TestInit ==
    /\ scenario \in Scenarios
    /\ jtest = 0 /\ jcap = 0 /\ got = [n \in Requests |-> <<>>] /\ queue = <<>>
    /\ alive = TRUE /\ notices = {}
    /\ testCb = FALSE /\ capCb = FALSE /\ isTest = FALSE /\ isCap = FALSE
    /\ bpc = "free" /\ bop = "cancel" /\ cancelled = FALSE
    /\ wpc = "off" /\ wkind = "unknown" /\ wreq = 0
    /\ status = "ok" /\ bad = FALSE /\ fetch = FALSE /\ limit = NoLimit
    /\ pin = "none" /\ sent = "none" /\ testMode = FALSE /\ img = 0
    /\ listed = {}
    /\ starts = 0 /\ calls = 0 /\ faults = 0
    /\ wrong = FALSE /\ leftOn = FALSE /\ crashed = FALSE

-----------------------------------------------------------------------------
(* The application and the service's calls.                                *)

Call(o) == bpc = "free" /\ ~crashed /\ bop' = o
Worker == <<wpc, task, data, ta, faults, hist>>

Unanswered == {n \in Requests : got[n] = <<>>}

\* runSensorTest: the service replaces its callback, then calls the module;
\* the HIDL service gives up when a name or the limits are too long.
JavaRunSensorTest(k) ==
    /\ alive /\ starts < MaxStarts /\ Call(k)
    /\ bpc' \in IF Hidl /\ k = "unknown" THEN {"free", "module"} ELSE {"module"}
    /\ Patient => jtest \notin Unanswered
    /\ starts' = starts + 1 /\ jtest' = starts + 1
    /\ testCb' = TRUE
    /\ UNCHANGED <<jcap, got, queue, death, capCb, isTest, isCap, cancelled, Worker, listed,
                   calls, crashed, scenario>>

\* capture: the module refuses to wait for a finger uncalibrated.
JavaCapture(k) ==
    /\ alive /\ starts < MaxStarts /\ Call(k)
    /\ Patient => jcap \notin Unanswered
    /\ bpc' = IF k = "wait_uncalibrated" THEN "free" ELSE "module"
    /\ starts' = starts + 1 /\ jcap' = starts + 1
    /\ capCb' = TRUE
    /\ UNCHANGED <<jtest, got, queue, death, testCb, isTest, isCap, cancelled, Worker, listed,
                   calls, crashed, scenario>>

\* cancelSensorTest of the service: callback first, then the running test.
CancelSensorTest ==
    /\ testCb' = FALSE
    /\ bpc' = IF isTest THEN "module" ELSE "free"
    /\ UNCHANGED <<isTest, isCap>>

CancelCapture ==
    /\ capCb' = FALSE
    /\ bpc' = IF isCap THEN "module" ELSE "free"
    /\ UNCHANGED <<isTest, isCap>>

JavaCancelSensorTest ==
    /\ alive /\ calls < MaxCalls /\ Call("cancel")
    /\ CancelSensorTest /\ UNCHANGED capCb
    /\ calls' = calls + 1
    /\ UNCHANGED <<java, death, cancelled, Worker, listed, starts, crashed, scenario>>

JavaCancelCapture ==
    /\ alive /\ calls < MaxCalls /\ Call("cancel")
    /\ CancelCapture /\ UNCHANGED testCb
    /\ calls' = calls + 1
    /\ UNCHANGED <<java, death, cancelled, Worker, listed, starts, crashed, scenario>>

\* getSensorInfo, getSensorTests.
JavaGet(o) ==
    /\ alive /\ calls < MaxCalls /\ Call(o) /\ bpc' = "module"
    /\ calls' = calls + 1
    /\ UNCHANGED <<java, death, svc, cancelled, Worker, listed, starts, crashed, scenario>>

\* The callback on the application's handler thread.
JavaOnResult ==
    LET n == IF Head(queue).test THEN jtest ELSE jcap IN
    /\ alive /\ queue # <<>>
    /\ queue' = Tail(queue)
    /\ got' = [got EXCEPT ![n] = Append(@, Head(queue).req)]
    /\ UNCHANGED <<jtest, jcap, death, svc, binder, cancelled, Worker, listed, bounds,
                   crashed, scenario>>

Dies ==
    /\ alive /\ calls < MaxCalls /\ bpc = "free" /\ ~crashed
    /\ alive' = FALSE /\ calls' = calls + 1
    /\ notices' = {c \in {"test", "capture"} : IF c = "test" THEN testCb ELSE capCb}
    /\ UNCHANGED <<java, svc, binder, cancelled, Worker, listed, starts, crashed, scenario>>

\* serviceDied of the HIDL service: a dead test callback also clears the
\* capture callback, whose own notice is then not recognised.
ServiceDied(c) ==
    \/ c = "test" /\ testCb /\ CancelSensorTest /\ capCb' = FALSE
    \/ c = "capture" /\ capCb /\ CancelCapture /\ UNCHANGED testCb
    \/ ~(IF c = "test" THEN testCb ELSE capCb) /\ bpc' = "free" /\ UNCHANGED svc

\* binderDied of the legacy service stops nothing.
BinderDied(c) ==
    /\ testCb' = (testCb /\ c # "test") /\ capCb' = (capCb /\ c # "capture")
    /\ bpc' = "free" /\ UNCHANGED <<isTest, isCap>>

DeathNotice(c) ==
    /\ c \in notices /\ Call("cancel")
    /\ notices' = notices \ {c}
    /\ IF Hidl THEN ServiceDied(c) ELSE BinderDied(c)
    /\ UNCHANGED <<java, alive, cancelled, Worker, listed, bounds, crashed, scenario>>

-----------------------------------------------------------------------------
(* The module's calls, under hal->lock.                                    *)

Fault == faults < MaxFaults /\ faults' = faults + 1

\* fingerprint_hal_goto_idle cancels the running task...
GotoIdle ==
    /\ bpc = "module" /\ ~crashed
    /\ cancelled' = (wpc # "off") /\ bpc' = "join"
    /\ UNCHANGED <<java, death, svc, bop, Worker, listed, bounds, crashed, scenario>>

\* The list of an answer to is_test_supported for every optional test; a
\* query that fails leaves its test out.
TestsListed(failed) == Always \cup (Supported \ failed)

GetSensorTests ==
    /\ bop = "tests" /\ bpc' = "free"
    /\ \/ listed' = TestsListed({}) /\ UNCHANGED faults
       \/ \E t \in Optional : Fault /\ listed' = TestsListed({t})
    /\ UNCHANGED <<wpc, task, status, bad, fetch, limit, pin, sent, wrong>>

\* run_sensor_test and capture start the task: module->uncalibrated = false.
StartTask ==
    /\ bop \in Tests \cup Captures /\ bpc' = "return"
    /\ wkind' = bop /\ wpc' = IF bop \in Tests THEN "test" ELSE "capture"
    /\ wreq' = IF bop \in Tests THEN jtest ELSE jcap
    /\ UNCHANGED <<data, wrong, listed, faults>>

\* ...and waits for it; cancel_sensor_test, cancel_capture and
\* get_sensor_info only resume.
Joined ==
    /\ bpc = "join" /\ wpc = "off" /\ ~crashed
    /\ cancelled' = FALSE
    /\ \/ GetSensorTests
       \/ StartTask
       \/ /\ bop \in {"cancel", "info"} /\ bpc' = "free"
          /\ UNCHANGED <<wpc, task, data, listed, faults, wrong>>
    /\ UNCHANGED <<java, death, svc, bop, ta, leftOn, bounds, crashed, scenario>>

\* Back in the service, which notes that the task runs.
ReturnStarted ==
    /\ bpc = "return" /\ ~crashed
    /\ bpc' = "free"
    /\ isTest' = (isTest \/ bop \in Tests)
    /\ isCap' = (isCap \/ bop \in Captures)
    /\ UNCHANGED <<java, death, testCb, capCb, bop, cancelled, Worker, listed, bounds,
                   crashed, scenario>>

-----------------------------------------------------------------------------
(* The worker: do_run_sensor_test and the TEE client.                      *)

At(p) == wpc = p /\ ~crashed
Outside == <<java, death, svc, binder, cancelled, listed, bounds, crashed, scenario>>
Rest == <<Outside, task>>

\* do_run_sensor_test chooses the test by its name.
DoRunSensorTest ==
    /\ At("test")
    /\ wpc' = CASE wkind = "self" -> "init"
                [] wkind \in {"checker", "pixel"} -> "command"
                [] wkind \in {"quality", "stamp"} -> "down"
                [] wkind = "module" -> "limits"
                [] wkind = "otp" -> "otp"
                [] OTHER -> "answer"
    /\ status' = IF wkind = "unknown" THEN "unsupported" ELSE "ok"
    /\ fetch' = (wkind \in {"checker", "quality"})
    /\ UNCHANGED <<Rest, bad, limit, pin, sent, testMode, img, faults, wrong, leftOn>>

\* fpc_tee_sensortest_test_command sends the result field as it is: the
\* self test passes 0, or the uninitialised temp_result.
TestCommand(s) == sent' = s

SelfTestInit ==
    /\ At("init") /\ TestCommand("junk")
    /\ \/ testMode' = TRUE /\ wpc' = "pin0" /\ UNCHANGED <<status, faults, wrong>>
       \/ Fault /\ testMode' \in BOOLEAN /\ wpc' = "abort" /\ status' = "sensor"
          /\ wrong' = TRUE
    /\ UNCHANGED <<Rest, bad, fetch, limit, pin, img, leftOn>>

\* Variant for the sensitivity check: an unexpected level is not an error.
ReadPinLax(p, expect, next) ==
    /\ At(p)
    /\ \E level \in {"low", "high"} :
          /\ pin' = level /\ wrong' = (wrong \/ level # expect)
          /\ wpc' = next /\ status' = "ok" /\ UNCHANGED bad
    /\ UNCHANGED <<Rest, fetch, limit, sent, testMode, img, faults, leftOn>>

\* fpc_tee_status_irq and the check of its level.
ReadPin(p, expect, next) ==
    /\ At(p)
    /\ \/ \E level \in {"low", "high"} :
             /\ pin' = level /\ wrong' = (wrong \/ level # expect)
             /\ wpc' = IF level = expect THEN next ELSE "abort"
             /\ bad' = (bad \/ level # expect) /\ status' = "ok"
       \/ /\ wpc' = "abort" /\ status' = "sensor" /\ wrong' = TRUE
          /\ UNCHANGED <<pin, bad>>
    /\ UNCHANGED <<Rest, fetch, limit, sent, testMode, img, faults, leftOn>>

\* fpc_ta_sensortest_handler and map_result: a bad sensor, or an error.
TaResult ==
    \/ bad' = FALSE /\ status' = "ok" /\ UNCHANGED <<faults, wrong>>
    \/ bad' = TRUE /\ status' = "ok" /\ wrong' = TRUE /\ UNCHANGED faults
    \/ status' = "error" /\ bad' \in BOOLEAN /\ Fault /\ wrong' = TRUE

\* Variant for the sensitivity check: a failed self test does not clean up.
SelfTestKeepsMode ==
    /\ At("selftest") /\ TestCommand("low")
    /\ TaResult
    /\ wpc' = IF bad' \/ status' # "ok" THEN "answer" ELSE "pin1"
    /\ UNCHANGED <<Rest, fetch, limit, pin, testMode, img, leftOn>>

SelfTest ==
    /\ At("selftest") /\ TestCommand("low")
    /\ TaResult
    /\ wpc' = IF bad' \/ status' # "ok" THEN "abort" ELSE "pin1"
    /\ UNCHANGED <<Rest, fetch, limit, pin, testMode, img, leftOn>>

\* The clean-up: it fails in the transfer before or after it was done.
Cleaned(ok) == testMode' = FALSE /\ wpc' = ok /\ UNCHANGED <<faults, leftOn>>
CleanUpFails == Fault /\ testMode' \in {FALSE, testMode} /\ leftOn' = TRUE /\ wpc' = "answer"

SelfTestCleanUp ==
    /\ At("clean") /\ TestCommand("junk")
    /\ \/ Cleaned("pin2") /\ UNCHANGED <<status, wrong>>
       \/ CleanUpFails /\ status' = "sensor" /\ wrong' = TRUE
    /\ UNCHANGED <<Rest, bad, fetch, limit, pin, img>>

\* Label clean: its failure is ignored.
SelfTestAbort ==
    /\ At("abort") /\ TestCommand("junk")
    /\ Cleaned("answer") \/ CleanUpFails
    /\ UNCHANGED <<Rest, status, bad, fetch, limit, pin, img, wrong>>

\* fpc_tee_wait_finger_down.
WaitFingerDown ==
    /\ At("down")
    /\ \/ wpc' = "command" /\ UNCHANGED <<status, faults, wrong>>
       \/ Fault /\ wpc' = "image" /\ status' = "error" /\ wrong' = TRUE
    /\ UNCHANGED <<Rest, bad, fetch, limit, pin, sent, testMode, img, leftOn>>

WaitCancelled ==
    /\ At("down") /\ cancelled
    /\ wpc' = "image" /\ status' = "cancelled" /\ wrong' = TRUE
    /\ UNCHANGED <<Rest, bad, fetch, limit, pin, sent, testMode, img, faults, leftOn>>

\* get_module_quality_test_limit: the table's row, or the caller's override.
ModuleLimit ==
    /\ At("limits")
    /\ \/ /\ Product \in DOMAIN SnrLimit
          /\ limit' \in {SnrLimit[Product], 5}
          /\ wpc' = "down" /\ fetch' = TRUE
          /\ UNCHANGED <<status, faults, wrong>>
       \/ /\ Product \notin DOMAIN SnrLimit
          /\ wpc' = "answer" /\ status' = "unsupported" /\ wrong' = TRUE
          /\ UNCHANGED <<fetch, limit, faults>>
       \/ /\ Fault /\ wpc' = "answer" /\ status' = "error" /\ wrong' = TRUE
          /\ UNCHANGED <<fetch, limit>>
    /\ UNCHANGED <<Rest, bad, pin, sent, testMode, img, leftOn>>

\* fpc_tee_sensortest_run_module_quality_test.
ModuleResult ==
    \/ \E snr \in Snrs :
          /\ bad' = (snr < limit) /\ wrong' = (snr < limit)
          /\ status' = "ok" /\ UNCHANGED faults
    \/ TaResult /\ (bad' \/ status' # "ok")

\* A test that ran leaves its image in the trusted application.
TestImage == IF status' = "ok" /\ fetch THEN wreq ELSE img

\* A test the trusted application does not have answers so.
RunCommand ==
    /\ At("command")
    /\ wpc' = IF fetch THEN "image" ELSE "answer"
    /\ IF wkind \in Optional \ Supported
       THEN status' = "unsupported" /\ wrong' = TRUE /\ UNCHANGED <<bad, faults, img>>
       ELSE /\ IF wkind = "module" THEN ModuleResult ELSE TaResult
            /\ img' = TestImage
    /\ sent' = IF wkind = "module" THEN sent ELSE "low"
    /\ UNCHANGED <<Rest, fetch, limit, pin, testMode, leftOn>>

\* OTP validation: fpc_tee_get_sensor_otp_info and its bit errors.
OtpValidation ==
    /\ At("otp") /\ wpc' = "answer"
    /\ IF "otp" \in Supported THEN TaResult
       ELSE status' = "error" /\ wrong' = TRUE /\ UNCHANGED <<bad, faults>>
    /\ UNCHANGED <<Rest, fetch, limit, pin, sent, testMode, img, leftOn>>

\* fpc_hal_ext_get_raw_image, whatever became of the test.
FetchImage ==
    /\ At("image") /\ wpc' = "answer"
    /\ \/ UNCHANGED <<fetch, faults>>
       \/ Fault /\ fetch' = FALSE
    /\ UNCHANGED <<Rest, status, bad, limit, pin, sent, testMode, img, wrong, leftOn>>

ResultCode ==
    IF status = "ok" THEN IF bad THEN "fail" ELSE "pass"
    ELSE IF status \in {"cancelled", "unsupported"} THEN status ELSE "error"

Message(test, code) ==
    [req |-> wreq, test |-> test, code |-> code, wrong |-> wrong,
     image |-> IF test /\ fetch THEN img ELSE 0]

\* The task returns: its local variables are gone.
TaskEnds ==
    /\ wpc' = "off" /\ wkind' = "unknown" /\ wreq' = 0
    /\ status' = "ok" /\ bad' = FALSE /\ fetch' = FALSE /\ limit' = NoLimit
    /\ pin' = "none" /\ sent' = "none" /\ wrong' = FALSE

\* testOnResult, captureOnAcquired and captureOnError look at the callback...
CheckCallback(p, set, next) ==
    /\ At(p)
    /\ IF set THEN wpc' = next /\ UNCHANGED <<task, data, wrong>> ELSE TaskEnds
    /\ UNCHANGED <<java, death, testCb, capCb, binder, cancelled, ta, listed, bounds,
                   faults, leftOn, crashed, scenario>>

TestOnResult ==
    /\ CheckCallback("answer", testCb, "send")
    /\ isTest' = (isTest /\ ~testCb) /\ UNCHANGED isCap

CaptureOnResult ==
    /\ CheckCallback("cap_answer", capCb, "cap_send")
    /\ isCap' = (isCap /\ ~capCb) /\ UNCHANGED isTest

\* ...and call it; a cancel may have cleared it in between.
Send(p, set, msgs) ==
    /\ At(p) /\ TaskEnds
    /\ queue' = IF set THEN queue \o msgs ELSE queue
    /\ crashed' = ~set
    /\ UNCHANGED <<jtest, jcap, got, death, svc, binder, cancelled, ta, listed, bounds,
                   faults, leftOn, scenario>>

\* Variant for the sensitivity check: the result goes out twice.
SendTestResultTwice ==
    Send("send", testCb, <<Message(TRUE, ResultCode), Message(TRUE, ResultCode)>>)

\* Variant for the sensitivity check: only a test that ran is answered.
SendTestResultIfRan ==
    Send("send", testCb, IF status = "ok" THEN <<Message(TRUE, ResultCode)>> ELSE <<>>)

SendTestResult == Send("send", testCb, <<Message(TRUE, ResultCode)>>)

-----------------------------------------------------------------------------
(* do_capture.                                                             *)

\* fpc_tee_capture_image or fpc_tee_capture_snapshot; an abort, a stuck and
\* a lost finger try again.  FPC_CAPTURE_OK and BAD_QUALITY are answered,
\* EINTR, IO and CANCELLED too, and other errors are not.
CaptureEnds ==
    /\ At("capture")
    /\ \/ /\ status' \in {"ok", "quality"} /\ img' = wreq /\ wpc' = "cap_answer"
          /\ UNCHANGED <<task, bad, fetch, limit, pin, sent, wrong, faults>>
       \/ /\ Fault /\ status' = "io" /\ wpc' = "cap_answer"
          /\ UNCHANGED <<task, bad, fetch, limit, pin, sent, wrong, img>>
       \/ Fault /\ TaskEnds /\ UNCHANGED img
    /\ UNCHANGED <<Outside, testMode, leftOn>>

CaptureCancelled ==
    /\ At("capture") /\ wkind = "wait" /\ cancelled
    /\ status' = "cancelled" /\ wpc' = "cap_answer"
    /\ UNCHANGED <<Rest, bad, fetch, limit, pin, sent, testMode, img, faults, wrong, leftOn>>

SendCaptureResult ==
    Send("cap_send", capCb,
         <<Message(FALSE, IF status \in {"ok", "quality"} THEN status ELSE "error")>>)

-----------------------------------------------------------------------------
FingerComes == WaitFingerDown \/ CaptureEnds

WorkerStep ==
    \/ DoRunSensorTest \/ SelfTestInit \/ SelfTest \/ SelfTestCleanUp \/ SelfTestAbort
    \/ ReadPin("pin0", "low", "selftest")
    \/ ReadPin("pin1", "high", "clean")
    \/ ReadPin("pin2", "low", "answer")
    \/ ModuleLimit \/ RunCommand \/ OtpValidation \/ FetchImage
    \/ TestOnResult \/ SendTestResult
    \/ CaptureOnResult \/ SendCaptureResult

ServiceStep == GotoIdle \/ Joined \/ ReturnStarted \/ \E c \in {"test", "capture"} : DeathNotice(c)

TestNext ==
    \/ \E k \in Tests : JavaRunSensorTest(k)
    \/ \E k \in Captures : JavaCapture(k)
    \/ JavaCancelSensorTest \/ JavaCancelCapture
    \/ \E o \in {"info", "tests"} : JavaGet(o)
    \/ JavaOnResult \/ Dies
    \/ ServiceStep \/ WorkerStep \/ FingerComes \/ WaitCancelled \/ CaptureCancelled

\* Every thread goes on; a cancelled wait ends (FpcCapture); a snapshot needs
\* no finger; the messages are delivered.
Fairness ==
    /\ WF_testvars(ServiceStep) /\ WF_testvars(WorkerStep) /\ WF_testvars(JavaOnResult)
    /\ WF_testvars(WaitCancelled) /\ WF_testvars(CaptureCancelled)
    /\ WF_testvars(wkind # "wait" /\ CaptureEnds)

TestSpec == TestInit /\ [][TestNext]_testvars /\ Fairness

-----------------------------------------------------------------------------
(* Properties.                                                             *)

Messages == {queue[i] : i \in DOMAIN queue}

\* The verdict of a test: "pass" only if every pin reading was the expected
\* one, every command of it succeeded and the library found nothing wrong
\* (do_run_sensor_test, fpc_tee_sensortest_self_test); an image that comes
\* with it is of this very test, not of an earlier capture the trusted
\* application still holds; and a test getSensorTests offered is not refused,
\* except a module quality test without a row in the table of limits.
PassMeansGood ==
    /\ \A m \in Messages : m.code = "pass" => ~m.wrong
    /\ \A m \in Messages :
          m.test /\ m.code \in {"pass", "fail"} /\ m.image # 0 => m.image = m.req
    /\ wpc = "answer" /\ wkind \in listed /\ status = "unsupported" =>
          wkind = "module" /\ Product = "other"

\* However a self test ends, the sensor is not left in the self test's mode
\* unless the clean-up command itself failed (labels clean and out).
SelfTestCleaned == testMode /\ wpc = "off" => leftOn

\* A patient application's callback receives at most one answer, to its own
\* request.  And while a test or a capture runs that still has its callback the
\* service knows it, so that a cancel reaches it, although the flag is set
\* after the task was started and cleared by the task.
OwnAnswer ==
    /\ TestTypeOK
    /\ Patient => \A n \in Requests :
                     Len(got[n]) <= 1 /\ \A i \in DOMAIN got[n] : got[n][i] = n
    /\ bpc = "free" /\ wpc \notin {"off", "send", "cap_send"} =>
          IF wkind \in Tests THEN testCb => isTest ELSE capCb => isCap

\* A call of the service returns, as the task it cancels ends.  A test that
\* waits for no finger is answered, unless the application cancels it or dies.
\* When the application of the HIDL service dies, its running test ends; and
\* its running capture, if no test callback is left to clear the other one's.
TestsEnd ==
    /\ bpc # "free" ~> bpc = "free" \/ crashed
    /\ \A n \in Requests :
          wreq = n /\ wkind \in {"self", "checker", "pixel", "otp", "unknown"} /\ wpc = "test" ~>
              got[n] # <<>> \/ ~testCb \/ ~alive \/ crashed \/ jtest # n
    /\ ~alive /\ Hidl /\ wkind \in Tests /\ testCb ~> wpc = "off" \/ crashed
    /\ ~alive /\ Hidl /\ wkind \in Captures /\ capCb /\ ~testCb ~> wpc = "off" \/ crashed
=============================================================================

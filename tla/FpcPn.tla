-------------------------------- MODULE FpcPn --------------------------------
(***************************************************************************)
(* Calibration of the sensor's pattern noise (PN): the recalibration and   *)
(* calibration extensions (pn/fpc_hal_ext_recalibration.c,                 *)
(* pn/fpc_hal_ext_calibration.c), the PN file (pn/fpc_hal_pn.c), the TEE   *)
(* client fpc_tee_pn.c, the trusted application's fpc_ta_pn.c and the      *)
(* binder services in front of them.                                       *)
(*                                                                         *)
(* recalibrate is authorised: the application asks for a challenge, has a  *)
(* token made for it and presents the token; images of a finger are added  *)
(* until the BioLib session is complete, then the PN image leaves the      *)
(* trusted application, is written to the file and loaded from there.      *)
(* calibrate is the engineering build's shortcut without a token.          *)
(*                                                                         *)
(* A PN image is known by the request that made it.  Messages to the       *)
(* application arrive at once (FpcSensorTest models late ones); only the   *)
(* messages that end a request are recorded.  BioLib, the crypto library,  *)
(* the clock and the finger are external.                                  *)
(***************************************************************************)
EXTENDS Integers, Sequences

CONSTANTS Scenarios,  \* [hidl, faults, starts, calls], one per behaviour
          MaxFaults   \* bound: failures

Kinds == {"transfer", "size", "memory", "write", "load"}

ASSUME PnAssumption ==
    /\ Scenarios \subseteq [hidl : BOOLEAN, faults : SUBSET Kinds, starts : Nat, calls : Nat]
    /\ MaxFaults \in Nat

VARIABLE scenario       \* the services and the failures of this behaviour

Hidl == scenario.hidl          \* the HIDL services, otherwise the legacy ones
Faults == scenario.faults      \* what may fail
MaxStarts == scenario.starts   \* bound: recalibrate and calibrate requests
MaxCalls == scenario.calls     \* bound: challenges, cancels, deaths and restarts

Requests == 1 .. MaxStarts

\* Contents of the PN file, beside the image of a request: no file, a short
\* or mixed one, one longer than an image; 0 is an image of an earlier boot.
None == -1
Torn == -2
Long == -3
Images == 0 .. MaxStarts

\* A token: the challenge it is made for (0: too short to be one) and
\* whether its integrity check holds.
Token == [ch : 0 .. MaxCalls, sound : BOOLEAN]
NoToken == [ch |-> 0, sound |-> FALSE]

MaxTries == 3   \* PN_CALIBRATION_MAX_TRIES

VARIABLES
    jrec, jcal,       \* the application's request behind either Java callback
    challenges,       \* the challenges the application was given
    got,              \* history: the final messages of each request
    alive, notice,    \* the application lives; its death notice is on its way
    rcb, ccb,         \* the services' callbacks are set
    bpc, bop, btok,   \* the service's thread: place, call, token passed
    modCb,            \* status_cb and error_cb of the recalibration module are set
    token, canceled,  \* module->token, module->canceled
    cancelled,        \* sensor->cancelled
    wpc, wkind, wreq, \* the worker: place, kind of task, its request
    status, code,     \* status and error_code of the task
    tries, image,     \* tries of do_calibrate_pn; the image in the HAL's buffer
    outgoing, stale,  \* pn_security.outgoing_challenge, past its lifetime
    incoming,         \* pn_security.incoming_token
    session,          \* the request whose images BioLib collects, 0 for none
    owed,             \* calibrate_finger was called and calibrate_finger_end not yet
    loaded,           \* the PN image in the sensor library
    file, debug,      \* PN_CALIBRATION_PATH and PN_CALIBRATION_DEBUG_PATH
    starts, calls, faults,
    issued            \* history: number of challenges issued

app == <<jrec, jcal, challenges, got, alive, notice>>
svc == <<rcb, ccb, bpc, bop, btok>>
module == <<modCb, token, canceled>>
task == <<wpc, wkind, wreq, status, code, tries, image>>
security == <<outgoing, stale, incoming, issued>>
ta == <<session, owed, loaded>>
files == <<file, debug>>
bounds == <<starts, calls, scenario>>
vars == <<app, svc, module, cancelled, task, security, ta, files, bounds, faults>>

Codes == {"authorization", "failed", "canceled", "memory", "internal"}
Statuses == {"ok", "retry", "failed", "cancelled", "error"}

TypeOK ==
    /\ scenario \in Scenarios
    /\ {jrec, jcal, wreq, session} \subseteq 0 .. MaxStarts
    /\ challenges \subseteq 1 .. MaxCalls /\ got \in [Requests -> Seq({"done"} \cup Codes)]
    /\ {alive, notice, rcb, ccb, modCb, canceled, cancelled, stale, owed} \subseteq BOOLEAN
    /\ bpc \in {"free", "set_cb", "token", "idle", "join", "reset"}
    /\ bop \in {"recal", "cal", "cancel"}
    /\ {btok, token, incoming} \subseteq Token
    /\ wpc \in {"off", "auth", "lost", "down", "finger", "check", "size", "end", "try",
                "save", "load", "answer", "reset", "crashed"}
    /\ wkind \in {"recal", "cal"} /\ status \in Statuses /\ code \in Codes
    /\ tries \in 0 .. MaxTries /\ loaded \in Images \cup {None}
    /\ image \in Images \cup {None, Torn} /\ {file, debug} \subseteq Images \cup {None, Torn, Long}
    /\ {outgoing, issued} \subseteq 0 .. MaxCalls
    /\ starts \in 0 .. MaxStarts /\ calls \in 0 .. MaxCalls /\ faults \in 0 .. MaxFaults

Init ==
    /\ scenario \in Scenarios
    /\ jrec = 0 /\ jcal = 0 /\ challenges = {} /\ got = [n \in Requests |-> <<>>]
    /\ alive = TRUE /\ notice = FALSE /\ rcb = FALSE /\ ccb = FALSE
    /\ bpc = "free" /\ bop = "cancel" /\ btok = NoToken
    /\ modCb = FALSE /\ token = NoToken /\ canceled = FALSE /\ cancelled = FALSE
    /\ wpc = "off" /\ wkind = "recal" /\ wreq = 0 /\ status = "ok" /\ code = "internal"
    /\ tries = 0 /\ image = None
    /\ outgoing = 0 /\ stale = TRUE /\ incoming = NoToken /\ issued = 0
    /\ session = 0 /\ owed = FALSE
    /\ debug = None /\ file \in {None, 0, Torn, Long} /\ loaded = IF file = 0 THEN 0 ELSE None
    /\ starts = 0 /\ calls = 0 /\ faults = 0

Fault(k) == k \in Faults /\ faults < MaxFaults /\ faults' = faults + 1
Running == wpc # "crashed"

-----------------------------------------------------------------------------
(* The application and the services, which have one thread.                *)

Answered(n) == n \notin {k \in Requests : got[k] = <<>>}
CallFrom(o) == alive /\ bpc = "free" /\ Running /\ bop' = o

\* set_recalibration_cb, under module->mutex.
SetRecalibrationCb == modCb' = TRUE

\* recalibrate of the service: its callback, then the module's.
ServiceRecalibrate == rcb' = TRUE /\ SetRecalibrationCb /\ bpc' = "token"

\* recalibrate with a token for a challenge the application was given, a
\* forged one or a short one.  An application waits for the answer to its
\* last request, or cancels it.
JavaRecalibrate ==
    /\ starts < MaxStarts /\ CallFrom("recal") /\ ServiceRecalibrate
    /\ TRUE \in {Answered(jrec), canceled}
    /\ btok' \in [ch : challenges, sound : BOOLEAN] \cup {NoToken}
    /\ starts' = starts + 1 /\ jrec' = starts + 1
    /\ UNCHANGED <<jcal, challenges, got, alive, notice, ccb, token, canceled, cancelled, task,
                   security, ta, files, calls, scenario, faults>>

\* calibrate of the service: its callback; the module's is next.
ServiceCalibrate == ccb' = TRUE /\ bpc' = "set_cb"

\* calibrate, which the Java object calls from a thread of its own.
JavaCalibrate ==
    /\ starts < MaxStarts /\ CallFrom("cal") /\ ServiceCalibrate
    /\ Answered(jcal)
    /\ starts' = starts + 1 /\ jcal' = starts + 1
    /\ UNCHANGED <<jrec, challenges, got, alive, notice, rcb, btok, module, cancelled, task,
                   security, ta, files, calls, scenario, faults>>

\* cancel, by the application or for its death: canceled, then goto_idle.
CancelRecalibration == canceled' = TRUE /\ bpc' = "idle" /\ bop' = "cancel"

JavaCancel ==
    /\ calls < MaxCalls /\ CallFrom("cancel") /\ CancelRecalibration
    /\ calls' = calls + 1
    /\ UNCHANGED <<app, rcb, ccb, btok, modCb, token, cancelled, task, security, ta, files,
                   starts, scenario, faults>>

\* pn_get_challenge; fpc_secure_random may fail after the old one is gone, and
\* the answer may be lost on its way.
PnGetChallenge ==
    \/ /\ issued' = issued + 1 /\ outgoing' = issued + 1 /\ stale' = FALSE
       /\ \/ challenges' = challenges \cup {issued + 1} /\ UNCHANGED faults
          \/ Fault("transfer") /\ UNCHANGED challenges
    \/ Fault("transfer") /\ outgoing' = 0 /\ UNCHANGED <<issued, stale, challenges>>

\* pre_recalibrate_pn: a command without hal->lock, whatever the worker
\* does; a failed one gives the application 0.
PreRecalibratePn == PnGetChallenge /\ UNCHANGED bpc

JavaPreRecalibrate ==
    /\ calls < MaxCalls /\ CallFrom("recal")
    /\ PreRecalibratePn
    /\ calls' = calls + 1
    /\ UNCHANGED <<jrec, jcal, got, alive, notice, rcb, ccb, btok, module, cancelled, task,
                   incoming, ta, files, starts, scenario>>

\* The lifetime of the challenge passes.
Expire ==
    /\ ~stale /\ stale' = TRUE
    /\ UNCHANGED <<app, svc, module, cancelled, task, outgoing, incoming, issued, ta, files,
                   bounds, faults>>

Dies ==
    /\ alive /\ calls < MaxCalls /\ bpc = "free" /\ Running
    /\ alive' = FALSE /\ notice' = rcb /\ calls' = calls + 1
    /\ UNCHANGED <<jrec, jcal, challenges, got, svc, module, cancelled, task, security, ta, files,
                   starts, scenario, faults>>

\* serviceDied cancels and keeps the callback.
ServiceDied == CancelRecalibration /\ UNCHANGED rcb

\* binderDied of the legacy service stops nothing.
BinderDied == rcb' = FALSE /\ UNCHANGED <<bpc, bop, canceled>>

DeathNotice ==
    /\ notice /\ notice' = FALSE /\ bpc = "free" /\ Running
    /\ IF Hidl THEN ServiceDied ELSE BinderDied
    /\ UNCHANGED <<jrec, jcal, challenges, got, alive, ccb, btok, modCb, token, cancelled, task,
                   security, ta, files, bounds, faults>>

-----------------------------------------------------------------------------
(* The modules' calls on the service's thread.                             *)

\* set_calibration_cb: do_calibrate_pn holds module->mutex all along.
SetCalibrationCb ==
    /\ bpc = "set_cb" /\ Running
    /\ TRUE \in {wpc = "off", wkind # "cal"}
    /\ bpc' = "idle"
    /\ UNCHANGED <<app, rcb, ccb, bop, btok, module, cancelled, task, security, ta, files, bounds,
                   faults>>

\* recalibrate_pn stores the token before it takes hal->lock.
StoreToken ==
    /\ bpc = "token" /\ Running
    /\ canceled' = FALSE
    /\ \/ token' = btok /\ bpc' = "idle" /\ UNCHANGED faults
       \/ Fault("memory") /\ token' = NoToken /\ bpc' = "free"
    /\ UNCHANGED <<app, rcb, ccb, bop, btok, modCb, cancelled, task, security, ta, files, bounds>>

\* Variant for the sensitivity check: the running task is not cancelled.
GotoIdleWithoutCancel ==
    /\ bpc = "idle" /\ Running
    /\ bpc' = "join"
    /\ UNCHANGED <<app, rcb, ccb, bop, btok, module, cancelled, task, security, ta, files, bounds,
                   faults>>

\* fingerprint_hal_goto_idle cancels the running task and waits for it.
GotoIdle ==
    /\ bpc = "idle" /\ Running
    /\ bpc' = "join" /\ cancelled' = TRUE
    /\ UNCHANGED <<app, rcb, ccb, bop, btok, module, task, security, ta, files, bounds, faults>>

Joined ==
    /\ bpc = "join" /\ wpc = "off"
    /\ cancelled' = FALSE
    /\ \/ /\ bop = "cancel" /\ bpc' = "reset" /\ UNCHANGED task
       \/ /\ bop # "cancel" /\ bpc' = "free"
          /\ wkind' = bop /\ wreq' = IF bop = "recal" THEN jrec ELSE jcal
          /\ wpc' = IF bop = "recal" THEN "auth" ELSE "lost"
          /\ status' = "ok" /\ tries' = 0 /\ image' = None /\ UNCHANGED code
    /\ UNCHANGED <<app, rcb, ccb, bop, btok, module, security, ta, files, bounds, faults>>

ResetRecalibration == modCb' = FALSE /\ token' = NoToken

\* cancel_recalibration after fingerprint_hal_resume.
CancelReset ==
    /\ bpc = "reset" /\ Running
    /\ ResetRecalibration /\ bpc' = "free"
    /\ UNCHANGED <<app, rcb, ccb, bop, btok, canceled, cancelled, task, security, ta, files,
                   bounds, faults>>

-----------------------------------------------------------------------------
(* The trusted application.                                                *)

\* pn_validate_incoming_token.
PnValidateIncomingToken(t) ==
    CASE outgoing = 0 \/ t.ch # outgoing -> "error"
      [] stale -> "timed_out"
      [] OTHER -> IF t.sound THEN "ok" ELSE "error"

\* pn_authorize stores a token that is long enough, valid or not.
StoredToken == IF token.ch = 0 THEN incoming ELSE token

PnAuthorize ==
    /\ incoming' = StoredToken
    /\ status' = IF token.ch = 0 THEN "error"
                 ELSE IF PnValidateIncomingToken(token) = "ok" THEN "ok" ELSE "error"
    /\ UNCHANGED faults

\* The transfer fails before or after pn_authorize.
TeePnAuthorize ==
    \/ PnAuthorize
    \/ Fault("transfer") /\ status' = "error" /\ incoming' \in {incoming, StoredToken}

\* fpc_ta_pn_calibrate_finger: no usable image of the finger yet, an image
\* BioLib adds (progress below 100 or complete), or a failure of the
\* sensor, of BioLib or of stopping communication after it.
TaCalibrateFinger ==
    \/ status' = "retry" /\ session' \in {session, wreq} /\ UNCHANGED faults
    \/ status' = "ok" /\ session' = wreq /\ UNCHANGED faults
    \/ status' \in {"failed", "error"} /\ session' \in {session, wreq} /\ Fault("transfer")

\* Variant for the sensitivity check: the token is checked only once.
TaCalibrateFingerEndUnchecked(buffer) ==
    /\ session' = 0 /\ status' = "ok" /\ image' = IF buffer THEN wreq ELSE image
    /\ UNCHANGED faults

\* fpc_ta_pn_calibrate_finger_end: BioLib is cleaned up whatever the token;
\* the PN image leaves for a buffer of its size.
TaCalibrateFingerEnd(buffer) ==
    LET valid == PnValidateIncomingToken(incoming) = "ok" IN
    /\ session' = 0
    /\ \/ /\ status' = IF valid THEN "ok" ELSE "error"
          /\ image' = IF valid /\ buffer THEN wreq ELSE image
          /\ UNCHANGED faults
       \/ valid /\ Fault("transfer") /\ status' = "failed" /\ UNCHANGED image

\* fpc_tee_pn_calibrate_finger_end: the command may not get there.
TeeCalibrateFingerEnd(buffer) ==
    /\ owed' = FALSE
    /\ \/ TaCalibrateFingerEnd(buffer)
       \/ Fault("transfer") /\ status' = "error" /\ UNCHANGED <<session, image>>

\* fpc_ta_pn_load of a file's content; of a damaged file, a failed unwrap is
\* an error, and a length or a magic number that does not fit jumps to the
\* end with error still 0.
TaPnLoad(f) ==
    \/ f >= 0 /\ status' = "ok" /\ loaded' = f
    \/ f < 0 /\ status' \in {"ok", "error"} /\ UNCHANGED loaded

\* fpc_hal_fs_get_filesize and fpc_hal_fs_read fail.
ReadFails == Fault("load")

\* fpc_tee_pn_load; the answer of a load may be lost.
TeePnLoad(f) ==
    \/ TaPnLoad(f) /\ UNCHANGED faults
    \/ Fault("load") /\ status' = "error" /\ loaded' \in {loaded, IF f < 0 THEN loaded ELSE f}

\* fpc_load_pn: nothing to do without a file.
LoadPn ==
    \/ /\ file = None /\ status' = "ok" /\ UNCHANGED <<loaded, faults>>
    \/ file # None /\ TeePnLoad(file)
    \/ ReadFails /\ status' = "error" /\ UNCHANGED loaded

\* fpc_hal_fs_write opens without O_TRUNC: the content of a write of all,
\* or of a part, of the image.
Written(all) == IF file = Long THEN Long ELSE IF all THEN image ELSE Torn

-----------------------------------------------------------------------------
(* The worker: do_recalibrate_pn and do_calibrate_pn.                      *)

At(p) == wpc = p
Outside == <<app, svc, module, cancelled, bounds, wkind, wreq>>
Still == <<Outside, security, files, tries>>

\* The jump to out with a status, and an error_code.
Out(s, c) == status' = s /\ code' = c /\ wpc' = "answer"

Authorize ==
    /\ At("auth") /\ TeePnAuthorize
    /\ code' = IF status' = "ok" THEN code ELSE "authorization"
    /\ wpc' = IF status' = "ok" THEN "lost" ELSE "answer"
    /\ UNCHANGED <<Outside, outgoing, stale, issued, files, tries, image, ta>>

\* fpc_tee_wait_finger_lost; do_recalibrate_pn ignores how it ended.
FingerLost ==
    /\ At("lost")
    /\ \/ wpc' = "down" /\ UNCHANGED <<status, code, faults>>
       \/ cancelled /\ UNCHANGED faults
          /\ IF wkind = "recal" THEN wpc' = "down" /\ UNCHANGED <<status, code>>
             ELSE Out("cancelled", code)
       \/ wkind = "cal" /\ Fault("transfer") /\ Out("error", code)
    /\ UNCHANGED <<Still, image, ta>>

\* A finger comes down.
FingerDown ==
    /\ At("down") /\ ~cancelled
    /\ wpc' = IF wkind = "recal" THEN "finger" ELSE "size"
    /\ UNCHANGED <<Still, status, code, image, ta, faults>>

\* The wait ends without one.
DownEnds ==
    /\ At("down")
    /\ \/ cancelled /\ Out("cancelled", "canceled") /\ UNCHANGED faults
       \/ Fault("transfer") /\ Out("error", "canceled")
    /\ UNCHANGED <<Still, image, ta>>

\* fpc_tee_pn_calibrate_finger.
CalibrateFinger ==
    /\ At("finger") /\ wpc' = "check" /\ owed' = TRUE
    /\ IF cancelled THEN status' = "cancelled" /\ UNCHANGED <<session, faults>>
       ELSE TaCalibrateFinger
    /\ UNCHANGED <<Still, code, image, loaded>>

\* The clean-up calls discard the result of calibrate_finger_end.
CleanUp(s, c) ==
    /\ owed' = FALSE
    /\ \/ session' = 0 /\ UNCHANGED faults
       \/ UNCHANGED session /\ Fault("transfer")
    /\ Out(s, c)

\* The rest of the loop reads module->canceled: a cancel after the last
\* image leaves with status 0.
CheckFinger ==
    /\ At("check")
    /\ \/ /\ status \in {"failed", "cancelled"} \/ canceled
          /\ CleanUp(status, IF canceled THEN "canceled" ELSE "failed")
       \/ /\ status = "retry" /\ ~canceled /\ wpc' = "finger"
          /\ UNCHANGED <<owed, session, faults, status, code>>
       \/ /\ status = "error" /\ ~canceled /\ CleanUp(status, "internal")
       \/ /\ status = "ok" /\ ~canceled /\ wpc' = "size"
          /\ UNCHANGED <<owed, session, faults, status, code>>
    /\ UNCHANGED <<Still, image, loaded>>

\* fpc_ta_pn_get_size fails when the sensor library gives no size.
TaPnGetSize(ok) == IF ok THEN UNCHANGED faults ELSE Fault("size")

\* fpc_tee_pn_get_size fails with it, or on its way there.
TeePnGetSize(ok) == TaPnGetSize(ok)

\* fpc_tee_pn_get_size and malloc; do_calibrate_pn does not look at the
\* pointer and dies when it copies an image to it.
GetSize ==
    /\ At("size")
    /\ \/ TeePnGetSize(TRUE) /\ wpc' = (IF wkind = "recal" THEN "end" ELSE "try")
          /\ UNCHANGED <<status, code>>
       \/ TeePnGetSize(FALSE) /\ Out("error", "internal")
       \/ wkind = "recal" /\ Fault("memory") /\ Out("error", "memory")
       \/ wkind = "cal" /\ Fault("memory") /\ wpc' = "crashed" /\ UNCHANGED <<status, code>>
    /\ UNCHANGED <<Still, image, ta>>

\* fpc_tee_pn_calibrate_finger_end with the buffer.
FingerEnd ==
    /\ At("end") /\ TeeCalibrateFingerEnd(TRUE)
    /\ wpc' = IF status' = "ok" THEN "save" ELSE "answer"
    /\ code' = IF status' = "ok" THEN code ELSE "internal"
    /\ UNCHANGED <<Still, loaded>>

\* fpc_ta_pn_calibrate: the finger must cover the sensor.  When the image
\* cannot be encrypted ret is still the size query's FPC_RESULT_OK, and what
\* the buffer holds leaves as the image.
TaPnCalibrate ==
    \/ status' = "ok" /\ image' = wreq /\ UNCHANGED faults
    \/ status' = "ok" /\ image' = Torn /\ Fault("transfer")
    \/ status' = "retry" /\ UNCHANGED <<image, faults>>

\* fpc_tee_pn_calibrate, with the interrupt's wake-up.
TeePnCalibrate == TaPnCalibrate \/ (Fault("transfer") /\ status' = "failed" /\ UNCHANGED image)

\* A turn of do_calibrate_pn's loop.
CalibrateTry ==
    /\ At("try") /\ tries' = tries + 1 /\ TeePnCalibrate
    /\ wpc' = CASE status' = "ok" -> "save"
                [] status' = "retry" /\ tries + 1 < MaxTries -> "try"
                [] OTHER -> "answer"
    /\ UNCHANGED <<Outside, security, files, code, ta>>

\* fpc_save_pn takes a short write for a success.
SavePn ==
    /\ At("save")
    /\ \/ file' = Written(TRUE) /\ wpc' = "load" /\ UNCHANGED <<status, code, faults>>
       \/ Fault("write") /\ file' = Written(FALSE) /\ wpc' = "load" /\ UNCHANGED <<status, code>>
       \/ Fault("write") /\ Out("error", "internal") /\ UNCHANGED file
    /\ UNCHANGED <<Outside, security, tries, image, ta, debug>>

\* Variant for the sensitivity check: both callbacks get the message.
TellTwice(m) ==
    LET n == IF wkind = "recal" THEN jrec ELSE jcal IN
    got' = [got EXCEPT ![n] = @ \o <<m, m>>]

\* onStatus and onError of the service: its callback may be gone.
OnMessage(n, cb, m) == got' = IF cb /\ alive THEN [got EXCEPT ![n] = Append(@, m)] ELSE got

\* cb_recalibration_status, cb_recalibration_error: unless reset.
TellRecalibration(m) == IF modCb THEN OnMessage(jrec, rcb, m) ELSE UNCHANGED got

\* cb_calibration_status, cb_calibration_error: set before any task.
TellCalibration(m) == OnMessage(jcal, ccb, m)

Tell(m) == IF wkind = "recal" THEN TellRecalibration(m) ELSE TellCalibration(m)
NotApp == <<jrec, jcal, challenges, alive, notice, svc, module, cancelled, bounds, security,
            wreq, code, session, owed, file>>
LeaveTask ==
    /\ wpc' = IF wkind = "recal" THEN "reset" ELSE "off"
    /\ tries' = 0 /\ image' = None

\* fpc_save_pn_debug: the image in use, in the clear, in a file of its own;
\* nobody looks at the result.
SavePnDebug ==
    debug' \in IF status' = "ok" THEN {debug, loaded'} ELSE {debug}

\* Variant for the sensitivity check: DONE before the file is loaded.
LoadAndAnswerEarly ==
    /\ At("load") /\ Tell("done") /\ LoadPn /\ UNCHANGED debug
    /\ LeaveTask
    /\ UNCHANGED <<NotApp, wkind>>

\* fpc_load_pn and DONE.
LoadAndAnswer ==
    /\ At("load") /\ LoadPn /\ SavePnDebug
    /\ IF status' = "ok" THEN Tell("done") ELSE Tell("internal")
    /\ LeaveTask
    /\ UNCHANGED <<NotApp, wkind>>

\* out: an error is told only when status says so.
Answer ==
    /\ At("answer")
    /\ IF status # "ok" THEN Tell(code) ELSE UNCHANGED got
    /\ LeaveTask
    /\ UNCHANGED <<NotApp, wkind, status, loaded, debug, faults>>

TaskReset ==
    /\ At("reset") /\ ResetRecalibration /\ wpc' = "off"
    /\ UNCHANGED <<app, svc, canceled, cancelled, wkind, wreq, status, code, tries, image,
                   security, ta, files, bounds, faults>>

\* The service dies, with the TEE session, and fpc_hal_open loads the file
\* again, whose result it ignores.
Restart ==
    /\ calls < MaxCalls /\ calls' = calls + 1
    /\ rcb' = FALSE /\ ccb' = FALSE /\ bpc' = "free" /\ notice' = FALSE
    /\ modCb' = FALSE /\ token' = NoToken /\ canceled' = FALSE /\ cancelled' = FALSE
    /\ wpc' = "off" /\ status' = "ok" /\ tries' = 0 /\ image' = None
    /\ outgoing' = 0 /\ stale' = TRUE /\ incoming' = NoToken
    /\ session' = 0 /\ owed' = FALSE
    /\ \/ loaded' = (IF file >= 0 THEN file ELSE None) /\ UNCHANGED faults
       \/ Fault("load") /\ loaded' = None
    /\ UNCHANGED <<jrec, jcal, challenges, got, alive, bop, btok, wkind, wreq, code, issued, files,
                   starts, scenario>>

-----------------------------------------------------------------------------
Worker == \/ Authorize \/ FingerLost \/ DownEnds \/ CalibrateFinger \/ CheckFinger \/ GetSize
          \/ FingerEnd \/ CalibrateTry \/ SavePn \/ LoadAndAnswer \/ Answer \/ TaskReset
Service == SetCalibrationCb \/ StoreToken \/ GotoIdle \/ Joined \/ CancelReset \/ DeathNotice

Next ==
    \/ JavaRecalibrate \/ JavaCalibrate \/ JavaCancel \/ JavaPreRecalibrate
    \/ Expire \/ Dies \/ Restart \/ FingerDown
    \/ Service \/ Worker

\* The service's thread and the worker run on; a wait for a finger ends when
\* it is cancelled; nothing says that a finger ever comes or goes.
Fairness ==
    /\ WF_vars(Service)
    /\ WF_vars(Authorize) /\ WF_vars(CalibrateFinger)
    /\ WF_vars(CheckFinger) /\ WF_vars(GetSize) /\ WF_vars(FingerEnd) /\ WF_vars(CalibrateTry)
    /\ WF_vars(SavePn) /\ WF_vars(LoadAndAnswer) /\ WF_vars(Answer) /\ WF_vars(TaskReset)
    /\ WF_vars(FingerLost /\ cancelled) /\ WF_vars(DownEnds /\ cancelled)

Spec == Init /\ [][Next]_vars /\ Fairness

-----------------------------------------------------------------------------
(* Properties.                                                             *)

\* A PN image leaves the trusted application (do_recalibrate_pn's buffer is
\* filled) only while the token presented last is sound, made for the
\* challenge issued last, and that challenge is still alive: neither a
\* challenge asked for during the recalibration nor its age is overlooked.
ReleaseAuthorised ==
    [][wkind = "recal" /\ image' # None /\ image = None =>
          /\ incoming.sound /\ incoming.ch = outgoing
          /\ outgoing # 0 /\ ~stale]_vars

\* The application is told DONE only when the PN image of this request is in
\* the file and in use, unless a failed write or encryption, or a longer file,
\* left a damaged file whose content unwraps to another length or magic number
\* (fpc_ta_pn_load takes it for loaded).
DoneMeansInUse ==
    [][\A n \in Requests :
          got'[n] = Append(got[n], "done") =>
              (loaded' = n /\ file' = n) \/ file' \in {Torn, Long}]_vars

\* A request is answered at most once, and an application that waits for the
\* answer never hears of an older request.  A task that began a BioLib session
\* ends it ("must always be called for proper cleanup in BioLib"), except
\* through the two exits after the size query.  Without failures BioLib
\* collects only images of the running request, and a sound PN file is the
\* image in use.
AnsweredOnce ==
    /\ TypeOK
    /\ \A n \in Requests : Len(got[n]) <= 1
    /\ owed /\ wpc \in {"off", "reset", "answer"} => {"size", "memory"} \cap Faults # {}
    /\ faults = 0 /\ session # 0 => wkind = "recal" /\ session = wreq /\ wpc # "off"
    /\ faults = 0 /\ file >= 0 /\ wpc # "load" => loaded = file

\* The service's thread comes back from every call but a second calibrate that
\* waits for the mutex of a calibration without a finger.  A recalibration does
\* not outlive the application that asked the HIDL service for it.
RequestsEnd ==
    /\ (bpc \in {"token", "idle", "join", "reset"}) ~> (bpc = "free" \/ wpc = "crashed")
    /\ (~alive /\ Hidl /\ wkind = "recal" /\ wpc # "off")
          ~> (wpc \in {"off", "crashed"} \/ wkind = "cal")
=============================================================================

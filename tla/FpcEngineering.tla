--------------------------- MODULE FpcEngineering ---------------------------
(***************************************************************************)
(* The engineering extension, from the application to the trusted          *)
(* application: FingerprintEngineering.java, the services of the same name *)
(* (HIDL and legacy binder), fpc_hal_ext_engineering.c, its TEE client and *)
(* fpc_ta_engineering.c.                                                   *)
(*                                                                         *)
(* Three threads: the application's binder thread, which receives one-way  *)
(* messages; the service's only thread, which executes calls one by one    *)
(* and holds hal->lock while it does; and the HAL's worker.  A critical    *)
(* section of module->mutex is one step.  Which results separate success   *)
(* from failure is kept of the result data, and of the images whether      *)
(* their buffers are allocated.                                            *)
(***************************************************************************)
EXTENDS Naturals, Sequences

CONSTANTS Scenarios,  \* [hidl, injects, subscribes, calls], one per behaviour
          MaxStarts,  \* bound: captures started
          MaxFailures \* bound: failing TEE commands, loads and stores

ASSUME EngineeringAssumption ==
    /\ Scenarios \subseteq [hidl : BOOLEAN, injects : BOOLEAN, subscribes : BOOLEAN,
                            calls : Nat]
    /\ {MaxStarts, MaxFailures} \subseteq Nat

VARIABLES
    scenario,   \* the service and the application of this behaviour
    jcb,        \* mCaptureCallback of the Java object: a request or 0
    got,        \* history: the final results each request's callback received
    queue,      \* one-way messages on their way to the application
    alive,      \* the application lives
    svcCb,      \* mCaptureCallback of the service is set
    isCapture,  \* mIsCapture
    linked,     \* the service is told when the application dies
    modCb,      \* module->capture_cb is set
    subCb,      \* module->img_subscr_cb is set
    injCb,      \* module->img_inj_cb is set
    injWait,    \* is_inj_wait_for_img
    injCancel,  \* is_inj_cancel
    asked,      \* history: the application was asked to cancel its injection
    bpc, bop,   \* the service's thread: place, call
    cancelled,  \* sensor->cancelled
    wpc, wkind, wreq, \* the worker: place, kind of task, its request
    data,       \* the worker's capture_data
    db,         \* the database the trusted application holds
    testDb,     \* the file test.db: a database, or damaged
    unrestored, \* history: the last load of the user's database failed
    starts, calls, failures,
    dbFailed,   \* history: the task could not prepare its test database
    crashed     \* the HAL process called a NULL callback or freed junk

java == <<jcb, got, queue, alive>>
svc == <<svcCb, isCapture, linked>>
inj == <<injCb, injWait, injCancel, asked>>
binder == <<bpc, bop>>
worker == <<wpc, wkind, wreq, data>>
tee == <<db, testDb, unrestored>>
bounds == <<starts, calls, failures, dbFailed>>
engvars == <<java, svc, modCb, subCb, inj, binder, cancelled, worker, tee,
             bounds, crashed, scenario>>

Hidl == scenario.hidl             \* the HIDL service, otherwise the legacy one
Injects == scenario.injects       \* the application injects images
Subscribes == scenario.subscribes \* it subscribes to the images of regular tasks
MaxCalls == scenario.calls        \* bound: the calls other than starts

Requests == 1 .. MaxStarts
Modes == {"capture", "verify", "enroll"}
Kinds == Modes \cup {"auth"}

\* memset(&capture_data, 0): success codes all over, no user, no buffers.
Zeroed == [cap |-> "ok", enr |-> "completed", idr |-> "ok", uid |-> FALSE,
           last |-> TRUE, bufs |-> 0, junk |-> FALSE]

EngineeringTypeOK ==
    /\ scenario \in Scenarios
    /\ jcb \in 0 .. MaxStarts
    /\ alive \in BOOLEAN
    /\ {svcCb, isCapture, linked, modCb, subCb, injCb, injWait, injCancel,
        asked, cancelled, unrestored, dbFailed, crashed} \subseteq BOOLEAN
    /\ bpc \in {"free", "module", "cancel", "join"}
    /\ bop \in Kinds \cup {"challenge", "cancel", "died"}
    /\ wpc \in {"off", "load", "delete", "begin", "cap", "inj", "inj_call", "inj_wait",
                "inj_done", "inj_none", "images", "identify", "update", "enrol", "end", "save",
                "answer", "restore", "sub_check", "sub_send"}
    /\ wkind \in Kinds /\ wreq \in 0 .. MaxStarts
    /\ data.bufs \in 0 .. 2
    /\ db \in {"regular", "empty", "finger", "none"}
    /\ testDb \in {"regular", "empty", "finger", "none", "damaged"}
    /\ starts \in 0 .. MaxStarts /\ calls \in 0 .. MaxCalls /\ failures \in 0 .. MaxFailures

EngineeringInit ==
    /\ scenario \in Scenarios
    /\ jcb = 0 /\ got = [n \in Requests |-> <<>>] /\ queue = <<>> /\ alive = TRUE
    /\ svcCb = FALSE /\ linked = FALSE
    /\ isCapture \in IF Hidl THEN {FALSE} ELSE BOOLEAN
    /\ modCb = FALSE /\ subCb = FALSE
    /\ injCb = FALSE /\ injWait = FALSE /\ injCancel = FALSE /\ asked = FALSE
    /\ bpc = "free" /\ bop = "cancel" /\ cancelled = FALSE
    /\ wpc = "off" /\ wkind = "auth" /\ wreq = 0 /\ data = Zeroed
    /\ db = "regular" /\ testDb = "empty" /\ unrestored = FALSE
    /\ starts = 0 /\ calls = 0 /\ failures = 0 /\ dbFailed = FALSE
    /\ crashed = FALSE

-----------------------------------------------------------------------------
(* The application: FingerprintEngineering.java.                           *)

Call(o) == bpc = "free" /\ ~crashed /\ bop' = o

\* startCapture of the service.  The legacy one links only a callback that
\* replaces another object's: an application's first is never linked.
LinkToDeath == linked' = (linked \/ Hidl)

ServiceStart == svcCb' = TRUE /\ isCapture' = TRUE /\ LinkToDeath

\* startCapture, startVerify, startEnroll.
JavaStart(m) ==
    /\ alive /\ starts < MaxStarts
    /\ jcb = 0                      \* the last result has come
    /\ Call(m) /\ bpc' = "module"
    /\ jcb' = starts + 1
    /\ starts' = starts + 1
    /\ ServiceStart
    /\ UNCHANGED <<got, queue, alive, modCb, subCb, inj, cancelled, worker, tee,
                   calls, failures, dbFailed, crashed, scenario>>

\* mICaptureCallback.onImage for the last result of a capture.
JavaOnImage ==
    /\ queue # <<>>
    /\ queue' = Tail(queue)
    /\ IF alive
       THEN /\ jcb' = 0
            /\ got' = IF jcb = 0 THEN got
                      ELSE [got EXCEPT ![jcb] = Append(@, Head(queue))]
       ELSE UNCHANGED <<jcb, got>>
    /\ UNCHANGED <<alive, svc, modCb, subCb, inj, binder, cancelled, worker, tee,
                   bounds, crashed, scenario>>

\* ImageData, EnrollData and VerifyData: getStatus() of a result.
Ok(r) ==
    /\ r.cap = "ok"
    /\ r.kind = "enroll" => r.enr # "failed"
    /\ r.kind = "verify" => r.idr = "ok"

\* The application dies; binder drops its messages.
Dies ==
    /\ alive /\ alive' = FALSE
    /\ UNCHANGED <<jcb, got, queue, svc, modCb, subCb, inj, binder, cancelled, worker,
                   tee, bounds, crashed, scenario>>

SetImgSubscrCb == subCb' = ~subCb
SetImgInjCb == injCb' = ~injCb

\* startImageSubscription and stopImageSubscription.
ImageSubscription ==
    /\ alive /\ Subscribes /\ Call("cancel") /\ calls < MaxCalls
    /\ calls' = calls + 1
    /\ SetImgSubscrCb
    /\ UNCHANGED <<java, svc, modCb, inj, bpc, cancelled, worker, tee,
                   starts, failures, dbFailed, crashed, scenario>>

\* startImageInjection and stopImageInjection.
ImageInjection ==
    /\ alive /\ Injects /\ Call("cancel") /\ calls < MaxCalls
    /\ calls' = calls + 1
    /\ SetImgInjCb
    /\ UNCHANGED <<java, svc, modCb, subCb, injWait, injCancel, asked, bpc, cancelled,
                   worker, tee, starts, failures, dbFailed, crashed, scenario>>

-----------------------------------------------------------------------------
(* The service's thread.                                                   *)

\* The end of cancelCapture; the legacy service keeps the callback.
ReleaseHidl == isCapture' = FALSE /\ linked' = FALSE /\ svcCb' = FALSE
ReleaseLegacy == isCapture' = FALSE /\ linked' = FALSE /\ UNCHANGED svcCb
Release == IF Hidl THEN ReleaseHidl ELSE ReleaseLegacy

\* cancelCapture of both services.
CancelledCapture == IF isCapture THEN bpc' = "cancel" /\ UNCHANGED svc
                    ELSE bpc' = "free" /\ Release

CancelCapture ==
    /\ alive /\ calls < MaxCalls
    /\ Call("cancel")
    /\ calls' = calls + 1
    /\ CancelledCapture
    /\ UNCHANGED <<java, modCb, subCb, inj, cancelled, worker, tee, starts, failures,
                   dbFailed, crashed, scenario>>

\* serviceDied, binderDied: the capture is cancelled while its callback is set.
ServiceDied ==
    /\ ~alive /\ linked /\ Call("died")
    /\ IF svcCb THEN CancelledCapture ELSE bpc' = "free" /\ Release
    /\ UNCHANGED <<java, modCb, subCb, inj, cancelled, worker, tee, bounds, crashed, scenario>>

\* serviceDied for the subscription and the injection, each linked when it began.
StopOnDeath ==
    /\ ~alive /\ (subCb \/ injCb)
    /\ Call("died")
    /\ subCb' = FALSE /\ injCb' = FALSE
    /\ UNCHANGED <<java, svc, modCb, injWait, injCancel, asked, bpc, cancelled, worker,
                   tee, bounds, crashed, scenario>>

\* The framework's fpc_authenticate, or get_enroll_challenge and
\* set_enroll_token: whatever the worker does is cancelled.
Interrupt(o) ==
    /\ calls < MaxCalls
    /\ Call(o) /\ bpc' = "cancel"
    /\ calls' = calls + 1
    /\ UNCHANGED <<java, svc, modCb, subCb, inj, cancelled, worker, tee, starts, failures,
                   dbFailed, crashed, scenario>>

\* start_capture sets the callback before it makes the HAL idle.
StartCapture ==
    /\ bpc = "module" /\ ~crashed
    /\ modCb' = TRUE
    /\ bpc' = "cancel"
    /\ UNCHANGED <<java, svc, subCb, inj, bop, cancelled, worker, tee, bounds, crashed, scenario>>

\* Variant for the sensitivity check: the sensor is not told.
GotoIdleNoCancel ==
    /\ bpc = "cancel" /\ ~crashed
    /\ bpc' = "join"
    /\ UNCHANGED <<java, svc, modCb, subCb, inj, bop, cancelled, worker, tee, bounds,
                   crashed, scenario>>

\* fingerprint_hal_goto_idle with cancel_image_injection.
GotoIdle ==
    /\ bpc = "cancel" /\ ~crashed
    /\ cancelled' = TRUE
    /\ bpc' = "join"
    /\ injCancel' = (injCancel \/ (injCb /\ injWait))
    /\ asked' = (asked \/ (injCb /\ injWait))
    /\ UNCHANGED <<java, svc, modCb, subCb, injCb, injWait, bop, worker, tee, bounds,
                   crashed, scenario>>

FirstPlace(k) == CASE k = "verify" -> "load" [] k = "enroll" -> "delete" [] OTHER -> "cap"

\* The worker is idle: clear the cancel and hand it the next task, if any.
Joined ==
    /\ bpc = "join" /\ wpc = "off" /\ ~crashed
    /\ cancelled' = FALSE
    /\ bpc' = "free"
    /\ IF bop \in Kinds
       THEN /\ wpc' = FirstPlace(bop) /\ wkind' = bop /\ data' = Zeroed
            /\ wreq' = IF bop = "auth" THEN 0 ELSE starts
       ELSE UNCHANGED worker
    /\ IF bop \in {"cancel", "died"} THEN Release ELSE UNCHANGED svc
    /\ dbFailed' = (dbFailed /\ bop \notin Modes)
    /\ UNCHANGED <<java, modCb, subCb, inj, bop, tee, starts, calls, failures, crashed, scenario>>

-----------------------------------------------------------------------------
(* The worker: capture_images with an image of the sensor or an injected   *)
(* one.                                                                    *)

At(p) == wpc = p /\ ~crashed
Outside == <<java, svc, modCb, subCb, binder, cancelled, starts, calls, crashed, wkind,
             wreq, scenario>>

Fails == failures < MaxFailures /\ failures' = failures + 1

\* A task without its capture ends: the result goes out.
Failed(d) == wpc' = "answer" /\ data' = d

\* The capture returned c.  Regular tasks: an image goes to the subscriber.
Captured(c) ==
    CASE c = "ok" -> /\ wpc' = IF wkind = "auth" THEN "sub_check" ELSE "images"
                     /\ UNCHANGED data
      [] c # "ok" /\ wkind = "auth" -> /\ wpc' = IF c = "again" THEN "cap" ELSE "off"
                                      /\ UNCHANGED data
      [] c = "again" /\ wkind = "enroll" -> wpc' = "cap" /\ data' = Zeroed
      [] OTHER -> Failed([data EXCEPT !.cap = "failed"])

\* fpc_tee_capture_image; "again" stands for a lost or stuck finger and a
\* given-up qualification, "bad" for bad quality and errors.
CaptureImages ==
    /\ At("cap") /\ ~injCb
    /\ \E c \in {"ok", "again", "bad"} : Captured(c)
    /\ UNCHANGED <<Outside, inj, tee, failures, dbFailed>>

CaptureCancelled ==
    /\ At("cap") /\ ~injCb /\ cancelled
    /\ Captured("cancelled")
    /\ UNCHANGED <<Outside, inj, tee, failures, dbFailed>>

IsImgInjEnabled ==
    /\ At("cap") /\ injCb
    /\ wpc' = "inj"
    /\ UNCHANGED <<Outside, inj, tee, data, failures, dbFailed>>

\* handle_image_injection, first critical section.
InjectionBegins ==
    /\ At("inj")
    /\ IF injCb
       THEN /\ injCancel' = FALSE /\ injWait' = TRUE /\ asked' = FALSE
            /\ wpc' = "inj_call" /\ UNCHANGED <<injCb, data>>
       ELSE Captured("bad") /\ UNCHANGED inj
    /\ UNCHANGED <<Outside, tee, failures, dbFailed>>

\* The callback is read without the mutex.
InjectionCalls ==
    /\ At("inj_call")
    /\ crashed' = ~injCb
    /\ wpc' = "inj_wait"
    /\ UNCHANGED <<java, svc, modCb, subCb, binder, cancelled, starts, calls, wkind, wreq,
                   inj, tee, data, failures, dbFailed, scenario>>

\* The application answers onInject with an image; or with none, when its
\* format is wrong or its callback threw.
InjectionReturns ==
    /\ At("inj_wait")
    /\ wpc' \in {"inj_done", "inj_none"}
    /\ UNCHANGED <<Outside, inj, tee, data, failures, dbFailed>>

\* fpc_ta_engineering_inject_raw takes the image or refuses it.
InjectRaw == {"ok", "bad"}

\* Second critical section, then fpc_tee_debug_inject.
InjectionEnds ==
    /\ wpc \in {"inj_done", "inj_none"} /\ ~crashed
    /\ injWait' = FALSE
    /\ CASE injCancel -> Captured("cancelled")
         [] ~injCancel /\ wpc = "inj_none" -> Captured("bad")
         [] OTHER -> \E c \in InjectRaw : Captured(c)
    /\ UNCHANGED <<Outside, injCb, injCancel, asked, tee, failures, dbFailed>>

\* What the trusted application answers to FPC_TA_ENGINEERING_RETRIEVE: the
\* result of the enhancement is dropped.
TaRetrieve(type) == IF type = "raw" THEN {TRUE, FALSE} ELSE {TRUE}

\* fpc_tee_debug_retrieve: no shared memory, a failed transfer, or the answer.
Retrieve(type) == TaRetrieve(type) \cup {FALSE}

\* fpc_hal_ext_get_raw_image: the size or the buffer may fail first; a buffer
\* stays allocated when its retrieval fails.
RawImage == {[bufs |-> 0, ok |-> FALSE]} \cup [bufs : {1}, ok : Retrieve("raw")]
EnhancedImage == {[bufs |-> 0, ok |-> FALSE]} \cup [bufs : {1}, ok : Retrieve("enhanced")]

\* The images of a good capture.  When they cannot be had, capture_result
\* stays good.
GetImages ==
    /\ At("images")
    /\ \E r \in RawImage, e \in EnhancedImage :
          IF r.ok /\ e.ok
          THEN /\ wpc' = CASE wkind = "capture" -> "answer" [] wkind = "verify" -> "identify"
                           [] wkind = "enroll" -> "enrol"
               /\ data' = [data EXCEPT !.bufs = @ + 2]
               /\ UNCHANGED failures
          ELSE /\ Fails
               /\ Failed([data EXCEPT !.bufs = @ + r.bufs + IF r.ok THEN e.bufs ELSE 0])
    /\ UNCHANGED <<Outside, inj, tee, dbFailed>>

-----------------------------------------------------------------------------
(* do_verify and do_enroll.                                                *)

\* goto jumps over the initialisation of capture_data: its fields, and the
\* buffers freed after the callback, are what the stack holds.
Uninitialised ==
    /\ dbFailed' = TRUE
    /\ wpc' = "answer"
    /\ \E c \in {"ok", "failed"}, u, l \in BOOLEAN :
          data' = [data EXCEPT !.cap = c, !.uid = u, !.last = l, !.junk = TRUE]

\* fpc_tee_load_template_db of the host's or the secure storage, for a file
\* that holds c: it succeeds...
Loads(c) == c # "damaged" /\ db' = c /\ UNCHANGED failures

\* ...or something goes wrong: an unreadable file is replaced by an empty
\* database without an error...
Trouble(c) == Fails \/ (c = "damaged" /\ UNCHANGED failures)
LoadsEmpty(c) == Trouble(c) /\ db' = "empty"

\* ...or the load fails.  The trusted application still has the database it
\* had when the size, a buffer or a transfer failed; none when it had freed
\* it; the new one when only the answer was lost.
LoadFails(c) == Trouble(c) /\ db' \in {db, "none", "empty"} \cup ({c} \ {"damaged"})

\* load_test_db, whose result do_enroll ignores.
LoadTestDb ==
    /\ At("load")
    /\ \/ /\ Loads(testDb) \/ LoadsEmpty(testDb)
          /\ wpc' = IF wkind = "verify" THEN "cap" ELSE "begin"
          /\ UNCHANGED <<data, dbFailed>>
       \/ /\ LoadFails(testDb)
          /\ IF wkind = "verify" THEN Uninitialised
             ELSE wpc' = "begin" /\ UNCHANGED <<data, dbFailed>>
    /\ UNCHANGED <<Outside, inj, testDb, unrestored>>

\* A store fails before the file is touched, in the middle (the secure storage
\* writes in place) or after the end.
StoreFails(f, new) == Fails /\ f \in {testDb, new, "damaged"}

\* delete_test_db: an empty database is loaded and saved.
DeleteTestDb ==
    /\ At("delete")
    /\ \/ db' = "empty" /\ testDb' = "empty" /\ wpc' = "load"
          /\ UNCHANGED <<data, failures, dbFailed>>
       \/ Fails /\ db' \in {db, "none", "empty"} /\ UNCHANGED testDb /\ Uninitialised
       \/ db' = "empty" /\ StoreFails(testDb', "empty") /\ Uninitialised
    /\ UNCHANGED <<Outside, inj, unrestored>>

BeginEnrol ==
    /\ At("begin")
    /\ IF db = "none" THEN Failed([data EXCEPT !.enr = "failed"]) /\ UNCHANGED failures
       ELSE \/ wpc' = "cap" /\ UNCHANGED <<data, failures>>
            \/ Fails /\ Failed([data EXCEPT !.enr = "failed"])
    /\ UNCHANGED <<Outside, inj, tee, dbFailed>>

\* fpc_tee_enrol: progress frees the images and captures again.
Enrol ==
    /\ At("enrol")
    /\ \/ wpc' = "cap" /\ data' = Zeroed /\ UNCHANGED failures
       \/ wpc' = "end" /\ UNCHANGED <<data, failures>>
       \/ Failed([data EXCEPT !.enr = "failed"]) /\ UNCHANGED failures
    /\ UNCHANGED <<Outside, inj, tee, dbFailed>>

\* fpc_ta_bio_end_enrol adds the finger to whatever database there is.
WithFinger == IF db = "regular" THEN db ELSE "finger"

\* fpc_tee_end_enrol: it fails before the finger is added or after.
EndEnrol ==
    /\ At("end")
    /\ \/ db' = WithFinger /\ wpc' = "save" /\ UNCHANGED <<data, failures>>
       \/ Fails /\ db' \in {db, WithFinger} /\ Failed([data EXCEPT !.enr = "failed"])
    /\ UNCHANGED <<Outside, inj, testDb, unrestored, dbFailed>>

Identify ==
    /\ At("identify")
    /\ \/ /\ db = "finger"
          /\ wpc' = "update" /\ data' = [data EXCEPT !.uid = TRUE] /\ UNCHANGED failures
       \/ wpc' = "update" /\ UNCHANGED <<data, failures>>     \* no match: user 0
       \/ Failed([data EXCEPT !.idr = "failed"]) /\ UNCHANGED failures
    /\ UNCHANGED <<Outside, inj, tee, dbFailed>>

\* fpc_tee_update_template; its failure leaves template_update_result at 0.
UpdateTemplate ==
    /\ At("update")
    /\ \/ wpc' \in {"save", "answer"} /\ UNCHANGED failures
       \/ Fails /\ wpc' = "answer"
    /\ UNCHANGED <<Outside, inj, tee, data, dbFailed>>

\* save_test_db: verify ignores its result.
SaveTestDb ==
    /\ At("save")
    /\ wpc' = "answer"
    /\ \/ /\ testDb' = db /\ UNCHANGED failures
          /\ data' = IF wkind = "enroll" THEN [data EXCEPT !.uid = TRUE] ELSE data
       \/ /\ StoreFails(testDb', db)
          /\ data' = IF wkind = "enroll" THEN [data EXCEPT !.enr = "failed"] ELSE data
    /\ UNCHANGED <<Outside, inj, db, unrestored, dbFailed>>

-----------------------------------------------------------------------------
(* The end of a task.                                                      *)

Result == [req |-> wreq, kind |-> wkind, cap |-> data.cap, enr |-> data.enr,
           idr |-> data.idr, uid |-> data.uid, junk |-> data.junk,
           stored |-> testDb = "finger"]

\* onCapture of the service, for a last result.
OnCapture ==
    /\ svcCb' = FALSE
    /\ isCapture' = IF svcCb THEN FALSE ELSE isCapture
    /\ queue' = IF svcCb THEN Append(queue, Result) ELSE queue
    /\ UNCHANGED linked

\* Variant for the sensitivity check: the result goes out twice.
ExecuteCallbackTwice ==
    /\ modCb' = (modCb /\ ~data.last)
    /\ IF data.last /\ modCb
       THEN queue' = queue \o <<Result, Result>> /\ svcCb' = FALSE /\ isCapture' = FALSE
            /\ UNCHANGED linked
       ELSE UNCHANGED <<svc, queue>>

\* execute_capture_callback: a last result clears the callback first.
ExecuteCaptureCallback ==
    /\ modCb' = (modCb /\ ~data.last)
    /\ IF data.last /\ modCb THEN OnCapture ELSE UNCHANGED <<svc, queue>>

\* Variant for the sensitivity check: a failed task ends at once.
AfterAnswerShort ==
    IF wkind = "capture" \/ ~data.uid THEN "off" ELSE "restore"

AfterAnswer == IF wkind = "capture" THEN "off" ELSE "restore"

\* The callback, then free_captured_images.
Answer ==
    /\ At("answer")
    /\ ExecuteCaptureCallback
    /\ wpc' = AfterAnswer
    /\ data' = [data EXCEPT !.bufs = 0]
    /\ crashed' \in IF data.junk THEN BOOLEAN ELSE {FALSE}
    /\ UNCHANGED <<jcb, got, alive, subCb, inj, binder, cancelled, wkind, wreq, tee,
                   bounds, scenario>>

\* restore_regular_db, which only logs a failure, and clear_enroll_challenge
\* after an enrolment.
RestoreRegularDb ==
    /\ At("restore")
    /\ \/ Loads("regular") /\ unrestored' = FALSE
       \/ (LoadsEmpty("regular") \/ LoadFails("regular")) /\ unrestored' = TRUE
    /\ wpc' = "off"
    /\ UNCHANGED <<Outside, inj, testDb, data, dbFailed>>

\* handle_image_subscription_auth tests the callback without the mutex...
SubscriptionChecks ==
    /\ At("sub_check")
    /\ wpc' = IF subCb THEN "sub_send" ELSE "off"
    /\ UNCHANGED <<Outside, inj, tee, data, failures, dbFailed>>

\* ...and handle_subscription_callback calls it with the mutex.
SubscriptionCalls ==
    /\ At("sub_send")
    /\ \/ crashed' = ~subCb /\ UNCHANGED failures
       \/ Fails /\ UNCHANGED crashed
    /\ wpc' = "off"
    /\ UNCHANGED <<java, svc, modCb, subCb, binder, cancelled, starts, calls, wkind, wreq,
                   inj, tee, data, dbFailed, scenario>>

WorkerStep ==
    \/ IsImgInjEnabled \/ InjectionBegins \/ InjectionCalls \/ InjectionEnds
    \/ GetImages \/ LoadTestDb \/ DeleteTestDb \/ BeginEnrol \/ Enrol \/ EndEnrol
    \/ Identify \/ UpdateTemplate \/ SaveTestDb \/ Answer \/ RestoreRegularDb
    \/ SubscriptionChecks \/ SubscriptionCalls

EngineeringNext ==
    \/ \E m \in Modes : JavaStart(m)
    \/ \E o \in {"auth", "challenge"} : Interrupt(o)
    \/ JavaOnImage \/ Dies \/ ImageSubscription \/ ImageInjection \/ CancelCapture
    \/ ServiceDied \/ StopOnDeath \/ StartCapture \/ GotoIdle \/ Joined
    \/ CaptureImages \/ CaptureCancelled \/ InjectionReturns \/ WorkerStep

\* The threads are scheduled and the application answers onInject.  A finger
\* need not come, but a cancelled capture ends (CancelEnds of FpcCapture).
Fairness ==
    /\ WF_engvars(WorkerStep) /\ SF_engvars(CaptureCancelled) /\ WF_engvars(InjectionReturns)
    /\ WF_engvars(GotoIdle) /\ WF_engvars(StartCapture) /\ WF_engvars(Joined)
    /\ WF_engvars(ServiceDied)

EngineeringSpec == EngineeringInit /\ [][EngineeringNext]_engvars /\ Fairness

-----------------------------------------------------------------------------
(* Properties.                                                             *)

Received == UNION {{got[n][i] : i \in DOMAIN got[n]} : n \in Requests}

\* An application that waits for its last result before it starts again gets
\* for each request at most one last result, and its own: through the
\* module's, the service's and the Java object's callback, each taken and
\* cleared by a different thread.  A callback of the module belongs to a task
\* under way, unless its test database could not be prepared, and while a
\* capture is under way mIsCapture lets cancelCapture find it.
OwnAnswer ==
    /\ EngineeringTypeOK
    /\ \A n \in Requests : \A i \in DOMAIN got[n] : i = 1 /\ got[n][i].req = n
    /\ modCb /\ bpc = "free" => wpc # "off" \/ dbFailed \/ crashed
    /\ wkind \in Modes /\ wpc \notin {"off", "restore"} => isCapture

\* However a test ends and whatever failed in it, when the worker is idle the
\* trusted application holds the user's database again, unless the last load
\* of restore_regular_db itself failed: then anything may be left, the test
\* database too, and the next regular enrolment would store it over the
\* user's.  The user's templates never get into test.db, although do_enroll
\* goes on when it could not load that file.  And a finger the Java API takes
\* for enrolled is in test.db.  (A result that was never initialised, and the
\* zeroed one of a capture without images, which names no finger, are
\* excluded.)
TestDbContained ==
    /\ wpc = "off" => db = "regular" \/ unrestored
    /\ testDb # "regular"
    /\ \A r \in Received :
          r.kind = "enroll" /\ Ok(r) /\ r.enr = "completed" /\ r.uid /\ ~r.junk => r.stored

\* A call that cancels returns, as the task it waits for ends (with injected
\* images that is up to the application); and after the application of the
\* HIDL service has died no capture of it goes on.
CapturesEnd ==
    /\ (bpc = "cancel" /\ ~Injects) ~> (bpc = "free" \/ crashed)
    /\ (~alive /\ Hidl) ~> (wpc = "off" \/ wkind = "auth" \/ crashed)
=============================================================================

------------------------------ MODULE FpcDevice ------------------------------
(***************************************************************************)
(* Opening and closing the HAL device: fpc_hal_open, which builds the      *)
(* session with the trusted application, the input device, the sensor      *)
(* client, the worker, the extensions and navigation one by one;           *)
(* fpc_hal_close, which also cleans up after an open that failed half way; *)
(* fpc_tac_transfer under every command; and the trusted application's     *)
(* side of it, which initialises its modules at the first command.         *)
(*                                                                         *)
(* A resource is memory, a descriptor, a thread or a session.  Any         *)
(* allocation, system call or command may fail, MaxFaults times in all.    *)
(* One device at a time; navigation stays enabled.                         *)
(***************************************************************************)
EXTENDS Integers, Sequences, FiniteSets

CONSTANTS
    Errors,     \* error numbers the trusted application's handlers return, negated
    MaxOpens,   \* bound on the opens of a behaviour
    MaxFaults   \* bound on its failures

ASSUME DeviceAssumption ==
    Errors \subseteq 1 .. 127 /\ MaxOpens \in Nat /\ MaxFaults \in Nat

FPC_ERROR_COMM == 4

Statuses == {0} \cup {-e : e \in Errors}

VARIABLES
    phase,     \* "closed", "opening", "open" or "closing"
    step,      \* position in OpenSteps or CloseSteps
    held,      \* resources that exist
    fields,    \* parts of the device that fpc_hal_open has stored
    task,      \* the worker runs a task
    nav,       \* the navigation worker runs nav_loop
    paused,    \* navigation's paused
    cancel,    \* the sensor client's cancel flag
    navcancel, \* navigation's cancel flag
    ready,     \* fpc_ta_initialized and ta_initialized
    inits,     \* how often each module of the trusted application was initialised
    xfer,      \* status of the last handler that ran, and what the client got
    opens, faults

device == <<phase, step, held, fields>>
threads == <<task, nav, paused, cancel, navcancel>>
tapp == <<ready, inits, xfer>>
devvars == <<device, threads, tapp, opens, faults>>

-----------------------------------------------------------------------------
(* What fpc_hal_open does, in order: names in capitals are commands, the
   others resources. *)
OpenSteps == <<
    "dev", "tee", "context", "session", "tac", "sysfs", "shared", "input",
    "BUILD_INFO", "sensor", "irq", "irqfd", "pipe", "DEEP_SLEEP", "HW_AUTH",
    "worker", "thread", "eng", "SENSOR_INFO", "test",
    "nav", "navirq", "navirqfd", "navpipe", "navworker", "navthread", "NAV_CONFIG",
    "cal", "recal", "LOAD_PN" >>

Commands == {"BUILD_INFO", "DEEP_SLEEP", "HW_AUTH", "SENSOR_INFO", "NAV_CONFIG", "LOAD_PN"}

Ignored == {"BUILD_INFO", "LOAD_PN"}  \* commands whose result is not looked at

Tac == {"context", "session", "tac", "sysfs"}
Tee == Tac \cup {"tee", "shared"}
Irq == {"irq", "irqfd", "pipe"}
NavIrq == {"navirq", "navirqfd", "navpipe"}
NavWorker == {"navworker", "navthread"}

(* The step that completes a part, which is then stored in the device. *)
Completes == [shared |-> "tee", DEEP_SLEEP |-> "sensor", thread |-> "worker",
              SENSOR_INFO |-> "eng", test |-> "test", NAV_CONFIG |-> "nav",
              cal |-> "cal", recal |-> "recal"]

(* fpc_tac_open; the session's own failure finalises the context only. *)
TacOpenErr(s) ==
    CASE s = "session" -> {"context"}
      [] s \in {"tac", "sysfs"} -> Tac
      [] OTHER -> {}

(* Variant for the sensitivity check: the context is forgotten. *)
TeeInitErrLeaks(s) == (TacOpenErr(s) \ {"context"}) \cup (IF s = "shared" THEN Tee ELSE {"tee"})

(* fpc_tee_init releases what it has, the connection too once it is open. *)
TeeInitErr(s) == TacOpenErr(s) \cup (IF s = "shared" THEN Tee ELSE {"tee"})

(* fpc_irq_release, fpc_tee_sensor_init. *)
SensorInitErr == Irq \cup {"sensor"}

(* fpc_worker_new, fpc_worker_destroy. *)
WorkerNewErr == {"worker", "thread"}

(* fpc_navigation_destroy, which fpc_navigation_new calls on any failure. *)
NavigationDestroy == NavIrq \cup NavWorker \cup {"nav"}

(* What the constructor in which step s fails releases itself. *)
Unwind(s) ==
    CASE s \in Tee -> TeeInitErr(s)
      [] s = "input" -> {"input"}
      [] s \in Irq \cup {"sensor", "DEEP_SLEEP"} -> SensorInitErr
      [] s \in {"worker", "thread"} -> WorkerNewErr
      [] s \in {"eng", "SENSOR_INFO"} -> {"eng"}
      [] s \in NavigationDestroy \cup {"NAV_CONFIG"} -> NavigationDestroy
      [] OTHER -> {}

(* Variant for the sensitivity check: navigation is paused before the worker
   is joined. *)
CloseStepsPauseFirst == <<
    "SetCancel", "NavCancel", "NavJoin", "Join", "ClearCancel", "input", "worker",
    "test", "eng", "nav", "cal", "recal", "DEEP_SLEEP", "sensor", "tee", "dev" >>

(* What fpc_hal_close does, in order. *)
CloseSteps == <<
    "SetCancel", "Join", "ClearCancel", "NavCancel", "NavJoin", "input", "worker",
    "test", "eng", "nav", "cal", "recal", "DEEP_SLEEP", "sensor", "tee", "dev" >>

(* What the release of each part frees. *)
Frees == [input |-> {"input"}, worker |-> {"worker", "thread"}, test |-> {"test"},
          eng |-> {"eng"}, nav |-> NavigationDestroy, cal |-> {"cal"}, recal |-> {"recal"},
          sensor |-> Irq \cup {"sensor"}, tee |-> Tee, dev |-> {"dev"}]

AllResources == {OpenSteps[i] : i \in 1 .. Len(OpenSteps)} \ Commands

-----------------------------------------------------------------------------
(* The trusted application's modules that have an init function, in the
   router's order. *)
TaModules == <<"common", "sensor", "bio", "hw_auth", "engineering">>

None == 1  \* no handler ran

DeviceTypeOK ==
    /\ phase \in {"closed", "opening", "open", "closing"}
    /\ step \in 1 .. Len(OpenSteps)
    /\ held \subseteq AllResources
    /\ fields \subseteq {"tee", "sensor", "worker", "eng", "test", "nav", "cal", "recal"}
    /\ {task, nav, paused, cancel, navcancel, ready} \subseteq BOOLEAN
    /\ \A m \in 1 .. Len(TaModules) : inits[m] \in Nat
    /\ xfer.sent \in Statuses \cup {None} /\ xfer.got \in Int
    /\ opens \in 0 .. MaxOpens /\ faults \in 0 .. MaxFaults

DeviceInit ==
    /\ phase = "closed" /\ step = 1 /\ held = {} /\ fields = {}
    /\ task = FALSE /\ nav = FALSE /\ paused = TRUE /\ cancel = FALSE /\ navcancel = FALSE
    /\ ready = FALSE /\ inits = [m \in 1 .. Len(TaModules) |-> 0]
    /\ xfer = [sent |-> None, got |-> 0]
    /\ opens = 0 /\ faults = 0

Fails == faults < MaxFaults /\ faults' = faults + 1

Byte(n, weight) == (n \div weight) % 256

Signed(b) == IF b >= 128 THEN b - 256 ELSE b

(* fpc_tac_transfer: four signed bytes, shifted and added; what is not
   negative is 0. *)
TransferStatus(n) ==
    LET response == Signed(Byte(n, 1)) + Signed(Byte(n, 256)) * 256
                    + Signed(Byte(n, 65536)) * 65536 + Signed(Byte(n, 16777216)) * 16777216
    IN  IF response < 0 THEN response ELSE 0

InitialisedUpTo(k) == [m \in 1 .. Len(TaModules) |-> inits[m] + (IF m <= k THEN 1 ELSE 0)]

(* fpc_ta_router_init, at the first command. *)
RouterInit ==
    IF ready THEN UNCHANGED <<ready, inits>>
    ELSE ready' = TRUE /\ inits' = InitialisedUpTo(Len(TaModules))

(* The k-th module cannot be initialised.  The ones before it keep what they
   have, and the next command starts again with the first. *)
RouterInitFails(k) ==
    /\ ~ready
    /\ inits' = InitialisedUpTo(k - 1)
    /\ UNCHANGED ready

(* A command that gives the client 0. *)
CommandOk ==
    /\ RouterInit
    /\ xfer' = [sent |-> 0, got |-> TransferStatus(0)]
    /\ UNCHANGED faults

(* A command that fails: not delivered, an initialisation that fails, or an
   error of the router or the handler. *)
CommandErr ==
    /\ Fails
    /\ \/ /\ xfer' = [sent |-> None, got |-> -FPC_ERROR_COMM]
          /\ UNCHANGED <<ready, inits>>
       \/ /\ \E k \in 1 .. Len(TaModules) : RouterInitFails(k)
          /\ xfer' = [sent |-> None, got |-> -FPC_ERROR_COMM]
       \/ /\ RouterInit
          /\ \E n \in Statuses \ {0} : xfer' = [sent |-> n, got |-> TransferStatus(n)]

-----------------------------------------------------------------------------
(* fpc_hal_open *)

Open ==
    /\ phase = "closed"
    /\ opens < MaxOpens
    /\ opens' = opens + 1
    /\ phase' = "opening" /\ step' = 1
    /\ UNCHANGED <<held, fields, threads, tapp, faults>>

Now == OpenSteps[step]

(* After the last step the device is returned and navigation resumed. *)
Proceed ==
    /\ fields' = fields \cup (IF Now \in DOMAIN Completes THEN {Completes[Now]} ELSE {})
    /\ IF step < Len(OpenSteps)
       THEN phase' = phase /\ step' = step + 1 /\ UNCHANGED threads
       ELSE /\ phase' = "open" /\ step' = 1
            /\ nav' = TRUE /\ paused' = FALSE /\ UNCHANGED <<task, cancel, navcancel>>

Acquire ==
    /\ phase = "opening" /\ Now \notin Commands
    /\ held' = held \cup {Now}
    /\ Proceed
    /\ UNCHANGED <<tapp, opens, faults>>

(* Without memory for the device there is nothing to close. *)
AcquireFails ==
    /\ phase = "opening" /\ Now \notin Commands
    /\ Fails
    /\ phase' = IF Now = "dev" THEN "closed" ELSE "closing"
    /\ step' = 1
    /\ held' = held \ Unwind(Now)
    /\ UNCHANGED <<fields, threads, tapp, opens>>

OpenCommand ==
    /\ phase = "opening" /\ Now \in Commands
    /\ CommandOk
    /\ Proceed
    /\ UNCHANGED <<held, opens>>

OpenCommandIgnored ==
    /\ phase = "opening" /\ Now \in Ignored
    /\ CommandErr
    /\ Proceed
    /\ UNCHANGED <<held, opens>>

OpenCommandFails ==
    /\ phase = "opening" /\ Now \in Commands \ Ignored
    /\ CommandErr
    /\ phase' = "closing" /\ step' = 1
    /\ held' = held \ Unwind(Now)
    /\ UNCHANGED <<fields, threads, opens>>

-----------------------------------------------------------------------------
(* The device in use: a request pauses navigation and gives the worker a
   task; the worker resumes navigation when the task is done. *)

Request ==
    /\ phase = "open" /\ ~task /\ ~nav
    /\ task' = TRUE /\ paused' = TRUE
    /\ UNCHANGED <<device, nav, cancel, navcancel, tapp, opens, faults>>

TaskCommand ==
    /\ task
    /\ CommandOk
    /\ UNCHANGED <<device, threads, opens>>

TaskEnds ==
    /\ task
    /\ task' = FALSE
    /\ IF paused THEN nav' = TRUE /\ paused' = FALSE ELSE UNCHANGED <<nav, paused>>
    /\ UNCHANGED <<device, cancel, navcancel, tapp, opens, faults>>

(* nav_loop ends when it is cancelled or when a command fails. *)
NavLoopEnds ==
    /\ nav
    /\ nav' = FALSE
    /\ UNCHANGED <<device, task, paused, cancel, navcancel, tapp, opens, faults>>

-----------------------------------------------------------------------------
(* fpc_hal_close *)

Close ==
    /\ phase = "open"
    /\ phase' = "closing" /\ step' = 1
    /\ UNCHANGED <<held, fields, threads, tapp, opens, faults>>

Doing(s) == phase = "closing" /\ CloseSteps[step] = s

Done ==
    IF step < Len(CloseSteps) THEN phase' = phase /\ step' = step + 1
    ELSE phase' = "closed" /\ step' = 1

SetCancel ==
    /\ Doing("SetCancel")
    /\ Done
    /\ cancel' = ("sensor" \in fields)
    /\ UNCHANGED <<held, fields, task, nav, paused, navcancel, tapp, opens, faults>>

Join ==
    /\ Doing("Join")
    /\ ~task
    /\ Done
    /\ UNCHANGED <<held, fields, threads, tapp, opens, faults>>

ClearCancel ==
    /\ Doing("ClearCancel")
    /\ Done
    /\ cancel' = FALSE
    /\ UNCHANGED <<held, fields, task, nav, paused, navcancel, tapp, opens, faults>>

(* Variant for the sensitivity check: nobody tells nav_loop. *)
NavCancelSilent ==
    /\ Doing("NavCancel")
    /\ Done
    /\ paused' = TRUE
    /\ UNCHANGED <<held, fields, task, nav, cancel, navcancel, tapp, opens, faults>>

(* fpc_navigation_pause *)
NavCancel ==
    /\ Doing("NavCancel")
    /\ Done
    /\ navcancel' = ~paused
    /\ paused' = TRUE
    /\ UNCHANGED <<held, fields, task, nav, cancel, tapp, opens, faults>>

NavJoin ==
    /\ Doing("NavJoin")
    /\ ~nav
    /\ Done
    /\ navcancel' = FALSE
    /\ UNCHANGED <<held, fields, task, nav, paused, cancel, tapp, opens, faults>>

(* fpc_tee_sensor_release first puts the sensor to sleep. *)
CloseDeepSleep ==
    /\ Doing("DEEP_SLEEP")
    /\ Done
    /\ IF "sensor" \in fields THEN CommandOk ELSE UNCHANGED <<tapp, faults>>
    /\ UNCHANGED <<held, fields, threads, opens>>

CloseDeepSleepFails ==
    /\ Doing("DEEP_SLEEP") /\ "sensor" \in fields
    /\ Done
    /\ CommandErr
    /\ UNCHANGED <<held, fields, threads, opens>>

(* A part that was never built is passed over; the input device is global
   and the device's own memory is always there. *)
Release(part) ==
    /\ Doing(part)
    /\ Done
    /\ held' = IF part \in fields \cup {"input", "dev"} THEN held \ Frees[part] ELSE held
    /\ fields' = fields \ {part}
    /\ UNCHANGED <<threads, tapp, opens, faults>>

CloseStep ==
    \/ SetCancel \/ Join \/ ClearCancel \/ NavCancel \/ NavJoin
    \/ CloseDeepSleep \/ CloseDeepSleepFails
    \/ \E part \in DOMAIN Frees : Release(part)

DeviceNext ==
    \/ Open \/ Acquire \/ AcquireFails \/ OpenCommand \/ OpenCommandIgnored \/ OpenCommandFails
    \/ Request \/ TaskCommand \/ TaskEnds \/ NavLoopEnds
    \/ Close \/ CloseStep

(* A cancelled task ends (FpcCapture), and so does a cancelled nav_loop. *)
Fairness ==
    /\ WF_devvars(Acquire) /\ WF_devvars(OpenCommand) /\ WF_devvars(CloseStep)
    /\ WF_devvars(cancel /\ TaskEnds) /\ WF_devvars(navcancel /\ NavLoopEnds)

DeviceSpec == DeviceInit /\ [][DeviceNext]_devvars /\ Fairness

-----------------------------------------------------------------------------
(* Whatever step of an open failed, and after every close, no memory,
   descriptor, thread or session is left; a device that fpc_hal_open returns is
   complete; and between them, no handler of the trusted application runs
   before every module of it is initialised, no module is initialised again
   unless an initialisation has failed, and the client sees an error exactly
   when the handler returned one or did not run. *)
NothingLeft ==
    /\ DeviceTypeOK
    /\ phase = "closed" => held = {} /\ fields = {}
    /\ phase = "open" => held = AllResources
    /\ ready => \A m \in 1 .. Len(TaModules) : inits[m] >= 1
    /\ \A m \in 1 .. Len(TaModules) : inits[m] <= 1 + faults
    /\ xfer.got < 0 <=> (xfer.sent < 0 \/ (xfer.sent = None /\ xfer.got = -FPC_ERROR_COMM))

(* The worker's task, which also resumes navigation, and nav_loop run only
   while everything they use is there, whatever fpc_hal_close is doing; a
   command is sent only over an open session and a shared buffer, at the end of
   a close and of a failed open too. *)
UsesLive ==
    /\ task => Tee \cup Irq \cup {"sensor", "worker", "thread", "nav", "input"} \subseteq held
    /\ nav => Tee \cup NavigationDestroy \cup {"input"} \subseteq held
    /\ phase = "opening" /\ Now \in Commands => Tee \subseteq held
    /\ phase = "closing" /\ CloseSteps[step] = "DEEP_SLEEP" /\ "sensor" \in fields =>
            Tee \subseteq held

(* A close, also one that cleans up after a failed open, comes to an end
   although a task or nav_loop is running. *)
CloseEnds == phase = "closing" ~> phase = "closed"
=============================================================================

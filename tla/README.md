# The FPC fingerprint stack in TLA+

The repository is a fingerprint stack for Android. Three layers of C do the
work: the HAL (`fingerprint_hal/fingerprint_common`), the client of the trusted
execution environment in the normal world (`fingerprint_tac/normal`, "TAC"),
and the trusted application in the secure world (`fingerprint_ta/secure`,
"TA"). Binder services in C++ and an extension API in Java wrap the HAL.

This directory models the parts in which order, failure and concurrency decide
whether the stack is correct, checks them with TLC and proves the most important
properties with TLAPS.

## Inventory

| Part | State | Operations | Hard because | Correct when |
|---|---|---|---|---|
| Worker thread `fpc_worker.c` | mutex, one condition variable, task slot, state, terminate | new, run_task, join_task, destroy | one condition variable for everybody, single wake-ups | no lost wake-up, tasks run once, join means idle |
| HAL protocol `fpc_tee_hal.c` | `dev->lock`, current task and its owner | goto_idle, do_async_work, resume; all entry points | the TEE buffer has no lock | one user of the buffer unless pre_recalibrate_pn comes in between, cancels end with their request, calls return |
| Navigation `nav/fpc_hal_navigation.c` | mutex, enabled, paused, cancel flag and pipe, own worker | pause, resume, set_enabled, nav_loop | called from three kinds of threads | never left paused, never stopped by an old cancel |
| Sensor and interrupt `fpc_tee_sensor.c`, `fpc_irq_device.c`, `fpc_reset_device.c`, TA side `fpc_ta_sensor.c` | cancelled flag, cancel pipe, what the sensor is set up for | set/clear_cancel, irq_wait, capture, force sensor | cancel and noise race the wait; resets undo set-ups | one image per touch, asleep after a failure, a cancel ends it |
| Templates: `do_enroll`, `do_remove`, `do_authenticate`, `set_active_group` with `fpc_ta_bio.c` and `fpc_db.c` | database in memory, file, group, authenticator id | the four calls | stores and undos that fail, cancels, crashes | memory, file and what the framework was told agree |
| Host storage `fpc_tee_host_storage.c` with `fpc_ta_db_blob.c` | transfer state in the TA, temporary file, file | store, load in chunks | the two worlds fail separately | atomic, and back in step after a failure |
| Hardware authentication `fpc_ta_hw_auth.c` | challenge and its time, incoming token, operation, match result | pre/post_enroll, authorize_enrol, set_auth_challenge, get_auth_result | revocation, expiry, stale matches | enrolments authorised, results bound to their operation |
| Template memory: `fpc_ta_bio_identify`, `fpc_ta_bio_update_template` | heap blocks of the templates, the list given to the algorithm | match, update, load | entries move and addresses are reused between the two commands | one owner per block, a template stays with its finger |
| Secure storage `fpc_tee_secure_storage.c`, `fs/fpc_ta_fs.c`, format of `fpc_db.c` | database file of the TA | store, load, load empty | truncates the only copy, frees before it loads, ignores the helpers' results | a torn file is never another database; a load gives back what was stored |
| Engineering extension | three callbacks on the way back, injection, subscription, test database | capture, verify, enroll, cancel | service thread, worker and application's thread each clear callbacks | own answer once, the user's database is loaded again on every way out, captures end |
| Sensor test extension | flags and callbacks of the service, mode of the sensor | tests, captures, cancel | many exits of the self test; flags set after the task started | a pass is earned, the mode is left, tests are answered |
| Recalibration and calibration (PN) | challenge, token, BioLib session, PN file | pre_recalibrate, recalibrate, calibrate, cancel | unlocked callers, expiry, torn files | images only under a live token, DONE means in use |
| Device life: `fpc_hal_open`, `fpc_hal_close`, TEE client `fpc_tee.c`, `fpc_ut_tac.c`, router `fpc_ta_router.c` | some thirty resources, session, TA initialisation | open, close, transfer | thirty places to fail; close against running threads | nothing left, nothing used after its release, a close ends |
| Authenticator, sense touch extensions | token, thresholds | one task each | state shared between the caller and the task | protocol in `FpcHal`, force sensor in `FpcCapture` |
| Binder services, Java API | callbacks, death notices | forward calls and results | one-way messages, deaths | with the extension they belong to |
| KPI, debug, migration, FMI | | | measurement, unused or outside the stack | not modelled |

`PROJECT.json` lists the components one by one, the hazards at their lines,
the source lines each definition translates, the runs and the theorems.

How the parts interact: an API thread takes `dev->lock`, makes the HAL idle
(`goto_idle`: cancel, join, clear, pause navigation), then either sends TEE
commands itself and resumes navigation, or hands a task to the worker, which
resumes navigation when the task ends. A task captures images through the
sensor client, sends commands to the TA's modules and calls the framework back.
One entry point does none of this: `pre_recalibrate_pn` fills and transfers the
shared buffer from the service's thread as it is called, whatever the HAL is
doing.

One hwbinder thread serves each HIDL service (`service.cpp` configures a pool
of one). The build the models follow is `device.mk`: finger-lost interrupt,
hardware authentication, identification at enrolment, file system of the TA,
navigation; sensor test and engineering are on in the TA's `default_config.mk`.
Where another build behaves differently (host storage, polling, force sensor,
legacy services) it is modelled as well.

## Modules

    FpcTaskRunner  <= FpcWorker                 (refinement)
    FpcHal            uses workers at the level of FpcTaskRunner
    FpcDb          -> FpcTemplates, FpcHwAuth   (operators)
    FpcDbStorage   <= FpcDbBlob                 (refinement)
    FpcTemplates      uses storage at the level of FpcDbStorage
    FpcDbFormat    -> FpcSecureStorage          (operators)
    FpcEngineering, FpcSensorTest, FpcPn, FpcDevice
                      assume of a cancelled wait what FpcCapture shows

A module with a `scenario` or a `build` variable chooses it once, in Init: a
behaviour is that of one build, one kind of service and one set of things that
may fail, and the run covers them all. Invariants made of several parts are
conjunctions; their comments name each part.

* **FpcTaskRunner**: what a worker promises, without mutex or condition
  variable.
* **FpcWorker**: `fpc_worker.c`. A step is the code between acquiring and
  releasing the worker's mutex. A signal wakes at most one waiter, any of them;
  waiters also wake for no reason. Callers enter under one lock, as all callers
  in the repository do. `posted` and `ran` are history.
* **FpcHal**: the composition of the HAL's entry points, its worker,
  navigation and the cancel pipes. A thread is at a program counter; "tee" is a
  burst of commands on the shared buffer. Operations are grouped by control:
  `sync`, `cancel`, `ext_cancel`, `capture`, `command`, `ext_capture`, `close`.
  `pre_recalibrate_pn`, which follows none of these ways, has actions of its own
  and the place "pn_tee"; it is served between open and close.
  `fpc_irq_wait` reads the line first and polls then (`irq`, `poll`); any of its
  system calls may fail.
* **FpcDb**: the database of `fpc_db.c` as a value, with add, delete, lookups
  and `set_template_first`. An entry is its 32-bit id or 0.
* **FpcTemplates**: set_active_group, enroll, remove and authenticate, one
  action per step between two points where something can fail, be cancelled or
  crash. The scenario's `Faults` say what may fail: stores, loads, other TEE
  commands. A command fails before the TA executed it or after, when only its
  answer is lost (`EnEndEnrolLost`, `AuMatchLost`, the second half of `RmFails`
  and `SgSetGid`, `LoadFail`).
  History variables keep what the framework was told.
* **FpcHwAuth**: challenges, tokens and authentication results. `dev->hat` is
  written by the caller before the running task is cancelled, as in
  `fpc_enroll`. Gatekeeper is external: it makes tokens for issued challenges.
* **FpcDbStorage**: what storing and loading promise: all or nothing.
* **FpcDbBlob**: the chunked transfer and the temporary file. A transfer may
  fail before or after the TA has executed the command.
* **FpcCapture**: the capture loop of `do_authenticate`: wake-up source,
  finger-lost wait (interrupt or polling), finger-down wait, qualified capture,
  force sensor, attempts. The environment moves the finger, raises the line and
  cancels. `lifted` and `img` say whether an image is of a new touch.
* **FpcTemplateUpdate**: templates as blocks of the secure heap. The algorithm
  names candidates by list position; entries have moved meanwhile and are found
  again by address. `lost` holds the blocks that a load with host storage
  leaves behind (it overwrites `user_db` without destroying it; the load of the
  TA's own file system destroys it first).
* **FpcDbFormat**: `db_pack_v4` and `db_unpack` on bytes, with the helpers'
  bounds as they are and their results ignored where the code ignores them.
  Versions 2 and 3 are read too. The widths of the fields are parameters.
* **FpcSecureStorage**: store and load as the commands and file operations they
  are made of. `sizeCommand` says whether the TA answers the size query: the
  client is written for one that does, the handler in the repository does not.
* **FpcEngineering, FpcSensorTest, FpcPn**: an extension each, from the Java
  object through the service to the HAL module, its task on the worker and the
  TA. The service's thread, the worker and the application's binder thread are
  program counters; a critical section of the module's mutex is one step.
  `crashed` ends a behaviour in which the process calls a cleared callback or
  frees what it never set.
* **FpcDevice**: open and close as sequences of steps over named resources;
  each constructor's own error path is `Unwind`; the transfer of a status as
  four signed bytes is `TransferStatus`; the TA initialises its modules at the
  first command.
* **MC...**: the small instances.
* **...Proofs**: the theorems. FpcHalProofs, FpcCaptureProofs,
  FpcTemplatesProofs, FpcTemplateUpdateProofs and FpcPnProofs are about the
  module they are named for. Three modules each hold the proofs about two
  components that belong together: FpcDeviceProofs (FpcWorker and FpcDevice),
  FpcVerdictProofs (FpcHwAuth and FpcSensorTest) and FpcDatabaseProofs
  (FpcDbBlob and FpcEngineering). They extend both, which is why FpcDevice,
  FpcSensorTest and FpcEngineering call their specification DeviceSpec, TestSpec
  and EngineeringSpec, with Init, Next, TypeOK and variable tuple to match; a
  theorem is about one of the two specifications, never about both.

Definitions marked "Variant for the sensitivity check" are plausible mistakes
(a signal left out, a result ignored). No specification uses them: each
replaces a definition in turn to see that the property named in
`PROJECT.json` notices.

## Runs

| Run | Bounds | Distinct states | Shows |
|---|---|---|---|
| worker | 3 callers, 3 tasks | 339 | NoLostWakeup, JoinMeansIdle, EachTaskOnce, CallsReturn, refinement of FpcTaskRunner |
| hal | 2 API threads, 1 navigation caller, 2 toggles | 30,387 | OnlyChallengeOverlaps, CancelScoped, NavNotLeftPaused, CanceledIsFinal, CallsReturn |
| templates | 2 slots, 1 crash; groups 0 and 1, 3 enrolments, stores fail; groups 1 and 2, 2 enrolments, loads fail too; group 1, 2 enrolments, stores and answers fail; groups 1 and 2, 1 enrolment, answers fail; group 0, 2 enrolments, everything fails | 2,188,061 | EnrolDurable, RemovedStaysGone, NoGhost, AuthOnlyEnrolled, AuthIdSettled |
| hwauth | 1 group, 2 users, 2 challenges, 2 tokens, lifetime 1, time 2, 1 restart | 2,404,348 | EnrolAuthorised, ResultBound |
| blob | chunks of 2, databases of 1, 4, 5 and 7 (too large), 2 failures, 2 crashes | 193,598 | SyncHeals, refinement of FpcDbStorage |
| capture | 2 transfers; 4 qualify rounds and 5 attempts with the interrupt, 2 and 2 polling with a force sensor in all four settings; 3 failures | 64,706 | OneImagePerTouch, LeavesClean, CancelEnds |
| engineering | 2 captures, 1 failure; HIDL with 1 other call, legacy with 2, injection and subscription | 947,198 | OwnAnswer, TestDbContained, CapturesEnd |
| sensortest | 2 starts, 1 other call, 1 failure; HIDL and a patient application, legacy and one that does not wait | 358,771 | PassMeansGood, SelfTestCleaned, OwnAnswer, TestsEnd |
| pn | 2 requests, 2 other calls, 1 failure of one of two groups (HIDL), or of writes (legacy) | 523,201 | AnsweredOnce, ReleaseAuthorised, DoneMeansInUse, RequestsEnd |
| storage | 2 slots, fields of 2 and 3 bytes, 4 databases, versions 2 to 4, 3 failures | 103,542 | NeverAnother, ReloadRestores |
| device | 3 opens, 4 failures, 3 error numbers | 63,273 | NothingLeft, UsesLive, CloseEnds |
| update | 3 slots, 4 blocks, 3 fingers, 1 generation, 1 failure | 803,714 | BlocksOwned, TemplateOfFinger |

Why the bounds are enough: three callers let a signal meet the worker, a waiter
and a newcomer; two API threads are a caller and the one that follows it, and
the HAL's properties are proved for any number; two slots and three enrolments
give a full set, a gap and a reuse of a slot; one crash at every step, and a
second one in `blob`, meets the state the first one left; the sizes in `blob`
are below, at and above a multiple of the chunk; a lifetime of 1 and a clock to
2 give fresh and expired challenges. Group 0 is in `templates` because
`dev->current_gid` starts as 0, so that calls are accepted before any group is
active. In `capture` the retry and attempt limits are
reached, and three failures let a reset, a failing command and a failing sleep
follow each other. Two requests in the extensions are the one whose task is
ending and the one that overtakes it, which is where callbacks, tokens and
flags are exchanged; the second call is a cancel, a death or a subscription
between them. `storage` has a database of every shape (no set, a gap on either
side, full) with templates whose bytes look like flags, sizes and half a
marker, cut at every byte. `device` meets two failed opens and one that
succeeds after them. In `update` three slots have room for a gap, a move to the
front and an update of two templates in either order, and four blocks make
malloc reuse addresses and run out.

Random ids are drawn different from those in use. A symmetry set is used for
database ids, users and heap blocks only, and in no run with a liveness
property. Deadlock is not checked in `worker`, `hal`, `engineering`,
`sensortest`, `pn` and `device`, which may end (destroy, close, the bound on
requests and opens, a crashed process).

Fairness. A thread that can go on does, since the scheduler runs every runnable
thread. Calls, fingers and interrupts come or not, and nothing relies on them.

* `worker`, `hal`: every thread, and tasks return (each capture loop leaves when
  cancelled, and callers cancel before they join). In `hal`, a waiting task
  finds the interrupt line low at some time (strong fairness of that outcome):
  the wake-up set-up before every wait clears the line. In `worker`, that a task
  returns is the assumption `hal` discharges.
* `capture`: the task; and the same strong fairness of finding the line low.
* `engineering`: worker and service; a cancelled capture ends, which is
  CancelEnds of `capture`; the application answers onInject.
* `sensortest`, `pn`: worker, service and delivery of messages; waits for a
  finger end only when they are cancelled; a snapshot needs no finger.
* `device`: the steps of open and close; a cancelled task and a cancelled
  nav_loop end.

### Disagreements found

Where the code does not do what a comment, a message or a header says. No
property of a run asks for what is listed here; the properties state what does
hold and name what they exclude.

* Groups. The comment on `fingerprintSetKey` (`fpc_db.c:47`) says that user
  profile ids can be used as keys "to create separate sets for each Android
  user". A database holds one set, `fpc_db_add_fingerprint` refuses another
  key, and `fpc_set_active_group` loads the same file for every group, so a
  second group cannot enrol while the first has a finger.
* Template update. "failed to realloc template buffer, keeping old template"
  (`fpc_ta_bio.c:462`): the entries before the failing allocation already have
  unwritten buffers and their old templates are freed; the next store saves
  them. TemplateOfFinger shows that this happens to no other entries.
* Secure storage. (a) `fpc_tee_load_template_db` asks for the file's size
  first; `fpc_ta_fs_handler` (`fpc_ta_fs.c:133`) has no case for that command,
  so no load reaches the file. (b) Only -FPC_ERROR_IO is taken for a corrupt
  database ("failed to load db, corrupt?, load empty db",
  `fpc_tee_secure_storage.c:194`), and a torn file is refused with
  -FPC_ERROR_DB: every load fails and no database is left. (c)
  `status = -fpc_fs_get_filesize(...)` (`fpc_ta_fs.c:31`) turns -FPC_ERROR_IO
  into +FPC_ERROR_IO, which is not recognised either.
* Transfer. `fpc_ut_tac.c:393` adds the response up from four signed bytes: -10
  arrives as -16843018. The sign survives (NothingLeft), the value does not, and
  comparisons with a particular error, such as -FPC_ERROR_NOENTITY in
  `fpc_tee_secure_storage.c:84`, never hold.
* Engineering. (a) `img_subscr_cb` is tested without the mutex and called later
  (`fpc_hal_ext_engineering.c:177`), `img_inj_cb` is called after the mutex is
  released ("TODO: Fix module->img_inj_cb could be altered after mutex is
  unlocked", :739): a deregistration in between makes the worker call NULL. (b)
  An enrolment whose image cannot be fetched reports a zeroed result (:598),
  which `FingerprintEngineering.java:97` reads as `FPC_ENROL_COMPLETED(0)`.
* Sensor test. "send normal side irq-pin status to secure side"
  (`fpc_tee_sensortest.c:95`): what is sent is the variable passed for the
  result, 0 or uninitialised, not the level read.
* PN. (a) "this function must always be called after fpc_tee_pn_calibrate_finger()
  has been called" (`fpc_tee_pn.h:90`): two exits after the size query
  (`fpc_hal_ext_recalibration.c:172`, :181) do not. (b) `fpc_ta_pn_load` returns
  FPC_PN_OK for a file that unwraps to a wrong length or magic number
  (`fpc_ta_pn.c:224`) and loads nothing. (c) When `fpc_ta_pn_calibrate` cannot
  encrypt the image it logs an error (`fpc_ta_pn.c:395`) and returns the OK its
  size query left in `ret`: what the buffer holds is written as the PN file
  (`Torn` in FpcPn) and DONE follows if fpc_ta_pn_load takes it.

### Limits the runs made visible

* After an undone enrolment, and when set_gid fails after a load, the
  HAL's authenticator id is not the one in the tokens (`AuthIdSettled` excludes
  both).
* `dev->current_gid` starts as 0 and the calls check nothing else
  (`fpc_tee_hal.c:612`, :635, :748). Where 0 is a group, a set_active_group(0)
  that fails after a start leaves a device that enrols, authenticates and
  removes without the group's database or key; the next store may replace the
  file. The history variable `blind` marks such behaviours: the properties of
  `templates` exclude them, and EnrolDurable says that there are no others.
* A remove whose store and whose reload fail leaves the file and the memory
  apart; a retry then reports the finger as removed while the file has it
  (`RemovedStaysGone` is checked with loads that work).
* `pre_recalibrate_pn` (`fpc_hal_ext_recalibration.c:238`) uses the shared buffer
  without a lock, so its command can meet that of a task, of an API call or of
  nav_loop, and commands and answers can then be mixed.
  `OnlyChallengeOverlaps` says that there is no other such meeting. What a mixed
  command does is not modelled: the other modules, FpcPn included, speak of
  behaviours in which every command arrives as it was written.
* A cancelled enrolment whose undo fails, one caught by a crash between the
  store and the report, and one whose end_enrol was executed but whose answer
  was lost (`fpc_tee_hal.c:400` jumps to the end and loads nothing) leave a
  finger nobody was told of (`excused`). It can be authenticated, and the next
  store writes it. `NoGhost` and `AuthOnlyEnrolled` say that there are no other
  unreported fingers.
* When the answer of set_gid is lost, the TA has the new key and the HAL the old
  group: what runs next is `blind` as well.
* `restore_regular_db` only logs a load that fails
  (`fpc_hal_ext_engineering.c:311`), and a load that fails before the TA frees
  its database keeps the one it has: an engineering test then ends with the test
  database in use, and the next regular enrolment stores it over the user's.
  `TestDbContained` says that this takes a failure of that very load
  (`unrestored`).
* A crash in the very first store leaves the transfer open; since a load
  without a file sends no transfer, the next store fails once (`SyncHeals`).
* With host storage every load over an existing database loses its blocks
  (`fpc_ta_db_blob.c:80`; `lost` in `BlocksOwned`).
* In the secure storage a transient read error replaces the database by an
  empty one, which the next store writes.
* With injected images a cancel can be lost; the capture then ends when the
  application answers (`CapturesEnd`).
* A second calibrate waits for the mutex of the first, which may wait for a
  finger (`RequestsEnd`). A recalibration that overtakes the end of another can
  lose its token and its callbacks and is then not answered.
* The legacy extension services take no notice of a dead application. With the
  HIDL sensor test service, the notice of a dead test callback also clears the
  capture's, and a waiting capture is then not cancelled (`TestsEnd`).
* do_capture of the sensor test sends nothing for some errors; only the tests
  are always answered.
* Two removes at once (`dev->remove_fid`, `fpc_tee_hal.c:754`) are left out, and
  so is a clock that cannot be read (`fpc_ut_crypto.c:26` returns -1, under
  which a challenge never ages).

## Proofs

All theorems hold for every value of the constants; the assumptions are the
`ASSUME`s of the modules (distinct threads, natural bounds, keys that differ).
Each safety property is proved from an inductive invariant (`IInv`, or
`DeviceInv`, `TestInv` and `EngineeringInv` in the modules with two), found with
TLC's help on the run's instance. What follows says what the
invariant adds to the property, and why the property alone does not do.

* **FpcDeviceProofs, the worker.** The invariant ties the lock to the caller's place, the
  state field and the slot to the worker's place, and says for each waiter what
  it waits for. It is needed because a signal may reach any waiter: that the
  right one gets it follows from there being at most one caller inside. From it
  come type correctness, NoLostWakeup, JoinMeansIdle, EachTaskOnce and, step by
  step, the refinement of FpcTaskRunner.
* **FpcDeviceProofs, the device.** Neither NothingLeft nor UsesLive says what
  exists half way. The invariant does (`DeviceBuilt`): at the n-th step of an
  open exactly what the steps before it acquired, and at every step of a close,
  also one that begins half way because an open failed, exactly what the parts
  still stored in the device own (`Owned`). That each failing step leaves such a
  device (`FailedStep`) and that each release frees what its part owns and
  nothing another part needs (`CloseOk`) are the two lemmas on which it rests.
  A task or nav_loop runs only in a complete device and not past its join
  (`ThreadsJoined`), so a close never frees what a thread uses. That the sign of
  a status survives its four bytes is `TransferSign`.
* **FpcHalProofs.** The invariant has the places each kind of thread can be at,
  the meaning of the two locks, navigation's state (the loop runs only while
  enabled and not paused, or while a cancel is under way), and the task's state
  against the lock holder's place. The properties CancelScoped,
  NavNotLeftPaused and CanceledIsFinal are parts of it; OnlyChallengeOverlaps
  follows: a thread inside pre_recalibrate_pn holds no lock and is at no place
  the invariant ties to another, which is why the others still exclude each
  other.
* **FpcVerdictProofs, hardware authentication.** First, shapes the database
  operators keep, and that the list position identify passes to
  set_template_first is a slot of the set. Then: a challenge that can be answered is the one requested
  last, with its time; good tokens, also in `dev->hat`, were minted; the user in
  an entry is the one whose token added it; during an authentication the
  operation, the match and the key are the task's own. EnrolAuthorised (an
  action property) and ResultBound follow.
* **FpcVerdictProofs, sensor tests.** PassMeansGood speaks of messages; what
  makes them true is decided many steps earlier. So: a test goes on only while
  nothing was wrong (`GoesOn`), what it ends with accounts for everything that
  was, and the image it sends is its own (`Accounted`); the self test's mode is on
  only between its start and its clean-up (`ModeKept`), whichever way a pin
  reading, a command or a cancel sends it. For OwnAnswer, each side of the
  service, tests and captures, has at most one request that is called, runs, is
  on its way or is done, in that order (`SideOk`), although the two sides share
  the worker and the queue; and the flag a cancel looks at is set, or is just
  about to be (`FlagsSet`).
* **FpcTemplatesProofs.** First, that add, delete and set_template_first keep a
  database sound and change its ids by exactly one, or not at all. Then the
  invariant: ids count upwards, so that one drawn next was never used
  (`Numbered`); the trusted application's key is the HAL's group unless the answer of a set_gid
  was lost (`KeyIsGroup`);
  memory has every finger the framework believes in (`MemHasEnrolled`) and only
  fingers that were reported, excused or in hand (`Known`); a finger on disk that
  is not in memory is nobody's (`Missing`). Memory matters although EnrolDurable
  speaks of the file, because any later store writes it: a template update of
  an authentication would lose what memory lacks and bring back what it still
  has. A group is active wherever a task runs, or the device is `blind`
  (`CallsAreSafe`). EnrolDurable, RemovedStaysGone, NoGhost, AuthOnlyEnrolled
  and AuthIdSettled follow.
* **FpcDatabaseProofs, the transfer.** In the middle of a transfer both worlds count the same
  bytes: the buffer and the trusted application's offset are the same prefix of
  the blob (`Fetching`, `Sending`), for any size and chunk; the file is always
  one whole database (`FileWhole`). SyncHeals follows. ImplementsStorage is
  proved with the mapping of FpcDbBlob: chunks are stutters, the rename and the
  last chunk of a load are the abstract effect, and every failure before them is
  an abstract failure without effect. A load without a file sends one command
  that does its work and ends the call, which the abstract specification allows
  as an effect and an end at once.
* **FpcDatabaseProofs, the engineering extension.** `DbKept` says which database
  the trusted application holds at each place of each kind of task: in
  particular that everything past the load of a verification runs on the test
  database, that an enrolment which could not load test.db goes on with an empty
  database and never with the user's, and that every way out passes through the
  reload. That a finger
  reported as enrolled is in test.db needs the link from the user id in the
  result back to the save (its last conjunct). For OwnAnswer, the Java object's
  request is called, runs, is on its way or is done, at no two of these at once
  (`Served`), and the module's callback belongs to a capture that is called or
  runs (`Owned`), although three threads clear the three callbacks.
* **FpcPnProofs.** `OwnRequest` is the heart: a task that has not answered works
  for the request the application waits for, and its `canceled` flag is set only
  by a cancel that is going to join it, although recalibrate clears the flag
  before the old task has ended. A call that is about to start a task has an
  unanswered request and finds no task of its kind under way (`CallPlaces`).
  Between the write and the load of the PN file the file is the one the task
  wrote, or damaged (`TaskPlaces`); with it DoneMeansInUse is a step property.
  ReleaseAuthorised needs only that no other task fills a recalibration's
  buffer: the trusted application checks token, challenge and age in the very
  command that releases the image. `SessionKept` gives the conjuncts of
  AnsweredOnce about BioLib, `LoadedIsFile` the one about the image in use.
* **FpcCaptureProofs.** Off the sensor means lifted since the last image, and so
  does a line that rose after the finger-lost set-up (`LineMeansLifted`); past
  the finger-lost wait the finger was lifted, through every reset and retry
  (`PastLost`). With it OneImagePerTouch is inductive. For LeavesClean, a
  cancelled status comes from a cancel, and the key is down only until its
  release is waited for (`EndsWell`).
* **FpcTemplateUpdateProofs.** Entries and blocks correspond one to one
  (`Blocks1`), and during the update loop the rounds that are done have fresh
  blocks while the others still find theirs by address (`Round`): a block freed
  by one round is never an address a later round looks for, although malloc may
  hand it out again. The list of templates has no address twice because the
  n-th valid slot is another for every n. That there is one (`NthOf`) would be an
  induction over the set of slots, which the provers cannot do; it is proved by
  taking the least slot with at least n - 1 others before it. BlocksOwned and
  TemplateOfFinger follow.

Only model-checked:

* liveness under fairness, which the prover does not do: CallsReturn (worker,
  hal), CancelEnds, CapturesEnd, TestsEnd, RequestsEnd, CloseEnds;
* what the folds of FpcDbFormat compute, hence NeverAnother and ReloadRestores of
  FpcSecureStorage: an induction over the bytes of a file.

Every other property of the runs is a theorem.

## Not modelled

Image processing and matching (a binary library), SPI and the sensor library,
the vendor's glue between TEE client and TA, the cryptography of tokens and
blobs (a flag, a recognisable blob), marshalling, logging, KPI and debug
commands; the configuration and the input events of navigation; the calibration
of the force sensor (not built by `device.mk`); the migration of templates
without a secure user id (`fpc_m_upgrade.c`, `fpc_ta_db_migration.c`: no
makefile builds them, and `fpc_ta_m_upgrade` uses a variable it does not
declare); FMI files; proxies that only forward; sensor information queries,
which change nothing; a device that is closed while clients of its extension
services are connected.

## Plan

1. Core (done): worker, HAL protocol, templates, hardware authentication, host
   storage; theorems for worker, HAL and hardware authentication.
2. Extend (done): capture, the extensions, secure storage and format, device
   life, template memory.
3. Prove (done): EnrolDurable, RemovedStaysGone, NoGhost, AuthOnlyEnrolled and
   AuthIdSettled of FpcTemplates; SyncHeals and the refinement of FpcDbBlob;
   OneImagePerTouch and LeavesClean of FpcCapture; BlocksOwned and
   TemplateOfFinger of FpcTemplateUpdate.
4. Prove the rest (done): NothingLeft and UsesLive of FpcDevice; PassMeansGood,
   SelfTestCleaned and OwnAnswer of FpcSensorTest; OwnAnswer and TestDbContained
   of FpcEngineering; AnsweredOnce, ReleaseAuthorised and DoneMeansInUse of
   FpcPn.

Left for whoever goes on: two overlapping removes (`dev->remove_fid`) and the
authenticator extension's result as actions of FpcTemplates, navigation's
configuration, and the liveness properties, for which a prover that knows
fairness is needed.

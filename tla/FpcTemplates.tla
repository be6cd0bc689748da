---------------------------- MODULE FpcTemplates ----------------------------
(***************************************************************************)
(* The life of a template: the HAL's set_active_group, enroll, remove and  *)
(* authenticate (fpc_tee_hal.c), the database in the trusted application   *)
(* (fpc_ta_bio.c, FpcDb), and its copy in the file system, stored by       *)
(* fpc_tee_host_storage.c (write to .bak, fsync, rename: a store replaces  *)
(* the file or leaves it).                                                 *)
(*                                                                         *)
(* One task uses the TEE at a time (FpcHalProofs; pre_recalibrate_pn, the  *)
(* one exception there, is left out), so the HAL is one sequential process *)
(* here; beside it a caller may request a cancel at any time, a store, a   *)
(* load or a command may fail, before the trusted application executed it  *)
(* or after, when only its answer is lost, and the daemon may crash        *)
(* between any two steps, with or without the trusted application.         *)
(***************************************************************************)
EXTENDS FpcDb

CONSTANTS
    InvalidKey, \* INVALID_FINGERPRINT_SET_KEY
    DbIds,      \* values of a database id
    NoDbId,     \* no database id
    MaxCrashes, \* bound: crashes in a run
    MaxFailed,  \* FPC_MAX_FAILED_ATTEMPTS
    Scenarios   \* records [groups, faults, enrols], one of them per behaviour

ASSUME TemplatesAssumption ==
    /\ \A s \in Scenarios :
          /\ s.groups \subseteq Nat
          /\ {NoKey, InvalidKey} \cap (s.groups \cup {0}) = {}
          /\ s.faults \subseteq {"store", "load", "tee"}
          /\ s.enrols \in Nat
    /\ NoKey # InvalidKey
    /\ NoDbId \notin DbIds
    /\ MaxCrashes \in Nat
    /\ MaxFailed \in Nat \ {0}

VARIABLES
    scenario,   \* the scenario of this behaviour
    pc,         \* where the HAL is: "idle" or a step of the current call
    arg,        \* the gid of a set_active_group under way
    gid,        \* dev->current_gid
    ready,      \* set_active_group has succeeded since the daemon started
    called,     \* set_active_group has been called: current_db_file is set
    active,     \* history: the trusted application has the database and the key of gid
    authid,     \* dev->authenticator_id
    cancelled,  \* a caller waits in goto_idle: sensor->cancelled
    todo,       \* ids do_remove has still to remove
    cur,        \* the id the current task handles
    attempts,   \* do_authenticate's failed_attempts
    mem,        \* bio->user_db
    akey,       \* bio->active_set_key
    file,       \* the file at current_db_file
    enrolled,   \* history: <<gid, id>> of on_enroll_result(id, gid, 0)
    asked,      \* history: <<gid, id>> a remove was started for
    told,       \* history: <<gid, id>> of on_removed(id, gid)
    excused,    \* history: ids a crash, a failed store or a lost answer left unreported
    blind,      \* history: a task was started while ~active
    undone,     \* history: an enrolment was undone since authid was read
    adds,       \* templates added so far; the next id is adds + 1
    crashes

locals   == <<arg, todo, cur, attempts>>
devvars  == <<gid, ready, called, active, authid, undone>>
histvars == <<enrolled, asked, told, excused, blind>>
vars == <<scenario, pc, arg, gid, ready, called, active, authid, cancelled, todo, cur, attempts,
          mem, akey, file, enrolled, asked, told, excused, blind, undone, adds,
          crashes>>

Groups    == scenario.groups  \* group ids the framework uses
Faults    == scenario.faults  \* what may fail; "tee" is any other command
MaxEnrols == scenario.enrols  \* bound: templates added

(* No file: load_template_db takes size 0 for it and loads an empty db. *)
NoFile == EmptyDb(NoDbId)

(* A random database id differs from every one in use. *)
Fresh == DbIds \ {mem.id, file.id, authid}

At(p) == pc = p

(* The end of a call or task: its locals die, and the goto_idle that
   waits for it clears the cancel request. *)
ToIdle ==
    /\ pc' = "idle"
    /\ cancelled' = FALSE
    /\ arg' = 0 /\ todo' = {} /\ cur' = 0 /\ attempts' = 0

(* One step further in the same call. *)
Goto(p) == pc' = p /\ UNCHANGED cancelled

Init ==
    /\ scenario \in Scenarios
    /\ pc = "idle"
    /\ arg = 0 /\ todo = {} /\ cur = 0 /\ attempts = 0
    /\ gid = 0 /\ ready = FALSE /\ called = FALSE /\ active = FALSE /\ authid = NoDbId
    /\ cancelled = FALSE
    /\ \E d \in DbIds : mem = EmptyDb(d)
    /\ akey = InvalidKey
    /\ file = NoFile
    /\ enrolled = {} /\ asked = {} /\ told = {} /\ excused = {}
    /\ blind = FALSE /\ undone = FALSE
    /\ adds = 0 /\ crashes = 0
-----------------------------------------------------------------------------
(* fpc_tee_store_template_db and fpc_tee_load_template_db.  A failed load
   leaves user_db as it is, or has replaced it when only the answer to the
   last command was lost. *)
StoreOk   == file' = mem
StoreFail == "store" \in Faults /\ UNCHANGED file
LoadOk    == \E d \in Fresh : mem' = IF file = NoFile THEN EmptyDb(d) ELSE file
LoadFail  == "load" \in Faults /\ (LoadOk \/ UNCHANGED mem)

(* fpc_set_active_group; there is one file for all groups. *)
SetActiveGroup(g) ==
    /\ At("idle")
    /\ arg' = g
    /\ called' = TRUE
    /\ Goto("sg_load")
    /\ UNCHANGED <<todo, cur, attempts, gid, ready, active, authid, undone, mem,
                   akey, file, histvars, adds, crashes, scenario>>

SgLoad ==
    /\ At("sg_load")
    /\ \/ LoadOk /\ Goto("sg_gid") /\ UNCHANGED locals
       \/ LoadFail /\ ToIdle
    /\ UNCHANGED <<devvars, akey, file, histvars, adds, crashes, scenario>>

(* fpc_tee_set_gid and fpc_tee_get_template_db_id; when only the second
   fails, the gid is current although the call reports an error.  When the
   answer of the first is lost, the key is new and current_gid is not. *)
SgSetGid ==
    /\ At("sg_gid")
    /\ \/ /\ akey' = arg /\ gid' = arg /\ active' = TRUE
          /\ \/ authid' = mem.id /\ ready' = TRUE
             \/ "tee" \in Faults /\ authid' = NoDbId /\ UNCHANGED ready
          /\ undone' = FALSE
       \/ "tee" \in Faults /\ UNCHANGED <<akey, gid, active, authid, ready, undone>>
       \/ /\ "tee" \in Faults
          /\ akey' = arg /\ active' = (arg = gid)
          /\ UNCHANGED <<gid, authid, ready, undone>>
    /\ ToIdle
    /\ UNCHANGED <<called, mem, file, histvars, adds, crashes, scenario>>
-----------------------------------------------------------------------------
(* fpc_enroll and do_enroll.  The framework calls set_active_group before
   anything else; a gid that is not current is refused, and that is all that
   is asked: current_gid is 0 after a start, so a call for group 0 is accepted
   although set_active_group failed. *)
MayCall(g) ==
    /\ At("idle") /\ called /\ g = gid
    /\ blind' = (blind \/ ~active)

Enroll(g) ==
    /\ MayCall(g)
    /\ Goto("en_capture")
    /\ UNCHANGED <<locals, devvars, mem, akey, file, enrolled, asked, told,
                   excused, adds, crashes, scenario>>

(* Cancelled, no authorisation, an already enrolled finger, too many bad
   images, or a TEE error other than a lost answer of end_enrol: nothing was
   added. *)
EnEnds ==
    /\ At("en_capture")
    /\ ToIdle
    /\ UNCHANGED <<devvars, mem, akey, file, histvars, adds, crashes,
                   scenario>>

(* fpc_ta_bio_end_enrol adds the next id. *)
EndEnrol ==
    /\ ~Foreign(mem, akey) /\ ~Full(mem)
    /\ adds < MaxEnrols
    /\ adds' = adds + 1
    /\ \E d \in Fresh : mem' = AddFingerprint(mem, akey, adds + 1, d)

(* FPC_ENROL_COMPLETED: fpc_tee_end_enrol. *)
EnEndEnrol ==
    /\ At("en_capture")
    /\ \/ /\ EndEnrol
          /\ cur' = adds + 1
          /\ Goto("en_store")
       \/ /\ Foreign(mem, akey) \/ Full(mem)
          /\ Goto("en_refused")
          /\ UNCHANGED <<adds, cur, mem>>
    /\ UNCHANGED <<arg, todo, attempts, devvars, akey, file, histvars,
                   crashes, scenario>>

(* The same with its answer lost: the finger stays in user_db, the task ends
   with on_error and loads nothing; the next store writes the finger. *)
EnEndEnrolLost ==
    /\ At("en_capture")
    /\ "tee" \in Faults
    /\ EndEnrol
    /\ excused' = excused \cup {adds + 1}
    /\ ToIdle
    /\ UNCHANGED <<devvars, akey, file, enrolled, asked, told, blind, crashes, scenario>>

(* on_error. *)
EnRefused ==
    /\ At("en_refused")
    /\ ToIdle
    /\ UNCHANGED <<devvars, mem, akey, file, histvars, adds, crashes,
                   scenario>>

EnStore ==
    /\ At("en_store")
    /\ \/ StoreOk /\ Goto("en_check")
       \/ StoreFail /\ Goto("en_reload")
    /\ UNCHANGED <<locals, devvars, mem, akey, histvars, adds, crashes,
                   scenario>>

(* Variant for the sensitivity check: no reload after a failed store. *)
EnReloadSkipped ==
    /\ At("en_reload")
    /\ undone' = TRUE
    /\ ToIdle
    /\ UNCHANGED <<gid, ready, called, active, authid, mem, akey, file, histvars,
                   adds, crashes, scenario>>

(* The load that undoes the add; its result is ignored. *)
EnReload ==
    /\ At("en_reload")
    /\ \/ LoadOk /\ UNCHANGED excused
       \/ LoadFail /\ excused' = excused \cup {cur}
    /\ undone' = TRUE
    /\ ToIdle
    /\ UNCHANGED <<gid, ready, called, active, authid, akey, file, enrolled,
                   asked, told, blind, adds, crashes, scenario>>

(* fpc_tee_sensor_cancelled decides between the report and the undo. *)
EnReport ==
    /\ At("en_check")
    /\ ~cancelled
    /\ enrolled' = enrolled \cup {<<gid, cur>>}
    /\ Goto("en_authid")
    /\ UNCHANGED <<locals, devvars, mem, akey, file, asked, told, excused,
                   blind, adds, crashes, scenario>>

EnUndo ==
    /\ At("en_check")
    /\ cancelled
    /\ \/ mem' = DeleteFingerprint(mem, IndexOfId(mem, cur)) /\ UNCHANGED excused
       \/ "tee" \in Faults /\ UNCHANGED mem /\ excused' = excused \cup {cur}
    /\ Goto("en_undo")
    /\ UNCHANGED <<locals, devvars, akey, file, enrolled, asked, told, blind, adds,
                   crashes, scenario>>

(* The results of the delete and of this store are ignored. *)
EnUndoStore ==
    /\ At("en_undo")
    /\ \/ StoreOk /\ UNCHANGED excused
       \/ StoreFail /\ excused' = excused \cup {cur}
    /\ undone' = TRUE
    /\ ToIdle
    /\ UNCHANGED <<gid, ready, called, active, authid, mem, akey, enrolled,
                   asked, told, blind, adds, crashes, scenario>>

(* Variant for the sensitivity check: authenticator_id is not read again. *)
EnAuthIdStale ==
    /\ At("en_authid")
    /\ undone' = FALSE
    /\ ToIdle
    /\ UNCHANGED <<gid, ready, called, active, authid, mem, akey, file, histvars,
                   adds, crashes, scenario>>

EnAuthId ==
    /\ At("en_authid")
    /\ authid' \in {mem.id} \cup (IF "tee" \in Faults THEN {NoDbId} ELSE {})
    /\ undone' = FALSE
    /\ ToIdle
    /\ UNCHANGED <<gid, ready, called, active, mem, akey, file, histvars, adds,
                   crashes, scenario>>
-----------------------------------------------------------------------------
(* fpc_remove and do_remove; fid 0 removes every finger of the group.  The
   framework removes what it knows of: fingers reported to it. *)
EnrolledIds == {p[2] : p \in enrolled}

Remove(g, fid) ==
    /\ MayCall(g)
    /\ todo' = IF fid = 0 THEN IdsOf(mem, akey) ELSE {fid}
    /\ asked' = asked \cup {<<gid, i>> : i \in todo'}
    /\ Goto("rm_next")
    /\ UNCHANGED <<arg, cur, attempts, devvars, mem, akey, file, enrolled,
                   told, excused, adds, crashes, scenario>>

(* fpc_tee_delete_template; NOENTITY skips the store but is reported. *)
RmDelete ==
    /\ At("rm_next")
    /\ \E i \in todo :
          /\ cur' = i
          /\ todo' = todo \ {i}
          /\ \/ /\ i \in IdsOf(mem, akey)
                /\ mem' = DeleteFingerprint(mem, IndexOfId(mem, i))
                /\ Goto("rm_store")
                /\ UNCHANGED told
             \/ /\ i \notin IdsOf(mem, akey)
                /\ told' = told \cup {<<gid, i>>}
                /\ Goto("rm_next")
                /\ UNCHANGED mem
    /\ UNCHANGED <<arg, attempts, devvars, akey, file, enrolled, asked,
                   excused, blind, adds, crashes, scenario>>

(* Variant for the sensitivity check: the result of the store is ignored. *)
RmStoreIgnored ==
    /\ At("rm_store")
    /\ StoreOk \/ StoreFail
    /\ told' = told \cup {<<gid, cur>>}
    /\ Goto("rm_next")
    /\ UNCHANGED <<locals, devvars, mem, akey, enrolled, asked, excused, blind,
                   adds, crashes, scenario>>

(* fpc_tee_get_finger_ids or fpc_tee_delete_template fails, or the answer of
   a delete is lost. *)
RmFails ==
    /\ At("rm_next")
    /\ "tee" \in Faults
    /\ \/ UNCHANGED mem
       \/ \E i \in todo \cap IdsOf(mem, akey) :
             mem' = DeleteFingerprint(mem, IndexOfId(mem, i))
    /\ Goto("rm_reload")
    /\ UNCHANGED <<locals, devvars, akey, file, histvars, adds, crashes, scenario>>

RmStore ==
    /\ At("rm_store")
    /\ \/ StoreOk /\ told' = told \cup {<<gid, cur>>} /\ Goto("rm_next")
       \/ StoreFail /\ Goto("rm_reload") /\ UNCHANGED told
    /\ UNCHANGED <<locals, devvars, mem, akey, enrolled, asked, excused, blind,
                   adds, crashes, scenario>>

(* on_error(UNABLE_TO_REMOVE), then the load; its result is only logged. *)
RmReload ==
    /\ At("rm_reload")
    /\ LoadOk \/ LoadFail
    /\ ToIdle
    /\ UNCHANGED <<devvars, akey, file, histvars, adds, crashes, scenario>>

RmEnds ==
    /\ At("rm_next")
    /\ todo = {}
    /\ ToIdle
    /\ UNCHANGED <<devvars, mem, akey, file, histvars, adds, crashes,
                   scenario>>
-----------------------------------------------------------------------------
(* fpc_authenticate and do_authenticate. *)
Authenticate(g) ==
    /\ MayCall(g)
    /\ Goto("au_capture")
    /\ UNCHANGED <<locals, devvars, mem, akey, file, enrolled, asked, told,
                   excused, adds, crashes, scenario>>

(* A failed attempt, reported by on_authenticated(0). *)
Failed ==
    \/ attempts + 1 >= MaxFailed /\ ToIdle
    \/ /\ attempts + 1 < MaxFailed
       /\ attempts' = attempts + 1
       /\ Goto("au_capture")
       /\ UNCHANGED <<arg, todo, cur>>

(* Cancelled or an error; or QUALIFY_ABORT and FINGER_STUCK. *)
AuNoImage ==
    /\ At("au_capture")
    /\ ToIdle \/ Failed
    /\ UNCHANGED <<devvars, mem, akey, file, histvars, adds, crashes,
                   scenario>>

(* Variant for the sensitivity check: the id is read without the active key. *)
AuMatchAnyKey ==
    /\ At("au_capture")
    /\ \E i \in Valid(mem) :
          /\ cur' = mem.slots[i]
          /\ mem' = SetTemplateFirst(mem, ListIndex(mem, i))
    /\ Goto("au_report")
    /\ UNCHANGED <<arg, todo, attempts, devvars, akey, file, histvars, adds,
                   crashes, scenario>>

(* fpc_ta_bio_identify on a good image.  Every template of the database is
   a candidate; the id is read through the active key.  The slot moved to
   the front is named by its position in the candidate list. *)
AuMatch ==
    /\ At("au_capture")
    /\ \E i \in Valid(mem) :
          /\ mem.key = akey
          /\ cur' = mem.slots[i]
          /\ mem' = SetTemplateFirst(mem, ListIndex(mem, i))
    /\ Goto("au_report")
    /\ UNCHANGED <<arg, todo, attempts, devvars, akey, file, histvars, adds,
                   crashes, scenario>>

AuNoMatch ==
    /\ At("au_capture")
    /\ Valid(mem) # {}
    /\ cur' = 0
    /\ Goto("au_update")
    /\ UNCHANGED <<arg, todo, attempts, devvars, mem, akey, file, histvars,
                   adds, crashes, scenario>>

(* No template at all, or the matching one is not of the active set. *)
AuIdentifyError ==
    /\ At("au_capture")
    /\ Valid(mem) = {} \/ mem.key # akey
    /\ ToIdle
    /\ UNCHANGED <<devvars, mem, akey, file, histvars, adds, crashes,
                   scenario>>

(* A match whose answer is lost: the entry has moved, the task ends. *)
AuMatchLost ==
    /\ At("au_capture")
    /\ "tee" \in Faults
    /\ mem.key = akey
    /\ \E i \in Valid(mem) : mem' = SetTemplateFirst(mem, ListIndex(mem, i))
    /\ ToIdle
    /\ UNCHANGED <<devvars, akey, file, histvars, adds, crashes, scenario>>

(* fpc_tee_get_auth_result, then on_authenticated(cur, gid). *)
AuReport ==
    /\ At("au_report")
    /\ \/ Goto("au_update") /\ UNCHANGED locals
       \/ ToIdle
    /\ UNCHANGED <<devvars, mem, akey, file, histvars, adds, crashes,
                   scenario>>

(* fpc_tee_update_template fails, updates nothing, or updates and stores;
   the result of the store is ignored. *)
AuUpdate ==
    /\ At("au_update")
    /\ \/ ToIdle /\ UNCHANGED file
       \/ /\ UNCHANGED file \/ StoreOk
          /\ \/ cur # 0 /\ ToIdle
             \/ cur = 0 /\ Failed
    /\ UNCHANGED <<devvars, mem, akey, histvars, adds, crashes, scenario>>
-----------------------------------------------------------------------------
(* Another call waits for the running task: fpc_tee_set_cancel. *)
RequestCancel ==
    /\ pc \notin {"idle", "sg_load", "sg_gid"}
    /\ ~cancelled
    /\ cancelled' = TRUE
    /\ UNCHANGED <<pc, locals, devvars, mem, akey, file, histvars, adds,
                   crashes, scenario>>

(* The daemon dies and is started again (fpc_hal_open); the trusted
   application dies with it or keeps its state. *)
Crash ==
    /\ crashes < MaxCrashes
    /\ crashes' = crashes + 1
    /\ ToIdle
    /\ gid' = 0 /\ ready' = FALSE /\ called' = FALSE /\ active' = FALSE /\ authid' = NoDbId
    /\ undone' = FALSE
    /\ excused' = excused \cup (IF pc \in {"en_check", "en_undo"} THEN {cur} ELSE {})
    /\ \/ UNCHANGED <<mem, akey>>
       \/ akey' = InvalidKey /\ \E d \in Fresh : mem' = EmptyDb(d)
    /\ UNCHANGED <<file, enrolled, asked, told, blind, adds, scenario>>

Next ==
    \/ \E g \in Groups :
          \/ SetActiveGroup(g) \/ Enroll(g) \/ Authenticate(g)
          \/ \E fid \in EnrolledIds \cup {0} : Remove(g, fid)
    \/ SgLoad \/ SgSetGid
    \/ EnEnds \/ EnEndEnrol \/ EnEndEnrolLost \/ EnRefused \/ EnStore \/ EnReload \/ EnReport
    \/ EnUndo \/ EnUndoStore \/ EnAuthId
    \/ RmDelete \/ RmFails \/ RmStore \/ RmReload \/ RmEnds
    \/ AuNoImage \/ AuMatch \/ AuMatchLost \/ AuNoMatch \/ AuIdentifyError
    \/ AuReport \/ AuUpdate
    \/ RequestCancel \/ Crash

Spec == Init /\ [][Next]_vars
-----------------------------------------------------------------------------
PCs == {"idle", "sg_load", "sg_gid", "en_capture", "en_refused", "en_store",
        "en_reload", "en_check", "en_undo", "en_authid", "rm_next", "rm_store",
        "rm_reload", "au_capture", "au_report", "au_update"}

DbType == [id : DbIds \cup {NoDbId}, key : Groups \cup {0, InvalidKey, NoKey},
           slots : [Index -> Nat]]

(* Type correctness. *)
TypeOK ==
    /\ scenario \in Scenarios
    /\ pc \in PCs
    /\ arg \in Groups \cup {0} /\ gid \in Groups \cup {0}
    /\ ready \in BOOLEAN /\ called \in BOOLEAN /\ cancelled \in BOOLEAN
    /\ active \in BOOLEAN /\ blind \in BOOLEAN /\ undone \in BOOLEAN
    /\ authid \in DbIds \cup {NoDbId}
    /\ cur \in Nat /\ attempts \in Nat /\ adds \in Nat
    /\ crashes \in Nat
    /\ todo \in SUBSET Nat
    /\ mem \in DbType /\ file \in DbType
    /\ akey \in Groups \cup {0, InvalidKey}
    /\ enrolled \in SUBSET ((Groups \cup {0}) \X Nat)
    /\ asked \in SUBSET ((Groups \cup {0}) \X Nat)
    /\ told \in SUBSET ((Groups \cup {0}) \X Nat)
    /\ excused \in SUBSET Nat

OneSlotEach(db) ==
    \A i, j \in Valid(db) : db.slots[i] = db.slots[j] => i = j

DbSound(db) == OneSlotEach(db) /\ (db.key = NoKey <=> Valid(db) = {})

(* A finger reported as enrolled is on disk, in the set of its group, until
   the framework asks for its removal: no crash, cancel, failed store,
   template update, lost answer or switch of the group loses it.  The
   exception, here and below, is a device that ran a task blind, while the
   trusted application had not the database or not the key of current_gid.
   That takes a lost answer of set_gid, or group 0, the value current_gid
   starts with, and a set_active_group that failed. *)
EnrolDurable ==
    /\ blind => \/ "tee" \in Faults
                \/ 0 \in Groups /\ "load" \in Faults
    /\ ~blind => \A p \in enrolled \ asked : p[2] \in IdsOf(file, p[1])

(* A finger reported as removed never comes back, neither in memory nor on
   disk, whatever crashes or fails to store afterwards, as long as the load
   that undoes a remove works. *)
RemovedStaysGone ==
    ~blind /\ "load" \notin Faults =>
        \A p \in told : p[2] \notin IdsOf(file, p[1]) /\ p[2] \notin IdsOf(mem, p[1])

(* A finger on disk was reported as enrolled, or is about to be.  The only
   exceptions are the enrolments that ended without a report because a crash
   or a failing store caught them after the store, or because the answer of
   end_enrol was lost: do_enroll leaves that finger in user_db, where the next
   store finds it.  None of these is reported later.  And no database, in
   memory or on disk, has a finger in two slots, and a set exists exactly
   while it has an entry: additions, deletions and the moves of
   fpc_db_set_template_first neither lose nor copy an entry. *)
NoGhost ==
    /\ TypeOK /\ DbSound(mem) /\ DbSound(file)
    /\ EnrolledIds \cap excused = {}
    /\ ~blind => \A i \in Ids(file) \ (EnrolledIds \cup excused) :
          i = cur /\ pc \in {"en_check", "en_undo"}

(* on_authenticated names a finger that was reported as enrolled in the
   current group, or one of the unreported ones that NoGhost excepts, and,
   while loads work, none that was removed from the group. *)
AuthOnlyEnrolled ==
    ~blind /\ At("au_report") =>
        /\ <<gid, cur>> \in enrolled \/ cur \in excused
        /\ <<gid, cur>> \in told => "load" \in Faults

(* Between calls, get_authenticator_id returns the id the trusted
   application puts into its tokens, unless an enrolment was undone since
   (the undo keeps the old authid and leaves or draws another database id)
   or a command of the TEE failed. *)
AuthIdSettled ==
    At("idle") /\ ready /\ ~undone /\ Faults = {"store"} => authid = mem.id

=============================================================================

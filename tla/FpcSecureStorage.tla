--------------------------- MODULE FpcSecureStorage ---------------------------
(***************************************************************************)
(* The template database in a file of the trusted application: the build   *)
(* with FPC_CONFIG_TA_FS.  A client call (fpc_tee_store_template_db,       *)
(* fpc_tee_load_template_db) is one to three commands; a store truncates   *)
(* the one file and writes it in place, a load first frees the database in *)
(* memory.  The file's contents are the bytes of FpcDbFormat, so a write   *)
(* cut short leaves a prefix of them.                                      *)
(*                                                                         *)
(* Any command, allocation or file operation may fail, and the power may   *)
(* fail between any two steps, MaxFaults times in all.                     *)
(***************************************************************************)
EXTENDS FpcDbFormat

CONSTANTS
    Dbs,         \* databases that enrolments, removals and updates make
    OldVersions, \* format versions a file from an earlier release may have
    MaxFaults,   \* bound on the failures of a behaviour
    NULL,        \* no database in memory
    NoFile       \* no file

ASSUME StorageAssumption ==
    MaxFaults \in Nat /\ OldVersions \subseteq {2, 3}

FPC_ERROR_INPUT == 1
FPC_ERROR_COMM == 4

VARIABLES
    sizeCommand, \* does the trusted application answer the size query?
    db,      \* bio->user_db
    file,    \* bytes of the file
    pc,      \* step of the client's call
    call,    \* the last call: "none", "store" or "load"
    ret,     \* its result
    hit,     \* what failed during it: "none", "file" or "other"
    kept,    \* the database the file is known to hold, NULL if none is
    source,  \* the database the bytes of the file come from
    faults   \* failures so far

system == <<db, file, pc, call, ret, hit, kept, source, faults>>
vars == <<sizeCommand, system>>

Whole(d) == GetData(d, GetDataSize(d)).bytes

Random == 7

TypeOK ==
    /\ db = NULL \/ Len(db.sets) \in 0 .. 1
    /\ file = NoFile \/ \A i \in 1 .. Len(file) : file[i] \in 0 .. 255
    /\ pc \in {"idle", "store", "write", "close", "size", "load", "empty"}
    /\ call \in {"none", "store", "load"}
    /\ ret \in Int
    /\ hit \in {"none", "file", "other"}
    /\ faults \in 0 .. MaxFaults

Init ==
    /\ sizeCommand \in BOOLEAN
    /\ db = EmptyDb(Random)
    /\ \/ file = NoFile /\ kept = NULL /\ source = NULL
       \/ \E d \in Dbs, v \in OldVersions :
            file = OldData(d, v) /\ kept = d /\ source = d
    /\ pc = "idle" /\ call = "none" /\ ret = 0 /\ hit = "none" /\ faults = 0

-----------------------------------------------------------------------------
Fails(kind) == faults < MaxFaults /\ faults' = faults + 1 /\ hit' = kind

Works == UNCHANGED <<faults, hit>>

Goto(l) == pc' = l /\ UNCHANGED ret

Return(status) == pc' = "idle" /\ ret' = status

FileAsIs == UNCHANGED <<file, kept, source>>

Begin(c, l) ==
    /\ pc = "idle"
    /\ pc' = l /\ call' = c /\ ret' = 0 /\ hit' = "none"
    /\ UNCHANGED <<db, file, kept, source, faults>>

(* Enrolments, removals and template updates. *)
Change ==
    /\ pc = "idle"
    /\ db # NULL
    /\ db' \in Dbs
    /\ call' = "none"
    /\ UNCHANGED <<file, pc, ret, hit, kept, source, faults>>

StoreTemplateDb == Begin("store", "store")

LoadTemplateDb == Begin("load", "size")

(* A command the trusted application never sees: no shared buffer, or no
   session. *)
CommandFails ==
    /\ pc \in {"store", "size", "load", "empty"}
    /\ Fails("other")
    /\ \E status \in {-FPC_ERROR_ALLOC, -FPC_ERROR_COMM} : Return(status)
    /\ FileAsIs /\ UNCHANGED <<db, call>>

(* fpc_ta_store_db_to_file up to the opening of the file, which truncates
   it.  Nothing is opened unless there is a database and it has been packed. *)
TaStore ==
    LET status == IF db = NULL THEN -FPC_ERROR_INPUT
                  ELSE GetData(db, GetDataSize(db)).status
    IN  /\ pc = "store"
        /\ UNCHANGED <<db, call>>
        /\ IF status # 0 THEN Return(status) /\ Works /\ FileAsIs
           ELSE \/ Return(-FPC_ERROR_ALLOC) /\ Fails("other") /\ FileAsIs
                \/ Return(-FPC_ERROR_IO) /\ Fails("file") /\ FileAsIs
                \/ /\ Goto("write") /\ Works
                   /\ file' = <<>> /\ kept' = NULL /\ source' = db

(* ut_pf_ts_write. *)
Write ==
    /\ pc = "write"
    /\ Goto("close") /\ Works /\ file' = Whole(db)
    /\ UNCHANGED <<db, call, kept, source>>

(* Fewer bytes than asked for, or none: the file keeps them. *)
ShortWrite ==
    /\ pc = "write"
    /\ \E n \in 0 .. GetDataSize(db) - 1 : file' = SubSeq(Whole(db), 1, n)
    /\ Return(-FPC_ERROR_IO) /\ Fails("file")
    /\ UNCHANGED <<db, call, kept, source>>

Close ==
    /\ pc = "close"
    /\ \/ Return(0) /\ Works /\ kept' = db
       \/ Return(-FPC_ERROR_IO) /\ Fails("file") /\ UNCHANGED kept
    /\ UNCHANGED <<db, file, call, source>>

(* A handler's status as fpc_tac_transfer returns it, put together from
   four signed bytes. *)
Transferred(status) == status - 256 - 65536 - 16777216

(* get_db_file_size.  fpc_ta_fs_handler has no case for the query and
   answers -FPC_ERROR_INPUT; the application the client is written for answers
   it, with 0 when there is no file. *)
GetDbFileSize ==
    /\ pc = "size"
    /\ Works
    /\ IF ~sizeCommand THEN Return(Transferred(-FPC_ERROR_INPUT))
       ELSE Goto(IF file \in {NoFile, <<>>} THEN "empty" ELSE "load")
    /\ FileAsIs /\ UNCHANGED <<db, call>>

(* fpc_fs_get_filesize fails: its status is negated once more. *)
SizeUnknown == [status |-> FPC_ERROR_IO, hit |-> "file", db |-> NULL]

(* fpc_fs_read cannot open or close the file, or reads too little. *)
ReadFails == [status |-> -FPC_ERROR_IO, hit |-> "file", db |-> NULL]

NoMemory == [status |-> -FPC_ERROR_ALLOC, hit |-> "other", db |-> NULL]

Unpacked(rnd) ==
    LET r == DbCreate(file, rnd)
    IN  [status |-> r.status, hit |-> IF rnd < 0 THEN "other" ELSE "none",
         db |-> IF r.status = 0 THEN r.db ELSE NULL]

(* What fpc_ta_load_db_from_file may answer, what failed, and the database
   it leaves: it has freed the one there was. *)
LoadOutcome ==
    {SizeUnknown, ReadFails, NoMemory} \cup {Unpacked(rnd) : rnd \in {Random, -1}}

AfterLoad(status) == IF status = -FPC_ERROR_IO THEN Goto("empty") ELSE Return(status)

TaLoad ==
    /\ pc = "load"
    /\ \E o \in LoadOutcome :
         /\ AfterLoad(o.status)
         /\ db' = o.db
         /\ IF o.hit = "none" THEN Works ELSE Fails(o.hit)
    /\ FileAsIs /\ UNCHANGED call

(* fpc_tee_load_empty_db: the old database is gone even if there is no
   memory for the new one. *)
LoadEmptyDb ==
    /\ pc = "empty"
    /\ \/ db' = EmptyDb(Random) /\ Return(0) /\ Works
       \/ db' = NULL /\ Return(-FPC_ERROR_ALLOC) /\ Fails("other")
    /\ FileAsIs /\ UNCHANGED call

(* Memory is lost and the trusted application starts with an empty database;
   of a write under way the file keeps any part. *)
PowerLoss ==
    /\ Fails("other")
    /\ IF pc = "write"
       THEN \E n \in 0 .. GetDataSize(db) : file' = SubSeq(Whole(db), 1, n)
       ELSE UNCHANGED file
    /\ db' = EmptyDb(Random) /\ pc' = "idle" /\ call' = "none" /\ ret' = 0
    /\ UNCHANGED <<kept, source>>

(* The HAL process ends; the trusted application keeps its database. *)
HalDies ==
    /\ pc \in {"store", "size", "load", "empty"}
    /\ Fails("other")
    /\ pc' = "idle" /\ call' = "none" /\ ret' = 0
    /\ FileAsIs /\ UNCHANGED db

Next ==
    /\ \/ Change \/ StoreTemplateDb \/ LoadTemplateDb \/ CommandFails
       \/ TaStore \/ Write \/ ShortWrite \/ Close
       \/ GetDbFileSize \/ TaLoad \/ LoadEmptyDb
       \/ PowerLoss \/ HalDies
    /\ UNCHANGED sizeCommand

Spec == Init /\ [][Next]_vars

-----------------------------------------------------------------------------
(* Two databases with the same fingerprints; the ids that an upgrade draws
   and the secure user ids version 2 lacks may differ. *)
Same(d, e) ==
    /\ Len(d.sets) = Len(e.sets)
    /\ \A k \in 1 .. Len(d.sets) :
         /\ d.sets[k].key = e.sets[k].key
         /\ \A j \in 1 .. Slots :
              /\ d.sets[k].list[j].fid = e.sets[k].list[j].fid
              /\ d.sets[k].list[j].tpl = e.sets[k].list[j].tpl

(* The file of a store that succeeded is unpacked to the database that was
   stored, although db_pack_v4 and db_unpack ignore what most of their helpers
   return; files of older versions likewise.  A file cut short by a failed or
   interrupted write is never taken for another database: fpc_db_create
   refuses it, or it is the whole of what was written. *)
NeverAnother ==
    /\ TypeOK
    /\ file # NoFile =>
         LET r == DbCreate(file, Random)
         IN  /\ r.status = 0 => Same(r.db, source)
             /\ kept # NULL => r.status = 0 /\ Same(r.db, kept)

(* A store during which nothing failed succeeds whenever there is a database:
   the size fpc_db_get_data_size counts without a buffer is the size that is
   written, to the last byte, with the two bounds the pack helpers have.  A
   load that reports success leaves a database, the stored one or an empty
   one.  Where the trusted application answers the size query, a load during
   which nothing failed gives back what the last successful store wrote,
   whatever stores and loads failed in between; where it does not, no load
   ever reaches the file and the database in memory stays. *)
ReloadRestores ==
    /\ pc = "idle" /\ call = "store" /\ hit = "none" /\ db # NULL =>
         ret = 0 /\ kept = db
    /\ pc = "idle" /\ call = "load" /\ ret = 0 =>
         db # NULL /\ (db.sets = <<>> \/ Same(db, source))
    /\ pc = "idle" /\ call = "load" /\ hit = "none" /\ kept # NULL /\ sizeCommand =>
         ret = 0 /\ db # NULL /\ Same(db, kept)
    /\ ~sizeCommand => db # NULL
=============================================================================

------------------------------ MODULE FpcDbBlob ------------------------------
(***************************************************************************)
(* How the database gets from the trusted application to the file and      *)
(* back: fpc_tee_host_storage.c in the normal world sends the wrapped      *)
(* database in chunks to and from fpc_ta_db_blob.c in the secure world,    *)
(* which keeps the state of the transfer between the commands.             *)
(*                                                                         *)
(* A wrapped database is a sequence of bytes, each a pair of the database  *)
(* it belongs to and its position, so that truncated or mixed data is not  *)
(* taken for a database (fpc_wrap_crypto and fpc_unwrap_crypto are         *)
(* external).  Transfers, allocations and file operations may fail, and    *)
(* the daemon may crash in the middle, with the trusted application or     *)
(* without it.                                                             *)
(***************************************************************************)
EXTENDS Naturals, Sequences

CONSTANTS
    Dbs,          \* contents of the database
    Empty,        \* the empty one
    NoDb,         \* no file
    SizeOf,       \* wrapped size of each content
    MaxChunk,     \* MAX_CHUNK
    MaxTransfer,  \* FPC_TA_MAX_TRANSFER
    MaxFaults,    \* bound: failures in a run
    MaxCrashes    \* bound: crashes in a run

ASSUME BlobAssumption ==
    /\ Empty \in Dbs /\ NoDb \notin Dbs
    /\ SizeOf \in [Dbs -> Nat \ {0}]
    /\ MaxChunk \in Nat \ {0} /\ MaxTransfer \in Nat
    /\ MaxFaults \in Nat /\ MaxCrashes \in Nat

VARIABLES
    pc,       \* the step of the call in progress, or "idle"
    call,     \* the last call: "none", "store" or "load"
    res,      \* its result so far
    size,     \* blob_size or file_size
    rem,      \* remaining_size
    buf,      \* blob or file_buffer, as far as it is filled
    bak,      \* the file at temp_path
    file,     \* the file at path
    mem,      \* bio->user_db
    xfer,     \* transfer, the state in the trusted application
    struck,   \* history: a failure has struck this call
    stale,    \* history: this call found a transfer open
    faults,
    crashes

reevars == <<size, rem, buf, bak, file>>
tavars  == <<mem, xfer>>
vars == <<pc, call, res, reevars, tavars, struck, stale, faults, crashes>>

Least(a, b) == IF a < b THEN a ELSE b

Blob(v) == [k \in 1 .. SizeOf[v] |-> <<v, k>>]

Closed == [mode |-> "none", size |-> 0, remaining |-> 0, offset |-> 0, data |-> <<>>]

Init ==
    /\ pc = "idle" /\ call = "none" /\ res = "ok"
    /\ size = 0 /\ rem = 0 /\ buf = <<>> /\ bak = <<>> /\ file = <<>>
    /\ mem = Empty /\ xfer = Closed
    /\ struck = FALSE /\ stale = FALSE
    /\ faults = 0 /\ crashes = 0
-----------------------------------------------------------------------------
(* One step of a call that goes well, one that is refused, one that a
   failure strikes. *)
Goes(p) == pc' = p /\ UNCHANGED <<res, struck, faults>>

Refused(p) == pc' = p /\ res' = "err" /\ UNCHANGED <<struck, faults>>

Struck(p) ==
    /\ faults < MaxFaults
    /\ faults' = faults + 1
    /\ struck' = TRUE
    /\ res' = "err"
    /\ pc' = p

(* The database changes between the calls. *)
Change(v) ==
    /\ pc = "idle"
    /\ mem' = v
    /\ call' = "none"
    /\ UNCHANGED <<pc, res, reevars, xfer, struck, stale, faults, crashes>>

Begin(c, p) ==
    /\ pc = "idle"
    /\ pc' = p
    /\ call' = c
    /\ res' = "ok"
    /\ struck' = FALSE
    /\ stale' = (xfer.mode # "none")
    /\ size' = 0 /\ rem' = 0 /\ buf' = <<>>
    /\ UNCHANGED <<bak, file, tavars, faults, crashes>>

(* The size of what is to be transferred, or a failure to get it. *)
GetSize(n, p) ==
    /\ \/ size' = n /\ rem' = n /\ Goes(p)
       \/ Struck("idle") /\ UNCHANGED <<size, rem>>
    /\ UNCHANGED <<call, buf, bak, file, tavars, stale, crashes>>

(* fpc_ta_db_open *)
MayOpen(n) == xfer.mode = "none" /\ n # 0 /\ n <= MaxTransfer

OpenedR ==
    [mode |-> "r", size |-> SizeOf[mem], remaining |-> SizeOf[mem], offset |-> 0,
     data |-> Blob(mem)]

OpenedW(n) ==
    [mode |-> "w", size |-> n, remaining |-> n, offset |-> 0, data |-> <<>>]

(* Variant for the sensitivity check: a failed open is not closed. *)
OpenNoClose(opened, next) ==
    /\ \/ MayOpen(size) /\ xfer' = opened /\ Goes(next)
       \/ ~MayOpen(size) /\ UNCHANGED xfer /\ Refused("idle")
    /\ UNCHANGED <<call, reevars, mem, stale, crashes>>

(* db_open: a failed transfer may have reached the trusted application.
   When an allocation fails there, the transfer stays closed. *)
Open(opened, next) ==
    /\ \/ MayOpen(size) /\ xfer' = opened /\ Goes(next)
       \/ ~MayOpen(size) /\ UNCHANGED xfer /\ Refused("close")
       \/ UNCHANGED xfer /\ Struck("close")
       \/ MayOpen(size) /\ xfer' = opened /\ Struck("close")
    /\ UNCHANGED <<call, reevars, mem, stale, crashes>>
-----------------------------------------------------------------------------
(* fpc_tee_store_template_db. *)
StoreBegin == Begin("store", "st_size")

(* get_db_blob_size *)
StSize == pc = "st_size" /\ GetSize(SizeOf[mem], "st_open")

StOpen == pc = "st_open" /\ Open(OpenedR, "st_read")

(* One turn of send_db_read_commands and fpc_ta_db_read.  db_read.size is
   the size of the first chunk in every command. *)
StRead ==
    /\ pc = "st_read"
    /\ rem > 0
    /\ LET n == Least(MaxChunk, rem)
           m == Least(xfer.remaining, Least(size, MaxChunk))
           served == [xfer EXCEPT !.remaining = @ - m, !.offset = @ + m]
           may == xfer.mode = "r" /\ xfer.remaining # 0
       IN  \/ /\ may
              /\ xfer' = served
              /\ rem' = rem - n
              /\ \/ /\ rem - n = xfer.remaining - m
                    /\ buf' = buf \o SubSeq(xfer.data, xfer.offset + 1, xfer.offset + n)
                    /\ Goes(IF rem = n THEN "st_write" ELSE "st_read")
                 \/ /\ rem - n # xfer.remaining - m
                    /\ Refused("close")
                    /\ UNCHANGED buf
           \/ ~may /\ Refused("close") /\ UNCHANGED <<xfer, rem, buf>>
           \/ /\ xfer' \in IF may THEN {xfer, served} ELSE {xfer}
              /\ Struck("close")
              /\ UNCHANGED <<rem, buf>>
    /\ UNCHANGED <<call, size, bak, file, mem, stale, crashes>>

(* Variant for the sensitivity check: a short write goes unnoticed. *)
StWriteShort ==
    /\ pc = "st_write"
    /\ \E k \in 0 .. Len(buf) : bak' = SubSeq(buf, 1, k)
    /\ Goes("st_rename")
    /\ UNCHANGED <<call, size, rem, buf, file, tavars, stale, crashes>>

(* fpc_write_db_blob_to_file: what a failed write leaves is a part. *)
StWrite ==
    /\ pc = "st_write"
    /\ \/ bak' = buf /\ Goes("st_rename")
       \/ (\E k \in 0 .. Len(buf) - 1 : bak' = SubSeq(buf, 1, k)) /\ Struck("close")
    /\ UNCHANGED <<call, size, rem, buf, file, tavars, stale, crashes>>

(* rename, or unlink when it fails. *)
StRename ==
    /\ pc = "st_rename"
    /\ bak' = <<>>
    /\ \/ file' = bak /\ Goes("close")
       \/ UNCHANGED file /\ Struck("close")
    /\ UNCHANGED <<call, size, rem, buf, tavars, stale, crashes>>

(* db_close; store and load ignore its result. *)
Close ==
    /\ pc = "close"
    /\ \/ xfer' = Closed /\ Goes("idle")
       \/ /\ faults < MaxFaults
          /\ faults' = faults + 1
          /\ struck' = TRUE
          /\ pc' = "idle"
          /\ UNCHANGED <<res, xfer>>
    /\ UNCHANGED <<call, reevars, mem, stale, crashes>>
-----------------------------------------------------------------------------
(* fpc_tee_load_template_db. *)
LoadBegin == Begin("load", "ld_size")

(* get_file_size: no file has size 0. *)
LdSize ==
    /\ pc = "ld_size"
    /\ GetSize(Len(file), IF file = <<>> THEN "ld_empty" ELSE "ld_open")

(* fpc_tee_load_empty_db. *)
LdEmpty ==
    /\ pc = "ld_empty"
    /\ \/ mem' = Empty /\ Goes("idle")
       \/ mem' \in {mem, Empty} /\ Struck("idle")
    /\ UNCHANGED <<call, reevars, xfer, stale, crashes>>

LdOpen == pc = "ld_open" /\ Open(OpenedW(size), "ld_read")

(* malloc, whose failure returns without a close, and
   fpc_read_db_blob_from_file. *)
LdRead ==
    /\ pc = "ld_read"
    /\ \/ buf' = file /\ Goes("ld_write")
       \/ Struck("close") /\ UNCHANGED buf
       \/ Struck("idle") /\ UNCHANGED buf
    /\ UNCHANGED <<call, size, rem, bak, file, tavars, stale, crashes>>

(* unwrap: the database a blob contains, if it is one. *)
IsBlob(data) == \E v \in Dbs : data = Blob(v)

Unwrapped(data) == CHOOSE v \in Dbs : data = Blob(v)

(* One turn of send_db_write_commands and fpc_ta_db_write; the last chunk
   replaces the database, or leaves it when unwrap fails. *)
LdWrite ==
    /\ pc = "ld_write"
    /\ rem > 0
    /\ LET n == Least(MaxChunk, rem)
           m == Least(xfer.remaining, Least(size, MaxChunk))
           from == size - rem
           left == xfer.remaining - m
           data == xfer.data \o SubSeq(buf, from + 1, from + m)
           taken == [xfer EXCEPT !.remaining = left, !.offset = @ + m, !.data = data]
           may == xfer.mode = "w" /\ xfer.remaining # 0
           whole == left = 0 /\ IsBlob(data)
       IN  \/ /\ may /\ (left # 0 \/ whole)
              /\ xfer' = taken
              /\ mem' = IF whole THEN Unwrapped(data) ELSE mem
              /\ rem' = rem - n
              /\ \/ rem - n = left /\ Goes(IF left = 0 THEN "close" ELSE "ld_write")
                 \/ rem - n # left /\ Refused("close")
           \/ /\ may /\ left = 0 /\ ~whole
              /\ xfer' = taken
              /\ Refused("close")
              /\ UNCHANGED <<mem, rem>>
           \/ ~may /\ Refused("close") /\ UNCHANGED <<xfer, mem, rem>>
           \/ /\ \/ UNCHANGED <<xfer, mem>>
                 \/ /\ may
                    /\ xfer' = taken
                    /\ mem' \in {mem} \cup (IF whole THEN {Unwrapped(data)} ELSE {})
              /\ Struck("close")
              /\ UNCHANGED rem
    /\ UNCHANGED <<call, size, buf, bak, file, stale, crashes>>
-----------------------------------------------------------------------------
(* The daemon dies; the trusted application dies too or keeps its state.  A
   write that was under way leaves a part of the temporary file. *)
Crash ==
    /\ crashes < MaxCrashes
    /\ crashes' = crashes + 1
    /\ pc' = "idle" /\ call' = "none" /\ res' = "ok"
    /\ size' = 0 /\ rem' = 0 /\ buf' = <<>>
    /\ struck' = FALSE /\ stale' = FALSE
    /\ \/ UNCHANGED bak
       \/ pc = "st_write" /\ \E k \in 0 .. Len(buf) : bak' = SubSeq(buf, 1, k)
    /\ \/ UNCHANGED tavars
       \/ mem' = Empty /\ xfer' = Closed
    /\ UNCHANGED <<file, faults>>

Next ==
    \/ \E v \in Dbs : Change(v)
    \/ StoreBegin \/ StSize \/ StOpen \/ StRead \/ StWrite \/ StRename
    \/ LoadBegin \/ LdSize \/ LdEmpty \/ LdOpen \/ LdRead \/ LdWrite
    \/ Close \/ Crash

Spec == Init /\ [][Next]_vars
-----------------------------------------------------------------------------
Bytes == Dbs \X Nat

Transfers ==
    [mode : {"none", "r", "w"}, size : Nat, remaining : Nat, offset : Nat, data : Seq(Bytes)]

(* Type correctness. *)
TypeOK ==
    /\ pc \in {"idle", "st_size", "ld_size", "st_open", "st_read", "st_write", "st_rename",
               "close", "ld_empty", "ld_open", "ld_read", "ld_write"}
    /\ call \in {"none", "store", "load"}
    /\ res \in {"ok", "err"}
    /\ size \in Nat /\ rem \in Nat
    /\ buf \in Seq(Bytes) /\ bak \in Seq(Bytes) /\ file \in Seq(Bytes)
    /\ mem \in Dbs
    /\ xfer \in Transfers
    /\ struck \in BOOLEAN /\ stale \in BOOLEAN
    /\ faults \in 0 .. MaxFaults /\ crashes \in 0 .. MaxCrashes

(* A call that returns success has done its work: the file is the whole
   database in memory, to the last byte of the last chunk, or the memory is
   what the file has.  The normal and the secure world get back in step (the comment before
   db_open): a call that nothing strikes leaves the transfer closed, unless
   it is a load without a file, which sends no transfer; and it fails only
   because an earlier one left the transfer open or because the database is
   too large.  So of two undisturbed calls that transfer the second succeeds,
   whatever a crash or a failed allocation left behind. *)
SyncHeals ==
    /\ TypeOK
    /\ pc = "idle" /\ call # "none" /\ res = "ok" =>
        IF file = <<>> THEN mem = Empty ELSE file = Blob(mem)
    /\ pc = "idle" /\ call # "none" /\ ~struck =>
        /\ xfer.mode # "none" => call = "load" /\ file = <<>>
        /\ res = "err" => \/ stale
                          \/ call = "store" /\ SizeOf[mem] > MaxTransfer
                          \/ call = "load" /\ Len(file) > MaxTransfer

Storage == INSTANCE FpcDbStorage WITH
    db    <- mem,
    saved <- IF file = <<>> THEN NoDb
             ELSE IF IsBlob(file) THEN Unwrapped(file) ELSE "torn",
    call  <- IF pc = "idle" THEN "none" ELSE call

(* The chunked transfer, the temporary file and the rename implement the
   storage FpcTemplates assumes: a store or a load takes effect as a whole
   or not at all, also under failures and crashes at every step. *)
ImplementsStorage == Storage!Spec
=============================================================================

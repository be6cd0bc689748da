------------------------- MODULE FpcDatabaseProofs --------------------------
(***************************************************************************)
(* Proofs about which database is where.  The transfer of the user's       *)
(* (FpcDbBlob), for every set of databases, every size, every chunk and    *)
(* transfer limit, any number of failures and crashes: it heals, and it    *)
(* implements the storage of FpcDbStorage.  The engineering extension      *)
(* (FpcEngineering), for every set of services and applications and any    *)
(* number of captures, calls and failing commands: its test database       *)
(* takes the user's place only while a test runs or after a load failed,   *)
(* and results reach their request.                                        *)
(***************************************************************************)
EXTENDS FpcDbBlob, FpcEngineering, Integers, SequenceTheorems, TLAPS

-----------------------------------------------------------------------------
(* The user's database: fpc_tee_host_storage.c and fpc_ta_db_blob.c. *)

StorePcs == {"st_size", "st_open", "st_read", "st_write", "st_rename"}
LoadPcs == {"ld_size", "ld_empty", "ld_open", "ld_read", "ld_write"}

(* The file is absent or one whole database. *)
FileWhole == file = <<>> \/ \E v \in Dbs : file = Blob(v)

(* What the loop of send_db_read_commands has fetched so far, and where the
   trusted application stands: the two worlds count the same bytes. *)
Fetching ==
    /\ xfer.mode = "r" /\ xfer.data = Blob(mem)
    /\ size = SizeOf[mem] /\ rem \in 1 .. size
    /\ xfer.remaining = rem /\ xfer.offset = size - rem
    /\ buf = SubSeq(Blob(mem), 1, size - rem)

(* The same for send_db_write_commands. *)
Sending ==
    /\ xfer.mode = "w" /\ xfer.data = SubSeq(file, 1, size - rem)
    /\ size = Len(file) /\ rem \in 1 .. size
    /\ xfer.remaining = rem
    /\ pc = "ld_write" => buf = file

(* The reasons a call that nothing strikes may fail for. *)
Excused ==
    \/ stale
    \/ call = "store" /\ SizeOf[mem] > MaxTransfer
    \/ call = "load" /\ Len(file) > MaxTransfer

(* What the steps of a call know. *)
StepInv ==
    /\ pc \in StorePcs => call = "store"
    /\ pc \in LoadPcs => call = "load"
    /\ pc # "idle" => call # "none"
    /\ pc \notin {"idle", "close"} => res = "ok" /\ ~struck
    /\ pc \in {"st_size", "st_open", "ld_size", "ld_open"} => (stale <=> xfer.mode # "none")
    /\ pc \in {"st_size", "st_open"} => buf = <<>>
    /\ pc = "st_open" => size = SizeOf[mem] /\ rem = size
    /\ pc = "st_read" => Fetching
    /\ pc \in {"st_write", "st_rename"} => buf = Blob(mem)
    /\ pc = "st_rename" => bak = buf
    /\ pc = "ld_empty" => file = <<>>
    /\ pc \in {"ld_open", "ld_read", "ld_write"} => file # <<>>
    /\ pc = "ld_open" => size = Len(file) /\ rem = size
    /\ pc \in {"ld_read", "ld_write"} => Sending
    /\ pc = "ld_read" => rem = size
    /\ pc = "close" /\ res = "ok" => file = Blob(mem)
    /\ pc = "close" /\ res = "err" /\ ~struck => Excused

(* What holds when a call is over. *)
EndInv ==
    /\ pc = "idle" /\ call # "none" /\ res = "ok" =>
          IF file = <<>> THEN mem = Empty ELSE file = Blob(mem)
    /\ pc = "idle" /\ call # "none" /\ ~struck =>
          /\ xfer.mode # "none" => call = "load" /\ file = <<>>
          /\ res = "err" => Excused

IInv == TypeOK /\ FileWhole /\ StepInv /\ EndInv

-----------------------------------------------------------------------------
(* Blobs: what fpc_wrap_crypto makes of a database is not empty, and
   fpc_unwrap_crypto gets back the one it was made from. *)

(* A blob has the size of its database and is not empty. *)
LEMMA BlobSeq ==
    ASSUME NEW v \in Dbs
    PROVE  /\ Blob(v) \in Seq(Bytes) /\ Len(Blob(v)) = SizeOf[v]
           /\ SizeOf[v] \in Nat \ {0} /\ Blob(v) # <<>>
<1>1. SizeOf[v] \in Nat \ {0}
  BY BlobAssumption
<1>2. \A k \in 1 .. SizeOf[v] : <<v, k>> \in Bytes
  BY <1>1 DEF Bytes
<1>3. Blob(v) \in Seq(Bytes) /\ Len(Blob(v)) = SizeOf[v]
  BY <1>1, <1>2, IsASeq DEF Blob
<1> QED
  BY <1>1, <1>3, EmptySeq

(* Unwrapping undoes wrapping. *)
LEMMA UnwrapBlob ==
    ASSUME NEW v \in Dbs
    PROVE  IsBlob(Blob(v)) /\ Unwrapped(Blob(v)) = v
<1>1. \A w \in Dbs : Blob(w)[1] = <<w, 1>>
  BY BlobSeq DEF Blob
<1>2. \A w \in Dbs : Blob(w) = Blob(v) => w = v
  BY <1>1
<1> QED
  BY <1>2 DEF IsBlob, Unwrapped

(* A chunk extends the part that was transferred before it. *)
LEMMA NextChunk ==
    ASSUME NEW s \in Seq(Bytes), NEW i \in 0 .. Len(s), NEW n \in 0 .. Len(s) - i
    PROVE  /\ SubSeq(s, 1, i) \o SubSeq(s, i + 1, i + n) = SubSeq(s, 1, i + n)
           /\ SubSeq(s, 1, i + n) \in Seq(Bytes)
           /\ i + n = Len(s) => SubSeq(s, 1, i + n) = s
<1>1. Len(s) \in Nat /\ \A j \in 1 .. Len(s) : s[j] \in Bytes
  BY LenProperties, ElementOfSeq
<1>2. SubSeq(s, 1, i) \o SubSeq(s, i + 1, i + n) = SubSeq(s, 1, i + n)
  BY <1>1, ConcatAdjacentSubSeq
<1>3. SubSeq(s, 1, i + n) \in Seq(Bytes)
  BY <1>1, SubSeqProperties
<1> QED
  BY <1>2, <1>3, SubSeqFull

(* So does every part of a buffer a failed write leaves. *)
LEMMA PartOf ==
    ASSUME NEW s \in Seq(Bytes), NEW k \in 0 .. Len(s)
    PROVE  SubSeq(s, 1, k) \in Seq(Bytes)
<1>1. Len(s) \in Nat
  BY LenProperties
<1> QED
  BY <1>1, NextChunk

(* The chunk of a command, in the normal and in the secure world. *)
LEMMA ChunkFacts ==
    ASSUME NEW s \in Nat, NEW r \in 1 .. s
    PROVE  LET n == Least(MaxChunk, r)
           IN  /\ n \in 1 .. r /\ r - n \in 0 .. s - 1 /\ s - r \in 0 .. s - 1
               /\ Least(r, Least(s, MaxChunk)) = n
               /\ s - r + n = s - (r - n)
               /\ s - r + n \in 1 .. s
               /\ r - n = 0 <=> r = n
               /\ r = n <=> s - r + n = s
BY BlobAssumption DEF Least

-----------------------------------------------------------------------------
(* The invariant. *)

(* The invariant holds initially. *)
LEMMA InitIInv == Init => IInv
<1> SUFFICES ASSUME Init PROVE IInv
  OBVIOUS
<1>1. struck \in BOOLEAN /\ stale \in BOOLEAN
  BY DEF Init
<1>2. <<>> \in Seq(Bytes)
  BY EmptySeq
<1>3. TypeOK
  BY <1>1, <1>2, BlobAssumption DEF Init, TypeOK, Closed, Transfers
<1> QED
  BY <1>3 DEF Init, IInv, FileWhole, StepInv, EndInv, StorePcs, LoadPcs

(* One turn of send_db_read_commands: the trusted application serves exactly
   the chunk the normal world counts, and the last one completes the blob. *)
LEMMA FetchStep ==
    ASSUME IInv, StRead
    PROVE  /\ UNCHANGED <<call, size, bak, file, mem, stale, crashes>> /\ pc = "st_read"
           /\ xfer' \in Transfers /\ rem' \in Nat /\ buf' \in Seq(Bytes)
           /\ \/ Goes("st_write") /\ buf' = Blob(mem)
              \/ Goes("st_read") /\ Fetching'
              \/ Struck("close")
<1>1. /\ pc = "st_read" /\ UNCHANGED <<call, size, bak, file, mem, stale, crashes>>
      /\ Fetching /\ xfer \in Transfers /\ size \in Nat /\ mem \in Dbs
      /\ buf \in Seq(Bytes) /\ rem \in Nat
  BY DEF IInv, TypeOK, StepInv, StRead
<1> DEFINE n == Least(MaxChunk, rem)
           i == size - rem
           served == [xfer EXCEPT !.remaining = @ - n, !.offset = @ + n]
           more == buf \o SubSeq(xfer.data, xfer.offset + 1, xfer.offset + n)
<1>2. /\ rem \in 1 .. size /\ size = SizeOf[mem] /\ xfer.data = Blob(mem)
      /\ xfer.mode = "r" /\ xfer.remaining = rem /\ xfer.offset = i
      /\ buf = SubSeq(Blob(mem), 1, i)
  BY <1>1 DEF Fetching
<1>3. /\ n \in 1 .. rem /\ rem - n \in 0 .. size - 1 /\ i \in 0 .. size - 1
      /\ Least(xfer.remaining, Least(size, MaxChunk)) = n
      /\ i + n = size - (rem - n) /\ i + n \in 1 .. size
      /\ rem - n = 0 <=> rem = n
      /\ rem = n <=> i + n = size
  BY <1>1, <1>2, ChunkFacts
<1>4. Blob(mem) \in Seq(Bytes) /\ Len(Blob(mem)) = size
  BY <1>1, <1>2, BlobSeq
<1> HIDE DEF n, i
<1>5. /\ served \in Transfers
      /\ served.mode = "r" /\ served.data = Blob(mem)
      /\ served.remaining = rem - n /\ served.offset = i + n
  <2>1. served = [xfer EXCEPT !.remaining = rem - n, !.offset = i + n]
    BY <1>2
  <2>2. rem - n \in Nat /\ i + n \in Nat /\ xfer \in Transfers
    BY <1>1, <1>3
  <2>3. xfer.mode = "r" /\ xfer.data = Blob(mem)
    BY <1>2
  <2> HIDE DEF served
  <2> QED
    BY <2>1, <2>2, <2>3 DEF Transfers
<1>6. /\ more = SubSeq(Blob(mem), 1, i + n) /\ more \in Seq(Bytes)
      /\ rem = n => more = Blob(mem)
  <2>1. i \in 0 .. Len(Blob(mem)) /\ n \in 0 .. Len(Blob(mem)) - i
    BY <1>1, <1>3, <1>4
  <2>2. more = SubSeq(Blob(mem), 1, i) \o SubSeq(Blob(mem), i + 1, i + n)
    BY <1>2
  <2>3. /\ SubSeq(Blob(mem), 1, i) \o SubSeq(Blob(mem), i + 1, i + n) = SubSeq(Blob(mem), 1,
             i + n)
        /\ SubSeq(Blob(mem), 1, i + n) \in Seq(Bytes)
        /\ i + n = Len(Blob(mem)) => SubSeq(Blob(mem), 1, i + n) = Blob(mem)
    BY <1>4, <2>1, NextChunk
  <2> QED
    BY <1>3, <1>4, <2>2, <2>3
<1>7. \/ /\ xfer' = served /\ rem' = rem - n /\ buf' = more
         /\ Goes(IF rem = n THEN "st_write" ELSE "st_read")
      \/ /\ xfer' \in {xfer, served}
         /\ Struck("close")
         /\ UNCHANGED <<rem, buf>>
  <2> DEFINE m == Least(xfer.remaining, Least(size, MaxChunk))
             may == xfer.mode = "r" /\ xfer.remaining # 0
             moved == [xfer EXCEPT !.remaining = @ - m, !.offset = @ + m]
  <2>1. may /\ moved = served /\ rem - n = xfer.remaining - m
    BY <1>1, <1>2, <1>3
  <2>2. \/ /\ may
           /\ xfer' = moved
           /\ rem' = rem - n
           /\ \/ /\ rem - n = xfer.remaining - m
                 /\ buf' = more
                 /\ Goes(IF rem = n THEN "st_write" ELSE "st_read")
              \/ /\ rem - n # xfer.remaining - m
                 /\ Refused("close")
                 /\ UNCHANGED buf
        \/ ~may /\ Refused("close") /\ UNCHANGED <<xfer, rem, buf>>
        \/ /\ xfer' \in IF may THEN {xfer, moved} ELSE {xfer}
           /\ Struck("close")
           /\ UNCHANGED <<rem, buf>>
    BY DEF StRead, n
  <2> HIDE DEF m, may, moved, served, more
  <2> QED
    BY <2>1, <2>2
<1> HIDE DEF served, more
<1>8. rem # n /\ xfer' = served /\ rem' = rem - n /\ buf' = more => Fetching'
  <2> SUFFICES ASSUME rem # n, xfer' = served, rem' = rem - n, buf' = more PROVE Fetching'
    OBVIOUS
  <2>1. rem' \in 1 .. size' /\ i + n = size' - rem'
    BY <1>1, <1>2, <1>3
  <2> QED
    BY <1>1, <1>2, <1>5, <1>6, <2>1 DEF Fetching
<1>9. rem - n \in Nat
  BY <1>1, <1>3
<1> QED
  BY <1>1, <1>5, <1>6, <1>7, <1>8, <1>9

(* One turn of send_db_write_commands: the trusted application takes exactly
   the chunk that is sent, and the last one makes memory what the file has. *)
LEMMA SendStep ==
    ASSUME IInv, LdWrite
    PROVE  /\ UNCHANGED <<call, size, buf, bak, file, stale, crashes>> /\ pc = "ld_write"
           /\ xfer' \in Transfers /\ rem' \in Nat
           /\ \/ Goes("close") /\ mem' = Unwrapped(file)
              \/ Goes("ld_write") /\ Sending' /\ UNCHANGED mem
              \/ Struck("close") /\ mem' \in {mem, Unwrapped(file)}
<1>1. /\ pc = "ld_write" /\ UNCHANGED <<call, size, buf, bak, file, stale, crashes>>
      /\ Sending /\ file # <<>> /\ xfer \in Transfers /\ size \in Nat
      /\ file \in Seq(Bytes) /\ FileWhole /\ rem \in Nat
  BY DEF IInv, TypeOK, StepInv, LdWrite
<1> DEFINE n == Least(MaxChunk, rem)
           i == size - rem
           bytes == xfer.data \o SubSeq(buf, i + 1, i + n)
           taken == [xfer EXCEPT !.remaining = rem - n, !.offset = @ + n, !.data = bytes]
<1>2. /\ rem \in 1 .. size /\ size = Len(file) /\ buf = file
      /\ xfer.mode = "w" /\ xfer.remaining = rem
      /\ xfer.data = SubSeq(file, 1, i)
  BY <1>1 DEF Sending
<1>3. /\ n \in 1 .. rem /\ rem - n \in 0 .. size - 1 /\ i \in 0 .. size - 1
      /\ Least(xfer.remaining, Least(size, MaxChunk)) = n
      /\ i + n = size - (rem - n) /\ i + n \in 1 .. size
      /\ rem - n = 0 <=> rem = n
      /\ rem = n <=> i + n = size
  BY <1>1, <1>2, ChunkFacts
<1>4. IsBlob(file)
  BY <1>1, UnwrapBlob DEF FileWhole
<1> HIDE DEF n, i
<1>5. /\ bytes = SubSeq(file, 1, i + n) /\ bytes \in Seq(Bytes)
      /\ rem = n => bytes = file
  <2>1. i \in 0 .. Len(file) /\ n \in 0 .. Len(file) - i
    BY <1>1, <1>2, <1>3
  <2>2. bytes = SubSeq(file, 1, i) \o SubSeq(file, i + 1, i + n)
    BY <1>2
  <2>3. /\ SubSeq(file, 1, i) \o SubSeq(file, i + 1, i + n) = SubSeq(file, 1, i + n)
        /\ SubSeq(file, 1, i + n) \in Seq(Bytes)
        /\ i + n = Len(file) => SubSeq(file, 1, i + n) = file
    BY <1>1, <2>1, NextChunk
  <2> QED
    BY <1>2, <1>3, <2>2, <2>3
<1> HIDE DEF bytes
<1>6. /\ taken \in Transfers
      /\ taken.mode = "w" /\ taken.remaining = rem - n /\ taken.data = bytes
  <2>1. xfer.offset \in Nat
    BY <1>1 DEF Transfers
  <2>2. /\ rem - n \in Nat /\ xfer.offset + n \in Nat /\ xfer \in Transfers
        /\ bytes \in Seq(Bytes) /\ xfer.mode = "w"
    BY <1>1, <1>2, <1>3, <1>5, <2>1
  <2> QED
    BY <2>2 DEF Transfers
<1>7. \/ /\ xfer' = taken /\ rem' = rem - n
         /\ mem' = IF rem = n THEN Unwrapped(file) ELSE mem
         /\ Goes(IF rem = n THEN "close" ELSE "ld_write")
      \/ /\ \/ UNCHANGED <<xfer, mem>>
            \/ xfer' = taken /\ mem' \in {mem, Unwrapped(file)}
         /\ Struck("close")
         /\ UNCHANGED rem
  <2> DEFINE whole == rem - n = 0 /\ IsBlob(bytes)
  <2>1. whole <=> rem = n
    BY <1>3, <1>4, <1>5
  <2>2. rem = n => Unwrapped(bytes) = Unwrapped(file)
    BY <1>5
  <2>3. \/ /\ (rem - n # 0 \/ whole)
           /\ xfer' = taken
           /\ mem' = IF whole THEN Unwrapped(bytes) ELSE mem
           /\ rem' = rem - n
           /\ Goes(IF rem - n = 0 THEN "close" ELSE "ld_write")
        \/ rem - n = 0 /\ ~whole
        \/ /\ \/ UNCHANGED <<xfer, mem>>
              \/ /\ xfer' = taken
                 /\ mem' \in {mem} \cup (IF whole THEN {Unwrapped(bytes)} ELSE {})
           /\ Struck("close")
           /\ UNCHANGED rem
    BY SMTT(20), <1>1, <1>2, <1>3 DEF LdWrite, bytes, n, i
  <2> HIDE DEF whole, taken
  <2> QED
    BY <1>3, <2>1, <2>2, <2>3
<1> HIDE DEF taken
<1>8. rem # n /\ xfer' = taken /\ rem' = rem - n => Sending'
  <2> SUFFICES ASSUME rem # n, xfer' = taken, rem' = rem - n PROVE Sending'
    OBVIOUS
  <2>1. rem' \in 1 .. size' /\ i + n = size' - rem'
    BY <1>1, <1>2, <1>3
  <2> QED
    BY <1>1, <1>2, <1>5, <1>6, <2>1 DEF Sending
<1>9. rem - n \in Nat
  BY <1>1, <1>3
<1> QED
  BY <1>1, <1>6, <1>7, <1>8, <1>9

(* Every step keeps the invariant: one case per action. *)
LEMMA NextIInv == IInv /\ [Next]_vars => IInv'
<1> SUFFICES ASSUME IInv, [Next]_vars PROVE IInv'
  OBVIOUS
<1> USE BlobAssumption
<1> USE DEF reevars, tavars, Goes, Refused, Struck
<1>i. TypeOK /\ FileWhole /\ StepInv /\ EndInv
  BY DEF IInv
<1>e. <<>> \in Seq(Bytes) /\ Closed \in Transfers /\ Closed.mode = "none"
  BY EmptySeq DEF Closed, Transfers
<1>m. /\ mem \in Dbs /\ SizeOf[mem] \in Nat \ {0}
      /\ Blob(mem) \in Seq(Bytes) /\ Len(Blob(mem)) = SizeOf[mem] /\ Blob(mem) # <<>>
  BY <1>i, BlobSeq DEF TypeOK
<1>f. /\ Len(file) \in Nat
      /\ file # <<>> => /\ Len(file) # 0 /\ IsBlob(file) /\ Unwrapped(file) \in Dbs
                        /\ file = Blob(Unwrapped(file))
  BY <1>i, BlobSeq, UnwrapBlob, LenProperties DEF TypeOK, FileWhole
<1>1. ASSUME NEW v \in Dbs, Change(v) PROVE IInv'
  BY <1>i, <1>1 DEF Change, IInv, TypeOK, FileWhole, StepInv, EndInv, StorePcs, LoadPcs
<1>2. CASE StoreBegin \/ LoadBegin
  <2>1. TypeOK'
    <3>1. struck' \in BOOLEAN /\ stale' \in BOOLEAN
      BY <1>2 DEF StoreBegin, LoadBegin, Begin
    <3>2. /\ pc' \in {"st_size", "ld_size"} /\ call' \in {"store", "load"} /\ res' = "ok"
          /\ size' = 0 /\ rem' = 0 /\ buf' = <<>>
          /\ UNCHANGED <<bak, file, mem, xfer, faults, crashes>>
      BY <1>2 DEF StoreBegin, LoadBegin, Begin
    <3> QED
      BY <1>i, <1>e, <3>1, <3>2 DEF TypeOK
  <2>2. FileWhole' /\ EndInv'
    BY <1>i, <1>2 DEF StoreBegin, LoadBegin, Begin, FileWhole, EndInv
  <2>3. StepInv'
    BY <1>i, <1>2 DEF StoreBegin, LoadBegin, Begin, StepInv, StorePcs, LoadPcs
  <2> QED
    BY <2>1, <2>2, <2>3 DEF IInv
<1>3. CASE StSize
  <2>1. TypeOK'
    <3>1. struck' \in BOOLEAN
      BY <1>i, <1>3 DEF StSize, GetSize, TypeOK
    <3> QED
      BY <1>i, <1>m, <1>3, <3>1 DEF StSize, GetSize, TypeOK
  <2>2. FileWhole' /\ EndInv'
    BY <1>i, <1>3 DEF StSize, GetSize, FileWhole, EndInv, TypeOK
  <2>3. StepInv'
    BY <1>i, <1>3 DEF StSize, GetSize, StepInv, StorePcs, LoadPcs, TypeOK
  <2> QED
    BY <2>1, <2>2, <2>3 DEF IInv
<1>4. CASE StOpen
  <2>1. TypeOK'
    <3>1. struck' \in BOOLEAN
      BY <1>i, <1>4 DEF StOpen, Open, TypeOK
    <3>2. OpenedR \in Transfers
      BY <1>m DEF OpenedR, Transfers
    <3> QED
      BY <1>i, <1>4, <3>1, <3>2 DEF StOpen, Open, TypeOK
  <2>2. FileWhole' /\ EndInv'
    BY <1>i, <1>4 DEF StOpen, Open, FileWhole, EndInv, TypeOK
  <2>3. xfer' = OpenedR => Fetching'
    <3>1. SubSeq(Blob(mem), 1, 0) = <<>>
      BY SubSeqEmpty
    <3> QED
      BY <1>i, <1>m, <1>4, <3>1 DEF StOpen, Open, OpenedR, Fetching, StepInv, StorePcs
  <2>4. ~MayOpen(size) => Excused
    BY <1>i, <1>m, <1>4 DEF StOpen, MayOpen, Excused, StepInv, StorePcs, TypeOK
  <2>5. Excused => Excused'
    BY <1>4 DEF StOpen, Open, Excused
  <2>6. StepInv'
    BY <1>i, <1>4, <2>3, <2>4, <2>5 DEF StOpen, Open, StepInv, StorePcs, LoadPcs, TypeOK
  <2> QED
    BY <2>1, <2>2, <2>6 DEF IInv
<1>5. CASE StRead
  <2>1. /\ UNCHANGED <<call, size, bak, file, mem, stale, crashes>> /\ pc = "st_read"
        /\ xfer' \in Transfers /\ rem' \in Nat /\ buf' \in Seq(Bytes)
        /\ \/ Goes("st_write") /\ buf' = Blob(mem)
           \/ Goes("st_read") /\ Fetching'
           \/ Struck("close")
    BY <1>5, FetchStep
  <2>2. TypeOK'
    <3>1. struck' \in BOOLEAN
      BY <1>i, <2>1 DEF TypeOK
    <3> QED
      BY <1>i, <2>1, <3>1 DEF TypeOK
  <2>3. FileWhole' /\ EndInv'
    BY <1>i, <2>1 DEF FileWhole, EndInv
  <2>4. StepInv'
    BY <1>i, <2>1 DEF StepInv, StorePcs, LoadPcs, TypeOK
  <2> QED
    BY <2>2, <2>3, <2>4 DEF IInv
<1>6. CASE StWrite
  <2>1. TypeOK'
    <3>1. struck' \in BOOLEAN
      BY <1>i, <1>6 DEF StWrite, TypeOK
    <3>2. Len(buf) \in Nat /\ buf \in Seq(Bytes)
      BY <1>i, LenProperties DEF TypeOK
    <3>3. \A k \in 0 .. Len(buf) - 1 : k \in 0 .. Len(buf)
      BY <3>2
    <3>4. bak' \in Seq(Bytes)
      BY <1>6, <3>2, <3>3, PartOf DEF StWrite
    <3> QED
      BY <1>i, <1>6, <3>1, <3>4 DEF StWrite, TypeOK
  <2>2. FileWhole' /\ EndInv'
    BY <1>i, <1>6 DEF StWrite, FileWhole, EndInv
  <2>3. StepInv'
    BY <1>i, <1>6 DEF StWrite, StepInv, StorePcs, LoadPcs, TypeOK
  <2> QED
    BY <2>1, <2>2, <2>3 DEF IInv
<1>7. CASE StRename
  <2>1. TypeOK'
    <3>1. struck' \in BOOLEAN
      BY <1>i, <1>7 DEF StRename, TypeOK
    <3> QED
      BY <1>i, <1>e, <1>7, <3>1 DEF StRename, TypeOK
  <2>2. FileWhole'
    BY <1>i, <1>m, <1>7 DEF StRename, FileWhole, StepInv
  <2>3. EndInv'
    BY <1>i, <1>7 DEF StRename, EndInv
  <2>4. StepInv'
    BY <1>i, <1>7 DEF StRename, StepInv, StorePcs, LoadPcs, TypeOK
  <2> QED
    BY <2>1, <2>2, <2>3, <2>4 DEF IInv
<1>8. CASE Close
  <2>1. TypeOK'
    <3>1. struck' \in BOOLEAN
      BY <1>i, <1>8 DEF Close, TypeOK
    <3> QED
      BY <1>i, <1>e, <1>8, <3>1 DEF Close, TypeOK
  <2>2. FileWhole' /\ StepInv'
    BY <1>i, <1>8 DEF Close, FileWhole, StepInv, StorePcs, LoadPcs
  <2>3. Excused => Excused'
    BY <1>8 DEF Close, Excused
  <2>4. EndInv'
    BY <1>i, <1>e, <1>m, <1>8, <2>3 DEF Close, EndInv, StepInv
  <2> QED
    BY <2>1, <2>2, <2>4 DEF IInv
<1>9. CASE LdSize
  <2>1. TypeOK'
    <3>1. struck' \in BOOLEAN
      BY <1>i, <1>9 DEF LdSize, GetSize, TypeOK
    <3> QED
      BY <1>i, <1>f, <1>9, <3>1 DEF LdSize, GetSize, TypeOK
  <2>2. FileWhole' /\ EndInv'
    BY <1>i, <1>9 DEF LdSize, GetSize, FileWhole, EndInv, TypeOK
  <2>3. StepInv'
    BY <1>i, <1>9 DEF LdSize, GetSize, StepInv, StorePcs, LoadPcs, TypeOK
  <2> QED
    BY <2>1, <2>2, <2>3 DEF IInv
<1>10. CASE LdEmpty
  <2>1. TypeOK'
    <3>1. struck' \in BOOLEAN
      BY <1>i, <1>10 DEF LdEmpty, TypeOK
    <3> QED
      BY <1>i, <1>10, <3>1 DEF LdEmpty, TypeOK
  <2>2. FileWhole' /\ StepInv'
    BY <1>i, <1>10 DEF LdEmpty, FileWhole, StepInv, StorePcs, LoadPcs
  <2>3. EndInv'
    BY <1>i, <1>10 DEF LdEmpty, EndInv, StepInv, LoadPcs
  <2> QED
    BY <2>1, <2>2, <2>3 DEF IInv
<1>11. CASE LdOpen
  <2>1. TypeOK'
    <3>1. struck' \in BOOLEAN
      BY <1>i, <1>11 DEF LdOpen, Open, TypeOK
    <3>2. OpenedW(size) \in Transfers
      BY <1>i, <1>e DEF OpenedW, Transfers, TypeOK
    <3> QED
      BY <1>i, <1>11, <3>1, <3>2 DEF LdOpen, Open, TypeOK
  <2>2. FileWhole' /\ EndInv'
    BY <1>i, <1>11 DEF LdOpen, Open, FileWhole, EndInv, TypeOK
  <2>3. xfer' = OpenedW(size) /\ pc' = "ld_read" => Sending' /\ rem' = size'
    <3>1. SubSeq(file, 1, 0) = <<>>
      BY SubSeqEmpty
    <3> QED
      BY <1>i, <1>f, <1>11, <3>1 DEF LdOpen, Open, OpenedW, Sending, StepInv, LoadPcs
  <2>4. ~MayOpen(size) => Excused
    BY <1>i, <1>f, <1>11 DEF LdOpen, MayOpen, Excused, StepInv, LoadPcs, TypeOK
  <2>5. Excused => Excused'
    BY <1>11 DEF LdOpen, Open, Excused
  <2>6. StepInv'
    BY <1>i, <1>11, <2>3, <2>4, <2>5 DEF LdOpen, Open, StepInv, StorePcs, LoadPcs, TypeOK
  <2> QED
    BY <2>1, <2>2, <2>6 DEF IInv
<1>12. CASE LdRead
  <2>1. TypeOK'
    <3>1. struck' \in BOOLEAN
      BY <1>i, <1>12 DEF LdRead, TypeOK
    <3> QED
      BY <1>i, <1>12, <3>1 DEF LdRead, TypeOK
  <2>2. FileWhole' /\ EndInv'
    BY <1>i, <1>12 DEF LdRead, FileWhole, EndInv
  <2>3. pc' = "ld_write" => Sending'
    BY <1>i, <1>12 DEF LdRead, Sending, StepInv
  <2>4. StepInv'
    BY <1>i, <1>12, <2>3 DEF LdRead, StepInv, StorePcs, LoadPcs, TypeOK
  <2> QED
    BY <2>1, <2>2, <2>4 DEF IInv
<1>13. CASE LdWrite
  <2>1. /\ UNCHANGED <<call, size, buf, bak, file, stale, crashes>> /\ pc = "ld_write"
        /\ xfer' \in Transfers /\ rem' \in Nat
        /\ \/ Goes("close") /\ mem' = Unwrapped(file)
           \/ Goes("ld_write") /\ Sending' /\ UNCHANGED mem
           \/ Struck("close") /\ mem' \in {mem, Unwrapped(file)}
    BY <1>13, SendStep
  <2>2. file # <<>> /\ mem' \in Dbs
    BY <1>i, <1>f, <2>1 DEF StepInv, TypeOK
  <2>3. TypeOK'
    <3>1. struck' \in BOOLEAN
      BY <1>i, <2>1 DEF TypeOK
    <3> QED
      BY <1>i, <2>1, <2>2, <3>1 DEF TypeOK
  <2>4. FileWhole' /\ EndInv'
    BY <1>i, <2>1 DEF FileWhole, EndInv
  <2>5. StepInv'
    BY <1>i, <1>f, <2>1, <2>2 DEF StepInv, StorePcs, LoadPcs, TypeOK
  <2> QED
    BY <2>3, <2>4, <2>5 DEF IInv
<1>14. CASE Crash
  <2>1. TypeOK'
    <3>1. struck' \in BOOLEAN /\ stale' \in BOOLEAN
      BY <1>14 DEF Crash
    <3>2. bak' \in Seq(Bytes)
      BY <1>i, <1>14, PartOf DEF Crash, TypeOK
    <3> QED
      BY <1>i, <1>e, <1>14, <3>1, <3>2 DEF Crash, TypeOK
  <2>2. FileWhole' /\ EndInv' /\ StepInv'
    BY <1>i, <1>14 DEF Crash, FileWhole, EndInv, StepInv, StorePcs, LoadPcs
  <2> QED
    BY <2>1, <2>2 DEF IInv
<1>15. CASE UNCHANGED vars
  <2>1. TypeOK' /\ FileWhole' /\ EndInv'
    BY <1>i, <1>15 DEF vars, TypeOK, FileWhole, EndInv, Excused
  <2>2. StepInv'
    BY <1>i, <1>15 DEF vars, StepInv, Fetching, Sending, Excused
  <2> QED
    BY <2>1, <2>2 DEF IInv
<1> QED
  BY <1>1, <1>2, <1>3, <1>4, <1>5, <1>6, <1>7, <1>8, <1>9, <1>10, <1>11, <1>12, <1>13,
     <1>14, <1>15 DEF Next

-----------------------------------------------------------------------------
(* The theorems. *)

(* A call that reports success moved the whole database, and a call that
   nothing disturbs closes the transfer of fpc_ta_db_blob.c: for every chunk
   size, and however many failures and crashes came before. *)
THEOREM BlobSyncHeals == Spec => []SyncHeals
<1>1. IInv => SyncHeals
  BY DEF IInv, EndInv, Excused, SyncHeals
<1> QED
  BY InitIInv, NextIInv, <1>1, PTL DEF Spec

(* The refinement: the step of each call at which the storage changes. *)

(* The initial states map to initial states of FpcDbStorage. *)
LEMMA InitStorage == Init => Storage!Init
BY DEF Init, Storage!Init

(* Every step maps to a step of FpcDbStorage or to none. *)
LEMMA StepStorage == IInv /\ IInv' /\ [Next]_vars => [Storage!Next]_(Storage!avars)
<1> SUFFICES ASSUME IInv, IInv', [Next]_vars
             PROVE  [Storage!Next]_(Storage!avars)
  OBVIOUS
<1> USE DEF reevars, tavars, Goes, Refused, Struck
<1>i. TypeOK /\ FileWhole /\ StepInv
  BY DEF IInv
<1>1. ASSUME NEW v \in Dbs, Change(v) PROVE Storage!Change
  BY <1>1 DEF Change, Storage!Change
<1>2. StoreBegin => Storage!Begin("store")
  BY DEF StoreBegin, Begin, Storage!Begin
<1>3. LoadBegin => Storage!Begin("load")
  BY DEF LoadBegin, Begin, Storage!Begin
<1>4. ASSUME UNCHANGED <<mem, file, call>>, pc # "idle"
      PROVE  Storage!End \/ UNCHANGED Storage!avars
  <2>1. CASE pc' = "idle"
    BY <1>4, <2>1 DEF Storage!End
  <2>2. CASE pc' # "idle"
    BY <1>4, <2>2 DEF Storage!avars
  <2> QED
    BY <2>1, <2>2
<1>5. CASE StSize \/ StOpen \/ StRead \/ StWrite \/ Close \/ LdSize \/ LdOpen \/ LdRead
  <2>1. UNCHANGED <<mem, file, call>> /\ pc # "idle"
    BY <1>5 DEF StSize, StOpen, StRead, StWrite, Close, LdSize, LdOpen, LdRead, GetSize, Open
  <2> QED
    BY <1>4, <2>1 DEF Storage!Next
<1>6. CASE StRename
  <2>1. CASE UNCHANGED file
    BY <1>4, <1>6, <2>1 DEF StRename, Storage!Next
  <2>2. CASE file' = bak /\ Goes("close")
    <3>1. file' = Blob(mem) /\ mem \in Dbs /\ call = "store"
      BY <1>i, <1>6, <2>2 DEF StRename, StepInv, StorePcs, TypeOK
    <3>2. file' # <<>> /\ IsBlob(file') /\ Unwrapped(file') = mem
      BY <3>1, BlobSeq, UnwrapBlob
    <3>3. Storage!Store
      BY <1>6, <2>2, <3>1, <3>2 DEF StRename, Storage!Store, IsBlob, Unwrapped
    <3> QED
      BY <3>3 DEF Storage!Next
  <2> QED
    BY <1>6, <2>1, <2>2 DEF StRename
<1>7. CASE LdEmpty
  <2>1. Storage!Crash
    BY <1>7 DEF LdEmpty, Storage!Crash
  <2> QED
    BY <2>1 DEF Storage!Next
<1>8. CASE LdWrite
  <2>1. /\ UNCHANGED <<call, file>> /\ pc = "ld_write" /\ pc' # "idle"
        /\ mem' \in {mem, Unwrapped(file)}
    BY <1>8, SendStep
  <2>2. CASE mem' = mem
    BY <1>4, <2>1, <2>2 DEF Storage!Next
  <2>3. CASE mem' = Unwrapped(file)
    <3>1. file # <<>> /\ IsBlob(file) /\ call = "load" /\ Unwrapped(file) # NoDb
      BY <1>i, <2>1, UnwrapBlob, BlobAssumption DEF StepInv, LoadPcs, FileWhole
    <3>2. Storage!Load
      BY <2>1, <2>3, <3>1 DEF Storage!Load
    <3> QED
      BY <3>2 DEF Storage!Next
  <2> QED
    BY <2>1, <2>2, <2>3
<1>9. CASE Crash
  <2>1. Storage!Crash
    BY <1>9 DEF Crash, Storage!Crash
  <2> QED
    BY <2>1 DEF Storage!Next
<1>10. CASE UNCHANGED vars
  BY <1>10 DEF vars, Storage!avars
<1> QED
  BY <1>1, <1>2, <1>3, <1>5, <1>6, <1>7, <1>8, <1>9, <1>10 DEF Next, Storage!Next

(* Chunks, temporary file and rename implement the storage in which a store
   and a load take effect as a whole or not at all, whatever fails. *)
THEOREM BlobImplementsStorage == Spec => ImplementsStorage
BY InitIInv, NextIInv, InitStorage, StepStorage, PTL
   DEF Spec, ImplementsStorage, Storage!Spec

-----------------------------------------------------------------------------
(* The test database: from FingerprintEngineering.java to fpc_ta_engineering.c. *)

(* The types, by who writes the variables. *)
Flags == {alive, svcCb, isCapture, linked, modCb, subCb, injCb, injWait, injCancel, asked,
          cancelled, dbFailed, crashed} \subseteq BOOLEAN

Databases == {"regular", "empty", "finger", "none"}

DataType == [cap : {"ok", "failed"}, enr : {"completed", "failed"}, idr : {"ok", "failed"},
             uid : BOOLEAN, last : BOOLEAN, bufs : 0 .. 2, junk : BOOLEAN]

ResultType == [req : 0 .. MaxStarts, kind : Kinds, cap : {"ok", "failed"},
               enr : {"completed", "failed"}, idr : {"ok", "failed"},
               uid : BOOLEAN, junk : BOOLEAN, stored : BOOLEAN]

AppType == scenario \in Scenarios /\ jcb \in 0 .. MaxStarts /\ starts \in 0 .. MaxStarts
           /\ calls \in 0 .. MaxCalls

CallType ==
    /\ bpc \in {"free", "module", "cancel", "join"}
    /\ bop \in Kinds \cup {"challenge", "cancel", "died"}

Flow == queue \in Seq(ResultType) /\ got \in [Requests -> Seq(ResultType)]

Places == {"off", "load", "delete", "begin", "cap", "inj", "inj_call", "inj_wait",
           "inj_done", "inj_none", "images", "identify", "update", "enrol", "end", "save",
           "answer", "restore", "sub_check", "sub_send"}

TaskType ==
    /\ wpc \in Places /\ wkind \in Kinds /\ wreq \in 0 .. MaxStarts /\ data \in DataType
    /\ db \in Databases /\ testDb \in {"empty", "finger", "damaged"} /\ unrestored \in BOOLEAN
    /\ failures \in 0 .. MaxFailures

(* What a result says of a finger is true. *)
StoredGood(r) ==
    r.kind = "enroll" /\ Ok(r) /\ r.enr = "completed" /\ r.uid /\ ~r.junk => r.stored

Injecting == {"inj", "inj_call", "inj_wait", "inj_done", "inj_none"}
Unfilled == {"load", "delete", "begin", "cap", "images"} \cup Injecting

(* Which task is at which place, and when its images are allocated.  A result
   that is not the last one comes from a capture_data that was jumped over. *)
TaskPlaces ==
    /\ wkind = "auth" => wpc \in {"off", "cap", "sub_check", "sub_send"} \cup Injecting
    /\ wkind = "capture" => wpc \in {"off", "cap", "images", "answer"} \cup Injecting
    /\ wpc \in {"identify", "update"} => wkind = "verify"
    /\ wpc \in {"delete", "begin", "enrol", "end"} => wkind = "enroll"
    /\ wpc \in {"sub_check", "sub_send"} => wkind = "auth"
    /\ wpc \in Unfilled => data.bufs = 0
    /\ data.last \/ dbFailed

(* Which database the trusted application holds: the user's unless a test is
   under way or its last restore failed, and another one where do_verify and
   do_enroll add to it or store it; and a user id in the result of an enrolment
   that was initialised means that the finger is in test.db. *)
DbKept ==
    /\ wpc = "off" \/ wkind \in {"capture", "auth"} => db = "regular" \/ unrestored
    /\ wpc = "save" /\ wkind = "enroll" => db = "finger"
    /\ wkind = "verify" /\ wpc \notin {"off", "load", "answer", "restore"} =>
          db \in {"empty", "finger"}
    /\ wkind = "enroll" /\ wpc \notin {"off", "delete", "answer", "restore"} =>
          db # "regular"
    /\ wkind = "enroll" /\ wpc \notin {"off", "delete", "load", "begin", "answer", "restore"} =>
          db \in {"empty", "finger"}
    /\ wkind = "enroll" /\ data.uid /\ ~data.junk =>
          wpc \in {"off", "restore"} \/ (wpc = "answer" /\ testDb = "finger")

(* A capture is under way, or is being called. *)
Answering == wkind \in Modes /\ wpc \notin {"off", "restore"}
Calling == bpc # "free" /\ bop \in Modes
Pending(n) == n \in Requests /\ got[n] = <<>>

(* The request of the Java object is called, runs, is answered and is done, in
   this order: at no two of these places at once. *)
Served ==
    /\ bpc = "module" => bop \in Modes
    /\ jcb <= starts
    /\ \A n \in Requests : n > starts => got[n] = <<>>
    /\ Answering \/ Calling => Pending(jcb) /\ jcb = starts /\ queue = <<>> /\ isCapture
        /\ svcCb
    /\ Answering => wreq = jcb
    /\ ~(Answering /\ Calling)
    /\ queue # <<>> => Pending(jcb) /\ \E r \in ResultType : queue = <<r>> /\ r.req = jcb
    /\ \A n \in Requests : got[n] # <<>> => \E r \in ResultType : got[n] = <<r>> /\ r.req = n

(* The callback of the module belongs to a capture, called or under way. *)
Owned ==
    modCb => \/ bpc \in {"cancel", "join"} /\ bop \in Modes
             \/ Answering \/ dbFailed \/ crashed

AllGood == \A i \in DOMAIN queue : StoredGood(queue[i])
GotGood == \A n \in Requests : \A i \in DOMAIN got[n] : StoredGood(got[n][i])

(* The inductive invariant. *)
TypeInv == Flags /\ AppType /\ CallType /\ Flow /\ TaskType
TaskInv == TaskPlaces /\ DbKept
AnswerInv == Served /\ Owned /\ AllGood /\ GotGood
EngineeringInv == TypeInv /\ TaskInv /\ AnswerInv

(* What the invariant is for. *)
LEMMA EngineeringConsequences == EngineeringInv => OwnAnswer /\ TestDbContained
<1> SUFFICES ASSUME EngineeringInv PROVE OwnAnswer /\ TestDbContained
  OBVIOUS
<1> USE DEF EngineeringInv, TypeInv, TaskInv, AnswerInv
<1>1. EngineeringTypeOK
  <2>1. data.bufs \in 0 .. 2
    BY DEF TaskType, DataType
  <2> QED
    BY <2>1 DEF EngineeringTypeOK, Flags, AppType, CallType, TaskType, Places, Databases
<1>2. ASSUME NEW n \in Requests, NEW i \in DOMAIN got[n]
      PROVE  i = 1 /\ got[n][i].req = n
  <2>1. got[n] # <<>>
    BY <1>2
  <2>2. PICK r \in ResultType : got[n] = <<r>> /\ r.req = n
    BY <2>1 DEF Served
  <2> QED
    BY <1>2, <2>2
<1>3. OwnAnswer
  BY <1>1, <1>2 DEF OwnAnswer, Owned, Served, Answering
<1>4. TestDbContained
  BY DEF TestDbContained, TaskType, DbKept, GotGood, StoredGood, Received
<1> QED
  BY <1>3, <1>4

(* The invariant holds initially. *)
LEMMA EngineeringInitInv == EngineeringInit => EngineeringInv
<1> SUFFICES ASSUME EngineeringInit PROVE EngineeringInv
  OBVIOUS
<1> USE EngineeringAssumption
<1>1. Flags
  BY DEF EngineeringInit, Flags
<1>2. AppType /\ CallType
  <2>1. 0 \in 0 .. MaxStarts /\ 0 \in 0 .. MaxCalls
    BY DEF EngineeringInit, MaxCalls
  <2> QED
    BY <2>1 DEF EngineeringInit, AppType, CallType, Kinds
<1>3. TaskType
  <2>1. unrestored \in BOOLEAN
    BY DEF EngineeringInit
  <2>2. data \in DataType
    BY DEF EngineeringInit, DataType, Zeroed
  <2> QED
    BY <2>1, <2>2 DEF EngineeringInit, TaskType, Places, Kinds, Databases
<1>4. Flow /\ DOMAIN queue = {} /\ \A n \in Requests : DOMAIN got[n] = {}
  BY DEF EngineeringInit, Flow
<1>5. TaskInv
  BY DEF EngineeringInit, TaskInv, TaskPlaces, DbKept, Unfilled, Injecting, Zeroed
<1>6. Served
  BY DEF EngineeringInit, Served, Answering, Calling, Pending, Modes
<1>7. Owned /\ AllGood /\ GotGood
  BY <1>4 DEF EngineeringInit, Owned, AllGood, GotGood
<1> QED
  BY <1>1, <1>2, <1>3, <1>4, <1>5, <1>6, <1>7 DEF EngineeringInv, TypeInv, AnswerInv

(* A step of the worker within its task changes nothing for the application. *)
LEMMA WithinTask ==
    ASSUME EngineeringInv, UNCHANGED <<java, svc, modCb, binder, starts, calls, wkind, wreq,
                                       scenario>>,
           Answering' <=> Answering, dbFailed => dbFailed', crashed => crashed'
    PROVE  AppType' /\ CallType' /\ Flow' /\ AnswerInv'
<1>1. /\ UNCHANGED <<scenario, jcb, got, queue, svcCb, isCapture, modCb, bpc, bop, starts,
                     calls,
                     wreq>>
      /\ Requests' = Requests /\ MaxCalls' = MaxCalls
  BY DEF java, svc, binder, Requests, MaxCalls
<1>2. AppType' /\ CallType' /\ Flow'
  BY <1>1 DEF EngineeringInv, TypeInv, AppType, CallType, Flow
<1>3. Served' /\ Owned'
  BY <1>1 DEF EngineeringInv, AnswerInv, Served, Owned, Calling, Pending
<1>4. AllGood' /\ GotGood'
  BY <1>1 DEF EngineeringInv, AnswerInv, AllGood, GotGood, StoredGood, Ok
<1> QED
  BY <1>2, <1>3, <1>4 DEF AnswerInv

(* A step of the application or the service leaves the task as it is. *)
LEMMA TaskUntouched ==
    ASSUME EngineeringInv, UNCHANGED <<worker, tee, failures, dbFailed>>
    PROVE  TaskType' /\ TaskInv' /\ (Answering' <=> Answering)
BY DEF EngineeringInv, TypeInv, TaskInv, TaskType, TaskPlaces, DbKept, Answering, worker, tee

(* What the steps of a task make of its data is again data of a task. *)
LEMMA DataChanges ==
    ASSUME NEW d \in DataType
    PROVE  /\ Zeroed \in DataType
           /\ [d EXCEPT !.cap = "failed"] \in DataType
           /\ [d EXCEPT !.enr = "failed"] \in DataType
           /\ [d EXCEPT !.idr = "failed"] \in DataType
           /\ [d EXCEPT !.uid = TRUE] \in DataType
           /\ \A b \in 0 .. 2 : [d EXCEPT !.bufs = b] \in DataType
           /\ \A c \in {"ok", "failed"}, u, l \in BOOLEAN :
                 [d EXCEPT !.cap = c, !.uid = u, !.last = l, !.junk = TRUE] \in DataType
<1>1. Zeroed \in DataType
  BY DEF DataType, Zeroed
<1>2. /\ [d EXCEPT !.cap = "failed"] \in DataType
      /\ [d EXCEPT !.enr = "failed"] \in DataType
      /\ [d EXCEPT !.idr = "failed"] \in DataType
      /\ [d EXCEPT !.uid = TRUE] \in DataType
  BY DEF DataType
<1>3. \A b \in 0 .. 2 : [d EXCEPT !.bufs = b] \in DataType
  BY DEF DataType
<1>4. ASSUME NEW c \in {"ok", "failed"}, NEW u \in BOOLEAN, NEW l \in BOOLEAN
      PROVE  [d EXCEPT !.cap = c, !.uid = u, !.last = l, !.junk = TRUE] \in DataType
  <2> DEFINE d1 == [d EXCEPT !.cap = c]
             d2 == [d1 EXCEPT !.uid = u]
             d3 == [d2 EXCEPT !.last = l]
  <2>1. d1 \in DataType
    BY DEF DataType
  <2>2. d2 \in DataType
    BY <2>1 DEF DataType
  <2>3. d3 \in DataType
    BY <2>2 DEF DataType
  <2>4. [d3 EXCEPT !.junk = TRUE] \in DataType
    BY <2>3 DEF DataType
  <2> QED
    BY <2>4
<1> QED
  BY <1>1, <1>2, <1>3, <1>4

(* So is what jumping over its initialisation leaves. *)
LEMMA UninitialisedData ==
    ASSUME data \in DataType, Uninitialised
    PROVE  data' \in DataType
<1>1. PICK c \in {"ok", "failed"}, u \in BOOLEAN, l \in BOOLEAN :
         data' = [data EXCEPT !.cap = c, !.uid = u, !.last = l, !.junk = TRUE]
  BY DEF Uninitialised
<1> QED
  BY <1>1, DataChanges

(* The worker's steps within a task. *)
LEMMA WorkerKeeps ==
    ASSUME EngineeringInv,
           \/ IsImgInjEnabled \/ InjectionBegins \/ InjectionCalls \/ InjectionReturns
               \/ InjectionEnds \/ CaptureImages \/ CaptureCancelled \/ GetImages
                   \/ LoadTestDb \/ DeleteTestDb \/ BeginEnrol \/ Enrol \/ EndEnrol
                       \/ Identify \/ UpdateTemplate \/ SaveTestDb \/ RestoreRegularDb
                           \/ SubscriptionChecks \/ SubscriptionCalls
    PROVE  EngineeringInv'
<1> USE EngineeringAssumption DEF Databases
<1>i. /\ Flags /\ TaskType /\ TaskPlaces /\ DbKept /\ MaxFailures \in Nat
      /\ data = [cap |-> data.cap, enr |-> data.enr, idr |-> data.idr, uid |-> data.uid,
                 last |-> data.last, bufs |-> data.bufs, junk |-> data.junk]
  BY DEF EngineeringInv, TypeInv, TaskInv, TaskType, DataType
<1>q. ASSUME UNCHANGED <<java, svc, modCb, subCb, binder, cancelled, starts, calls, wkind,
                         wreq, scenario>>,
             Answering' <=> Answering, dbFailed => dbFailed', crashed => crashed',
             {injCb', injWait', injCancel', asked', dbFailed', crashed'} \subseteq BOOLEAN,
             TaskType', TaskPlaces', DbKept'
      PROVE  EngineeringInv'
  <2>1. Flags'
    BY <1>i, <1>q DEF Flags, java, svc
  <2> QED
    BY <1>q, <2>1, WithinTask DEF EngineeringInv, TypeInv, TaskInv
<1>1. CASE IsImgInjEnabled
  <2>0. UNCHANGED <<java, svc, modCb, subCb, binder, cancelled, starts, calls, wkind, wreq,
                    scenario>>
    BY <1>1 DEF IsImgInjEnabled, Outside
  <2>1. dbFailed => dbFailed'
    BY <1>1 DEF IsImgInjEnabled
  <2>2. crashed => crashed'
    BY <1>1 DEF IsImgInjEnabled, Outside, At
  <2>3. {injCb', injWait', injCancel', asked', dbFailed', crashed'} \subseteq BOOLEAN
    BY <1>1, <1>i DEF IsImgInjEnabled, At, Outside, inj, tee, Flags
  <2>d. data' \in DataType
    BY <1>1, <1>i, <2>0, DataChanges
       DEF IsImgInjEnabled, At, Outside, inj, tee, TaskType, TaskPlaces, Unfilled, Injecting
  <2>4. TaskType'
    BY <1>1, <1>i, <2>0, <2>d DEF IsImgInjEnabled, At, Outside, inj, tee, TaskType, Places,
       TaskPlaces, Unfilled, Injecting
  <2>5. TaskPlaces'
    BY <1>1, <1>i, <2>0 DEF IsImgInjEnabled, At, Outside, inj, tee, TaskType, TaskPlaces,
       Zeroed, Unfilled, Injecting, Kinds, Modes
  <2>6. DbKept'
    BY <1>1, <1>i, <2>0 DEF IsImgInjEnabled, At, Outside, inj, tee, TaskType, TaskPlaces,
       DbKept, Zeroed, Unfilled, Injecting, Kinds, Modes
  <2>7. Answering' <=> Answering
    BY <1>1, <1>i, <2>0 DEF IsImgInjEnabled, At, Outside, inj, tee, Answering, TaskPlaces,
       Modes, Kinds, TaskType
  <2> QED
    BY <1>q, <2>0, <2>1, <2>2, <2>3, <2>4, <2>5, <2>6, <2>7
<1>2. CASE InjectionBegins
  <2>0. UNCHANGED <<java, svc, modCb, subCb, binder, cancelled, starts, calls, wkind, wreq,
                    scenario>>
    BY <1>2 DEF InjectionBegins, Outside
  <2>1. dbFailed => dbFailed'
    BY <1>2 DEF InjectionBegins, Captured, Failed
  <2>2. crashed => crashed'
    BY <1>2 DEF InjectionBegins, Outside, At
  <2>3. {injCb', injWait', injCancel', asked', dbFailed', crashed'} \subseteq BOOLEAN
    BY <1>2, <1>i DEF InjectionBegins, Captured, Failed, At, Outside, inj, tee, Flags
  <2>d. data' \in DataType
    BY <1>2, <1>i, <2>0, DataChanges DEF InjectionBegins, Captured, Failed, At, Outside, inj,
       tee, TaskType, TaskPlaces, Unfilled, Injecting
  <2>4. TaskType'
    BY <1>2, <1>i, <2>0, <2>d DEF InjectionBegins, Captured, Failed, At, Outside, inj, tee,
       TaskType, Places, TaskPlaces, Unfilled, Injecting
  <2>5. TaskPlaces'
    BY <1>2, <1>i, <2>0 DEF InjectionBegins, Captured, Failed, At, Outside, inj, tee,
       TaskType, TaskPlaces, Zeroed, Unfilled, Injecting, Kinds, Modes
  <2>6. DbKept'
    BY <1>2, <1>i, <2>0 DEF InjectionBegins, Captured, Failed, At, Outside, inj, tee,
       TaskType, TaskPlaces, DbKept, Zeroed, Unfilled, Injecting, Kinds, Modes
  <2>7. Answering' <=> Answering
    BY <1>2, <1>i, <2>0 DEF InjectionBegins, Captured, Failed, At, Outside, inj, tee,
       Answering, TaskPlaces, Modes, Kinds, TaskType
  <2> QED
    BY <1>q, <2>0, <2>1, <2>2, <2>3, <2>4, <2>5, <2>6, <2>7
<1>3. CASE InjectionCalls
  <2>0. UNCHANGED <<java, svc, modCb, subCb, binder, cancelled, starts, calls, wkind, wreq,
                    scenario>>
    BY <1>3 DEF InjectionCalls, Outside
  <2>1. dbFailed => dbFailed'
    BY <1>3 DEF InjectionCalls
  <2>2. crashed => crashed'
    BY <1>3 DEF InjectionCalls, Outside, At
  <2>3. {injCb', injWait', injCancel', asked', dbFailed', crashed'} \subseteq BOOLEAN
    BY <1>3, <1>i DEF InjectionCalls, At, Outside, inj, tee, Flags
  <2>d. data' \in DataType
    BY <1>3, <1>i, <2>0, DataChanges
       DEF InjectionCalls, At, Outside, inj, tee, TaskType, TaskPlaces, Unfilled, Injecting
  <2>4. TaskType'
    BY <1>3, <1>i, <2>0, <2>d DEF InjectionCalls, At, Outside, inj, tee, TaskType, Places,
       TaskPlaces, Unfilled, Injecting
  <2>5. TaskPlaces'
    BY <1>3, <1>i, <2>0 DEF InjectionCalls, At, Outside, inj, tee, TaskType, TaskPlaces,
       Zeroed, Unfilled, Injecting, Kinds, Modes
  <2>6. DbKept'
    BY <1>3, <1>i, <2>0 DEF InjectionCalls, At, Outside, inj, tee, TaskType, TaskPlaces,
       DbKept, Zeroed, Unfilled, Injecting, Kinds, Modes
  <2>7. Answering' <=> Answering
    BY <1>3, <1>i, <2>0 DEF InjectionCalls, At, Outside, inj, tee, Answering, TaskPlaces,
       Modes, Kinds, TaskType
  <2> QED
    BY <1>q, <2>0, <2>1, <2>2, <2>3, <2>4, <2>5, <2>6, <2>7
<1>4. CASE InjectionReturns
  <2>0. UNCHANGED <<java, svc, modCb, subCb, binder, cancelled, starts, calls, wkind, wreq,
                    scenario>>
    BY <1>4 DEF InjectionReturns, Outside
  <2>1. dbFailed => dbFailed'
    BY <1>4 DEF InjectionReturns
  <2>2. crashed => crashed'
    BY <1>4 DEF InjectionReturns, Outside, At
  <2>3. {injCb', injWait', injCancel', asked', dbFailed', crashed'} \subseteq BOOLEAN
    BY <1>4, <1>i DEF InjectionReturns, At, Outside, inj, tee, Flags
  <2>d. data' \in DataType
    BY <1>4, <1>i, <2>0, DataChanges
       DEF InjectionReturns, At, Outside, inj, tee, TaskType, TaskPlaces, Unfilled, Injecting
  <2>4. TaskType'
    BY <1>4, <1>i, <2>0, <2>d DEF InjectionReturns, At, Outside, inj, tee, TaskType, Places,
       TaskPlaces, Unfilled, Injecting
  <2>5. TaskPlaces'
    BY <1>4, <1>i, <2>0 DEF InjectionReturns, At, Outside, inj, tee, TaskType, TaskPlaces,
       Zeroed, Unfilled, Injecting, Kinds, Modes
  <2>6. DbKept'
    BY <1>4, <1>i, <2>0 DEF InjectionReturns, At, Outside, inj, tee, TaskType, TaskPlaces,
       DbKept, Zeroed, Unfilled, Injecting, Kinds, Modes
  <2>7. Answering' <=> Answering
    BY <1>4, <1>i, <2>0 DEF InjectionReturns, At, Outside, inj, tee, Answering, TaskPlaces,
       Modes, Kinds, TaskType
  <2> QED
    BY <1>q, <2>0, <2>1, <2>2, <2>3, <2>4, <2>5, <2>6, <2>7
<1>5. CASE InjectionEnds
  <2>0. UNCHANGED <<java, svc, modCb, subCb, binder, cancelled, starts, calls, wkind, wreq,
                    scenario>>
    BY <1>5 DEF InjectionEnds, Outside
  <2>1. dbFailed => dbFailed'
    BY <1>5 DEF InjectionEnds, Captured, Failed, InjectRaw
  <2>2. crashed => crashed'
    BY <1>5 DEF InjectionEnds, Outside, At
  <2>3. {injCb', injWait', injCancel', asked', dbFailed', crashed'} \subseteq BOOLEAN
    BY <1>5, <1>i DEF InjectionEnds, Captured, Failed, InjectRaw, At, Outside, inj, tee, Flags
  <2>d. data' \in DataType
    BY <1>5, <1>i, <2>0, DataChanges DEF InjectionEnds, Captured, Failed, InjectRaw, At,
       Outside, inj, tee, TaskType, TaskPlaces, Unfilled, Injecting
  <2>4. TaskType'
    BY <1>5, <1>i, <2>0, <2>d DEF InjectionEnds, Captured, Failed, InjectRaw, At, Outside,
       inj, tee, TaskType, Places, TaskPlaces, Unfilled, Injecting
  <2>5. TaskPlaces'
    BY <1>5, <1>i, <2>0 DEF InjectionEnds, Captured, Failed, InjectRaw, At, Outside, inj, tee,
       TaskType, TaskPlaces, Zeroed, Unfilled, Injecting, Kinds, Modes
  <2>6. DbKept'
    BY <1>5, <1>i, <2>0 DEF InjectionEnds, Captured, Failed, InjectRaw, At, Outside, inj, tee,
       TaskType, TaskPlaces, DbKept, Zeroed, Unfilled, Injecting, Kinds, Modes
  <2>7. Answering' <=> Answering
    BY <1>5, <1>i, <2>0 DEF InjectionEnds, Captured, Failed, InjectRaw, At, Outside, inj, tee,
       Answering, TaskPlaces, Modes, Kinds, TaskType
  <2> QED
    BY <1>q, <2>0, <2>1, <2>2, <2>3, <2>4, <2>5, <2>6, <2>7
<1>6. CASE CaptureImages
  <2>0. UNCHANGED <<java, svc, modCb, subCb, binder, cancelled, starts, calls, wkind, wreq,
                    scenario>>
    BY <1>6 DEF CaptureImages, Outside
  <2>1. dbFailed => dbFailed'
    BY <1>6 DEF CaptureImages, Captured, Failed
  <2>2. crashed => crashed'
    BY <1>6 DEF CaptureImages, Outside, At
  <2>3. {injCb', injWait', injCancel', asked', dbFailed', crashed'} \subseteq BOOLEAN
    BY <1>6, <1>i DEF CaptureImages, Captured, Failed, At, Outside, inj, tee, Flags
  <2>d. data' \in DataType
    BY <1>6, <1>i, <2>0, DataChanges DEF CaptureImages, Captured, Failed, At, Outside, inj,
       tee, TaskType, TaskPlaces, Unfilled, Injecting
  <2>4. TaskType'
    BY <1>6, <1>i, <2>0, <2>d DEF CaptureImages, Captured, Failed, At, Outside, inj, tee,
       TaskType, Places, TaskPlaces, Unfilled, Injecting
  <2>5. TaskPlaces'
    BY <1>6, <1>i, <2>0 DEF CaptureImages, Captured, Failed, At, Outside, inj, tee, TaskType,
       TaskPlaces, Zeroed, Unfilled, Injecting, Kinds, Modes
  <2>6. DbKept'
    BY <1>6, <1>i, <2>0 DEF CaptureImages, Captured, Failed, At, Outside, inj, tee, TaskType,
       TaskPlaces, DbKept, Zeroed, Unfilled, Injecting, Kinds, Modes
  <2>7. Answering' <=> Answering
    BY <1>6, <1>i, <2>0 DEF CaptureImages, Captured, Failed, At, Outside, inj, tee, Answering,
       TaskPlaces, Modes, Kinds, TaskType
  <2> QED
    BY <1>q, <2>0, <2>1, <2>2, <2>3, <2>4, <2>5, <2>6, <2>7
<1>7. CASE CaptureCancelled
  <2>0. UNCHANGED <<java, svc, modCb, subCb, binder, cancelled, starts, calls, wkind, wreq,
                    scenario>>
    BY <1>7 DEF CaptureCancelled, Outside
  <2>1. dbFailed => dbFailed'
    BY <1>7 DEF CaptureCancelled, Captured, Failed
  <2>2. crashed => crashed'
    BY <1>7 DEF CaptureCancelled, Outside, At
  <2>3. {injCb', injWait', injCancel', asked', dbFailed', crashed'} \subseteq BOOLEAN
    BY <1>7, <1>i DEF CaptureCancelled, Captured, Failed, At, Outside, inj, tee, Flags
  <2>d. data' \in DataType
    BY <1>7, <1>i, <2>0, DataChanges DEF CaptureCancelled, Captured, Failed, At, Outside, inj,
       tee, TaskType, TaskPlaces, Unfilled, Injecting
  <2>4. TaskType'
    BY <1>7, <1>i, <2>0, <2>d DEF CaptureCancelled, Captured, Failed, At, Outside, inj, tee,
       TaskType, Places, TaskPlaces, Unfilled, Injecting
  <2>5. TaskPlaces'
    BY <1>7, <1>i, <2>0 DEF CaptureCancelled, Captured, Failed, At, Outside, inj, tee,
       TaskType, TaskPlaces, Zeroed, Unfilled, Injecting, Kinds, Modes
  <2>6. DbKept'
    BY <1>7, <1>i, <2>0 DEF CaptureCancelled, Captured, Failed, At, Outside, inj, tee,
       TaskType, TaskPlaces, DbKept, Zeroed, Unfilled, Injecting, Kinds, Modes
  <2>7. Answering' <=> Answering
    BY <1>7, <1>i, <2>0 DEF CaptureCancelled, Captured, Failed, At, Outside, inj, tee,
       Answering, TaskPlaces, Modes, Kinds, TaskType
  <2> QED
    BY <1>q, <2>0, <2>1, <2>2, <2>3, <2>4, <2>5, <2>6, <2>7
<1>8. CASE GetImages
  <2>0. UNCHANGED <<java, svc, modCb, subCb, binder, cancelled, starts, calls, wkind, wreq,
                    scenario>>
    BY <1>8 DEF GetImages, Outside
  <2>1. dbFailed => dbFailed'
    BY <1>8 DEF GetImages, Fails, Failed, RawImage, EnhancedImage, Retrieve, TaRetrieve
  <2>2. crashed => crashed'
    BY <1>8 DEF GetImages, Outside, At
  <2>3. {injCb', injWait', injCancel', asked', dbFailed', crashed'} \subseteq BOOLEAN
    BY <1>8, <1>i DEF GetImages, Fails, Failed, RawImage, EnhancedImage, Retrieve, TaRetrieve,
       At, Outside, inj, tee, Flags
  <2>x. \/ /\ wpc' \in {"answer", "identify", "enrol"} /\ failures' = failures
           /\ data' = [data EXCEPT !.bufs = @ + 2]
        \/ /\ wpc' = "answer" /\ Fails
           /\ \E b \in 0 .. 2 : data' = [data EXCEPT !.bufs = b]
    <3>1. data.bufs = 0
      BY <1>8, <1>i DEF GetImages, At, TaskPlaces, Unfilled
    <3>2. PICK r \in RawImage, e \in EnhancedImage :
             IF r.ok /\ e.ok
             THEN /\ wpc' = CASE wkind = "capture" -> "answer"
                              [] wkind = "verify" -> "identify"
                              [] wkind = "enroll" -> "enrol"
                  /\ data' = [data EXCEPT !.bufs = @ + 2]
                  /\ UNCHANGED failures
             ELSE /\ Fails
                  /\ Failed([data EXCEPT !.bufs = @ + r.bufs + IF r.ok THEN e.bufs ELSE 0])
      BY <1>8 DEF GetImages
    <3>3. r.bufs \in 0 .. 1 /\ e.bufs \in 0 .. 1
      BY DEF RawImage, EnhancedImage
    <3>4. wkind \in {"capture", "verify", "enroll"}
      BY <1>8, <1>i DEF GetImages, At, TaskType, TaskPlaces, Kinds, Modes, Injecting
    <3>5. CASE r.ok /\ e.ok
      BY <3>2, <3>4, <3>5
    <3>6. CASE ~(r.ok /\ e.ok)
      <4>1. 0 + r.bufs + (IF r.ok THEN e.bufs ELSE 0) \in 0 .. 2
        BY <3>3
      <4> QED
        BY <3>1, <3>2, <3>6, <4>1 DEF Failed
    <3> QED
      BY <3>5, <3>6
  <2>d. data' \in DataType
    <3>1. data.bufs = 0 /\ 0 + 2 \in 0 .. 2
      BY <1>8, <1>i DEF GetImages, At, TaskPlaces, Unfilled
    <3>2. data \in DataType
      BY <1>i DEF TaskType
    <3>3. \A b \in 0 .. 2 : [data EXCEPT !.bufs = b] \in DataType
      BY <3>2, DataChanges
    <3>4. data.bufs + 2 \in 0 .. 2
      BY <3>1
    <3> QED
      BY <2>x, <3>3, <3>4
  <2>e. wpc' \in Places
    BY <2>x DEF Places
  <2>f. failures' \in 0 .. MaxFailures
    BY <1>i, <2>x DEF Fails, TaskType
  <2>g. db' \in Databases /\ testDb' \in {"empty", "finger", "damaged"} /\ unrestored' \in BOOLEAN
    BY <1>8, <1>i, <2>0 DEF GetImages, Fails, Failed, RawImage, EnhancedImage, Retrieve,
       TaRetrieve, At, Outside, inj, tee, TaskType, DbKept, TaskPlaces
  <2>4. TaskType'
    BY <1>i, <2>0, <2>d, <2>e, <2>f, <2>g DEF TaskType
  <2>5. TaskPlaces'
    BY <1>8, <1>i, <2>0 DEF GetImages, Fails, Failed, RawImage, EnhancedImage, Retrieve,
       TaRetrieve, At, Outside, inj, tee, TaskType, TaskPlaces, Zeroed, Unfilled, Injecting,
       Kinds, Modes
  <2>6. DbKept'
    BY <1>8, <1>i, <2>0 DEF GetImages, Fails, Failed, RawImage, EnhancedImage, Retrieve,
       TaRetrieve, At, Outside, inj, tee, TaskType, TaskPlaces, DbKept, Zeroed, Unfilled,
       Injecting, Kinds, Modes
  <2>7. Answering' <=> Answering
    BY <1>8, <1>i, <2>0 DEF GetImages, Fails, Failed, RawImage, EnhancedImage, Retrieve,
       TaRetrieve, At, Outside, inj, tee, Answering, TaskPlaces, Modes, Kinds, TaskType
  <2> QED
    BY <1>q, <2>0, <2>1, <2>2, <2>3, <2>4, <2>5, <2>6, <2>7
<1>9. CASE LoadTestDb
  <2>0. UNCHANGED <<java, svc, modCb, subCb, binder, cancelled, starts, calls, wkind, wreq,
                    scenario>>
    BY <1>9 DEF LoadTestDb, Outside
  <2>h. /\ wkind \in {"verify", "enroll"} /\ testDb \in {"empty", "finger", "damaged"}
        /\ wkind = "enroll" => db # "regular"
    BY <1>9, <1>i DEF LoadTestDb, At, TaskType, TaskPlaces, DbKept, Kinds, Modes, Injecting
  <2>x. /\ failures' = failures \/ Fails
        /\ UNCHANGED <<testDb, unrestored>>
        /\ \/ /\ db' \in {"empty", "finger"} /\ UNCHANGED <<data, dbFailed>>
              /\ wpc' = IF wkind = "verify" THEN "cap" ELSE "begin"
           \/ /\ db' \in {db, "none", "empty", "finger"}
              /\ wkind = "enroll" /\ wpc' = "begin" /\ UNCHANGED <<data, dbFailed>>
           \/ /\ db' \in {db, "none", "empty", "finger"}
              /\ wkind = "verify" /\ wpc' = "answer" /\ Uninitialised
    <3>1. CASE Loads(testDb) \/ LoadsEmpty(testDb)
      BY <1>9, <2>h, <3>1 DEF LoadTestDb, Loads, LoadsEmpty, LoadFails, Trouble, Fails,
         Uninitialised
    <3>2. CASE LoadFails(testDb)
      BY <1>9, <2>h, <3>2 DEF LoadTestDb, Loads, LoadsEmpty, LoadFails, Trouble, Fails,
         Uninitialised
    <3> QED
      BY <1>9, <3>1, <3>2 DEF LoadTestDb
  <2>1. dbFailed => dbFailed'
    BY <2>x DEF Uninitialised
  <2>2. crashed => crashed'
    BY <1>9 DEF LoadTestDb, Outside, At
  <2>3. {injCb', injWait', injCancel', asked', dbFailed', crashed'} \subseteq BOOLEAN
    BY <1>9, <1>i, <2>x DEF LoadTestDb, Uninitialised, At, Outside, inj, Flags
  <2>u. data' \in DataType
    <3>1. CASE UNCHANGED data
      BY <1>i, <3>1 DEF TaskType
    <3>2. CASE Uninitialised
      BY <1>i, <3>2, UninitialisedData DEF TaskType
    <3> QED
      BY <2>x, <3>1, <3>2
  <2>d. data' \in DataType
    BY <2>u
  <2>e. wpc' \in Places
    BY <2>x DEF Places
  <2>f. failures' \in 0 .. MaxFailures
    BY <1>i, <2>x DEF Fails, TaskType
  <2>g. db' \in Databases /\ testDb' \in {"empty", "finger", "damaged"} /\ unrestored' \in BOOLEAN
    BY <1>i, <2>h, <2>x DEF TaskType
  <2>4. TaskType'
    BY <1>i, <2>0, <2>d, <2>e, <2>f, <2>g DEF TaskType
  <2>5. TaskPlaces'
    <3>1. CASE UNCHANGED data /\ UNCHANGED dbFailed
      BY <1>9, <1>i, <2>0, <2>h, <2>x, <3>1 DEF LoadTestDb, At, TaskType, TaskPlaces, Unfilled,
         Injecting, Kinds, Modes
    <3>2. CASE wkind = "verify" /\ wpc' = "answer" /\ Uninitialised
      BY <1>i, <2>0, <3>2 DEF Uninitialised, TaskPlaces, Unfilled, Injecting
    <3> QED
      BY <2>x, <3>1, <3>2
  <2>6. DbKept'
    BY <1>9, <1>i, <2>0, <2>h, <2>x DEF LoadTestDb, Uninitialised, At, Outside, inj, tee, TaskType,
       TaskPlaces, DbKept, Zeroed, Unfilled, Injecting, Kinds, Modes
  <2>7. Answering' <=> Answering
    BY <1>9, <1>i, <2>0, <2>h, <2>x DEF LoadTestDb, Uninitialised, At, Outside, inj, tee,
       Answering, TaskPlaces, Modes, Kinds, TaskType
  <2> QED
    BY <1>q, <2>0, <2>1, <2>2, <2>3, <2>4, <2>5, <2>6, <2>7
<1>10. CASE DeleteTestDb
  <2>0. UNCHANGED <<java, svc, modCb, subCb, binder, cancelled, starts, calls, wkind, wreq,
                    scenario>>
    BY <1>10 DEF DeleteTestDb, Outside
  <2>1. dbFailed => dbFailed'
    BY <1>10 DEF DeleteTestDb, StoreFails, Fails, Uninitialised
  <2>2. crashed => crashed'
    BY <1>10 DEF DeleteTestDb, Outside, At
  <2>3. {injCb', injWait', injCancel', asked', dbFailed', crashed'} \subseteq BOOLEAN
    BY <1>10, <1>i DEF DeleteTestDb, StoreFails, Fails, Uninitialised, At, Outside, inj, tee, Flags
  <2>x. \/ data' = data /\ failures' = failures
        \/ Fails /\ Uninitialised
    BY <1>10 DEF DeleteTestDb, StoreFails, Uninitialised, Fails
  <2>d. data' \in DataType
    BY <1>i, <2>x, UninitialisedData DEF TaskType
  <2>e. wpc' \in Places
    BY <1>10, <1>i, <2>0
       DEF DeleteTestDb, StoreFails, Fails, Uninitialised, At, Outside, inj, tee, TaskType,
          Places, Kinds
  <2>f. failures' \in 0 .. MaxFailures
    BY <1>i, <2>x DEF Fails, TaskType
  <2>g. db' \in Databases /\ testDb' \in {"empty", "finger", "damaged"} /\ unrestored' \in BOOLEAN
    BY <1>10, <1>i, <2>0 DEF DeleteTestDb, StoreFails, Fails, Uninitialised, At, Outside, inj, tee,
       TaskType, DbKept, TaskPlaces
  <2>4. TaskType'
    BY <1>i, <2>0, <2>d, <2>e, <2>f, <2>g DEF TaskType
  <2>5. TaskPlaces'
    BY <1>10, <1>i, <2>0 DEF DeleteTestDb, StoreFails, Fails, Uninitialised, At, Outside, inj, tee,
       TaskType, TaskPlaces, Zeroed, Unfilled, Injecting, Kinds, Modes
  <2>6. DbKept'
    BY <1>10, <1>i, <2>0 DEF DeleteTestDb, StoreFails, Fails, Uninitialised, At, Outside, inj, tee,
       TaskType, TaskPlaces, DbKept, Zeroed, Unfilled, Injecting, Kinds, Modes
  <2>7. Answering' <=> Answering
    BY <1>10, <1>i, <2>0 DEF DeleteTestDb, StoreFails, Fails, Uninitialised, At, Outside, inj, tee,
       Answering, TaskPlaces, Modes, Kinds, TaskType
  <2> QED
    BY <1>q, <2>0, <2>1, <2>2, <2>3, <2>4, <2>5, <2>6, <2>7
<1>11. CASE BeginEnrol
  <2>0. UNCHANGED <<java, svc, modCb, subCb, binder, cancelled, starts, calls, wkind, wreq,
                    scenario>>
    BY <1>11 DEF BeginEnrol, Outside
  <2>1. dbFailed => dbFailed'
    BY <1>11 DEF BeginEnrol, Fails, Failed
  <2>2. crashed => crashed'
    BY <1>11 DEF BeginEnrol, Outside, At
  <2>3. {injCb', injWait', injCancel', asked', dbFailed', crashed'} \subseteq BOOLEAN
    BY <1>11, <1>i DEF BeginEnrol, Fails, Failed, At, Outside, inj, tee, Flags
  <2>d. data' \in DataType
    BY <1>11, <1>i, <2>0, DataChanges DEF BeginEnrol, Fails, Failed, At, Outside, inj, tee,
       TaskType, TaskPlaces, Unfilled, Injecting
  <2>4. TaskType'
    BY <1>11, <1>i, <2>0, <2>d DEF BeginEnrol, Fails, Failed, At, Outside, inj, tee, TaskType,
       Places, TaskPlaces, Unfilled, Injecting
  <2>5. TaskPlaces'
    BY <1>11, <1>i, <2>0 DEF BeginEnrol, Fails, Failed, At, Outside, inj, tee, TaskType,
       TaskPlaces, Zeroed, Unfilled, Injecting, Kinds, Modes
  <2>6. DbKept'
    BY <1>11, <1>i, <2>0 DEF BeginEnrol, Fails, Failed, At, Outside, inj, tee, TaskType,
       TaskPlaces, DbKept, Zeroed, Unfilled, Injecting, Kinds, Modes
  <2>7. Answering' <=> Answering
    BY <1>11, <1>i, <2>0 DEF BeginEnrol, Fails, Failed, At, Outside, inj, tee, Answering,
       TaskPlaces, Modes, Kinds, TaskType
  <2> QED
    BY <1>q, <2>0, <2>1, <2>2, <2>3, <2>4, <2>5, <2>6, <2>7
<1>12. CASE Enrol
  <2>0. UNCHANGED <<java, svc, modCb, subCb, binder, cancelled, starts, calls, wkind, wreq,
                    scenario>>
    BY <1>12 DEF Enrol, Outside
  <2>1. dbFailed => dbFailed'
    BY <1>12 DEF Enrol, Fails, Failed
  <2>2. crashed => crashed'
    BY <1>12 DEF Enrol, Outside, At
  <2>3. {injCb', injWait', injCancel', asked', dbFailed', crashed'} \subseteq BOOLEAN
    BY <1>12, <1>i DEF Enrol, Fails, Failed, At, Outside, inj, tee, Flags
  <2>d. data' \in DataType
    BY <1>12, <1>i, <2>0, DataChanges DEF Enrol, Fails, Failed, At, Outside, inj, tee,
       TaskType, TaskPlaces, Unfilled, Injecting
  <2>4. TaskType'
    BY <1>12, <1>i, <2>0, <2>d DEF Enrol, Fails, Failed, At, Outside, inj, tee, TaskType,
       Places, TaskPlaces, Unfilled, Injecting
  <2>5. TaskPlaces'
    BY <1>12, <1>i, <2>0 DEF Enrol, Fails, Failed, At, Outside, inj, tee, TaskType,
       TaskPlaces, Zeroed, Unfilled, Injecting, Kinds, Modes
  <2>6. DbKept'
    BY <1>12, <1>i, <2>0 DEF Enrol, Fails, Failed, At, Outside, inj, tee, TaskType,
       TaskPlaces, DbKept, Zeroed, Unfilled, Injecting, Kinds, Modes
  <2>7. Answering' <=> Answering
    BY <1>12, <1>i, <2>0 DEF Enrol, Fails, Failed, At, Outside, inj, tee, Answering,
       TaskPlaces, Modes, Kinds, TaskType
  <2> QED
    BY <1>q, <2>0, <2>1, <2>2, <2>3, <2>4, <2>5, <2>6, <2>7
<1>13. CASE EndEnrol
  <2>0. UNCHANGED <<java, svc, modCb, subCb, binder, cancelled, starts, calls, wkind, wreq,
                    scenario>>
    BY <1>13 DEF EndEnrol, Outside
  <2>1. dbFailed => dbFailed'
    BY <1>13 DEF EndEnrol, WithFinger, Fails, Failed
  <2>2. crashed => crashed'
    BY <1>13 DEF EndEnrol, Outside, At
  <2>3. {injCb', injWait', injCancel', asked', dbFailed', crashed'} \subseteq BOOLEAN
    BY <1>13, <1>i DEF EndEnrol, WithFinger, Fails, Failed, At, Outside, inj, tee, Flags
  <2>d. data' \in DataType
    BY <1>13, <1>i, <2>0, DataChanges DEF EndEnrol, WithFinger, Fails, Failed, At, Outside,
       inj, tee, TaskType, TaskPlaces, Unfilled, Injecting
  <2>4. TaskType'
    BY <1>13, <1>i, <2>0, <2>d DEF EndEnrol, WithFinger, Fails, Failed, At, Outside, inj,
       tee, TaskType, Places, TaskPlaces, Unfilled, Injecting
  <2>5. TaskPlaces'
    BY <1>13, <1>i, <2>0 DEF EndEnrol, WithFinger, Fails, Failed, At, Outside, inj, tee, TaskType,
       TaskPlaces, Zeroed, Unfilled, Injecting, Kinds, Modes
  <2>6. DbKept'
    BY <1>13, <1>i, <2>0 DEF EndEnrol, WithFinger, Fails, Failed, At, Outside, inj, tee, TaskType,
       TaskPlaces, DbKept, Zeroed, Unfilled, Injecting, Kinds, Modes
  <2>7. Answering' <=> Answering
    BY <1>13, <1>i, <2>0 DEF EndEnrol, WithFinger, Fails, Failed, At, Outside, inj, tee, Answering,
       TaskPlaces, Modes, Kinds, TaskType
  <2> QED
    BY <1>q, <2>0, <2>1, <2>2, <2>3, <2>4, <2>5, <2>6, <2>7
<1>14. CASE Identify
  <2>0. UNCHANGED <<java, svc, modCb, subCb, binder, cancelled, starts, calls, wkind, wreq,
                    scenario>>
    BY <1>14 DEF Identify, Outside
  <2>1. dbFailed => dbFailed'
    BY <1>14 DEF Identify, Fails, Failed
  <2>2. crashed => crashed'
    BY <1>14 DEF Identify, Outside, At
  <2>3. {injCb', injWait', injCancel', asked', dbFailed', crashed'} \subseteq BOOLEAN
    BY <1>14, <1>i DEF Identify, Fails, Failed, At, Outside, inj, tee, Flags
  <2>d. data' \in DataType
    BY <1>14, <1>i, <2>0, DataChanges DEF Identify, Fails, Failed, At, Outside, inj, tee,
       TaskType, TaskPlaces, Unfilled, Injecting
  <2>4. TaskType'
    BY <1>14, <1>i, <2>0, <2>d DEF Identify, Fails, Failed, At, Outside, inj, tee, TaskType,
       Places, TaskPlaces, Unfilled, Injecting
  <2>5. TaskPlaces'
    BY <1>14, <1>i, <2>0 DEF Identify, Fails, Failed, At, Outside, inj, tee, TaskType,
       TaskPlaces, Zeroed, Unfilled, Injecting, Kinds, Modes
  <2>6. DbKept'
    BY <1>14, <1>i, <2>0 DEF Identify, Fails, Failed, At, Outside, inj, tee, TaskType,
       TaskPlaces, DbKept, Zeroed, Unfilled, Injecting, Kinds, Modes
  <2>7. Answering' <=> Answering
    BY <1>14, <1>i, <2>0 DEF Identify, Fails, Failed, At, Outside, inj, tee, Answering,
       TaskPlaces, Modes, Kinds, TaskType
  <2> QED
    BY <1>q, <2>0, <2>1, <2>2, <2>3, <2>4, <2>5, <2>6, <2>7
<1>15. CASE UpdateTemplate
  <2>0. UNCHANGED <<java, svc, modCb, subCb, binder, cancelled, starts, calls, wkind, wreq,
                    scenario>>
    BY <1>15 DEF UpdateTemplate, Outside
  <2>1. dbFailed => dbFailed'
    BY <1>15 DEF UpdateTemplate, Fails, Failed
  <2>2. crashed => crashed'
    BY <1>15 DEF UpdateTemplate, Outside, At
  <2>3. {injCb', injWait', injCancel', asked', dbFailed', crashed'} \subseteq BOOLEAN
    BY <1>15, <1>i DEF UpdateTemplate, Fails, Failed, At, Outside, inj, tee, Flags
  <2>d. data' \in DataType
    BY <1>15, <1>i, <2>0, DataChanges DEF UpdateTemplate, Fails, Failed, At, Outside, inj,
       tee, TaskType, TaskPlaces, Unfilled, Injecting
  <2>4. TaskType'
    BY <1>15, <1>i, <2>0, <2>d DEF UpdateTemplate, Fails, Failed, At, Outside, inj, tee,
       TaskType, Places, TaskPlaces, Unfilled, Injecting
  <2>5. TaskPlaces'
    BY <1>15, <1>i, <2>0 DEF UpdateTemplate, Fails, Failed, At, Outside, inj, tee, TaskType,
       TaskPlaces, Zeroed, Unfilled, Injecting, Kinds, Modes
  <2>6. DbKept'
    BY <1>15, <1>i, <2>0 DEF UpdateTemplate, Fails, Failed, At, Outside, inj, tee, TaskType,
       TaskPlaces, DbKept, Zeroed, Unfilled, Injecting, Kinds, Modes
  <2>7. Answering' <=> Answering
    BY <1>15, <1>i, <2>0 DEF UpdateTemplate, Fails, Failed, At, Outside, inj, tee, Answering,
       TaskPlaces, Modes, Kinds, TaskType
  <2> QED
    BY <1>q, <2>0, <2>1, <2>2, <2>3, <2>4, <2>5, <2>6, <2>7
<1>16. CASE SaveTestDb
  <2>0. UNCHANGED <<java, svc, modCb, subCb, binder, cancelled, starts, calls, wkind, wreq,
                    scenario>>
    BY <1>16 DEF SaveTestDb, Outside
  <2>1. dbFailed => dbFailed'
    BY <1>16 DEF SaveTestDb, StoreFails, Fails, Failed
  <2>2. crashed => crashed'
    BY <1>16 DEF SaveTestDb, Outside, At
  <2>3. {injCb', injWait', injCancel', asked', dbFailed', crashed'} \subseteq BOOLEAN
    BY <1>16, <1>i DEF SaveTestDb, StoreFails, Fails, Failed, At, Outside, inj, tee, Flags
  <2>d. data' \in DataType
    BY <1>16, <1>i, <2>0, DataChanges DEF SaveTestDb, StoreFails, Fails, Failed, At, Outside,
       inj, tee, TaskType, TaskPlaces, Unfilled, Injecting
  <2>e. wpc' \in Places
    BY <1>16, <1>i, <2>0
       DEF SaveTestDb, StoreFails, Fails, Failed, At, Outside, inj, tee, TaskType, Places, Kinds
  <2>f. failures' \in 0 .. MaxFailures
    BY <1>16, <1>i, <2>0 DEF SaveTestDb, StoreFails, Fails, Failed, At, Outside, inj, tee, TaskType
  <2>g. db' \in Databases /\ testDb' \in {"empty", "finger", "damaged"} /\ unrestored' \in BOOLEAN
    BY <1>16, <1>i, <2>0 DEF SaveTestDb, StoreFails, Fails, Failed, At, Outside, inj, tee,
       TaskType, DbKept, TaskPlaces, Kinds, Modes, Injecting
  <2>4. TaskType'
    BY <1>i, <2>0, <2>d, <2>e, <2>f, <2>g DEF TaskType
  <2>5. TaskPlaces'
    BY <1>16, <1>i, <2>0 DEF SaveTestDb, StoreFails, Fails, Failed, At, Outside, inj, tee,
       TaskType, TaskPlaces, Zeroed, Unfilled, Injecting, Kinds, Modes
  <2>6. DbKept'
    BY <1>16, <1>i, <2>0 DEF SaveTestDb, StoreFails, Fails, Failed, At, Outside, inj, tee,
       TaskType, TaskPlaces, DbKept, Zeroed, Unfilled, Injecting, Kinds, Modes
  <2>7. Answering' <=> Answering
    BY <1>16, <1>i, <2>0 DEF SaveTestDb, StoreFails, Fails, Failed, At, Outside, inj, tee,
       Answering, TaskPlaces, Modes, Kinds, TaskType
  <2> QED
    BY <1>q, <2>0, <2>1, <2>2, <2>3, <2>4, <2>5, <2>6, <2>7
<1>17. CASE RestoreRegularDb
  <2>0. UNCHANGED <<java, svc, modCb, subCb, binder, cancelled, starts, calls, wkind, wreq,
                    scenario>>
    BY <1>17 DEF RestoreRegularDb, Outside
  <2>1. dbFailed => dbFailed'
    BY <1>17 DEF RestoreRegularDb, Fails
  <2>2. crashed => crashed'
    BY <1>17 DEF RestoreRegularDb, Outside, At
  <2>3. {injCb', injWait', injCancel', asked', dbFailed', crashed'} \subseteq BOOLEAN
    BY <1>17, <1>i DEF RestoreRegularDb, Loads, LoadsEmpty, LoadFails, Trouble, Fails, At,
       Outside, inj, tee, Flags
  <2>x. /\ failures' = failures \/ Fails
        /\ UNCHANGED <<testDb, data, dbFailed>>
        /\ wpc = "restore" /\ wpc' = "off"
        /\ \/ db' = "regular" /\ unrestored' = FALSE
           \/ db' \in Databases /\ unrestored' = TRUE
    BY <1>17, <1>i DEF RestoreRegularDb, Loads, LoadsEmpty, LoadFails, Trouble, At, TaskType
  <2>e. unrestored' \in BOOLEAN
    BY <2>x
  <2>f. failures' \in 0 .. MaxFailures
    BY <1>i, <2>x DEF Fails, TaskType
  <2>4. TaskType'
    BY <1>i, <2>0, <2>e, <2>f, <2>x DEF TaskType, Places
  <2>5. TaskPlaces'
    BY <1>i, <2>0, <2>x DEF TaskPlaces, Unfilled, Injecting
  <2>6. DbKept'
    BY <1>i, <2>0, <2>x DEF DbKept
  <2>7. Answering' <=> Answering
    BY <1>17, <1>i, <2>0 DEF RestoreRegularDb, Loads, LoadsEmpty, LoadFails, Trouble, Fails,
       At, Outside, inj, tee, Answering, TaskPlaces, Modes, Kinds, TaskType
  <2> QED
    BY <1>q, <2>0, <2>1, <2>2, <2>3, <2>4, <2>5, <2>6, <2>7
<1>18. CASE SubscriptionChecks
  <2>0. UNCHANGED <<java, svc, modCb, subCb, binder, cancelled, starts, calls, wkind, wreq,
                    scenario>>
    BY <1>18 DEF SubscriptionChecks, Outside
  <2>1. dbFailed => dbFailed'
    BY <1>18 DEF SubscriptionChecks
  <2>2. crashed => crashed'
    BY <1>18 DEF SubscriptionChecks, Outside, At
  <2>3. {injCb', injWait', injCancel', asked', dbFailed', crashed'} \subseteq BOOLEAN
    BY <1>18, <1>i DEF SubscriptionChecks, At, Outside, inj, tee, Flags
  <2>d. data' \in DataType
    BY <1>18, <1>i, <2>0, DataChanges DEF SubscriptionChecks, At, Outside, inj, tee, TaskType,
       TaskPlaces, Unfilled, Injecting
  <2>4. TaskType'
    BY <1>18, <1>i, <2>0, <2>d DEF SubscriptionChecks, At, Outside, inj, tee, TaskType,
       Places, TaskPlaces, Unfilled, Injecting
  <2>5. TaskPlaces'
    BY <1>18, <1>i, <2>0 DEF SubscriptionChecks, At, Outside, inj, tee, TaskType, TaskPlaces,
       Zeroed, Unfilled, Injecting, Kinds, Modes
  <2>6. DbKept'
    BY <1>18, <1>i, <2>0 DEF SubscriptionChecks, At, Outside, inj, tee, TaskType, TaskPlaces,
       DbKept, Zeroed, Unfilled, Injecting, Kinds, Modes
  <2>7. Answering' <=> Answering
    BY <1>18, <1>i, <2>0 DEF SubscriptionChecks, At, Outside, inj, tee, Answering, TaskPlaces,
       Modes, Kinds, TaskType
  <2> QED
    BY <1>q, <2>0, <2>1, <2>2, <2>3, <2>4, <2>5, <2>6, <2>7
<1>19. CASE SubscriptionCalls
  <2>0. UNCHANGED <<java, svc, modCb, subCb, binder, cancelled, starts, calls, wkind, wreq,
                    scenario>>
    BY <1>19 DEF SubscriptionCalls, Outside
  <2>1. dbFailed => dbFailed'
    BY <1>19 DEF SubscriptionCalls, Fails, Failed
  <2>2. crashed => crashed'
    BY <1>19 DEF SubscriptionCalls, Outside, At
  <2>3. {injCb', injWait', injCancel', asked', dbFailed', crashed'} \subseteq BOOLEAN
    BY <1>19, <1>i DEF SubscriptionCalls, Fails, Failed, At, Outside, inj, tee, Flags
  <2>d. data' \in DataType
    BY <1>19, <1>i, <2>0, DataChanges DEF SubscriptionCalls, Fails, Failed, At, Outside, inj,
       tee, TaskType, TaskPlaces, Unfilled, Injecting
  <2>4. TaskType'
    BY <1>19, <1>i, <2>0, <2>d DEF SubscriptionCalls, Fails, Failed, At, Outside, inj, tee,
       TaskType, Places, TaskPlaces, Unfilled, Injecting
  <2>5. TaskPlaces'
    BY <1>19, <1>i, <2>0 DEF SubscriptionCalls, Fails, Failed, At, Outside, inj, tee,
       TaskType, TaskPlaces, Zeroed, Unfilled, Injecting, Kinds, Modes
  <2>6. DbKept'
    BY <1>19, <1>i, <2>0 DEF SubscriptionCalls, Fails, Failed, At, Outside, inj, tee,
       TaskType, TaskPlaces, DbKept, Zeroed, Unfilled, Injecting, Kinds, Modes
  <2>7. Answering' <=> Answering
    BY <1>19, <1>i, <2>0 DEF SubscriptionCalls, Fails, Failed, At, Outside, inj, tee,
       Answering, TaskPlaces, Modes, Kinds, TaskType
  <2> QED
    BY <1>q, <2>0, <2>1, <2>2, <2>3, <2>4, <2>5, <2>6, <2>7
<1> QED
  BY <1>1, <1>2, <1>3, <1>4, <1>5, <1>6, <1>7, <1>8, <1>9, <1>10, <1>11, <1>12, <1>13, <1>14,
     <1>15, <1>16, <1>17, <1>18, <1>19

(* What the application and the service do beside a running task keeps the
   invariant if it keeps what relates the request to its answer. *)
LEMMA OutsideKeeps ==
    ASSUME EngineeringInv, UNCHANGED <<worker, tee, failures, dbFailed, scenario>>, Flags',
             CallType',
           jcb' \in 0 .. MaxStarts, starts' \in 0 .. MaxStarts, calls' \in 0 .. MaxCalls,
             Flow',
           Served', Owned', AllGood', GotGood'
    PROVE  EngineeringInv'
<1>1. TaskType' /\ TaskInv'
  BY TaskUntouched
<1>2. AppType'
  BY DEF EngineeringInv, TypeInv, AppType, MaxCalls
<1> QED
  BY <1>1, <1>2 DEF EngineeringInv, TypeInv, AnswerInv

(* The calls that start nothing: a capture under way keeps its callback and its
   flag, or is cancelled. *)
LEMMA CallKeeps ==
    ASSUME EngineeringInv,
           UNCHANGED <<jcb, got, queue, modCb, worker, tee, starts, failures, dbFailed,
                       crashed, scenario>>,
           bpc' \in {"free", "cancel"}, bop' \in Kinds \cup {"challenge", "cancel", "died"},
           bpc' = "free" \/ bop' \notin Modes, bpc = "free",
           Answering => UNCHANGED <<svcCb, isCapture>>,
           calls' \in 0 .. MaxCalls, Flags'
    PROVE  EngineeringInv'
<1> USE EngineeringAssumption
<1>1. Requests' = Requests /\ UNCHANGED <<wpc, wkind, wreq>> /\ (Answering' <=> Answering)
  BY DEF Requests, worker, Answering
<1>2. ~Calling /\ ~Calling' /\ CallType'
  BY DEF Calling, CallType
<1>3. Flow' /\ AllGood' /\ GotGood'
  BY <1>1 DEF EngineeringInv, TypeInv, AnswerInv, Flow, AllGood, GotGood, StoredGood, Ok
<1>4. Served'
  BY <1>1, <1>2 DEF EngineeringInv, AnswerInv, Served, Pending
<1>5. Owned'
  BY <1>1, <1>2 DEF EngineeringInv, AnswerInv, Owned, Calling
<1>6. jcb' \in 0 .. MaxStarts /\ starts' \in 0 .. MaxStarts
  BY DEF EngineeringInv, TypeInv, AppType
<1> QED
  BY <1>2, <1>3, <1>4, <1>5, <1>6, OutsideKeeps

(* A request starts when the last one has been answered: nothing is under way. *)
LEMMA StartKeeps == ASSUME EngineeringInv, NEW m \in Modes, JavaStart(m) PROVE EngineeringInv'
<1> USE EngineeringAssumption
<1>0. /\ UNCHANGED <<got, queue, modCb, worker, tee, calls, failures, dbFailed, crashed,
                     scenario>>
      /\ bpc = "free" /\ bpc' = "module" /\ bop' = m /\ jcb = 0 /\ jcb' = starts + 1
      /\ starts' = starts + 1 /\ starts < MaxStarts /\ svcCb' = TRUE /\ isCapture' = TRUE
  BY DEF JavaStart, Call, ServiceStart
<1>1. starts \in 0 .. MaxStarts /\ calls \in 0 .. MaxCalls /\ MaxStarts \in Nat
  BY DEF EngineeringInv, TypeInv, AppType
<1>2. Requests' = Requests /\ UNCHANGED <<wpc, wkind, wreq>> /\ (Answering' <=> Answering)
  BY <1>0 DEF Requests, worker, Answering
<1>3. ~Answering /\ ~Calling /\ queue = <<>> /\ Calling'
  BY <1>0, <1>1 DEF EngineeringInv, AnswerInv, Served, Pending, Requests, Calling
<1>4. Pending(starts + 1)
  BY <1>0, <1>1 DEF EngineeringInv, AnswerInv, Served, Pending, Requests
<1>5. Served'
  <2>1. /\ \A n \in Requests : n > starts' => got'[n] = <<>>
        /\ \A n \in Requests :
              got'[n] # <<>> => \E r \in ResultType : got'[n] = <<r>> /\ r.req = n
    BY <1>0, <1>1 DEF EngineeringInv, AnswerInv, Served, Requests
  <2>2. Pending(jcb)' /\ ResultType' = ResultType
    BY <1>0, <1>2, <1>4 DEF Pending, ResultType
  <2> QED
    BY <1>0, <1>1, <1>2, <1>3, <2>1, <2>2 DEF Served
<1>6. Owned'
  BY <1>0, <1>2, <1>3 DEF EngineeringInv, AnswerInv, Owned
<1>7. Flow' /\ AllGood' /\ GotGood'
  BY <1>0, <1>2 DEF EngineeringInv, TypeInv, AnswerInv, Flow, AllGood, GotGood, StoredGood, Ok
<1>8. CallType'
  BY <1>0 DEF CallType, Kinds
<1>9. Flags'
  <2>1. linked' \in BOOLEAN
    BY DEF JavaStart, ServiceStart, LinkToDeath, EngineeringInv, TypeInv, Flags
  <2> QED
    BY <1>0, <2>1 DEF JavaStart, inj, java, EngineeringInv, TypeInv, Flags
<1>10. jcb' \in 0 .. MaxStarts /\ starts' \in 0 .. MaxStarts /\ calls' \in 0 .. MaxCalls
  BY <1>0, <1>1
<1> QED
  BY <1>0, <1>5, <1>6, <1>7, <1>8, <1>9, <1>10, OutsideKeeps

(* The calls of the application and the framework, and the death of the application. *)
LEMMA CallsKeep ==
    ASSUME EngineeringInv, \/ Dies \/ ImageSubscription \/ ImageInjection \/ CancelCapture
            \/ ServiceDied
                           \/ StopOnDeath \/ Interrupt("auth") \/ Interrupt("challenge")
    PROVE  EngineeringInv'
<1> USE EngineeringAssumption
<1>i. Flags /\ calls \in 0 .. MaxCalls /\ MaxCalls' = MaxCalls
  <2>1. UNCHANGED scenario
    BY DEF Dies, ImageSubscription, ImageInjection, CancelCapture, ServiceDied, StopOnDeath,
       Interrupt
  <2> QED
    BY <2>1 DEF EngineeringInv, TypeInv, AppType, MaxCalls
<1>c. MaxCalls \in Nat
  BY DEF EngineeringInv, TypeInv, AppType, MaxCalls
<1>r. /\ Release => svcCb' \in BOOLEAN /\ isCapture' \in BOOLEAN /\ linked' \in BOOLEAN
      /\ CancelledCapture => svcCb' \in BOOLEAN /\ isCapture' \in BOOLEAN
          /\ linked' \in BOOLEAN
  BY <1>i DEF Release, ReleaseHidl, ReleaseLegacy, CancelledCapture, svc, Flags
<1>a. Answering => isCapture = TRUE /\ svcCb = TRUE
  <2>1. Answering => isCapture /\ svcCb
    BY DEF EngineeringInv, AnswerInv, Served
  <2> QED
    BY <1>i, <2>1 DEF Flags
<1>1. CASE Dies
  <2>1. Flags' /\ Flow' /\ Served' /\ Owned' /\ AllGood' /\ GotGood' /\ CallType'
    <3>1. UNCHANGED <<jcb, got, queue, svcCb, isCapture, linked, modCb, subCb, injCb, injWait,
                      injCancel, asked, bpc, bop, cancelled, wpc, wkind, wreq, starts,
                        dbFailed,
                      crashed, scenario>> /\ alive' = FALSE
      BY <1>1 DEF Dies, svc, inj, binder, worker, bounds
    <3>2. Requests' = Requests /\ (Answering' <=> Answering) /\ (Calling' <=> Calling)
      BY <3>1 DEF Requests, Answering, Calling
    <3>3. Flags' /\ CallType' /\ Flow'
      BY <1>i, <3>1, <3>2 DEF Flags, CallType, Flow, EngineeringInv, TypeInv
    <3>4. Served' /\ Owned'
      BY <3>1, <3>2 DEF EngineeringInv, AnswerInv, Served, Owned, Pending
    <3>5. AllGood' /\ GotGood'
      BY <3>1, <3>2 DEF EngineeringInv, AnswerInv, AllGood, GotGood, StoredGood, Ok
    <3> QED
      BY <3>3, <3>4, <3>5
  <2>2. jcb' \in 0 .. MaxStarts /\ starts' \in 0 .. MaxStarts /\ calls' \in 0 .. MaxCalls
    BY <1>1 DEF Dies, bounds, EngineeringInv, TypeInv, AppType
  <2> QED
    BY <1>1, <2>1, <2>2, OutsideKeeps DEF Dies, bounds
<1>2. CASE ImageSubscription
  <2>1. UNCHANGED <<svcCb, isCapture>> /\ calls' \in 0 .. MaxCalls
    BY <1>2, <1>i, <1>c DEF ImageSubscription, svc
  <2>2. Flags'
    BY <1>2, <1>i DEF ImageSubscription, SetImgSubscrCb, Flags, java, svc, inj
  <2> QED
    BY <1>2, <2>1, <2>2, CallKeeps DEF ImageSubscription, Call, java, Modes
<1>3. CASE ImageInjection
  <2>1. UNCHANGED <<svcCb, isCapture>> /\ calls' \in 0 .. MaxCalls
    BY <1>3, <1>i, <1>c DEF ImageInjection, svc
  <2>2. Flags'
    BY <1>3, <1>i DEF ImageInjection, SetImgInjCb, Flags, java, svc
  <2> QED
    BY <1>3, <2>1, <2>2, CallKeeps DEF ImageInjection, Call, java, Modes
<1>4. CASE CancelCapture
  <2>1. (Answering => UNCHANGED <<svcCb, isCapture>>) /\ calls' \in 0 .. MaxCalls
    BY <1>4, <1>i, <1>a, <1>c DEF CancelCapture, CancelledCapture, svc
  <2>2. Flags'
    BY <1>4, <1>i, <1>r DEF CancelCapture, Flags, java, inj
  <2>3. bpc' \in {"free", "cancel"} /\ bop' = "cancel" /\ bpc = "free"
    BY <1>4 DEF CancelCapture, CancelledCapture, Call
  <2> QED
    BY <1>4, <2>1, <2>2, <2>3, CallKeeps DEF CancelCapture, java, Modes
<1>5. CASE ServiceDied
  <2>1. (Answering => UNCHANGED <<svcCb, isCapture>>) /\ calls' \in 0 .. MaxCalls
    BY <1>5, <1>i, <1>a, <1>c DEF ServiceDied, CancelledCapture, svc, bounds
  <2>2. Flags'
    BY <1>5, <1>i, <1>r DEF ServiceDied, Flags, java, inj, bounds
  <2>3. bpc' \in {"free", "cancel"} /\ bop' = "died" /\ bpc = "free"
    BY <1>5 DEF ServiceDied, CancelledCapture, Call
  <2> QED
    BY <1>5, <2>1, <2>2, <2>3, CallKeeps DEF ServiceDied, java, Modes, bounds
<1>6. CASE StopOnDeath
  <2>1. UNCHANGED <<svcCb, isCapture>> /\ calls' \in 0 .. MaxCalls
    BY <1>6, <1>i, <1>c DEF StopOnDeath, svc, bounds
  <2>2. Flags'
    BY <1>6, <1>i DEF StopOnDeath, Flags, java, svc, bounds
  <2> QED
    BY <1>6, <2>1, <2>2, CallKeeps DEF StopOnDeath, Call, java, Modes, bounds
<1>7. CASE \E o \in {"auth", "challenge"} : Interrupt(o)
  <2>1. UNCHANGED <<svcCb, isCapture>> /\ calls' \in 0 .. MaxCalls
    BY <1>7, <1>i, <1>c DEF Interrupt, svc
  <2>2. Flags'
    BY <1>7, <1>i DEF Interrupt, Flags, java, svc, inj
  <2>3. bpc' = "cancel" /\ bop' \in {"auth", "challenge"} /\ bpc = "free"
    BY <1>7 DEF Interrupt, Call
  <2> QED
    BY <1>7, <2>1, <2>2, <2>3, CallKeeps DEF Interrupt, java, Modes, Kinds
<1> QED
  BY <1>1, <1>2, <1>3, <1>4, <1>5, <1>6, <1>7

(* The module notes the callback, tells the running task to end... *)
LEMMA ModuleKeeps == ASSUME EngineeringInv, StartCapture \/ GotoIdle PROVE EngineeringInv'
<1>0. UNCHANGED <<jcb, got, queue, alive, svcCb, isCapture, linked, subCb, injCb, injWait, bop,
                  wpc, wkind, wreq, starts, calls, dbFailed, crashed, scenario>>
  BY DEF StartCapture, GotoIdle, java, svc, inj, worker, bounds
<1>1. /\ bpc' \in {"cancel", "join"} /\ bpc # "free" /\ bpc' # "free" /\ bpc # "free"
      /\ bpc = "module" \/ (bpc \in {"cancel", "join"} /\ modCb' = modCb)
  BY DEF StartCapture, GotoIdle
<1>2. Requests' = Requests /\ (Answering' <=> Answering) /\ (Calling' <=> Calling)
  BY <1>0, <1>1 DEF Requests, Answering, Calling
<1>3. Flags'
  <2>1. {modCb', injCancel', asked', cancelled'} \subseteq BOOLEAN
    BY DEF StartCapture, GotoIdle, inj, EngineeringInv, TypeInv, Flags
  <2> QED
    BY <1>0, <2>1 DEF EngineeringInv, TypeInv, Flags
<1>4. CallType' /\ Flow'
  BY <1>0, <1>1, <1>2 DEF EngineeringInv, TypeInv, CallType, Flow
<1>5. Served'
  BY <1>0, <1>1, <1>2 DEF EngineeringInv, AnswerInv, Served, Pending
<1>6. Owned'
  BY <1>0, <1>1, <1>2 DEF EngineeringInv, AnswerInv, Served, Owned
<1>7. AllGood' /\ GotGood'
  BY <1>0, <1>2 DEF EngineeringInv, AnswerInv, AllGood, GotGood, StoredGood, Ok
<1>8. jcb' \in 0 .. MaxStarts /\ starts' \in 0 .. MaxStarts /\ calls' \in 0 .. MaxCalls
  BY <1>0 DEF EngineeringInv, TypeInv, AppType
<1>9. UNCHANGED <<worker, tee, failures, dbFailed, scenario>>
  BY DEF StartCapture, GotoIdle, bounds
<1> QED
  BY <1>3, <1>4, <1>5, <1>6, <1>7, <1>8, <1>9, OutsideKeeps

(* ...and hands the worker, which is idle, the next one. *)
LEMMA JoinedKeeps == ASSUME EngineeringInv, Joined PROVE EngineeringInv'
<1> USE EngineeringAssumption
<1>0. /\ UNCHANGED <<jcb, got, queue, alive, modCb, subCb, injCb, injWait, injCancel, asked,
                     bop, db,
                     testDb, unrestored, starts, calls, failures, crashed, scenario>>
      /\ bpc = "join" /\ bpc' = "free" /\ wpc = "off" /\ cancelled' = FALSE
  BY DEF Joined, java, inj, tee
<1>i. /\ Flags /\ TaskType /\ TaskPlaces /\ DbKept /\ AppType /\ Served /\ Owned /\ ~Answering
      /\ ~Calling' /\ Requests' = Requests
  BY <1>0 DEF EngineeringInv, TypeInv, TaskInv, AnswerInv, Answering, Calling, Requests
<1>1. Flags'
  <2>1. {svcCb', isCapture', linked'} \subseteq BOOLEAN
    BY <1>i DEF Joined, Release, ReleaseHidl, ReleaseLegacy, svc, Flags
  <2>2. dbFailed' \in BOOLEAN
    BY <1>i DEF Joined, Flags
  <2> QED
    BY <1>0, <1>i, <2>1, <2>2 DEF Flags
<1>2. AppType' /\ CallType' /\ Flow'
  BY <1>0, <1>i DEF EngineeringInv, TypeInv, AppType, CallType, Flow, MaxCalls
<1>3. AllGood' /\ GotGood'
  BY <1>0, <1>i DEF EngineeringInv, AnswerInv, AllGood, GotGood, StoredGood, Ok
<1>4. CASE bop \in Modes
  <2>1. /\ wkind' = bop /\ wreq' = starts /\ data' = Zeroed /\ dbFailed' = FALSE
        /\ wpc' = FirstPlace(bop) /\ UNCHANGED <<svcCb, isCapture>>
    BY <1>4 DEF Joined, Kinds, Modes, svc
  <2>2. wpc' \in {"load", "delete", "cap"} /\ (wpc' = "delete" => bop = "enroll")
        /\ (bop = "capture" => wpc' = "cap") /\ (bop = "verify" => wpc' = "load")
        /\ (bop = "enroll" => wpc' = "delete")
    BY <1>4, <2>1 DEF FirstPlace, Modes
  <2>3. Calling /\ Answering'
    BY <1>0, <1>4, <2>1, <2>2 DEF Calling, Answering
  <2>4. TaskType'
    BY <1>0, <1>4, <1>i, <2>1, <2>2, DataChanges DEF TaskType, Places, Kinds, AppType
  <2>5. TaskInv'
    BY <1>0, <1>4, <1>i, <2>1, <2>2
       DEF TaskInv, TaskPlaces, DbKept, Zeroed, Modes, Unfilled, Injecting
  <2>6. Served'
    BY <1>0, <1>i, <2>1, <2>3 DEF Served, Pending
  <2>7. Owned'
    BY <2>3 DEF Owned
  <2> QED
    BY <1>1, <1>2, <1>3, <2>4, <2>5, <2>6, <2>7 DEF EngineeringInv, TypeInv, AnswerInv
<1>5. CASE bop \notin Modes
  <2>1. /\ wpc' \in {"off", "cap"} /\ (wpc' = "off" => UNCHANGED <<wkind, wreq, data>>)
        /\ wpc' = "cap" => wkind' = "auth" /\ wreq' = 0 /\ data' = Zeroed
    BY <1>0, <1>5 DEF Joined, FirstPlace, Kinds, worker
  <2>2. (dbFailed => dbFailed') /\ ~Calling /\ ~Answering'
    BY <1>5, <2>1 DEF Joined, Calling, Answering, Modes
  <2>3. TaskType'
    <3>1. data' \in DataType /\ wkind' \in Kinds /\ wreq' \in 0 .. MaxStarts
      <4>1. CASE UNCHANGED <<wkind, wreq, data>>
        BY <1>i, <4>1 DEF TaskType
      <4>2. CASE wkind' = "auth" /\ wreq' = 0 /\ data' = Zeroed
        <5>1. Zeroed \in DataType /\ 0 \in 0 .. MaxStarts
          BY DEF DataType, Zeroed
        <5> QED
          BY <4>2, <5>1 DEF Kinds
      <4> QED
        BY <2>1, <4>1, <4>2
    <3> QED
      BY <1>0, <1>i, <2>1, <3>1 DEF TaskType, Places
  <2>4. TaskInv'
    BY <1>0, <1>i, <2>1, <2>2 DEF TaskInv, TaskPlaces, DbKept, Zeroed, Unfilled, Injecting
  <2>5. Served'
    BY <1>0, <1>i, <2>2 DEF Served, Pending
  <2>6. Owned'
    BY <1>0, <1>5, <1>i, <2>2 DEF Owned
  <2> QED
    BY <1>1, <1>2, <1>3, <2>3, <2>4, <2>5, <2>6 DEF EngineeringInv, TypeInv, AnswerInv
<1> QED
  BY <1>4, <1>5

(* The last result of a task reaches the request's callback. *)
LEMMA DeliveryKeeps == ASSUME EngineeringInv, JavaOnImage PROVE EngineeringInv'
<1> USE EngineeringAssumption
<1>0. /\ UNCHANGED <<alive, svcCb, isCapture, linked, modCb, subCb, injCb, injWait, injCancel,
                     asked,
                     bpc, bop, cancelled, wpc, wkind, wreq, starts, calls, dbFailed, crashed,
                       scenario>>
      /\ queue # <<>> /\ queue' = Tail(queue)
  BY DEF JavaOnImage, svc, inj, binder, worker, bounds
<1>i. Flow /\ Served /\ Owned /\ AllGood /\ GotGood /\ Requests' = Requests
  BY DEF EngineeringInv, TypeInv, AnswerInv, Requests
<1>1. PICK r \in ResultType : queue = <<r>> /\ r.req = jcb
  BY <1>0, <1>i DEF Served
<1>2. Pending(jcb) /\ ~Answering /\ ~Calling /\ ~Answering' /\ ~Calling'
  BY <1>0, <1>i DEF Served, Answering, Calling
<1>3. queue' = <<>> /\ Head(queue) = r /\ StoredGood(r)
  <2>1. DOMAIN queue = {1} /\ queue[1] = r
    BY <1>1
  <2> QED
    BY <1>0, <1>1, <1>i, <2>1 DEF AllGood
<1>4. jcb \in Requests /\ jcb # 0 /\ got[jcb] = <<>>
  BY <1>2 DEF Pending, Requests
<1>5. \/ jcb' = 0 /\ got' = [got EXCEPT ![jcb] = <<r>>]
      \/ jcb' = jcb /\ got' = got
  <2>1. Append(<<>>, r) = <<r>>
    OBVIOUS
  <2> QED
    BY <1>3, <1>4, <2>1 DEF JavaOnImage
<1>6. /\ \A n \in Requests : got'[n] = got[n] \/ (n = jcb /\ got'[n] = <<r>>)
      /\ got' \in [Requests -> Seq(ResultType)] /\ jcb' \in {0, jcb}
  <2>1. <<r>> \in Seq(ResultType)
    OBVIOUS
  <2> QED
    BY <1>4, <1>5, <1>i, <2>1 DEF Flow
<1>7. Flow'
  BY <1>3, <1>6, <1>i DEF Flow
<1>8. Served'
  <2>1. starts \in Nat /\ jcb \in 0 .. starts
    BY <1>i DEF EngineeringInv, TypeInv, AppType, Served
  <2>2. ASSUME NEW n \in Requests, n > starts' PROVE got'[n] = <<>>
    <3>1. n > starts /\ n # jcb
      BY <1>0, <2>1, <2>2 DEF Requests
    <3> QED
      BY <1>6, <1>i, <3>1 DEF Served
  <2>3. \A n \in Requests :
           got'[n] # <<>> => \E s \in ResultType : got'[n] = <<s>> /\ s.req = n
    BY <1>1, <1>6, <1>i DEF Served
  <2>4. jcb' <= starts'
    BY <1>0, <1>6, <2>1
  <2> QED
    BY <1>0, <1>2, <1>3, <1>i, <2>2, <2>3, <2>4 DEF Served
<1>9. Owned'
  BY <1>0, <1>2, <1>i DEF Owned
<1>10. AllGood' /\ GotGood'
  <2>1. DOMAIN queue' = {}
    BY <1>3
  <2>2. \A n \in Requests : \A i \in DOMAIN got'[n] :
           (i \in DOMAIN got[n] /\ got'[n][i] = got[n][i]) \/ got'[n][i] = r
    BY <1>6
  <2>3. \A s : StoredGood(s)' <=> StoredGood(s)
    BY DEF StoredGood, Ok
  <2> QED
    BY <1>3, <1>i, <2>1, <2>2, <2>3 DEF AllGood, GotGood, StoredGood
<1>11. Flags' /\ CallType'
  BY <1>0 DEF EngineeringInv, TypeInv, Flags, CallType
<1>12. jcb' \in 0 .. MaxStarts /\ starts' \in 0 .. MaxStarts /\ calls' \in 0 .. MaxCalls
  BY <1>0, <1>6 DEF EngineeringInv, TypeInv, AppType
<1>13. UNCHANGED <<worker, tee, failures, dbFailed, scenario>>
  BY DEF JavaOnImage, bounds
<1> QED
  BY <1>7, <1>8, <1>9, <1>10, <1>11, <1>12, <1>13, OutsideKeeps

(* The task answers, at most once and with its own request. *)
LEMMA AnswerKeeps == ASSUME EngineeringInv, Answer PROVE EngineeringInv'
<1> USE EngineeringAssumption
<1>0. /\ UNCHANGED <<jcb, got, alive, linked, subCb, injCb, injWait, injCancel, asked, bpc,
                     bop, cancelled, wkind, wreq, db, testDb, unrestored, starts, calls,
                     failures, dbFailed, scenario>>
      /\ wpc = "answer" /\ wpc' \in {"off", "restore"} /\ (wpc' = "off" <=> wkind = "capture")
      /\ data' = [data EXCEPT !.bufs = 0] /\ crashed' \in BOOLEAN /\ crashed = FALSE
  <2>1. UNCHANGED linked
    BY DEF Answer, ExecuteCaptureCallback, OnCapture, svc
  <2>2. crashed = FALSE
    BY DEF Answer, At, EngineeringInv, TypeInv, Flags
  <2> QED
    BY <2>1, <2>2 DEF Answer, At, AfterAnswer, inj, binder, tee, bounds
<1>i. /\ Flags /\ TaskType /\ TaskPlaces /\ DbKept /\ Flow /\ Served /\ Owned /\ AllGood
          /\ GotGood
      /\ Requests' = Requests
  BY DEF EngineeringInv, TypeInv, TaskInv, AnswerInv, Requests
<1>1. Answering /\ ~Answering' /\ ~Calling /\ ~Calling'
  <2>1. Answering
    BY <1>0, <1>i DEF Answering, TaskType, TaskPlaces, Kinds, Injecting
  <2> QED
    BY <1>0, <1>i, <2>1 DEF Answering, Calling, Served
<1>2. Pending(jcb) /\ jcb = starts /\ queue = <<>> /\ isCapture = TRUE /\ svcCb = TRUE
       /\ wreq = jcb
  <2>1. Pending(jcb) /\ jcb = starts /\ queue = <<>> /\ isCapture /\ svcCb /\ wreq = jcb
    BY <1>1, <1>i DEF Served
  <2> QED
    BY <1>i, <2>1 DEF Flags
<1>3. Result \in ResultType /\ Result.req = wreq /\ StoredGood(Result)
  <2>1. Result \in ResultType
    BY <1>0, <1>i DEF Result, ResultType, TaskType, DataType
  <2>2. Result.kind = "enroll" /\ Result.uid /\ ~Result.junk => Result.stored
    BY <1>0, <1>i DEF Result, DbKept
  <2> QED
    BY <2>1, <2>2 DEF Result, StoredGood
<1>4. /\ \/ queue' = <<Result>> \/ queue' = <<>>
      /\ {svcCb', isCapture', modCb'} \subseteq BOOLEAN
      /\ modCb' => dbFailed
  <2>1. modCb' => ~data.last
    BY DEF Answer, ExecuteCaptureCallback
  <2>2. modCb' \in BOOLEAN
    BY <1>i DEF Answer, ExecuteCaptureCallback, Flags
  <2>3. Append(<<>>, Result) = <<Result>>
    OBVIOUS
  <2>4. \/ queue' = <<Result>> \/ queue' = <<>>
    BY <1>2, <2>3 DEF Answer, ExecuteCaptureCallback, OnCapture
  <2>5. {svcCb', isCapture'} \subseteq BOOLEAN
    BY <1>2, <2>3 DEF Answer, ExecuteCaptureCallback, OnCapture, svc
  <2> QED
    BY <1>i, <2>1, <2>2, <2>4, <2>5 DEF TaskPlaces
<1>5. Flags' /\ AppType' /\ CallType' /\ Flow'
  <2>1. <<Result>> \in Seq(ResultType)
    BY <1>3
  <2>2. Flags'
    BY <1>0, <1>i, <1>4 DEF Flags
  <2>3. AppType' /\ CallType'
    BY <1>0 DEF EngineeringInv, TypeInv, AppType, CallType, MaxCalls
  <2>4. queue' \in Seq(ResultType)
    <3>1. CASE queue' = <<Result>>
      BY <2>1, <3>1
    <3>2. CASE queue' = <<>>
      BY <3>2
    <3> QED
      BY <1>4, <3>1, <3>2
  <2> QED
    BY <1>0, <1>i, <2>2, <2>3, <2>4 DEF Flow
<1>6. TaskType'
  <2>1. data' \in DataType
    <3>1. 0 \in 0 .. 2 /\ data \in DataType
      BY <1>i DEF TaskType
    <3> QED
      BY <1>0, <3>1, DataChanges
  <2> QED
    BY <1>0, <1>i, <2>1 DEF TaskType, Places
<1>7. TaskInv'
  <2>1. data'.last = data.last
    BY <1>0, <1>i DEF TaskType, DataType
  <2>2. wkind # "auth"
    BY <1>1 DEF Answering, Modes
  <2> QED
    BY <1>0, <1>i, <2>1, <2>2 DEF TaskInv, TaskPlaces, DbKept, Unfilled, Injecting
<1>8. Served'
  BY <1>0, <1>1, <1>2, <1>3, <1>4, <1>i DEF Served, Pending
<1>9. Owned'
  BY <1>0, <1>4 DEF Owned
<1>10. AllGood' /\ GotGood'
  <2>1. \A s : StoredGood(s)' <=> StoredGood(s)
    BY DEF StoredGood, Ok
  <2>2. \A j \in DOMAIN queue' : queue'[j] = Result
    <3>1. CASE queue' = <<Result>>
      BY <3>1
    <3>2. CASE queue' = <<>>
      BY <3>2
    <3> QED
      BY <1>4, <3>1, <3>2
  <2>3. AllGood'
    BY <1>3, <2>2 DEF AllGood, StoredGood, Ok
  <2>4. GotGood'
    BY <1>0, <1>i, <2>1 DEF GotGood, StoredGood, Ok
  <2> QED
    BY <2>3, <2>4
<1> QED
  BY <1>5, <1>6, <1>7, <1>8, <1>9, <1>10 DEF EngineeringInv, TypeInv, AnswerInv

(* Every step keeps the invariant. *)
LEMMA EngineeringNextInv == EngineeringInv /\ [EngineeringNext]_engvars => EngineeringInv'
<1> SUFFICES ASSUME EngineeringInv, [EngineeringNext]_engvars PROVE EngineeringInv'
  OBVIOUS
<1>1. CASE UNCHANGED engvars
  <2>1. UNCHANGED <<jcb, got, queue, alive, svcCb, isCapture, linked, modCb, subCb, injCb,
                    injWait,
                    injCancel, asked, bpc, bop, cancelled, wpc, wkind, wreq, starts, calls,
                      failures,
                    dbFailed, crashed, scenario>> /\ UNCHANGED <<worker, tee, java, svc,
                                                                 binder>>
    BY <1>1 DEF engvars, java, svc, inj, binder, worker, bounds
  <2>2. TaskType' /\ TaskInv' /\ (Answering' <=> Answering)
    BY <2>1, TaskUntouched
  <2>3. AppType' /\ CallType' /\ Flow' /\ AnswerInv'
    BY <2>1, <2>2, WithinTask
  <2>4. Flags'
    BY <2>1 DEF EngineeringInv, TypeInv, Flags
  <2> QED
    BY <2>2, <2>3, <2>4 DEF EngineeringInv, TypeInv
<1>2. CASE EngineeringNext
  BY <1>2, StartKeeps, CallsKeep, ModuleKeeps, JoinedKeeps, DeliveryKeeps, WorkerKeeps,
     AnswerKeeps DEF EngineeringNext, WorkerStep
<1> QED
  BY <1>1, <1>2

(* Through the callbacks of the module, the service and the Java object, a
   request gets at most one last result, its own, and cancelCapture finds a
   capture under way. *)
THEOREM EngineeringOwnAnswer == EngineeringSpec => []OwnAnswer
  BY EngineeringInitInv, EngineeringNextInv, EngineeringConsequences, PTL DEF EngineeringSpec

(* However a verification or an enrolment of do_verify and do_enroll ends, the
   test database stays in the trusted application only when the load of
   restore_regular_db failed, the user's templates do not get into test.db, and
   a finger the Java API takes for enrolled is in test.db. *)
THEOREM EngineeringTestDbContained == EngineeringSpec => []TestDbContained
  BY EngineeringInitInv, EngineeringNextInv, EngineeringConsequences, PTL DEF EngineeringSpec

=============================================================================

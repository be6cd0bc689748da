----------------------------- MODULE FpcDbFormat -----------------------------
(***************************************************************************)
(* The byte format of the template database: db_pack_v4 and db_unpack of   *)
(* fpc_db.c, with the databases of fpc_db.c as records.  The packing and   *)
(* unpacking helpers check their bounds, but most of their results are     *)
(* ignored by the two functions built from them: a field that does not fit *)
(* is skipped and the next one is tried at the same place.  What makes the *)
(* format safe is only the count checked after packing and the markers     *)
(* checked while unpacking.                                                *)
(*                                                                         *)
(* The widths are parameters (4, 8 and 32 bytes in the code); the four     *)
(* markers are the upper halves of the code's, which fit two bytes.        *)
(***************************************************************************)
EXTENDS Integers, Sequences, SequencesExt

CONSTANTS
    Slots,  \* FPC_DB_FINGERPRINTS_IN_SET
    U32,    \* bytes of a uint32_t
    U64,    \* bytes of a uint64_t
    U256,   \* bytes of an id256_t
    Heap    \* largest allocation the trusted application grants

ASSUME FormatAssumption == {Slots, U32, U64, U256, Heap} \subseteq Nat \ {0}

FPC_ERROR_ALLOC == 3
FPC_ERROR_IO == 6
FPC_ERROR_DB == 17

StartOfDb   == 43949  \* FPC_DB_MARKER_START_OF_DB
StartOfSets == 48879  \* FPC_DB_MARKER_START_OF_SETS
StartOfSIds == 47836  \* FPC_DB_MARKER_START_OF_S_IDS
EndOfFile   == 45317  \* FPC_DB_MARKER_END_OF_FILE

Zeros(n) == [i \in 1 .. n |-> 0]

(* An entry that was never used: valid is FPC_DB_ENTRY_INVALID. *)
NoEntry == [valid |-> 0, fid |-> Zeros(U256), suid |-> 0, tpl |-> <<>>]

(* A database has an id and at most one set of fingerprints. *)
EmptyDb(dbid) == [id |-> dbid, sets |-> <<>>]

-----------------------------------------------------------------------------
(* Packing.  A field is its bytes and the room that must stay free behind
   them: pack_uint8 and pack_uint8_array refuse to fill the last byte. *)

Uint(v, w) == [i \in 1 .. w |-> (v \div 256 ^ (w - i)) % 256]

Pack8(v) == [bytes |-> <<v>>, slack |-> 1]

PackArray(b) == [bytes |-> b, slack |-> 1]

Pack32(v) == [bytes |-> Uint(v, U32), slack |-> 0]

Pack64(v) == [bytes |-> Uint(v, U64), slack |-> 0]

PackEntry(e) ==
    IF e.valid = 0 THEN <<Pack32(0)>>
    ELSE <<Pack32(1), PackArray(e.fid), Pack64(e.suid),
           Pack32(Len(e.tpl)), PackArray(e.tpl)>>

PackSet(set) ==
    <<Pack32(set.key), Pack32(StartOfSIds), PackArray(set.setid), PackArray(set.stateid)>>
        \o FlattenSeq([j \in 1 .. Slots |-> PackEntry(set.list[j])])

PackDb(db) ==
    <<Pack32(StartOfDb), Pack8(4), Pack64(db.id), Pack32(Len(db.sets)), Pack32(StartOfSets)>>
        \o FlattenSeq([k \in 1 .. Len(db.sets) |-> PackSet(db.sets[k])])
        \o <<Pack32(EndOfFile)>>

(* Variant for the sensitivity check: the last byte is never filled. *)
PackInExact(fields, size) ==
    FoldLeft(LAMBDA out, f :
                 IF Len(out) + Len(f.bytes) + 1 > size THEN out ELSE out \o f.bytes,
             <<>>, fields)

(* A field that does not fit is left out and its failure is not seen. *)
PackIn(fields, size) ==
    FoldLeft(LAMBDA out, f :
                 IF Len(out) + Len(f.bytes) + f.slack > size THEN out ELSE out \o f.bytes,
             <<>>, fields)

(* fpc_db_get_data_size: the counter, moved without a buffer. *)
GetDataSize(db) == FoldLeft(LAMBDA n, f : n + Len(f.bytes), 0, PackDb(db))

(* fpc_db_get_data: the buffer is preset, and the count must agree. *)
GetData(db, size) ==
    LET out == PackIn(PackDb(db), size)
    IN  [status |-> IF Len(out) = size THEN 0 ELSE -FPC_ERROR_DB,
         bytes  |-> out \o [i \in 1 .. size - Len(out) |-> 1]]

-----------------------------------------------------------------------------
(* Unpacking at pos, the number of bytes read so far.  A read that does not
   fit leaves both the counter and the variable as they were. *)

Fits(data, pos, n) == pos + n <= Len(data)

After(data, pos, n) == IF Fits(data, pos, n) THEN pos + n ELSE pos

UnpackArray(data, pos, n) ==
    IF Fits(data, pos, n) THEN SubSeq(data, pos + 1, pos + n) ELSE Zeros(n)

UnpackUint(data, pos, w) ==
    FoldLeft(LAMBDA v, b : 256 * v + b, 0, UnpackArray(data, pos, w))

Verify32(data, pos, marker) ==
    Fits(data, pos, U32) /\ UnpackUint(data, pos, U32) = marker

(* One entry, after those in c.list, from c.pos on. *)
UnpackEntry(data, version, c) ==
    LET valid == UnpackUint(data, c.pos, U32)
        fid   == After(data, c.pos, U32)
        suid  == After(data, fid, U256)
        fsize == IF version >= 3 THEN After(data, suid, U64) ELSE suid
        n     == UnpackUint(data, fsize, U32)
        tpl   == After(data, fsize, U32)
        entry == [valid |-> 1, fid |-> UnpackArray(data, fid, U256),
                  suid |-> IF version >= 3 THEN UnpackUint(data, suid, U64) ELSE 0,
                  tpl |-> UnpackArray(data, tpl, n)]
    IN  CASE c.status # 0 -> c
          [] c.status = 0 /\ valid = 0 ->
                [c EXCEPT !.pos = fid, !.list = Append(@, NoEntry)]
          [] c.status = 0 /\ valid = 1 /\ ~Fits(data, fsize, U32) ->
                [c EXCEPT !.status = -FPC_ERROR_DB]
          [] c.status = 0 /\ valid = 1 /\ Fits(data, fsize, U32) /\ n > Heap ->
                [c EXCEPT !.status = -FPC_ERROR_ALLOC]
          [] c.status = 0 /\ valid = 1 /\ Fits(data, fsize, U32) /\ n <= Heap ->
                [c EXCEPT !.pos = After(data, tpl, n), !.list = Append(@, entry)]
          [] OTHER -> [c EXCEPT !.status = -FPC_ERROR_DB]

Failed(status) == [status |-> status, db |-> EmptyDb(0)]

(* Variant for the sensitivity check: the end is not looked at. *)
EndMissed(data, pos, db) == [status |-> 0, db |-> db]

Ends(data, pos, db) ==
    IF Verify32(data, pos, EndOfFile) THEN [status |-> 0, db |-> db]
    ELSE Failed(-FPC_ERROR_DB)

(* The one set, from its key at pos on.  Before version 4 there was no
   state id: a new one is drawn, rnd < 0 when fpc_secure_random fails. *)
UnpackSet(data, version, pos, dbid, rnd) ==
    LET sids    == After(data, pos, U32)
        setid   == sids + U32
        stateid == After(data, setid, U256)
        list    == IF version >= 4 THEN After(data, stateid, U256) ELSE stateid
        entries == FoldLeft(LAMBDA c, j : UnpackEntry(data, version, c),
                            [pos |-> list, status |-> 0, list |-> <<>>],
                            [j \in 1 .. Slots |-> j])
        set == [key |-> UnpackUint(data, pos, U32),
                setid |-> UnpackArray(data, setid, U256),
                stateid |-> IF version >= 4 THEN UnpackArray(data, stateid, U256)
                            ELSE Uint(rnd, U256),
                list |-> entries.list]
    IN  CASE ~Verify32(data, sids, StartOfSIds) -> Failed(-FPC_ERROR_DB)
          [] Verify32(data, sids, StartOfSIds) /\ version < 4 /\ rnd < 0 ->
                Failed(-FPC_ERROR_IO)
          [] Verify32(data, sids, StartOfSIds) /\ (version >= 4 \/ rnd >= 0) ->
                IF entries.status # 0 THEN Failed(entries.status)
                ELSE Ends(data, entries.pos, [id |-> dbid, sets |-> <<set>>])

(* Everything after the version.  Before version 3 there was no database id. *)
UnpackDb(data, version, rnd) ==
    LET id    == U32 + 1
        count == IF version >= 3 THEN After(data, id, U64) ELSE id
        mark  == After(data, count, U32)
        sets  == UnpackUint(data, count, U32)
        dbid  == IF version >= 3 THEN UnpackUint(data, id, U64) ELSE rnd
    IN  CASE version < 3 /\ rnd < 0 -> Failed(-FPC_ERROR_IO)
          [] (version >= 3 \/ rnd >= 0) /\ (~Verify32(data, mark, StartOfSets) \/ sets > 1) ->
                Failed(-FPC_ERROR_DB)
          [] OTHER ->
                IF sets = 1 THEN UnpackSet(data, version, mark + U32, dbid, rnd)
                ELSE Ends(data, mark + U32, EmptyDb(dbid))

(* fpc_db_create with data.  A database is returned only with status 0:
   what a failed unpacking had built is freed. *)
DbCreate(data, rnd) ==
    IF Verify32(data, 0, StartOfDb) /\ Fits(data, U32, 1) /\ data[U32 + 1] \in 2 .. 4
    THEN UnpackDb(data, data[U32 + 1], rnd)
    ELSE Failed(-FPC_ERROR_DB)

-----------------------------------------------------------------------------
(* What earlier releases wrote: version 2 without database id, state id and
   secure user ids, version 3 without state id. *)
OldEntry(e, version) ==
    IF e.valid = 0 \/ version = 3 THEN PackEntry(e)
    ELSE <<Pack32(1), PackArray(e.fid), Pack32(Len(e.tpl)), PackArray(e.tpl)>>

OldData(db, version) ==
    LET OldSet(set) ==
            <<Pack32(set.key), Pack32(StartOfSIds), PackArray(set.setid)>>
                \o FlattenSeq([j \in 1 .. Slots |-> OldEntry(set.list[j], version)])
        fields ==
            <<Pack32(StartOfDb), Pack8(version)>>
                \o (IF version = 3 THEN <<Pack64(db.id)>> ELSE <<>>)
                \o <<Pack32(Len(db.sets)), Pack32(StartOfSets)>>
                \o FlattenSeq([k \in 1 .. Len(db.sets) |-> OldSet(db.sets[k])])
                \o <<Pack32(EndOfFile)>>
    IN  FlattenSeq([i \in 1 .. Len(fields) |-> fields[i].bytes])

=============================================================================

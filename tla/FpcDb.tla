-------------------------------- MODULE FpcDb --------------------------------
(***************************************************************************)
(* The template database of fpc_db.c as values and operators.  A database  *)
(* holds ONE fingerprint set: a key (the group it belongs to) and a fixed  *)
(* list of slots.  A slot is 0 when its entry is invalid, otherwise the    *)
(* 32-bit id of the fingerprint in it.  No set is key NoKey and no entry.  *)
(* Random numbers (ids, database ids) are arguments: the caller draws a    *)
(* fresh one; fpc_secure_random and malloc are taken to succeed.           *)
(***************************************************************************)
EXTENDS Naturals, FiniteSets

CONSTANTS
    Slots,  \* FPC_DB_FINGERPRINTS_IN_SET
    NoKey   \* pFingerprintSet = NULL

ASSUME DbAssumption == Slots \in Nat \ {0}

Index == 0 .. (Slots - 1)

Valid(db) == {i \in Index : db.slots[i] # 0}

Ids(db) == {db.slots[i] : i \in Valid(db)}

(* fpc_db_create without data. *)
EmptyDb(dbid) ==
    [id |-> dbid, key |-> NoKey, slots |-> [i \in Index |-> 0]]

(* fpc_db_get_set, fpc_db_get_indices, fpc_db_get_fingerprint_id: the
   entries a caller sees through a key. *)
IdsOf(db, key) == IF db.key = key THEN Ids(db) ELSE {}

(* fpc_db_add_fingerprint refuses when the only set has another key or
   when no slot is free. *)
Foreign(db, key) == db.key # NoKey /\ db.key # key

Full(db) == Valid(db) = Index

FirstFree(db) ==
    CHOOSE i \in Index : db.slots[i] = 0 /\ \A j \in Index : j < i => db.slots[j] # 0

(* Variant for the sensitivity check: always the first slot. *)
AddFingerprintFirst(db, key, fid, dbid) ==
    [id |-> dbid, key |-> key, slots |-> [db.slots EXCEPT ![0] = fid]]

AddFingerprint(db, key, fid, dbid) ==
    [id |-> dbid, key |-> key, slots |-> [db.slots EXCEPT ![FirstFree(db)] = fid]]

(* fpc_db_get_index_of_id32, which does not look at the key. *)
IndexOfId(db, fid) == CHOOSE i \in Index : db.slots[i] = fid

(* fpc_db_delete_fingerprint; the set goes with its last entry. *)
DeleteFingerprint(db, i) ==
    LET left == [db.slots EXCEPT ![i] = 0]
    IN  [id |-> db.id,
         key |-> IF \A j \in Index : left[j] = 0 THEN NoKey ELSE db.key,
         slots |-> left]

(* Position of slot i in the list fpc_db_get_all_templates makes. *)
ListIndex(db, i) == Cardinality({j \in Valid(db) : j < i})

(* fpc_db_set_template_first: slot i goes first, the ones before it move
   up by one. *)
SetTemplateFirst(db, i) ==
    [db EXCEPT !.slots = [j \in Index |->
        IF j = 0 THEN db.slots[i]
        ELSE IF j <= i THEN db.slots[j - 1] ELSE db.slots[j]]]
=============================================================================

------------------------- MODULE FpcTemplateUpdate -------------------------
(***************************************************************************)
(* Templates as blocks of the trusted application's heap: fpc_ta_bio.c     *)
(* hands the algorithm a list of pointers (bio->list), reorders the        *)
(* database, and after a match gives each updated template a new block,    *)
(* found again by its address, which the algorithm fills.  fpc_db.c owns   *)
(* the blocks of its entries.  Any malloc may fail, and with the number of *)
(* blocks bounded it also does when too many are held.                     *)
(*                                                                         *)
(* The algorithm library is a binary: it matches a candidate or none, and  *)
(* makes a newer generation of some candidates' templates.  A block whose  *)
(* content nobody wrote is no candidate for either.                        *)
(***************************************************************************)
EXTENDS Naturals, Sequences, FiniteSets, FiniteSetsExt

CONSTANTS
    Slots,      \* FPC_DB_FINGERPRINTS_IN_SET
    Blocks,     \* bound: addresses malloc has for templates
    Null,       \* no address
    MaxFingers, \* bound: enrolments in a run
    MaxGen,     \* bound: updates of one template
    MaxFaults   \* bound: failures in a run

ASSUME UpdateAssumption ==
    /\ Slots \in Nat \ {0}
    /\ Null \notin Blocks
    /\ MaxFingers \in Nat /\ MaxGen \in Nat \ {0} /\ MaxFaults \in Nat

VARIABLES
    pc,      \* what the HAL's task does next; "boot" until a load succeeded
    slots,   \* user_db: slot -> [id, tpl]; id 0 is an invalid entry
    heap,    \* block -> its content
    list,    \* bio->list: the candidates' addresses
    cand,    \* the algorithm's candidates since fpc_algo_begin_identify
    answer,  \* the id identify answered, 0 without a match
    hit,     \* ident_data.index, 0 without a match
    upd,     \* ident_data.updated_template_indices
    found,   \* updated_templates_list: the slots found so far
    file,    \* the stored database: slot -> [id, tpl], tpl a content
    lost,    \* history: blocks of databases that a load replaced
    spoiled, \* history: fingers whose template a failed update lost
    fingers, \* enrolments so far
    faults   \* failures so far

vars == <<pc, slots, heap, list, cand, answer, hit, upd, found, file, lost,
          spoiled, fingers, faults>>
identvars == <<list, cand, answer, hit, upd, found>>
countvars == <<fingers, faults>>

Index == 0 .. (Slots - 1)

(* Contents of a block: the n-th generation of a finger's template, bytes
   nobody wrote, and no block at all. *)
Template(f, n) == [finger |-> f, gen |-> n]
Raw  == Template(0, 0)
Free == Template(0, 1)

NoEntry == [id |-> 0, tpl |-> Null]
NoFile  == <<>>

Valid(db) == {i \in Index \cap DOMAIN db : db[i].id # 0}
Held == {b \in Blocks : heap[b] # Free}
Owned == {slots[i].tpl : i \in Index} \ {Null}

(* malloc returns any block that is free. *)
Malloc(b) == heap[b] = Free

Fault == faults < MaxFaults /\ faults' = faults + 1

(* The end of a task: nothing but bio->list is read again. *)
NoIdent == cand' = <<>> /\ answer' = 0 /\ hit' = 0 /\ upd' = <<>> /\ found' = <<>>

Init ==
    /\ pc = "boot"
    /\ slots = [i \in Index |-> NoEntry]
    /\ heap = [b \in Blocks |-> Free]
    /\ list = <<>> /\ cand = <<>> /\ answer = 0 /\ hit = 0 /\ upd = <<>> /\ found = <<>>
    /\ file = NoFile
    /\ lost = {} /\ spoiled = {}
    /\ fingers = 0 /\ faults = 0
-----------------------------------------------------------------------------
(* fpc_ta_bio_end_enrol: the block goes to the database; it is freed again
   when the database is full or the enrolment fails otherwise. *)
Enrol ==
    /\ pc = "idle"
    /\ fingers < MaxFingers
    /\ fingers' = fingers + 1
    /\ \/ /\ Valid(slots) # Index
          /\ \E b \in Blocks :
                /\ Malloc(b)
                /\ heap' = [heap EXCEPT ![b] = Template(fingers', 0)]
                /\ slots' = [slots EXCEPT ![Min(Index \ Valid(slots))] =
                                [id |-> fingers', tpl |-> b]]
          /\ pc' = "store"
          /\ UNCHANGED faults
       \/ /\ \/ (Valid(slots) = Index \/ Held = Blocks) /\ UNCHANGED faults
             \/ Fault
          /\ UNCHANGED <<pc, slots, heap>>
    /\ UNCHANGED <<identvars, file, lost, spoiled>>

(* fpc_ta_bio_delete_template, fpc_db_delete_fingerprint. *)
Delete ==
    /\ pc = "idle"
    /\ \E i \in Valid(slots) :
          /\ heap' = [heap EXCEPT ![slots[i].tpl] = Free]
          /\ slots' = [slots EXCEPT ![i] = NoEntry]
    /\ pc' = "store"
    /\ UNCHANGED <<identvars, file, lost, spoiled, countvars>>

Packed == [i \in Index |-> [id |-> slots[i].id,
                            tpl |-> IF slots[i].id = 0 THEN Free ELSE heap[slots[i].tpl]]]

(* fpc_tee_store_template_db after an enrolment or a removal, which is
   undone by a load when it fails, and after an update, where the result
   is ignored. *)
Store ==
    /\ pc \in {"store", "up_store"}
    /\ \/ file' = Packed /\ pc' = "idle" /\ UNCHANGED faults
       \/ /\ Fault
          /\ pc' = IF pc = "store" THEN "reload" ELSE "idle"
          /\ UNCHANGED file
    /\ UNCHANGED <<slots, heap, identvars, lost, spoiled, fingers>>

SetActiveGroup ==
    /\ pc = "idle"
    /\ pc' = "reload"
    /\ UNCHANGED <<slots, heap, identvars, file, lost, spoiled, countvars>>

(* fpc_tee_load_template_db without a file: fpc_ta_bio_load_empty_db
   destroys the old database. *)
LoadEmpty ==
    /\ pc \in {"boot", "reload"}
    /\ file = NoFile
    /\ heap' = [b \in Blocks |-> IF b \in Owned THEN Free ELSE heap[b]]
    /\ slots' = [i \in Index |-> NoEntry]
    /\ pc' = "idle"
    /\ UNCHANGED <<identvars, file, lost, spoiled, countvars>>

(* With a file, fpc_ta_db_blob.c's unwrap: fpc_db_create unpacks into new
   blocks and user_db is overwritten; nothing frees the database it was. *)
Load ==
    /\ pc \in {"boot", "reload"}
    /\ file # NoFile
    /\ \E to \in [Valid(file) -> Blocks] :
          /\ \A i \in Valid(file) : Malloc(to[i])
          /\ \A i, j \in Valid(file) : to[i] = to[j] => i = j
          /\ heap' = [b \in Blocks |->
                IF \E i \in Valid(file) : to[i] = b
                THEN file[CHOOSE i \in Valid(file) : to[i] = b].tpl ELSE heap[b]]
          /\ slots' = [i \in Index |->
                IF i \in Valid(file) THEN [id |-> file[i].id, tpl |-> to[i]] ELSE NoEntry]
    /\ lost' = lost \cup Owned
    /\ pc' = "idle"
    /\ UNCHANGED <<identvars, file, spoiled, countvars>>

(* No memory, or another failure: the part already unpacked is freed and
   user_db stays.  After a start the HAL refuses calls until a load works. *)
LoadFails ==
    /\ pc \in {"boot", "reload"}
    /\ \/ Fault
       \/ Cardinality(Blocks \ Held) < Cardinality(Valid(file)) /\ UNCHANGED faults
    /\ pc' = IF pc = "boot" THEN "boot" ELSE "idle"
    /\ UNCHANGED <<slots, heap, identvars, file, lost, spoiled, fingers>>

(* The trusted application and the daemon start anew. *)
Restart ==
    /\ pc # "boot"
    /\ pc' = "boot"
    /\ slots' = [i \in Index |-> NoEntry]
    /\ heap' = [b \in Blocks |-> Free]
    /\ list' = <<>> /\ NoIdent
    /\ lost' = {}
    /\ UNCHANGED <<file, spoiled, countvars>>
-----------------------------------------------------------------------------
NthValid(n) == CHOOSE i \in Valid(slots) : Cardinality({j \in Valid(slots) : j < i}) = n - 1

(* fpc_db_get_all_templates: the valid entries' pointers, in slot order. *)
AllTemplates == [n \in 1 .. Cardinality(Valid(slots)) |-> slots[NthValid(n)].tpl]

(* fpc_db_get_index_of_template. *)
IndexOfTemplate(b) == CHOOSE i \in Valid(slots) : slots[i].tpl = b

(* fpc_db_set_template_first; the argument is a position in the list. *)
SetTemplateFirst(n) ==
    [i \in Index |-> IF i = 0 THEN slots[n - 1]
                     ELSE IF i <= n - 1 THEN slots[i - 1] ELSE slots[i]]

IsTemplate(c) == c.finger # 0

(* Variant for the sensitivity check: the list position is taken for a slot. *)
AnswerAtPosition(l, n) == slots[n - 1].id

(* The id of the n-th candidate, through fpc_db_get_index_of_template. *)
Answer(l, n) == slots[IndexOfTemplate(l[n])].id

(* fpc_ta_bio_identify: the list, the algorithm's session, the match and
   the move to the front.  An image of bad quality, no templates and the
   algorithm's errors before the match leave everything else as it was. *)
Identify ==
    /\ pc = "idle"
    /\ Valid(slots) # {}
    /\ list' = AllTemplates
    /\ cand' = [n \in 1 .. Len(list') |-> heap[list'[n]]]
    /\ \/ \E n \in 1 .. Len(list') :
             /\ IsTemplate(cand'[n])
             /\ hit' = n
             /\ answer' = Answer(list', n)
             /\ slots' = SetTemplateFirst(n)
       \/ hit' = 0 /\ answer' = 0 /\ UNCHANGED slots
    /\ upd' = <<>> /\ found' = <<>>
    /\ pc' = "answered"
    /\ UNCHANGED <<heap, file, lost, spoiled, countvars>>

(* do_authenticate leaves without an update when get_auth_result fails; or
   fpc_algo_identify_update fails, or reports no update. *)
NoUpdate ==
    /\ pc = "answered"
    /\ pc' = "idle"
    /\ NoIdent
    /\ UNCHANGED <<slots, heap, list, file, lost, spoiled, countvars>>

(* fpc_ta_bio_update_template: fpc_algo_identify_update reports some of the
   candidates, in any order. *)
UpdateStart ==
    /\ pc = "answered"
    /\ \E k \in 1 .. Len(list) :
          \E s \in [1 .. k -> 1 .. Len(list)] :
             /\ \A x, y \in 1 .. k : s[x] = s[y] => x = y
             /\ \A x \in 1 .. k : IsTemplate(cand[s[x]]) /\ cand[s[x]].gen < MaxGen
             /\ upd' = s
    /\ pc' = "update"
    /\ UNCHANGED <<slots, heap, list, cand, answer, hit, found, file, lost, spoiled,
                   countvars>>

(* Variant for the sensitivity check: the old block is not freed. *)
UpdateAllocLeaks ==
    /\ pc = "update"
    /\ Len(found) < Len(upd)
    /\ LET i == IndexOfTemplate(list[upd[Len(found) + 1]])
       IN  \E b \in Blocks :
              /\ Malloc(b)
              /\ heap' = [heap EXCEPT ![b] = Raw]
              /\ slots' = [slots EXCEPT ![i].tpl = b]
              /\ found' = Append(found, i)
    /\ UNCHANGED <<pc, list, cand, answer, hit, upd, file, lost, spoiled, countvars>>

(* One round of its loop: the entry is found by its old address, gets a new
   block, and the old one is freed. *)
UpdateAlloc ==
    /\ pc = "update"
    /\ Len(found) < Len(upd)
    /\ LET i == IndexOfTemplate(list[upd[Len(found) + 1]])
       IN  \E b \in Blocks :
              /\ Malloc(b)
              /\ heap' = [heap EXCEPT ![b] = Raw, ![slots[i].tpl] = Free]
              /\ slots' = [slots EXCEPT ![i].tpl = b]
              /\ found' = Append(found, i)
    /\ UNCHANGED <<pc, list, cand, answer, hit, upd, file, lost, spoiled, countvars>>

FoundIds == {slots[found[x]].id : x \in DOMAIN found}

(* malloc fails in some round; the entries found before it keep the blocks
   nobody has written. *)
UpdateNoMemory ==
    /\ pc = "update"
    /\ Len(found) < Len(upd)
    /\ \/ Fault
       \/ Held = Blocks /\ UNCHANGED faults
    /\ spoiled' = spoiled \cup FoundIds
    /\ pc' = "no_memory"
    /\ UNCHANGED <<slots, heap, identvars, file, lost, fingers>>

(* The error reaches do_authenticate, which ends. *)
UpdateReturns ==
    /\ pc = "no_memory"
    /\ pc' = "idle"
    /\ NoIdent
    /\ UNCHANGED <<slots, heap, list, file, lost, spoiled, countvars>>

(* fpc_algo_update_templates fills the new blocks; a failing
   fpc_algo_end_identify after it skips the store. *)
UpdateFill ==
    /\ pc = "update"
    /\ Len(found) = Len(upd)
    /\ heap' = [b \in Blocks |->
          IF \E x \in DOMAIN found : slots[found[x]].tpl = b
          THEN LET c == cand[upd[CHOOSE x \in DOMAIN found : slots[found[x]].tpl = b]]
               IN  Template(c.finger, c.gen + 1)
          ELSE heap[b]]
    /\ \/ pc' = "up_store" /\ UNCHANGED faults
       \/ Fault /\ pc' = "idle"
    /\ NoIdent
    /\ UNCHANGED <<slots, list, file, lost, spoiled, fingers>>

UpdateFillFails ==
    /\ pc = "update"
    /\ Len(found) = Len(upd)
    /\ Fault
    /\ spoiled' = spoiled \cup FoundIds
    /\ pc' = "idle"
    /\ NoIdent
    /\ UNCHANGED <<slots, heap, list, file, lost, fingers>>

Next ==
    \/ Enrol \/ Delete \/ Store \/ SetActiveGroup
    \/ LoadEmpty \/ Load \/ LoadFails \/ Restart
    \/ Identify \/ NoUpdate \/ UpdateStart \/ UpdateAlloc \/ UpdateNoMemory
    \/ UpdateReturns \/ UpdateFill \/ UpdateFillFails

Spec == Init /\ [][Next]_vars
-----------------------------------------------------------------------------
Contents == [finger : 0 .. MaxFingers, gen : 0 .. MaxGen]

(* Type correctness. *)
TypeOK ==
    /\ pc \in {"boot", "idle", "store", "reload", "answered", "update", "no_memory",
               "up_store"}
    /\ slots \in [Index -> [id : 0 .. MaxFingers, tpl : Blocks \cup {Null}]]
    /\ heap \in [Blocks -> Contents]
    /\ list \in Seq(Blocks) /\ cand \in Seq(Contents)
    /\ answer \in 0 .. MaxFingers /\ hit \in 0 .. Slots
    /\ upd \in Seq(1 .. Slots) /\ found \in Seq(Index)
    /\ file \in [Index -> [id : 0 .. MaxFingers, tpl : Contents]] \cup {NoFile}
    /\ lost \subseteq Blocks /\ spoiled \subseteq 1 .. MaxFingers
    /\ fingers \in 0 .. MaxFingers /\ faults \in 0 .. MaxFaults

(* Every entry has a block of its own that is allocated, an invalid entry
   has none (fpc_db_delete_set frees whatever an entry points to), and the
   blocks in use are the entries' and those of the databases a load left
   behind: no block is freed twice, used after its free, or lost otherwise. *)
BlocksOwned ==
    /\ TypeOK
    /\ \A i \in Index : slots[i].id = 0 <=> slots[i].tpl = Null
    /\ \A i, j \in Valid(slots) : slots[i].tpl = slots[j].tpl => i = j
    /\ Owned \cap lost = {}
    /\ Held = Owned \cup lost

OfFinger(c, id) == c = Raw \/ c.finger = id

(* A template stays with its finger, in memory and in the file: list
   positions, slots that moved to the front, gaps and reused addresses never
   put one finger's template under another's id.  The id fpc_ta_bio_identify
   answers is that of the finger whose template matched; until the end of the
   update every candidate the algorithm may name is still found by its address
   in the slot of its finger; and bytes that nobody wrote are stored as a
   template only for a finger whose update failed. *)
TemplateOfFinger ==
    /\ \A i \in Valid(slots) : OfFinger(heap[slots[i].tpl], slots[i].id)
    /\ \A i \in Valid(file) : OfFinger(file[i].tpl, file[i].id)
    /\ pc = "answered" /\ hit # 0 => answer = cand[hit].finger
    /\ pc = "update" =>
         \A x \in Len(found) + 1 .. Len(upd) :
            \E i \in Valid(slots) : /\ slots[i].tpl = list[upd[x]]
                                    /\ slots[i].id = cand[upd[x]].finger
    /\ \A i \in Valid(file) : file[i].tpl = Raw => file[i].id \in spoiled
=============================================================================

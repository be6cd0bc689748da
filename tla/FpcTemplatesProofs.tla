------------------------- MODULE FpcTemplatesProofs -------------------------
(***************************************************************************)
(* The properties of FpcTemplates proved for every number of slots, groups *)
(* and enrolments, every set of faults and every number of crashes.        *)
(***************************************************************************)
EXTENDS FpcTemplates, FiniteSetTheorems, WellFoundedInduction, TLAPS

(* A database with ids from I, keys from K and entries from B. *)
DbOf(I, K, B) == [id : I, key : K, slots : [Index -> B]]

(* The list position fpc_ta_bio_identify computes never exceeds the slot it
   stands for: fpc_db_set_template_first is called within the set. *)
LEMMA ListIndexBound ==
    ASSUME NEW db, NEW i \in Index
    PROVE  ListIndex(db, i) \in 0 .. i
<1> DEFINE before == {j \in Valid(db) : j < i}
<1> USE DbAssumption
<1>1. before \subseteq 0 .. (i - 1)
  BY DEF Valid, Index
<1>2. IsFiniteSet(0 .. (i - 1)) /\ Cardinality(0 .. (i - 1)) = i
  BY FS_Interval DEF Index
<1>3. IsFiniteSet(before) /\ Cardinality(before) <= Cardinality(0 .. (i - 1))
  BY <1>1, <1>2, FS_Subset
<1>4. Cardinality(before) \in Nat
  BY <1>3, FS_CardinalityType
<1> QED
  BY <1>2, <1>3, <1>4 DEF ListIndex, Index

(* fpc_db_add_fingerprint keeps the shape of the database. *)
LEMMA AddType ==
    ASSUME NEW I, NEW K, NEW B, NEW db \in DbOf(I, K, B),
           NEW key \in K, NEW fid \in B, NEW dbid \in I
    PROVE  AddFingerprint(db, key, fid, dbid) \in DbOf(I, K, B)
BY DEF AddFingerprint, DbOf

(* fpc_db_delete_fingerprint keeps the shape of the database. *)
LEMMA DeleteType ==
    ASSUME NEW I, NEW K, NEW B, NEW db \in DbOf(I, K, B), NEW i,
           NoKey \in K, 0 \in B
    PROVE  DeleteFingerprint(db, i) \in DbOf(I, K, B)
BY DEF DeleteFingerprint, DbOf

(* fpc_db_set_template_first keeps the shape and the key. *)
LEMMA FirstType ==
    ASSUME NEW I, NEW K, NEW B, NEW db \in DbOf(I, K, B), NEW i \in Index
    PROVE  /\ SetTemplateFirst(db, i) \in DbOf(I, K, B)
           /\ SetTemplateFirst(db, i).key = db.key
<1> USE DbAssumption
<1> DEFINE moved == [j \in Index |->
                        IF j = 0 THEN db.slots[i]
                        ELSE IF j <= i THEN db.slots[j - 1] ELSE db.slots[j]]
<1>1. \A j \in Index : j # 0 => j - 1 \in Index
  BY DEF Index
<1>2. moved \in [Index -> B]
  <2> SUFFICES ASSUME NEW j \in Index
               PROVE  (IF j = 0 THEN db.slots[i]
                       ELSE IF j <= i THEN db.slots[j - 1] ELSE db.slots[j]) \in B
    OBVIOUS
  <2> QED
    BY <1>1 DEF DbOf
<1>3. SetTemplateFirst(db, i) = [db EXCEPT !.slots = moved]
  BY DEF SetTemplateFirst
<1> QED
  BY <1>2, <1>3 DEF DbOf

(* A nonempty set of numbers has a least one. *)
LEMMA LeastOf ==
    ASSUME NEW T \in SUBSET Nat, T # {}
    PROVE  \E i \in T : \A j \in T : ~(j < i)
<1> DEFINE less == {ss \in Nat \X Nat : ss[1] < ss[2]}
<1>1. IsWellFoundedOn(less, Nat)
  BY NatLessThanWellFounded DEF OpToRel
<1> HIDE DEF less
<1>2. PICK i \in T : \A j \in T : ~(<<j, i>> \in less)
  BY <1>1, WFMin
<1>3. \A j \in T : ~(j < i)
  BY <1>2 DEF less
<1> QED
  BY <1>3

(* fpc_db_add_fingerprint finds a free slot unless the set is full. *)
LEMMA FreeSlot ==
    ASSUME NEW db, ~Full(db)
    PROVE  FirstFree(db) \in Index /\ db.slots[FirstFree(db)] = 0
<1> USE DbAssumption
<1> DEFINE free == {i \in Index : db.slots[i] = 0}
<1>1. free # {} /\ free \in SUBSET Nat
  BY DEF Full, Valid, Index
<1>2. PICK i \in free : \A j \in free : ~(j < i)
  BY <1>1, LeastOf
<1>3. /\ i \in Index /\ db.slots[i] = 0
      /\ \A j \in Index : j < i => db.slots[j] # 0
  BY <1>2
<1> QED
  BY <1>3 DEF FirstFree

(* Steps of an enrolment between the add and its report or undo. *)
Adding == {"en_store", "en_check", "en_reload", "en_undo"}

(* Both databases are sound, and one in memory has an id of its own. *)
DbsSound ==
    /\ DbSound(mem) /\ DbSound(file)
    /\ mem.id \in DbIds
    /\ file = NoFile \/ file.id \in DbIds
    /\ Ids(mem) \cap Ids(file) # {} => mem.key = file.key

(* Ids count upwards: one that is drawn next was never used. *)
Numbered ==
    /\ Ids(mem) \subseteq 1 .. adds /\ Ids(file) \subseteq 1 .. adds
    /\ EnrolledIds \subseteq 1 .. adds
    /\ excused \subseteq 1 .. adds /\ EnrolledIds \cap excused = {}
    /\ todo \subseteq 1 .. adds
    /\ \A p \in told : p[2] \in 1 .. adds

(* What the steps of the calls know. *)
StepInv ==
    /\ pc \in {"sg_load", "sg_gid"} => called /\ arg \in Groups
    /\ pc \notin {"idle", "sg_load", "sg_gid"} => called /\ gid \in Groups
    /\ pc \notin {"rm_next", "rm_store", "rm_reload"} => todo = {}
    /\ \A i \in todo : <<gid, i>> \in asked
    /\ ready => called
    /\ pc \in Adding => cur \in 1 .. adds /\ cur \notin EnrolledIds
    /\ pc \in Adding \ {"en_undo"} => cur \in Ids(mem) /\ mem.key = akey /\ cur \notin excused
    /\ pc \in {"en_check", "en_authid"} => file = mem
    /\ pc = "rm_store" => cur \in 1 .. adds /\ cur \notin Ids(mem)
    /\ pc = "au_report" => cur \in IdsOf(mem, akey)

(* The group is set where a call is accepted, unless a task runs blind: that
   takes a lost answer of set_gid, or group 0 and a set_active_group that
   failed. *)
CallsAreSafe ==
    /\ gid # 0 /\ "tee" \notin Faults => active
    /\ called /\ Faults \subseteq {"store"} /\ pc \notin {"sg_load", "sg_gid"} => active
    /\ ~blind /\ pc \notin {"idle", "sg_load", "sg_gid"} => active

(* The database in memory is the one the last set_active_group loaded, with
   the changes made since. *)
Loaded == pc = "sg_gid" \/ active

(* Then, once the gid is set, the trusted application's key is the HAL's
   group... *)
KeyIsGroup == active => akey = gid

(* ...memory has every finger the framework believes in... *)
MemHasEnrolled ==
    Loaded => \A p \in enrolled \ asked : p[2] \in IdsOf(mem, p[1])

(* ...and only fingers that were reported, or excused, or are in hand. *)
Known ==
    /\ Loaded => \A i \in Ids(mem) :
                    \/ <<mem.key, i>> \in enrolled \/ i \in excused
                    \/ i = cur /\ pc \in Adding \ {"en_undo"}
    /\ \A i \in Ids(file) :
          \/ <<file.key, i>> \in enrolled \/ i \in excused
          \/ i = cur /\ pc \in {"en_check", "en_undo"}

(* While loads work, a finger that is on disk and not in memory is neither
   the framework's nor about to be removed, except the one being removed. *)
Missing ==
    Loaded /\ "load" \notin Faults /\ pc # "rm_reload" =>
        \A i \in Ids(file) \ Ids(mem) :
            \/ i \notin EnrolledIds /\ i \notin todo
            \/ i = cur /\ pc = "rm_store"

(* With stores as the only fault, memory and file have one id, or there is no
   file and nothing in memory; and authenticator_id is that of memory. *)
IdKept ==
    Faults = {"store"} =>
        /\ called /\ pc \notin {"sg_load"} \cup Adding /\ (undone => pc = "sg_gid") =>
              \/ mem.id = file.id
              \/ file = NoFile /\ Ids(mem) = {} /\ pc \notin {"rm_store", "rm_reload"}
        /\ ready /\ ~undone /\ pc \notin {"sg_load", "sg_gid", "en_authid"} \cup Adding =>
              authid = mem.id

IInv ==
    /\ TypeOK /\ DbsSound /\ Numbered /\ StepInv /\ IdKept
    /\ CallsAreSafe /\ KeyIsGroup
    /\ ~blind => MemHasEnrolled /\ Known /\ Missing
    /\ EnrolDurable /\ RemovedStaysGone

-----------------------------------------------------------------------------
(* The operations of fpc_db.c keep a database sound and change the set of
   entries by exactly one, or not at all. *)

(* fpc_db_open. *)
LEMMA EmptySound ==
    ASSUME NEW d
    PROVE  DbSound(EmptyDb(d)) /\ Ids(EmptyDb(d)) = {} /\ EmptyDb(d).id = d
BY DEF EmptyDb, DbSound, OneSlotEach, Valid, Ids

(* fpc_db_add_fingerprint adds one id, to a slot that was free. *)
LEMMA AddSound ==
    ASSUME NEW db, db.slots \in [Index -> Nat], DbSound(db), ~Full(db),
           NEW fid \in Nat \ {0}, fid \notin Ids(db), NEW key, key # NoKey, NEW d
    PROVE  LET new == AddFingerprint(db, key, fid, d)
           IN  /\ DbSound(new) /\ Ids(new) = Ids(db) \cup {fid}
               /\ new.key = key /\ new.id = d
<1> DEFINE f == FirstFree(db)
           new == AddFingerprint(db, key, fid, d)
<1>1. f \in Index /\ db.slots[f] = 0
  BY FreeSlot
<1>2. /\ new.key = key /\ new.id = d
      /\ new.slots = [db.slots EXCEPT ![f] = fid]
  BY DEF AddFingerprint
<1> HIDE DEF f, new
<1>3. Valid(new) = Valid(db) \cup {f}
  BY <1>1, <1>2 DEF Valid
<1>4. Ids(new) = Ids(db) \cup {fid}
  BY <1>1, <1>2, <1>3 DEF Ids, Valid
<1>5. OneSlotEach(new)
  BY <1>1, <1>2, <1>3 DEF DbSound, OneSlotEach, Ids, Valid
<1>6. DbSound(new)
  BY <1>2, <1>3, <1>5 DEF DbSound
<1> QED
  BY <1>2, <1>4, <1>6 DEF new

(* fpc_db_delete_fingerprint takes away one id. *)
LEMMA DeleteSound ==
    ASSUME NEW db, db.slots \in [Index -> Nat], DbSound(db), NEW fid \in Ids(db)
    PROVE  LET new == DeleteFingerprint(db, IndexOfId(db, fid))
           IN  /\ DbSound(new) /\ Ids(new) = Ids(db) \ {fid}
               /\ Ids(new) # {} => new.key = db.key
               /\ new.id = db.id
<1> DEFINE k == IndexOfId(db, fid)
           new == DeleteFingerprint(db, k)
<1>1. k \in Index /\ db.slots[k] = fid
  BY DEF Ids, Valid, IndexOfId
<1>2. fid # 0
  BY DEF Ids, Valid
<1>3. /\ new.id = db.id
      /\ new.slots = [db.slots EXCEPT ![k] = 0]
      /\ new.key = IF \A j \in Index : new.slots[j] = 0 THEN NoKey ELSE db.key
  BY DEF DeleteFingerprint
<1> HIDE DEF k, new
<1>4. Valid(new) = Valid(db) \ {k}
  BY <1>1, <1>3 DEF Valid
<1>5. \A i \in Valid(new) : new.slots[i] = db.slots[i]
  BY <1>1, <1>3, <1>4 DEF Valid
<1>6. OneSlotEach(new)
  BY <1>4, <1>5 DEF DbSound, OneSlotEach
<1>7. Ids(new) = Ids(db) \ {fid}
  <2>1. k \in Valid(db)
    BY <1>1, <1>2 DEF Valid
  <2> QED
    BY <1>1, <1>4, <1>5, <2>1 DEF Ids, DbSound, OneSlotEach
<1>8. Valid(new) = {} <=> \A j \in Index : new.slots[j] = 0
  BY DEF Valid
<1>9. DbSound(new)
  <2>1. Valid(db) # {}
    BY DEF Ids
  <2> QED
    BY <1>3, <1>6, <1>8, <2>1 DEF DbSound
<1>10. Ids(new) # {} => new.key = db.key
  BY <1>3, <1>8 DEF Ids
<1> QED
  BY <1>3, <1>7, <1>9, <1>10 DEF k, new

(* fpc_db_set_template_first changes the order only. *)
LEMMA FirstSound ==
    ASSUME NEW db, db \in [id : DbIds \cup {NoDbId}, key : Groups \cup {0, InvalidKey, NoKey},
                           slots : [Index -> Nat]],
           DbSound(db), NEW i \in Index
    PROVE  LET new == SetTemplateFirst(db, i)
           IN  /\ DbSound(new) /\ Ids(new) = Ids(db)
               /\ new.key = db.key /\ new.id = db.id
<1> USE DbAssumption
<1> DEFINE new == SetTemplateFirst(db, i)
           from(j) == IF j = 0 THEN i ELSE IF j <= i THEN j - 1 ELSE j
           to(j) == IF j = i THEN 0 ELSE IF j < i THEN j + 1 ELSE j
<1>1. \A j \in Index : /\ from(j) \in Index /\ to(j) \in Index
                       /\ from(to(j)) = j /\ to(from(j)) = j
  BY DEF Index
<1>2. /\ new.key = db.key /\ new.id = db.id
      /\ new.slots = [j \in Index |-> IF j = 0 THEN db.slots[i]
                                      ELSE IF j <= i THEN db.slots[j - 1] ELSE db.slots[j]]
  BY DEF SetTemplateFirst
<1>3. \A j \in Index : new.slots[j] = db.slots[from(j)]
  BY <1>2
<1> HIDE DEF new, from, to
<1>4. \A j \in Index : j \in Valid(new) <=> from(j) \in Valid(db)
  BY <1>1, <1>3 DEF Valid
<1>5. Ids(new) = Ids(db)
  <2>1. Ids(new) \subseteq Ids(db)
    BY <1>1, <1>3, <1>4 DEF Ids, Valid
  <2>2. ASSUME NEW j \in Valid(db)
        PROVE  db.slots[j] \in Ids(new)
    <3>1. j \in Index /\ to(j) \in Index /\ from(to(j)) = j
      BY <1>1 DEF Valid
    <3>2. to(j) \in Valid(new) /\ new.slots[to(j)] = db.slots[j]
      BY <1>3, <1>4, <3>1
    <3> QED
      BY <3>2 DEF Ids
  <2> QED
    BY <2>1, <2>2 DEF Ids
<1>6. OneSlotEach(new)
  <2> SUFFICES ASSUME NEW j \in Valid(new), NEW k \in Valid(new), new.slots[j] = new.slots[k]
               PROVE  j = k
    BY DEF OneSlotEach
  <2>1. j \in Index /\ k \in Index
    BY DEF Valid
  <2>2. from(j) \in Valid(db) /\ from(k) \in Valid(db) /\ db.slots[from(j)] = db.slots[from(k)]
    BY <1>3, <1>4, <2>1
  <2>3. from(j) = from(k)
    BY <2>2 DEF DbSound, OneSlotEach
  <2> QED
    BY <1>1, <2>1, <2>3
<1>7. Valid(new) = {} <=> Valid(db) = {}
  BY <1>5 DEF Ids
<1> QED
  BY <1>2, <1>5, <1>6, <1>7 DEF DbSound, new

-----------------------------------------------------------------------------
(* The invariant. *)

(* The invariant holds initially. *)
LEMMA InitIInv == Init => IInv
<1> SUFFICES ASSUME Init PROVE IInv
  OBVIOUS
<1> USE DbAssumption, TemplatesAssumption
<1>1. PICK d \in DbIds : mem = EmptyDb(d)
  BY DEF Init
<1>2. /\ DbSound(mem) /\ Ids(mem) = {} /\ mem.id = d
      /\ DbSound(file) /\ Ids(file) = {} /\ file = NoFile
  BY <1>1, EmptySound DEF Init, NoFile
<1>3. mem \in DbType /\ file \in DbType
  BY <1>1, <1>2 DEF DbType, EmptyDb, NoFile
<1>4. TypeOK
  <2>1. /\ ready \in BOOLEAN /\ called \in BOOLEAN /\ cancelled \in BOOLEAN
        /\ active \in BOOLEAN /\ blind \in BOOLEAN /\ undone \in BOOLEAN
    BY DEF Init
  <2> QED
    BY <1>3, <2>1 DEF Init, TypeOK, PCs
<1> QED
  BY <1>2, <1>4 DEF Init, IInv, DbsSound, Numbered, StepInv, Adding, IdKept, KeyIsGroup,
     CallsAreSafe, MemHasEnrolled, Known, Missing, EnrolDurable, RemovedStaysGone, EnrolledIds,
     Loaded

(* A load that succeeds gives memory what the file has. *)
LEMMA LoadFacts ==
    ASSUME IInv, LoadOk
    PROVE  /\ mem' \in DbType /\ DbSound(mem') /\ mem'.id \in DbIds
           /\ Ids(mem') = Ids(file)
           /\ \A k : IdsOf(mem', k) \subseteq IdsOf(file, k)
           /\ \A k : IdsOf(file, k) \subseteq IdsOf(mem', k)
           /\ Ids(mem') # {} => mem'.key = file.key
           /\ \/ mem' = file
              \/ file = NoFile /\ Ids(mem') = {}
<1> USE DbAssumption, TemplatesAssumption DEF IInv, TypeOK, DbsSound
<1>1. CASE file = NoFile
  <2>1. PICK d \in DbIds : mem' = EmptyDb(d)
    BY <1>1 DEF LoadOk, Fresh
  <2>2. /\ DbSound(mem') /\ Ids(mem') = {} /\ mem'.id = d
        /\ Ids(file) = {}
    BY <1>1, <2>1, EmptySound DEF NoFile
  <2>3. mem' \in DbType
    BY <2>1 DEF EmptyDb, DbType
  <2> QED
    BY <1>1, <2>2, <2>3 DEF IdsOf
<1>2. CASE file # NoFile
  BY <1>2 DEF LoadOk, IdsOf
<1> QED
  BY <1>1, <1>2

(* Every step keeps the invariant: one case per action. *)
LEMMA NextIInv == IInv /\ [Next]_vars => IInv'
<1> SUFFICES ASSUME IInv, [Next]_vars PROVE IInv'
  OBVIOUS
<1> USE DbAssumption, TemplatesAssumption
<1> USE DEF IInv, TypeOK, DbsSound, Numbered, StepInv, Adding, IdKept, KeyIsGroup,
            CallsAreSafe, MemHasEnrolled, Known, Missing, EnrolDurable, RemovedStaysGone,
            EnrolledIds, Loaded, IdsOf, PCs, At, Goto, ToIdle, locals, devvars, histvars
<1>c. /\ scenario' = scenario /\ Groups' = Groups /\ Faults' = Faults
      /\ MaxEnrols' = MaxEnrols /\ DbType' = DbType
  BY DEF Next, vars, SetActiveGroup, Enroll, Authenticate, Remove, SgLoad, SgSetGid, EnEnds,
     EnEndEnrol, EnEndEnrolLost, EnRefused, EnStore, EnReload, EnReport, EnUndo, EnUndoStore,
     EnAuthId, RmDelete, RmFails, RmStore, RmReload, RmEnds, AuNoImage, AuMatch, AuMatchLost,
     AuNoMatch, AuIdentifyError, AuReport, AuUpdate, RequestCancel, Crash,
     Groups, Faults, MaxEnrols, DbType
<1>n. NoFile' = NoFile /\ NoFile.id = NoDbId
  BY DEF NoFile, EmptyDb
<1>k. akey # NoKey
  BY DEF Groups
<1>d. DbType = DbOf(DbIds \cup {NoDbId}, Groups \cup {0, InvalidKey, NoKey}, Nat)
  BY DEF DbType, DbOf
<1>q. ASSUME ToIdle,
             UNCHANGED <<devvars, mem, akey, file, histvars, adds, crashes, scenario>>,
             pc \in {"en_capture", "en_refused", "rm_next", "au_capture", "au_report", "au_update"}
      PROVE  IInv'
  <2>b. cancelled' \in BOOLEAN
    BY <1>q
  <2> QED
    BY <1>c, <1>n, <1>q, <2>b
<1>1. ASSUME NEW g \in Groups, SetActiveGroup(g) PROVE IInv'
  BY <1>c, <1>n, <1>1 DEF SetActiveGroup
<1>2. ASSUME NEW g \in Groups, Enroll(g) PROVE IInv'
  <2>1. /\ blind' \in BOOLEAN /\ (~blind' => ~blind /\ active)
        /\ called /\ gid \in Groups /\ pc = "idle"
    BY <1>2 DEF Enroll, MayCall
  <2>2. blind' => "tee" \in Faults \/ (0 \in Groups /\ "load" \in Faults)
    <3>1. active \/ (~(Faults \subseteq {"store"}) /\ (gid = 0 \/ "tee" \in Faults))
      BY <2>1
    <3>2. Faults \subseteq {"store", "load", "tee"}
      BY DEF Faults
    <3> QED
      BY <1>2, <2>1, <3>1, <3>2 DEF Enroll, MayCall
  <2> QED
    BY <1>c, <1>n, <1>2, <2>1, <2>2 DEF Enroll
<1>3. ASSUME NEW g \in Groups, Authenticate(g) PROVE IInv'
  <2>1. /\ blind' \in BOOLEAN /\ (~blind' => ~blind /\ active)
        /\ called /\ gid \in Groups /\ pc = "idle"
    BY <1>3 DEF Authenticate, MayCall
  <2>2. blind' => "tee" \in Faults \/ (0 \in Groups /\ "load" \in Faults)
    <3>1. active \/ (~(Faults \subseteq {"store"}) /\ (gid = 0 \/ "tee" \in Faults))
      BY <2>1
    <3>2. Faults \subseteq {"store", "load", "tee"}
      BY DEF Faults
    <3> QED
      BY <1>3, <2>1, <3>1, <3>2 DEF Authenticate, MayCall
  <2> QED
    BY <1>c, <1>n, <1>3, <2>1, <2>2 DEF Authenticate
<1>4. ASSUME NEW g \in Groups, NEW fid \in EnrolledIds \cup {0}, Remove(g, fid) PROVE IInv'
  <2>1. /\ blind' \in BOOLEAN /\ (~blind' => ~blind /\ active)
        /\ called /\ gid \in Groups /\ pc = "idle"
    BY <1>4 DEF Remove, MayCall
  <2>2. blind' => "tee" \in Faults \/ (0 \in Groups /\ "load" \in Faults)
    <3>1. active \/ (~(Faults \subseteq {"store"}) /\ (gid = 0 \/ "tee" \in Faults))
      BY <2>1
    <3>2. Faults \subseteq {"store", "load", "tee"}
      BY DEF Faults
    <3> QED
      BY <1>4, <2>1, <3>1, <3>2 DEF Remove, MayCall
  <2> QED
    BY <1>c, <1>n, <1>4, <2>1, <2>2 DEF Remove
<1>5. CASE SgLoad
  <2>1. CASE LoadOk /\ Goto("sg_gid") /\ UNCHANGED locals
    BY <1>c, <1>n, <1>5, <2>1, LoadFacts DEF SgLoad
  <2>2. CASE LoadFail /\ ToIdle
    <3>b. cancelled' \in BOOLEAN
      BY <2>2
    <3>1. CASE UNCHANGED mem
      BY <1>c, <1>n, <1>5, <2>2, <3>1, <3>b DEF SgLoad, LoadFail
    <3>2. CASE LoadOk
      <4>11. TypeOK'
        BY <1>c, <1>n, <1>5, <2>2, <3>2, <3>b, LoadFacts DEF SgLoad, LoadFail
      <4>12. DbsSound' /\ Numbered'
        BY <1>c, <1>n, <1>5, <2>2, <3>2, <3>b, LoadFacts DEF SgLoad, LoadFail
      <4>13. StepInv'
        BY <1>c, <1>n, <1>5, <2>2, <3>2, <3>b, LoadFacts DEF SgLoad, LoadFail
      <4>14. IdKept'
        BY <1>c, <1>n, <1>5, <2>2, <3>2, <3>b, LoadFacts DEF SgLoad, LoadFail
      <4>15. CallsAreSafe' /\ KeyIsGroup' /\ (~blind' => MemHasEnrolled')
        BY <1>c, <1>n, <1>5, <2>2, <3>2, <3>b, LoadFacts DEF SgLoad, LoadFail
      <4>16. ~blind' => Known' /\ Missing'
        BY <1>c, <1>n, <1>5, <2>2, <3>2, <3>b, LoadFacts DEF SgLoad, LoadFail
      <4>17. EnrolDurable' /\ RemovedStaysGone'
        BY <1>c, <1>n, <1>5, <2>2, <3>2, <3>b, LoadFacts DEF SgLoad, LoadFail
      <4> QED
        BY <1>c, <4>11, <4>12, <4>13, <4>14, <4>15, <4>16, <4>17
    <3> QED
      BY <2>2, <3>1, <3>2 DEF LoadFail
  <2> QED
    BY <1>5, <2>1, <2>2 DEF SgLoad
<1>6. CASE SgSetGid
  <2>b. /\ cancelled' \in BOOLEAN /\ ready' \in BOOLEAN /\ undone' \in BOOLEAN
        /\ active' \in BOOLEAN /\ blind' = blind
    BY <1>6 DEF SgSetGid
  <2>1. CASE akey' = arg /\ gid' = arg /\ active' /\ authid' = mem.id /\ ready' = TRUE
    <3>11. TypeOK'
      BY <1>c, <1>n, <1>6, <2>b, <2>1 DEF SgSetGid
    <3>12. DbsSound' /\ Numbered'
      BY <1>c, <1>n, <1>6, <2>b, <2>1 DEF SgSetGid
    <3>13. StepInv'
      BY <1>c, <1>n, <1>6, <2>b, <2>1 DEF SgSetGid
    <3>14. IdKept'
      BY <1>c, <1>n, <1>6, <2>b, <2>1 DEF SgSetGid
    <3>15. CallsAreSafe' /\ KeyIsGroup' /\ (~blind' => MemHasEnrolled')
      BY <1>c, <1>n, <1>6, <2>b, <2>1 DEF SgSetGid
    <3>16. ~blind' => Known' /\ Missing'
      BY <1>c, <1>n, <1>6, <2>b, <2>1 DEF SgSetGid
    <3>17. EnrolDurable' /\ RemovedStaysGone'
      BY <1>c, <1>n, <1>6, <2>b, <2>1 DEF SgSetGid
    <3> QED
      BY <1>c, <3>11, <3>12, <3>13, <3>14, <3>15, <3>16, <3>17
  <2>2. CASE /\ "tee" \in Faults /\ akey' = arg /\ gid' = arg /\ active'
             /\ authid' = NoDbId /\ UNCHANGED ready
    <3>11. TypeOK'
      BY <1>c, <1>n, <1>6, <2>b, <2>2 DEF SgSetGid
    <3>12. DbsSound' /\ Numbered'
      BY <1>c, <1>n, <1>6, <2>b, <2>2 DEF SgSetGid
    <3>13. StepInv'
      BY <1>c, <1>n, <1>6, <2>b, <2>2 DEF SgSetGid
    <3>14. IdKept'
      BY <1>c, <1>n, <1>6, <2>b, <2>2 DEF SgSetGid
    <3>15. CallsAreSafe' /\ KeyIsGroup' /\ (~blind' => MemHasEnrolled')
      BY <1>c, <1>n, <1>6, <2>b, <2>2 DEF SgSetGid
    <3>16. ~blind' => Known' /\ Missing'
      BY <1>c, <1>n, <1>6, <2>b, <2>2 DEF SgSetGid
    <3>17. EnrolDurable' /\ RemovedStaysGone'
      BY <1>c, <1>n, <1>6, <2>b, <2>2 DEF SgSetGid
    <3> QED
      BY <1>c, <3>11, <3>12, <3>13, <3>14, <3>15, <3>16, <3>17
  <2>3. CASE "tee" \in Faults /\ UNCHANGED <<akey, gid, active, authid, ready, undone>>
    BY <1>c, <1>n, <1>6, <2>b, <2>3 DEF SgSetGid
  <2>4. CASE /\ "tee" \in Faults /\ akey' = arg /\ active' = (arg = gid)
             /\ UNCHANGED <<gid, authid, ready, undone>>
    <3>1. active' => arg = gid
      BY <2>4, Zenon
    <3>11. TypeOK'
      BY <1>c, <1>n, <1>6, <2>b, <2>4, <3>1 DEF SgSetGid
    <3>12. DbsSound' /\ Numbered'
      BY <1>c, <1>n, <1>6, <2>b, <2>4, <3>1 DEF SgSetGid
    <3>13. StepInv'
      BY <1>c, <1>n, <1>6, <2>b, <2>4, <3>1 DEF SgSetGid
    <3>14. IdKept'
      BY <1>c, <1>n, <1>6, <2>b, <2>4, <3>1 DEF SgSetGid
    <3>15. CallsAreSafe' /\ KeyIsGroup' /\ (~blind' => MemHasEnrolled')
      BY <1>c, <1>n, <1>6, <2>b, <2>4, <3>1 DEF SgSetGid
    <3>16. ~blind' => Known' /\ Missing'
      BY <1>c, <1>n, <1>6, <2>b, <2>4, <3>1 DEF SgSetGid
    <3>17. EnrolDurable' /\ RemovedStaysGone'
      BY <1>c, <1>n, <1>6, <2>b, <2>4, <3>1 DEF SgSetGid
    <3> QED
      BY <1>c, <3>11, <3>12, <3>13, <3>14, <3>15, <3>16, <3>17
  <2> QED
    BY <1>6, <2>1, <2>2, <2>3, <2>4 DEF SgSetGid
<1>8. CASE EnEnds \/ EnRefused
  BY <1>8, <1>q DEF EnEnds, EnRefused
<1>9. CASE EnEndEnrol
  <2>1. CASE Foreign(mem, akey) \/ Full(mem)
    BY <1>c, <1>n, <1>9, <2>1 DEF EnEndEnrol, EndEnrol
  <2>2. CASE ~(Foreign(mem, akey) \/ Full(mem))
    <3>1. PICK d \in DbIds, n \in Nat : /\ mem' = AddFingerprint(mem, akey, n, d)
                                        /\ n = adds + 1 /\ adds' = n /\ cur' = n
      BY <1>9, <2>2 DEF EnEndEnrol, EndEnrol, Fresh
    <3>2. /\ n \in Nat \ {0} /\ n \notin Ids(mem)
          /\ mem.slots \in [Index -> Nat]
          /\ DbSound(mem) /\ ~Full(mem) /\ akey # NoKey
      BY <1>k, <2>2, <3>1 DEF DbType
    <3>3. /\ DbSound(mem') /\ Ids(mem') = Ids(mem) \cup {n}
          /\ mem'.key = akey /\ mem'.id = d
      BY ONLY <3>1, <3>2, AddSound
    <3>4. mem' \in DbType
      BY <1>d, <3>1, AddType
    <3>5. Ids(mem) # {} => mem.key = akey
      BY <2>2 DEF DbSound, Foreign, Ids
    <3>11. TypeOK'
      BY <1>c, <1>n, <1>9, <2>2, <3>1, <3>3, <3>4, <3>5 DEF EnEndEnrol, EndEnrol
    <3>12. DbsSound' /\ Numbered'
      BY <1>c, <1>n, <1>9, <2>2, <3>1, <3>3, <3>4, <3>5 DEF EnEndEnrol, EndEnrol
    <3>13. StepInv'
      BY <1>c, <1>n, <1>9, <2>2, <3>1, <3>3, <3>4, <3>5 DEF EnEndEnrol, EndEnrol
    <3>14. IdKept'
      BY <1>c, <1>n, <1>9, <2>2, <3>1, <3>3, <3>4, <3>5 DEF EnEndEnrol, EndEnrol
    <3>15. CallsAreSafe' /\ KeyIsGroup' /\ (~blind' => MemHasEnrolled')
      BY <1>c, <1>n, <1>9, <2>2, <3>1, <3>3, <3>4, <3>5 DEF EnEndEnrol, EndEnrol
    <3>16. ~blind' => Known' /\ Missing'
      BY <1>c, <1>n, <1>9, <2>2, <3>1, <3>3, <3>4, <3>5 DEF EnEndEnrol, EndEnrol
    <3>17. EnrolDurable' /\ RemovedStaysGone'
      BY <1>c, <1>n, <1>9, <2>2, <3>1, <3>3, <3>4, <3>5 DEF EnEndEnrol, EndEnrol
    <3> QED
      BY <1>c, <3>11, <3>12, <3>13, <3>14, <3>15, <3>16, <3>17
  <2> QED
    BY <2>1, <2>2
<1>29. CASE EnEndEnrolLost
  <2>b. cancelled' \in BOOLEAN
    BY <1>29 DEF EnEndEnrolLost
  <2>1. PICK d \in DbIds, n \in Nat : /\ mem' = AddFingerprint(mem, akey, n, d)
                                      /\ n = adds + 1 /\ adds' = n
    BY <1>29 DEF EnEndEnrolLost, EndEnrol, Fresh
  <2>2. /\ n \in Nat \ {0} /\ n \notin Ids(mem)
        /\ mem.slots \in [Index -> Nat]
        /\ DbSound(mem) /\ ~Full(mem) /\ akey # NoKey
    BY <1>k, <1>29, <2>1 DEF EnEndEnrolLost, EndEnrol, DbType
  <2>3. /\ DbSound(mem') /\ Ids(mem') = Ids(mem) \cup {n}
        /\ mem'.key = akey /\ mem'.id = d
    <3> DEFINE new == AddFingerprint(mem, akey, n, d)
    <3>1. DbSound(new) /\ Ids(new) = Ids(mem) \cup {n} /\ new.key = akey /\ new.id = d
      BY ONLY <2>2, AddSound
    <3> QED
      BY ONLY <2>1, <3>1
  <2>4. mem' \in DbType
    BY <1>d, <2>1, AddType
  <2>5. Ids(mem) # {} => mem.key = akey
    BY <1>29 DEF EnEndEnrolLost, EndEnrol, DbSound, Foreign, Ids
  <2>11. TypeOK'
    BY <1>c, <1>n, <1>29, <2>b, <2>1, <2>2, <2>3, <2>4, <2>5 DEF EnEndEnrolLost, EndEnrol
  <2>12. DbsSound' /\ Numbered'
    BY <1>c, <1>n, <1>29, <2>b, <2>1, <2>2, <2>3, <2>4, <2>5 DEF EnEndEnrolLost, EndEnrol
  <2>13. StepInv'
    BY <1>c, <1>n, <1>29, <2>b, <2>1, <2>2, <2>3, <2>4, <2>5 DEF EnEndEnrolLost, EndEnrol
  <2>14. IdKept'
    BY <1>c, <1>n, <1>29, <2>b, <2>1, <2>2, <2>3, <2>4, <2>5 DEF EnEndEnrolLost, EndEnrol
  <2>15. CallsAreSafe' /\ KeyIsGroup' /\ (~blind' => MemHasEnrolled')
    BY <1>c, <1>n, <1>29, <2>b, <2>1, <2>2, <2>3, <2>4, <2>5 DEF EnEndEnrolLost, EndEnrol
  <2>16. ~blind' => Known' /\ Missing'
    BY <1>c, <1>n, <1>29, <2>b, <2>1, <2>2, <2>3, <2>4, <2>5 DEF EnEndEnrolLost, EndEnrol
  <2>17. EnrolDurable' /\ RemovedStaysGone'
    BY <1>c, <1>n, <1>29, <2>b, <2>1, <2>2, <2>3, <2>4, <2>5 DEF EnEndEnrolLost, EndEnrol
  <2> QED
    BY <1>c, <2>11, <2>12, <2>13, <2>14, <2>15, <2>16, <2>17
<1>10. CASE EnStore
  BY <1>c, <1>n, <1>10 DEF EnStore, StoreOk, StoreFail
<1>11. CASE EnReload
  <2>b. cancelled' \in BOOLEAN /\ undone' \in BOOLEAN /\ undone'
    BY <1>11 DEF EnReload
  <2>1. CASE LoadOk /\ UNCHANGED excused
    BY <1>c, <1>n, <1>11, <2>b, <2>1, LoadFacts DEF EnReload
  <2>2. CASE LoadFail /\ excused' = excused \cup {cur}
    <3>1. CASE UNCHANGED mem
      <4>11. TypeOK'
        BY <1>c, <1>n, <1>11, <2>b, <2>2, <3>1 DEF EnReload, LoadFail
      <4>12. DbsSound' /\ Numbered'
        BY <1>c, <1>n, <1>11, <2>b, <2>2, <3>1 DEF EnReload, LoadFail
      <4>13. StepInv'
        BY <1>c, <1>n, <1>11, <2>b, <2>2, <3>1 DEF EnReload, LoadFail
      <4>14. IdKept'
        BY <1>c, <1>n, <1>11, <2>b, <2>2, <3>1 DEF EnReload, LoadFail
      <4>15. CallsAreSafe' /\ KeyIsGroup' /\ (~blind' => MemHasEnrolled')
        BY <1>c, <1>n, <1>11, <2>b, <2>2, <3>1 DEF EnReload, LoadFail
      <4>16. ~blind' => Known' /\ Missing'
        BY <1>c, <1>n, <1>11, <2>b, <2>2, <3>1 DEF EnReload, LoadFail
      <4>17. EnrolDurable' /\ RemovedStaysGone'
        BY <1>c, <1>n, <1>11, <2>b, <2>2, <3>1 DEF EnReload, LoadFail
      <4> QED
        BY <1>c, <4>11, <4>12, <4>13, <4>14, <4>15, <4>16, <4>17
    <3>2. CASE LoadOk
      <4>11. TypeOK'
        BY <1>c, <1>n, <1>11, <2>b, <2>2, <3>2, LoadFacts DEF EnReload, LoadFail
      <4>12. DbsSound' /\ Numbered'
        BY <1>c, <1>n, <1>11, <2>b, <2>2, <3>2, LoadFacts DEF EnReload, LoadFail
      <4>13. StepInv'
        BY <1>c, <1>n, <1>11, <2>b, <2>2, <3>2, LoadFacts DEF EnReload, LoadFail
      <4>14. IdKept'
        BY <1>c, <1>n, <1>11, <2>b, <2>2, <3>2, LoadFacts DEF EnReload, LoadFail
      <4>15. CallsAreSafe' /\ KeyIsGroup' /\ (~blind' => MemHasEnrolled')
        BY <1>c, <1>n, <1>11, <2>b, <2>2, <3>2, LoadFacts DEF EnReload, LoadFail
      <4>16. ~blind' => Known' /\ Missing'
        BY <1>c, <1>n, <1>11, <2>b, <2>2, <3>2, LoadFacts DEF EnReload, LoadFail
      <4>17. EnrolDurable' /\ RemovedStaysGone'
        BY <1>c, <1>n, <1>11, <2>b, <2>2, <3>2, LoadFacts DEF EnReload, LoadFail
      <4> QED
        BY <1>c, <4>11, <4>12, <4>13, <4>14, <4>15, <4>16, <4>17
    <3> QED
      BY <2>2, <3>1, <3>2 DEF LoadFail
  <2> QED
    BY <1>11, <2>1, <2>2 DEF EnReload
<1>12. CASE EnReport
  BY <1>c, <1>n, <1>12 DEF EnReport
<1>13. CASE EnUndo
  <2>1. CASE mem' = DeleteFingerprint(mem, IndexOfId(mem, cur)) /\ UNCHANGED excused
    <3>1. /\ DbSound(mem') /\ Ids(mem') = Ids(mem) \ {cur}
          /\ Ids(mem') # {} => mem'.key = mem.key
          /\ mem'.id = mem.id
      BY <1>13, <2>1, DeleteSound DEF EnUndo, DbType
    <3>2. mem' \in DbType
      BY <1>d, <2>1, DeleteType
    <3> QED
      BY <1>c, <1>n, <1>13, <2>1, <3>1, <3>2 DEF EnUndo
  <2>2. CASE UNCHANGED mem /\ excused' = excused \cup {cur}
    BY <1>c, <1>n, <1>13, <2>2 DEF EnUndo
  <2> QED
    BY <1>13, <2>1, <2>2 DEF EnUndo
<1>14. CASE EnUndoStore
  <2>b. cancelled' \in BOOLEAN /\ undone' \in BOOLEAN /\ undone'
    BY <1>14 DEF EnUndoStore
  <2>11. TypeOK'
    BY <1>c, <1>n, <1>14, <2>b DEF EnUndoStore, StoreOk, StoreFail
  <2>1. cur \in 1 .. adds /\ cur \notin EnrolledIds /\ excused' \in {excused, excused \cup {cur}}
    BY <1>14 DEF EnUndoStore
  <2>12. DbsSound' /\ Numbered'
    <3>1. DbsSound'
      BY <1>c, <1>n, <1>14, <2>b DEF EnUndoStore, StoreOk, StoreFail
    <3>2. Numbered'
      BY <1>c, <1>n, <1>14, <2>b, <2>1 DEF EnUndoStore, StoreOk, StoreFail
    <3> QED
      BY <3>1, <3>2
  <2>13. StepInv'
    BY <1>c, <1>n, <1>14, <2>b DEF EnUndoStore, StoreOk, StoreFail
  <2>14. IdKept'
    BY <1>c, <1>n, <1>14, <2>b DEF EnUndoStore, StoreOk, StoreFail
  <2>15. CallsAreSafe' /\ KeyIsGroup' /\ (~blind' => MemHasEnrolled')
    BY <1>c, <1>n, <1>14, <2>b DEF EnUndoStore, StoreOk, StoreFail
  <2>16. ~blind' => Known' /\ Missing'
    BY <1>c, <1>n, <1>14, <2>b DEF EnUndoStore, StoreOk, StoreFail
  <2>17. EnrolDurable' /\ RemovedStaysGone'
    BY <1>c, <1>n, <1>14, <2>b DEF EnUndoStore, StoreOk, StoreFail
  <2> QED
    BY <1>c, <2>11, <2>12, <2>13, <2>14, <2>15, <2>16, <2>17
<1>15. CASE EnAuthId
  <2>b. cancelled' \in BOOLEAN /\ undone' \in BOOLEAN
    BY <1>15 DEF EnAuthId
  <2> QED
    BY <1>c, <1>n, <1>15, <2>b DEF EnAuthId
<1>16. CASE RmDelete
  <2>1. PICK i \in todo :
          /\ cur' = i
          /\ todo' = todo \ {i}
          /\ \/ /\ i \in IdsOf(mem, akey)
                /\ mem' = DeleteFingerprint(mem, IndexOfId(mem, i))
                /\ Goto("rm_store")
                /\ UNCHANGED told
             \/ /\ i \notin IdsOf(mem, akey)
                /\ told' = told \cup {<<gid, i>>}
                /\ Goto("rm_next")
                /\ UNCHANGED mem
    BY <1>16 DEF RmDelete
  <2>2. CASE i \in IdsOf(mem, akey)
    <3>1. /\ DbSound(mem') /\ Ids(mem') = Ids(mem) \ {cur'}
          /\ Ids(mem') # {} => mem'.key = mem.key
          /\ mem'.id = mem.id
      BY <2>1, <2>2, DeleteSound DEF DbType
    <3>2. mem' \in DbType
      BY <1>d, <2>1, <2>2, DeleteType
    <3>11. TypeOK'
      BY <1>c, <1>n, <1>16, <2>1, <2>2, <3>1, <3>2 DEF RmDelete
    <3>12. DbsSound' /\ Numbered'
      BY <1>c, <1>n, <1>16, <2>1, <2>2, <3>1, <3>2 DEF RmDelete
    <3>13. StepInv'
      BY <1>c, <1>n, <1>16, <2>1, <2>2, <3>1, <3>2 DEF RmDelete
    <3>14. IdKept'
      BY <1>c, <1>n, <1>16, <2>1, <2>2, <3>1, <3>2 DEF RmDelete
    <3>15. CallsAreSafe' /\ KeyIsGroup' /\ (~blind' => MemHasEnrolled')
      BY <1>c, <1>n, <1>16, <2>1, <2>2, <3>1, <3>2 DEF RmDelete
    <3>16. ~blind' => Known' /\ Missing'
      BY <1>c, <1>n, <1>16, <2>1, <2>2, <3>1, <3>2 DEF RmDelete
    <3>17. EnrolDurable' /\ RemovedStaysGone'
      BY <1>c, <1>n, <1>16, <2>1, <2>2, <3>1, <3>2 DEF RmDelete
    <3> QED
      BY <1>c, <3>11, <3>12, <3>13, <3>14, <3>15, <3>16, <3>17
  <2>3. CASE i \notin IdsOf(mem, akey)
    BY <1>c, <1>n, <1>16, <2>1, <2>3 DEF RmDelete
  <2> QED
    BY <2>2, <2>3
<1>17. CASE RmFails
  <2>1. CASE UNCHANGED mem
    BY <1>c, <1>n, <1>17, <2>1 DEF RmFails
  <2>2. ASSUME NEW i \in todo \cap IdsOf(mem, akey),
               mem' = DeleteFingerprint(mem, IndexOfId(mem, i))
        PROVE  IInv'
    <3>1. /\ DbSound(mem') /\ Ids(mem') = Ids(mem) \ {i}
          /\ Ids(mem') # {} => mem'.key = mem.key
          /\ mem'.id = mem.id
      BY <2>2, DeleteSound DEF DbType
    <3>2. mem' \in DbType
      BY <1>d, <2>2, DeleteType
    <3>11. TypeOK'
      BY <1>c, <1>n, <1>17, <2>2, <3>1, <3>2 DEF RmFails
    <3>12. DbsSound' /\ Numbered'
      BY <1>c, <1>n, <1>17, <2>2, <3>1, <3>2 DEF RmFails
    <3>13. StepInv'
      BY <1>c, <1>n, <1>17, <2>2, <3>1, <3>2 DEF RmFails
    <3>14. IdKept'
      BY <1>c, <1>n, <1>17, <2>2, <3>1, <3>2 DEF RmFails
    <3>15. CallsAreSafe' /\ KeyIsGroup' /\ (~blind' => MemHasEnrolled')
      BY <1>c, <1>n, <1>17, <2>2, <3>1, <3>2 DEF RmFails
    <3>16. ~blind' => Known' /\ Missing'
      BY <1>c, <1>n, <1>17, <2>2, <3>1, <3>2 DEF RmFails
    <3>17. EnrolDurable' /\ RemovedStaysGone'
      BY <1>c, <1>n, <1>17, <2>2, <3>1, <3>2 DEF RmFails
    <3> QED
      BY <1>c, <3>11, <3>12, <3>13, <3>14, <3>15, <3>16, <3>17
  <2> QED
    BY <1>17, <2>1, <2>2 DEF RmFails
<1>18. CASE RmStore
  <2>1. CASE StoreOk /\ told' = told \cup {<<gid, cur>>} /\ Goto("rm_next")
    <3>11. TypeOK'
      BY <1>c, <1>n, <1>18, <2>1 DEF RmStore, StoreOk
    <3>12. DbsSound' /\ Numbered'
      BY <1>c, <1>n, <1>18, <2>1 DEF RmStore, StoreOk
    <3>13. StepInv'
      BY <1>c, <1>n, <1>18, <2>1 DEF RmStore, StoreOk
    <3>14. IdKept'
      BY <1>c, <1>n, <1>18, <2>1 DEF RmStore, StoreOk
    <3>15. CallsAreSafe' /\ KeyIsGroup' /\ (~blind' => MemHasEnrolled')
      BY <1>c, <1>n, <1>18, <2>1 DEF RmStore, StoreOk
    <3>16. ~blind' => Known' /\ Missing'
      BY <1>c, <1>n, <1>18, <2>1 DEF RmStore, StoreOk
    <3>17. EnrolDurable' /\ RemovedStaysGone'
      BY <1>c, <1>n, <1>18, <2>1 DEF RmStore, StoreOk
    <3> QED
      BY <1>c, <3>11, <3>12, <3>13, <3>14, <3>15, <3>16, <3>17
  <2>2. CASE StoreFail /\ Goto("rm_reload") /\ UNCHANGED told
    BY <1>c, <1>n, <1>18, <2>2 DEF RmStore, StoreFail
  <2> QED
    BY <1>18, <2>1, <2>2 DEF RmStore
<1>19. CASE RmReload
  <2>b. cancelled' \in BOOLEAN
    BY <1>19 DEF RmReload
  <2>1. CASE LoadOk
    <3>11. TypeOK'
      BY <1>c, <1>n, <1>19, <2>b, <2>1, LoadFacts DEF RmReload
    <3>12. DbsSound' /\ Numbered'
      BY <1>c, <1>n, <1>19, <2>b, <2>1, LoadFacts DEF RmReload
    <3>13. StepInv'
      BY <1>c, <1>n, <1>19, <2>b, <2>1, LoadFacts DEF RmReload
    <3>14. IdKept'
      BY <1>c, <1>n, <1>19, <2>b, <2>1, LoadFacts DEF RmReload
    <3>15. CallsAreSafe' /\ KeyIsGroup' /\ (~blind' => MemHasEnrolled')
      BY <1>c, <1>n, <1>19, <2>b, <2>1, LoadFacts DEF RmReload
    <3>16. ~blind' => Known' /\ Missing'
      BY <1>c, <1>n, <1>19, <2>b, <2>1, LoadFacts DEF RmReload
    <3>17. EnrolDurable' /\ RemovedStaysGone'
      BY <1>c, <1>n, <1>19, <2>b, <2>1, LoadFacts DEF RmReload
    <3> QED
      BY <1>c, <3>11, <3>12, <3>13, <3>14, <3>15, <3>16, <3>17
  <2>2. CASE LoadFail /\ UNCHANGED mem
    BY <1>c, <1>n, <1>19, <2>b, <2>2 DEF RmReload, LoadFail
  <2> QED
    BY <1>19, <2>1, <2>2 DEF RmReload, LoadFail
<1>20. CASE RmEnds
  BY <1>20, <1>q DEF RmEnds
<1>21. CASE AuNoImage
  <2>1. CASE ToIdle
    BY <1>21, <2>1, <1>q DEF AuNoImage
  <2>2. CASE attempts' = attempts + 1 /\ Goto("au_capture") /\ UNCHANGED <<arg, todo, cur>>
    BY <1>c, <1>n, <1>21, <2>2 DEF AuNoImage
  <2> QED
    BY <1>21, <2>1, <2>2 DEF AuNoImage, Failed
<1>22. CASE AuMatch
  <2>1. PICK i \in Valid(mem) : /\ mem.key = akey
                                /\ cur' = mem.slots[i]
                                /\ mem' = SetTemplateFirst(mem, ListIndex(mem, i))
    BY <1>22 DEF AuMatch
  <2>2. i \in Index /\ ListIndex(mem, i) \in Index /\ cur' \in Ids(mem)
    <3>1. i \in Index /\ cur' \in Ids(mem)
      BY <2>1 DEF Valid, Ids
    <3>2. ListIndex(mem, i) \in 0 .. i
      BY <3>1, ListIndexBound
    <3> QED
      BY <3>1, <3>2 DEF Index
  <2>3. /\ DbSound(mem') /\ Ids(mem') = Ids(mem)
        /\ mem'.key = mem.key /\ mem'.id = mem.id
    BY <2>1, <2>2, FirstSound DEF DbType
  <2>4. mem' \in DbType
    BY <1>d, <2>1, <2>2, FirstType
  <2> QED
    BY <1>c, <1>n, <1>22, <2>1, <2>2, <2>3, <2>4 DEF AuMatch
<1>30. CASE AuMatchLost
  <2>b. cancelled' \in BOOLEAN
    BY <1>30 DEF AuMatchLost
  <2>1. PICK i \in Valid(mem) : mem' = SetTemplateFirst(mem, ListIndex(mem, i))
    BY <1>30 DEF AuMatchLost
  <2>2. ListIndex(mem, i) \in Index
    <3>1. i \in Index
      BY DEF Valid
    <3>2. ListIndex(mem, i) \in 0 .. i
      BY <3>1, ListIndexBound
    <3> QED
      BY <3>1, <3>2 DEF Index
  <2>3. /\ DbSound(mem') /\ Ids(mem') = Ids(mem)
        /\ mem'.key = mem.key /\ mem'.id = mem.id
    BY <2>1, <2>2, FirstSound DEF DbType
  <2>4. mem' \in DbType
    BY <1>d, <2>1, <2>2, FirstType
  <2> QED
    BY <1>c, <1>n, <1>30, <2>b, <2>3, <2>4 DEF AuMatchLost
<1>23. CASE AuNoMatch
  BY <1>c, <1>n, <1>23 DEF AuNoMatch
<1>24. CASE AuIdentifyError \/ AuReport
  <2>1. CASE AuIdentifyError \/ (AuReport /\ ToIdle)
    BY <2>1, <1>q DEF AuIdentifyError, AuReport
  <2>2. CASE AuReport /\ Goto("au_update") /\ UNCHANGED locals
    BY <1>c, <1>n, <2>2 DEF AuReport
  <2> QED
    BY <1>24, <2>1, <2>2 DEF AuReport
<1>25. CASE AuUpdate
  <2>1. /\ UNCHANGED <<devvars, mem, akey, histvars, adds, crashes, scenario>>
        /\ pc = "au_update"
    BY <1>25 DEF AuUpdate
  <2>2. CASE file' = file /\ ToIdle
    BY <1>q, <2>1, <2>2
  <2>3. CASE file' = mem /\ ToIdle
    <3>b. cancelled' \in BOOLEAN
      BY <2>3
    <3> QED
      BY <1>c, <1>n, <2>1, <2>3, <3>b
  <2>4. CASE /\ file' = file \/ file' = mem
             /\ attempts' = attempts + 1
             /\ Goto("au_capture") /\ UNCHANGED <<arg, todo, cur>>
    <3>1. CASE file' = file
      BY <1>c, <1>n, <2>1, <2>4, <3>1
    <3>2. CASE file' = mem
      BY <1>c, <1>n, <2>1, <2>4, <3>2
    <3> QED
      BY <2>4, <3>1, <3>2
  <2> QED
    BY <1>25, <2>2, <2>3, <2>4 DEF AuUpdate, Failed, StoreOk
<1>26. CASE RequestCancel
  BY <1>c, <1>n, <1>26 DEF RequestCancel
<1>27. CASE Crash
  <2>b. /\ cancelled' \in BOOLEAN /\ ready' \in BOOLEAN /\ called' \in BOOLEAN
        /\ active' \in BOOLEAN /\ undone' \in BOOLEAN
    BY <1>27 DEF Crash
  <2>1. CASE UNCHANGED <<mem, akey>>
    BY <1>c, <1>n, <1>27, <2>b, <2>1 DEF Crash
  <2>2. CASE akey' = InvalidKey /\ \E d \in Fresh : mem' = EmptyDb(d)
    <3>1. PICK d \in DbIds : mem' = EmptyDb(d)
      BY <2>2 DEF Fresh
    <3>2. DbSound(mem') /\ Ids(mem') = {} /\ mem'.id = d
      BY <3>1, EmptySound
    <3>3. mem' \in DbType
      BY <3>1 DEF EmptyDb, DbType
    <3> QED
      BY <1>c, <1>n, <1>27, <2>b, <2>2, <3>2, <3>3 DEF Crash
  <2> QED
    BY <1>27, <2>1, <2>2 DEF Crash
<1>28. CASE UNCHANGED vars
  BY <1>c, <1>n, <1>28 DEF vars
<1> QED
  BY <1>1, <1>2, <1>3, <1>4, <1>5, <1>6, <1>8, <1>9, <1>10, <1>11, <1>12, <1>13, <1>14,
     <1>15, <1>16, <1>17, <1>18, <1>19, <1>20, <1>21, <1>22, <1>23, <1>24, <1>25, <1>26,
     <1>27, <1>28, <1>29, <1>30 DEF Next

-----------------------------------------------------------------------------
(* The theorems. *)

(* Every variable has its type: memory, file and history stay databases and
   pairs of a group and an id, in every interleaving of calls, faults and
   crashes. *)
THEOREM TemplatesTypeCorrect == Spec => []TypeOK
<1>1. IInv => TypeOK
  BY DEF IInv
<1> QED
  BY InitIInv, NextIInv, <1>1, PTL DEF Spec

(* What fpc_tee_hal.c reported as enrolled stays on disk until the framework
   asks for its removal. *)
THEOREM TemplatesEnrolDurable == Spec => []EnrolDurable
<1>1. IInv => EnrolDurable
  BY DEF IInv
<1> QED
  BY InitIInv, NextIInv, <1>1, PTL DEF Spec

(* What do_remove reported as removed is neither in memory nor on disk ever
   after, while the load that undoes a failed remove works. *)
THEOREM TemplatesRemovedStaysGone == Spec => []RemovedStaysGone
<1>1. IInv => RemovedStaysGone
  BY DEF IInv
<1> QED
  BY InitIInv, NextIInv, <1>1, PTL DEF Spec

(* A finger on disk is known to the framework, or its enrolment was cut short
   between the add and the report; and the databases of fpc_db.c stay sound. *)
THEOREM TemplatesNoGhost == Spec => []NoGhost
<1>1. IInv => NoGhost
  <2> SUFFICES ASSUME IInv, ~blind,
                      NEW i \in Ids(file) \ (EnrolledIds \cup excused)
               PROVE  i = cur /\ pc \in {"en_check", "en_undo"}
    BY DEF IInv, NoGhost, DbsSound, Numbered
  <2>1. <<file.key, i>> \in enrolled => i \in EnrolledIds
    BY DEF EnrolledIds
  <2> QED
    BY <2>1 DEF IInv, Known
<1> QED
  BY InitIInv, NextIInv, <1>1, PTL DEF Spec

(* on_authenticated never names a finger of another group, nor one that was
   removed: the key in the trusted application is the HAL's group, and memory
   has only fingers that were reported, or whose enrolment was cut short. *)
THEOREM TemplatesAuthOnlyEnrolled == Spec => []AuthOnlyEnrolled
<1>1. IInv => AuthOnlyEnrolled
  <2> SUFFICES ASSUME IInv, ~blind, pc = "au_report"
               PROVE  /\ <<gid, cur>> \in enrolled \/ cur \in excused
                      /\ <<gid, cur>> \in told => "load" \in Faults
    BY DEF AuthOnlyEnrolled, At
  <2>1. cur \in IdsOf(mem, akey) /\ called /\ gid \in Groups
    BY DEF IInv, StepInv
  <2>2. akey = gid /\ Loaded
    BY <2>1 DEF IInv, CallsAreSafe, KeyIsGroup, Loaded
  <2>3. cur \in Ids(mem) /\ mem.key = gid
    BY <2>1, <2>2 DEF IdsOf
  <2>4. <<gid, cur>> \in enrolled \/ cur \in excused
    BY <2>2, <2>3 DEF IInv, Known, Adding
  <2>5. <<gid, cur>> \in told => "load" \in Faults
    BY <2>1, <2>2 DEF IInv, RemovedStaysGone
  <2> QED
    BY <2>4, <2>5
<1> QED
  BY InitIInv, NextIInv, <1>1, PTL DEF Spec

(* While only stores fail, the authenticator_id the HAL hands out is the id
   the trusted application signs tokens with, unless an enrolment was undone. *)
THEOREM TemplatesAuthIdSettled == Spec => []AuthIdSettled
<1>1. IInv => AuthIdSettled
  BY DEF IInv, IdKept, AuthIdSettled, Adding, At
<1> QED
  BY InitIInv, NextIInv, <1>1, PTL DEF Spec
=============================================================================

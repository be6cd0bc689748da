----------------------- MODULE FpcTemplateUpdateProofs -----------------------
(***************************************************************************)
(* The blocks of FpcTemplateUpdate, for every number of slots, addresses,  *)
(* enrolments, generations and failures: none is lost or used after its    *)
(* free, and each finger keeps its own template.                           *)
(***************************************************************************)
EXTENDS FpcTemplateUpdate, Integers, FiniteSetTheorems, SequenceTheorems,
        WellFoundedInduction, TLAPS

Entries == [id : 0 .. MaxFingers, tpl : Blocks \cup {Null}]

(* Every entry has an allocated block of its own. *)
Blocks1 ==
    /\ \A i \in Index : slots[i].id = 0 <=> slots[i].tpl = Null
    /\ \A i, j \in Valid(slots) : slots[i].tpl = slots[j].tpl => i = j
    /\ Owned \cap lost = {}
    /\ Held = Owned \cup lost

(* The entry's block holds the finger's template, or what nobody wrote; the
   latter only in a finger whose update failed or is under way. *)
Contents1 ==
    \A i \in Valid(slots) :
        /\ OfFinger(heap[slots[i].tpl], slots[i].id)
        /\ heap[slots[i].tpl] = Raw =>
              \/ slots[i].id \in spoiled
              \/ pc = "update" /\ \E x \in 1 .. Len(found) : found[x] = i

(* The same for the file, which is never written during an update. *)
Stored1 ==
    \A i \in Valid(file) :
        OfFinger(file[i].tpl, file[i].id) /\ (file[i].tpl = Raw => file[i].id \in spoiled)

(* The candidate at position n is found by its address in its finger's slot. *)
FoundAt(n) == \E i \in Valid(slots) : slots[i].tpl = list[n] /\ slots[i].id = cand[n].finger

(* From identify to the end of the update, the list has no address twice. *)
Listed ==
    pc \in {"answered", "update"} =>
        /\ Len(cand) = Len(list) /\ Len(list) <= Slots
        /\ \A m, n \in 1 .. Len(list) : list[m] = list[n] => m = n

Answered ==
    pc = "answered" =>
        /\ \A n \in 1 .. Len(list) : IsTemplate(cand[n]) => FoundAt(n)
        /\ found = <<>>
        /\ hit \in 0 .. Len(list)
        /\ hit # 0 => answer = cand[hit].finger

(* The loop of fpc_ta_bio_update_template: the first rounds have given their
   slots fresh blocks, the others will still find theirs. *)
Round ==
    pc = "update" =>
        /\ upd \in Seq(1 .. Len(list)) /\ Len(found) <= Len(upd)
        /\ \A x, y \in 1 .. Len(upd) : upd[x] = upd[y] => x = y
        /\ \A x \in 1 .. Len(upd) : IsTemplate(cand[upd[x]]) /\ cand[upd[x]].gen < MaxGen
        /\ \A x \in 1 .. Len(found) :
              /\ found[x] \in Valid(slots) /\ slots[found[x]].id = cand[upd[x]].finger
              /\ \A y \in 1 .. Len(found) : found[x] = found[y] => x = y
        /\ \A x \in Len(found) + 1 .. Len(upd) :
              /\ FoundAt(upd[x])
              /\ \A y \in 1 .. Len(found) : slots[found[y]].tpl # list[upd[x]]

IInv == TypeOK /\ Blocks1 /\ Contents1 /\ Stored1 /\ Listed /\ Answered /\ Round

-----------------------------------------------------------------------------
(* Numbers. *)

(* A set of naturals that is not empty has a least element. *)
LEMMA LeastOf ==
    ASSUME NEW T \in SUBSET Nat, T # {}
    PROVE  \E i \in T : \A j \in T : i <= j
<1> DEFINE less == {ss \in Nat \X Nat : ss[1] < ss[2]}
<1>1. IsWellFoundedOn(less, Nat)
  BY NatLessThanWellFounded DEF OpToRel
<1> HIDE DEF less
<1>2. PICK i \in T : \A j \in T : ~(<<j, i>> \in less)
  BY <1>1, WFMin
<1>3. \A j \in T : ~(j < i)
  BY <1>2 DEF less
<1>4. \A j \in T : i <= j
  BY <1>3
<1> QED
  BY <1>4

(* If it is bounded, it has a greatest one. *)
LEMMA GreatestOf ==
    ASSUME NEW T \in SUBSET Nat, T # {}, NEW b \in Nat, \A i \in T : i <= b
    PROVE  \E i \in T : \A j \in T : j <= i
<1> DEFINE below == {k \in Nat : b - k \in T}
<1>1. PICK t \in T : TRUE
  OBVIOUS
<1>2. b - t \in Nat /\ b - (b - t) = t
  BY <1>1
<1>3. below # {}
  BY <1>1, <1>2
<1>4. PICK k \in below : \A m \in below : k <= m
  BY <1>3, LeastOf
<1>5. ASSUME NEW j \in T PROVE j <= b - k
  <2>1. b - j \in Nat /\ b - (b - j) = j
    OBVIOUS
  <2>2. b - j \in below
    BY <2>1
  <2> QED
    BY <1>4, <2>1, <2>2
<1> QED
  BY <1>4, <1>5

(* A finite set of slots has an n-th element, so fpc_db_get_all_templates
   lists every valid entry. *)
LEMMA NthOf ==
    ASSUME NEW S \in SUBSET Nat, NEW b \in Nat, \A i \in S : i <= b,
           NEW n \in 1 .. Cardinality(S)
    PROVE  \E i \in S : Cardinality({j \in S : j < i}) = n - 1
<1> DEFINE Before(i) == {j \in S : j < i}
           T == {i \in S : Cardinality(Before(i)) >= n - 1}
<1>1. IsFiniteSet(S) /\ Cardinality(S) \in Nat
  BY FS_BoundedSetOfNaturals, FS_CardinalityType
<1>2. \A i \in S : IsFiniteSet(Before(i)) /\ Cardinality(Before(i)) \in Nat
  BY <1>1, FS_Subset, FS_CardinalityType
<1>3. S # {}
  BY <1>1, FS_EmptySet
<1>4. T # {}
  <2>1. PICK g \in S : \A j \in S : j <= g
    BY <1>3, GreatestOf
  <2>2. Before(g) = S \ {g}
    <3>1. \A j \in S : j < g <=> j # g
      BY <2>1
    <3> QED
      BY <3>1
  <2>3. Cardinality(S \ {g}) = Cardinality(S) - 1
    BY <1>1, FS_RemoveElement
  <2>4. Cardinality(Before(g)) >= n - 1
    <3>1. Cardinality(Before(g)) = Cardinality(S) - 1
      BY <2>2, <2>3
    <3> HIDE DEF Before
    <3> QED
      BY <1>1, <3>1
  <2> QED
    BY <2>1, <2>4
<1>5. PICK i \in T : \A j \in T : i <= j
  BY <1>4, LeastOf
<1>6. ASSUME Cardinality(Before(i)) # n - 1 PROVE FALSE
  <2>1. Cardinality(Before(i)) >= n /\ Cardinality(Before(i)) \in Nat
    BY <1>2, <1>5, <1>6
  <2>2. Before(i) # {}
    BY <2>1, FS_EmptySet
  <2>3. PICK g \in Before(i) : \A j \in Before(i) : j <= g
    <3>1. \A j \in Before(i) : j <= b
      OBVIOUS
    <3> HIDE DEF Before
    <3>2. Before(i) \in SUBSET Nat
      BY DEF Before
    <3> QED
      BY <2>2, <3>1, <3>2, GreatestOf
  <2>4. g \in S /\ g < i /\ Before(g) = Before(i) \ {g}
    <3>1. g \in S /\ g < i /\ \A j \in S : j < i => j <= g
      BY <2>3
    <3>2. \A j \in S : j < g <=> j < i /\ j # g
      BY <3>1, <1>5
    <3> QED
      BY <3>1, <3>2
  <2> DEFINE P == Before(i)
  <2>5. Cardinality(P \ {g}) = Cardinality(P) - 1
    <3>1. IsFiniteSet(P) /\ g \in P
      BY <1>2, <1>5, <2>3
    <3> HIDE DEF P
    <3> QED
      BY <3>1, FS_RemoveElement
  <2>6. Cardinality(Before(g)) >= n - 1
    <3>1. Cardinality(Before(g)) = Cardinality(P) - 1
      BY <2>4, <2>5
    <3>2. Cardinality(P) >= n /\ Cardinality(P) \in Nat
      BY <2>1
    <3> HIDE DEF P, Before
    <3> QED
      BY <3>1, <3>2
  <2>7. g \in T
    BY <2>4, <2>6
  <2> QED
    BY <1>5, <2>4, <2>7
<1> QED
  BY <1>5, <1>6

-----------------------------------------------------------------------------
(* What the invariant says of single slots and blocks. *)

(* The definitions of the invariant, one slot or block at a time. *)
LEMMA Facts ==
    ASSUME IInv
    PROVE  /\ Valid(slots) = {i \in Index : slots[i].id # 0}
           /\ \A i \in Index : slots[i].id \in 0 .. MaxFingers /\ slots[i].tpl \in Blocks \cup {Null}
           /\ \A i \in Valid(slots) : slots[i].tpl \in Blocks /\ slots[i].tpl \in Owned
           /\ \A b \in Owned : /\ b \in Blocks /\ heap[b] # Free /\ b \notin lost
                               /\ \E i \in Valid(slots) : slots[i].tpl = b
           /\ \A b \in Blocks : heap[b] = Free <=> b \notin Owned /\ b \notin lost
<1> USE UpdateAssumption DEF IInv, TypeOK, Blocks1
<1>1. Valid(slots) = {i \in Index : slots[i].id # 0}
  BY DEF Valid
<1>2. \A i \in Index : slots[i].id \in 0 .. MaxFingers /\ slots[i].tpl \in Blocks \cup {Null}
  OBVIOUS
<1>3. \A i \in Valid(slots) : slots[i].tpl \in Blocks /\ slots[i].tpl \in Owned
  BY <1>1, <1>2 DEF Owned
<1>4. \A b \in Owned : \E i \in Valid(slots) : slots[i].tpl = b
  BY <1>1, <1>2 DEF Owned
<1>5. \A b \in Owned : b \in Blocks /\ heap[b] # Free /\ b \notin lost
  BY <1>3, <1>4 DEF Held
<1>6. \A b \in Blocks : heap[b] = Free <=> b \notin Owned /\ b \notin lost
  BY DEF Held
<1> QED
  BY <1>1, <1>2, <1>3, <1>4, <1>5, <1>6

(* Contents that can be told apart. *)
LEMMA ContentFacts ==
    /\ Raw # Free /\ Raw.finger = 0 /\ Free.finger = 0
    /\ Raw \in Contents /\ Free \in Contents
    /\ \A f, n : Template(f, n).finger = f /\ Template(f, n).gen = n
    /\ \A f \in 1 .. MaxFingers, n \in 0 .. MaxGen :
          /\ Template(f, n) \in Contents
          /\ Template(f, n) # Raw /\ Template(f, n) # Free
          /\ OfFinger(Template(f, n), f)
BY UpdateAssumption DEF Raw, Free, Template, Contents, OfFinger

(* Steps that leave the database, the heap and the file alone, outside the
   identification. *)
LEMMA Quiet ==
    ASSUME IInv, UNCHANGED <<slots, heap, file, lost, spoiled>>,
           pc # "update", pc' \notin {"answered", "update"}, TypeOK'
    PROVE  IInv'
BY DEF IInv, Blocks1, Contents1, Stored1, Listed, Answered, Round, Owned, Held, Valid

(* NoIdent resets the identification to values of its type. *)
LEMMA NoIdentType ==
    ASSUME NoIdent
    PROVE  /\ cand' \in Seq(Contents) /\ upd' \in Seq(1 .. Slots) /\ found' \in Seq(Index)
           /\ answer' \in 0 .. MaxFingers /\ hit' \in 0 .. Slots
BY UpdateAssumption, EmptySeq DEF NoIdent

(* The invariant holds initially. *)
LEMMA InitIInv == Init => IInv
<1> SUFFICES ASSUME Init PROVE IInv
  OBVIOUS
<1> USE UpdateAssumption
<1>1. slots = [i \in Index |-> NoEntry] /\ heap = [b \in Blocks |-> Free] /\ lost = {}
  BY DEF Init
<1>2. \A i \in Index : slots[i].id = 0 /\ slots[i].tpl = Null
  BY <1>1 DEF NoEntry
<1>3. Valid(slots) = {} /\ Owned = {} /\ Held = {}
  BY <1>1, <1>2 DEF Valid, Owned, Held
<1>4. Valid(file) = {}
  BY DEF Init, NoFile, Valid
<1>5. TypeOK
  BY <1>1, ContentFacts, EmptySeq DEF Init, TypeOK, NoEntry
<1> QED
  BY <1>1, <1>2, <1>3, <1>4, <1>5
     DEF Init, IInv, Blocks1, Contents1, Stored1, Listed, Answered, Round

-----------------------------------------------------------------------------
(* The steps between identifications. *)

(* Steps that change neither entries, blocks nor the file. *)
LEMMA QuietSteps ==
    ASSUME IInv, SetActiveGroup \/ LoadFails \/ NoUpdate \/ UpdateReturns
    PROVE  IInv'
<1> USE UpdateAssumption DEF identvars, countvars
<1>1. TypeOK'
  <2>1. CASE SetActiveGroup \/ LoadFails
    <3>1. /\ pc' \in {"boot", "idle", "reload"}
          /\ UNCHANGED <<slots, heap, identvars, file, lost, spoiled, fingers>>
      BY <2>1 DEF SetActiveGroup, LoadFails
    <3>2. faults' \in 0 .. MaxFaults
      BY <2>1 DEF SetActiveGroup, LoadFails, Fault, IInv, TypeOK
    <3> QED
      BY <3>1, <3>2 DEF IInv, TypeOK
  <2>2. CASE NoUpdate \/ UpdateReturns
    <3>1. NoIdent
      BY <2>2 DEF NoUpdate, UpdateReturns
    <3> QED
      BY <2>2, <3>1, NoIdentType DEF NoUpdate, UpdateReturns, IInv, TypeOK
  <2> QED
    BY <2>1, <2>2
<1> QED
  BY <1>1, Quiet DEF SetActiveGroup, LoadFails, NoUpdate, UpdateReturns

(* The new template goes to a block nobody owned and a slot nobody used. *)
LEMMA EnrolStep == ASSUME IInv, Enrol PROVE IInv'
<1> USE UpdateAssumption DEF identvars
<1>1. CASE UNCHANGED <<pc, slots, heap>>
  <2>1. TypeOK'
    BY <1>1 DEF Enrol, Fault, IInv, TypeOK
  <2> QED
    BY <1>1, <2>1, Quiet DEF Enrol
<1>2. CASE /\ Valid(slots) # Index
           /\ \E b \in Blocks :
                /\ Malloc(b)
                /\ heap' = [heap EXCEPT ![b] = Template(fingers', 0)]
                /\ slots' = [slots EXCEPT ![Min(Index \ Valid(slots))] =
                                [id |-> fingers', tpl |-> b]]
           /\ pc' = "store" /\ UNCHANGED faults
  <2>1. PICK b \in Blocks :
                /\ Malloc(b)
                /\ heap' = [heap EXCEPT ![b] = Template(fingers', 0)]
                /\ slots' = [slots EXCEPT ![Min(Index \ Valid(slots))] =
                                [id |-> fingers', tpl |-> b]]
    BY <1>2
  <2> DEFINE s == Min(Index \ Valid(slots))
             f == fingers'
  <2>2. s \in Index /\ s \notin Valid(slots)
    <3>1. Index \ Valid(slots) \in SUBSET Nat /\ Index \ Valid(slots) # {}
      BY <1>2 DEF Index, Valid
    <3>2. PICK i \in Index \ Valid(slots) : \A j \in Index \ Valid(slots) : i <= j
      BY <3>1, LeastOf
    <3> QED
      BY <3>2 DEF Min
  <2>3. /\ pc = "idle" /\ f = fingers + 1 /\ f \in 1 .. MaxFingers
        /\ UNCHANGED <<list, cand, answer, hit, upd, found, file, lost, spoiled>>
    BY DEF Enrol, IInv, TypeOK
  <2> HIDE DEF s, f
  <2>4. /\ Template(f, 0) \in Contents /\ Template(f, 0) # Raw /\ Template(f, 0) # Free
        /\ OfFinger(Template(f, 0), f)
    BY <2>3, ContentFacts
  <2>5. /\ slots' = [slots EXCEPT ![s] = [id |-> f, tpl |-> b]]
        /\ heap' = [heap EXCEPT ![b] = Template(f, 0)] /\ heap[b] = Free
    BY <2>1 DEF s, f, Malloc
  <2>6. /\ slots' \in [Index -> [id : 0 .. MaxFingers, tpl : Blocks \cup {Null}]]
        /\ heap' \in [Blocks -> Contents]
    <3>1. slots \in [Index -> Entries] /\ heap \in [Blocks -> Contents]
      BY DEF IInv, TypeOK, Entries
    <3>2. [id |-> f, tpl |-> b] \in Entries
      BY <2>3 DEF Entries
    <3>3. slots' \in [Index -> Entries]
      BY <2>5, <3>1, <3>2
    <3>4. heap' \in [Blocks -> Contents]
      BY <2>4, <2>5, <3>1
    <3> QED
      BY <3>3, <3>4 DEF Entries
  <2>7. /\ slots'[s].id = f /\ slots'[s].tpl = b
        /\ \A i \in Index : i # s => slots'[i] = slots[i]
    BY <2>2, <2>5 DEF IInv, TypeOK
  <2>8. Valid(slots') = Valid(slots) \cup {s}
    BY <2>2, <2>3, <2>6, <2>7, Facts DEF Valid
  <2>9. b \notin Owned /\ b \notin lost /\ Owned \subseteq Blocks
    BY <2>5, Facts
  <2>10. Owned' = Owned \cup {b}
    BY <2>2, <2>7, Facts DEF Owned
  <2>11. Held' = Held \cup {b}
    BY <2>4, <2>5 DEF Held, IInv, TypeOK
  <2>12. Blocks1'
    <3>1. \A i \in Index : slots'[i].id = 0 <=> slots'[i].tpl = Null
      BY <2>3, <2>7 DEF IInv, Blocks1
    <3>2. \A i, j \in Valid(slots') : slots'[i].tpl = slots'[j].tpl => i = j
      BY <2>2, <2>7, <2>8, <2>9, Facts DEF IInv, Blocks1
    <3>3. Owned' \cap lost' = {} /\ Held' = Owned' \cup lost'
      BY <2>3, <2>9, <2>10, <2>11 DEF IInv, Blocks1
    <3> QED
      BY <3>1, <3>2, <3>3 DEF Blocks1
  <2>13. Contents1'
    <3> SUFFICES ASSUME NEW i \in Valid(slots')
                 PROVE  /\ OfFinger(heap'[slots'[i].tpl], slots'[i].id)
                        /\ heap'[slots'[i].tpl] = Raw => slots'[i].id \in spoiled'
      BY DEF Contents1
    <3>1. CASE i = s
      BY <2>4, <2>5, <2>7, <3>1 DEF IInv, TypeOK
    <3>2. CASE i # s
      <4>1. i \in Valid(slots) /\ slots'[i] = slots[i] /\ slots[i].tpl # b
        BY <2>7, <2>8, <2>9, <3>2, Facts
      <4>2. heap'[slots'[i].tpl] = heap[slots[i].tpl]
        BY <2>5, <4>1 DEF IInv, TypeOK
      <4> QED
        BY <2>3, <4>1, <4>2 DEF IInv, Contents1
    <3> QED
      BY <3>1, <3>2
  <2>14. TypeOK'
    BY <1>2, <2>3, <2>6 DEF Enrol, IInv, TypeOK, f
  <2> QED
    BY <1>2, <2>3, <2>12, <2>13, <2>14
       DEF IInv, Stored1, Listed, Answered, Round, Valid
<1> QED
  BY <1>1, <1>2 DEF Enrol

(* The block of the removed entry becomes free with the slot. *)
LEMMA DeleteStep == ASSUME IInv, Delete PROVE IInv'
<1> USE UpdateAssumption DEF identvars, countvars
<1>1. PICK s \in Valid(slots) :
          /\ heap' = [heap EXCEPT ![slots[s].tpl] = Free]
          /\ slots' = [slots EXCEPT ![s] = NoEntry]
  BY DEF Delete
<1> DEFINE b == slots[s].tpl
<1>2. /\ pc = "idle" /\ pc' = "store"
      /\ UNCHANGED <<list, cand, answer, hit, upd, found, file, lost, spoiled, fingers, faults>>
  BY DEF Delete
<1>3. s \in Index /\ b \in Blocks /\ b \in Owned /\ b \notin lost /\ heap[b] # Free
  BY Facts DEF Valid
<1> HIDE DEF b
<1>4. heap' = [heap EXCEPT ![b] = Free]
  BY <1>1 DEF b
<1>5. /\ slots' \in [Index -> [id : 0 .. MaxFingers, tpl : Blocks \cup {Null}]]
      /\ heap' \in [Blocks -> Contents]
  <2>1. slots \in [Index -> Entries] /\ heap \in [Blocks -> Contents]
    BY DEF IInv, TypeOK, Entries
  <2>2. NoEntry \in Entries /\ Free \in Contents
    BY ContentFacts DEF NoEntry, Entries
  <2>3. slots' \in [Index -> Entries]
    BY <1>1, <2>1, <2>2
  <2>4. heap' \in [Blocks -> Contents]
    BY <1>4, <2>1, <2>2
  <2> QED
    BY <2>3, <2>4 DEF Entries
<1>6. /\ slots'[s].id = 0 /\ slots'[s].tpl = Null
      /\ \A i \in Index : i # s => slots'[i] = slots[i]
  BY <1>1, <1>3 DEF IInv, TypeOK, NoEntry
<1>7. Valid(slots') = Valid(slots) \ {s}
  BY <1>3, <1>5, <1>6, Facts DEF Valid
<1>8. \A i \in Valid(slots') : i \in Valid(slots) /\ slots'[i] = slots[i] /\ slots[i].tpl # b
  BY <1>3, <1>6, <1>7, Facts DEF IInv, Blocks1, b, Valid
<1>9. Owned' = Owned \ {b}
  <2>1. Null \notin Owned' /\ Null \notin Owned
    BY DEF Owned
  <2>2. \A c \in Owned' : c \in Owned /\ c # b
    <3> SUFFICES ASSUME NEW i \in Index, slots'[i].tpl # Null
                 PROVE  slots'[i].tpl \in Owned /\ slots'[i].tpl # b
      BY DEF Owned
    <3>1. i # s /\ slots'[i] = slots[i] /\ i \in Valid(slots)
      BY <1>6, Facts DEF IInv, Blocks1
    <3> QED
      BY <1>7, <1>8, <3>1, Facts
  <2>3. \A c \in Owned : c # b => c \in Owned'
    <3> SUFFICES ASSUME NEW i \in Valid(slots), slots[i].tpl # b
                 PROVE  slots[i].tpl \in Owned'
      BY Facts
    <3>1. i \in Index /\ slots'[i] = slots[i] /\ slots[i].tpl # Null
      BY <1>6, Facts DEF b
    <3> QED
      BY <3>1 DEF Owned
  <2> QED
    BY <2>2, <2>3
<1>10. Held' = Held \ {b}
  BY <1>4 DEF Held, IInv, TypeOK
<1>11. Blocks1'
  <2>1. \A i \in Index : slots'[i].id = 0 <=> slots'[i].tpl = Null
    BY <1>6 DEF IInv, Blocks1
  <2>2. \A i, j \in Valid(slots') : slots'[i].tpl = slots'[j].tpl => i = j
    BY <1>8 DEF IInv, Blocks1
  <2>3. Owned' \cap lost' = {} /\ Held' = Owned' \cup lost'
    BY <1>2, <1>3, <1>9, <1>10 DEF IInv, Blocks1
  <2> QED
    BY <2>1, <2>2, <2>3 DEF Blocks1
<1>12. Contents1'
  <2>1. \A i \in Valid(slots') : heap'[slots'[i].tpl] = heap[slots[i].tpl]
    BY <1>4, <1>8, Facts DEF IInv, TypeOK
  <2> QED
    BY <1>2, <1>8, <2>1 DEF IInv, Contents1
<1>13. TypeOK'
  BY <1>2, <1>5 DEF IInv, TypeOK
<1> QED
  BY <1>2, <1>11, <1>12, <1>13 DEF IInv, Stored1, Listed, Answered, Round, Valid

(* The file gets what the blocks of the valid entries hold. *)
LEMMA StoreStep == ASSUME IInv, Store PROVE IInv'
<1> USE UpdateAssumption DEF identvars
<1>1. /\ pc \in {"store", "up_store"} /\ pc' \in {"idle", "reload"}
      /\ UNCHANGED <<slots, heap, list, cand, answer, hit, upd, found, lost, spoiled, fingers>>
  BY DEF Store
<1>2. faults' \in 0 .. MaxFaults
  BY DEF Store, Fault, IInv, TypeOK
<1>3. CASE UNCHANGED file
  <2>1. TypeOK'
    BY <1>1, <1>2, <1>3 DEF IInv, TypeOK
  <2> QED
    BY <1>1, <1>3, <2>1, Quiet
<1>4. CASE file' = Packed
  <2>1. \A i \in Index : /\ file'[i].id = slots[i].id
                         /\ file'[i].tpl = IF slots[i].id = 0 THEN Free ELSE heap[slots[i].tpl]
    BY <1>4 DEF Packed
  <2>2. file' \in [Index -> [id : 0 .. MaxFingers, tpl : Contents]]
    <3> SUFFICES ASSUME NEW i \in Index
                 PROVE  /\ slots[i].id \in 0 .. MaxFingers
                        /\ (IF slots[i].id = 0 THEN Free ELSE heap[slots[i].tpl]) \in Contents
      BY <1>4 DEF Packed
    <3>1. slots[i].id # 0 => slots[i].tpl \in Blocks
      BY Facts
    <3> QED
      BY <3>1, Facts, ContentFacts DEF IInv, TypeOK
  <2>3. Valid(file') = Valid(slots)
    BY <2>1, <2>2, Facts DEF Valid
  <2>4. Stored1'
    BY <1>1, <2>1, <2>3, Facts DEF IInv, Stored1, Contents1
  <2>5. TypeOK'
    BY <1>1, <1>2, <2>2 DEF IInv, TypeOK
  <2> QED
    BY <1>1, <2>4, <2>5
       DEF IInv, Blocks1, Contents1, Listed, Answered, Round, Owned, Held, Valid
<1> QED
  BY <1>3, <1>4 DEF Store

(* What the file holds can be loaded. *)
LEMMA FileFacts ==
    ASSUME IInv
    PROVE  /\ Valid(file) \subseteq Index
           /\ \A i \in Valid(file) :
                 /\ file[i].id \in 1 .. MaxFingers /\ file[i].tpl \in Contents
                 /\ file[i].tpl # Free /\ OfFinger(file[i].tpl, file[i].id)
                 /\ file[i].tpl = Raw => file[i].id \in spoiled
<1> USE UpdateAssumption
<1>1. Valid(file) \subseteq Index /\ \A i \in Valid(file) : file[i].id # 0
  BY DEF Valid
<1>2. CASE file = NoFile
  BY <1>2 DEF Valid, NoFile
<1>3. CASE file \in [Index -> [id : 0 .. MaxFingers, tpl : Contents]]
  <2>1. \A i \in Valid(file) : file[i].id \in 1 .. MaxFingers /\ file[i].tpl \in Contents
    BY <1>1, <1>3
  <2>2. \A i \in Valid(file) :
            OfFinger(file[i].tpl, file[i].id) /\ (file[i].tpl = Raw => file[i].id \in spoiled)
    BY DEF IInv, Stored1
  <2>3. \A i \in Valid(file) : file[i].tpl # Free
    BY <2>1, <2>2, ContentFacts DEF OfFinger
  <2> QED
    BY <1>1, <2>1, <2>2, <2>3
<1> QED
  BY <1>2, <1>3 DEF IInv, TypeOK

(* An empty database owns nothing. *)
LEMMA EmptySlots ==
    ASSUME slots' = [i \in Index |-> NoEntry]
    PROVE  /\ slots' \in [Index -> Entries] /\ Valid(slots') = {} /\ Owned' = {}
           /\ \A i \in Index : slots'[i].id = 0 /\ slots'[i].tpl = Null
<1> USE UpdateAssumption
<1>1. \A i \in Index : slots'[i].id = 0 /\ slots'[i].tpl = Null
  BY DEF NoEntry
<1> QED
  BY <1>1 DEF Valid, Owned, Entries, NoEntry

(* The database in memory is destroyed, blocks included, before an empty one takes its place. *)
LEMMA LoadEmptyStep == ASSUME IInv, LoadEmpty PROVE IInv'
<1> USE UpdateAssumption DEF identvars, countvars
<1>1. /\ pc' = "idle" /\ UNCHANGED <<identvars, file, lost, spoiled, fingers, faults>>
      /\ slots' = [i \in Index |-> NoEntry]
      /\ heap' = [b \in Blocks |-> IF b \in Owned THEN Free ELSE heap[b]]
  BY DEF LoadEmpty
<1>2. /\ slots' \in [Index -> Entries] /\ Valid(slots') = {} /\ Owned' = {}
      /\ \A i \in Index : slots'[i].id = 0 /\ slots'[i].tpl = Null
  BY <1>1, EmptySlots
<1>3. heap' \in [Blocks -> Contents]
  BY <1>1, ContentFacts DEF IInv, TypeOK
<1>4. Held' = lost
  BY <1>1, Facts DEF Held, IInv, TypeOK, Blocks1
<1>5. TypeOK'
  BY <1>1, <1>2, <1>3 DEF IInv, TypeOK, Entries
<1> QED
  BY <1>1, <1>2, <1>4, <1>5
     DEF IInv, Blocks1, Contents1, Stored1, Listed, Answered, Round, Valid

(* A restart frees the whole heap and keeps the file. *)
LEMMA RestartStep == ASSUME IInv, Restart PROVE IInv'
<1> USE UpdateAssumption DEF countvars
<1>1. /\ pc' = "boot" /\ UNCHANGED <<file, spoiled, fingers, faults>>
      /\ slots' = [i \in Index |-> NoEntry]
      /\ heap' = [b \in Blocks |-> Free] /\ list' = <<>> /\ NoIdent /\ lost' = {}
  BY DEF Restart
<1>2. /\ slots' \in [Index -> Entries] /\ Valid(slots') = {} /\ Owned' = {}
      /\ \A i \in Index : slots'[i].id = 0 /\ slots'[i].tpl = Null
  BY <1>1, EmptySlots
<1>3. heap' \in [Blocks -> Contents] /\ Held' = {}
  BY <1>1, ContentFacts DEF Held
<1>4. TypeOK'
  <2>1. list' \in Seq(Blocks)
    BY <1>1, EmptySeq
  <2> QED
    BY <1>1, <1>2, <1>3, <2>1, NoIdentType DEF IInv, TypeOK, Entries
<1> QED
  BY <1>1, <1>2, <1>3, <1>4
     DEF IInv, Blocks1, Contents1, Stored1, Listed, Answered, Round, Valid

(* A load gives each entry of the file a block of its own. *)
LEMMA LoadStep == ASSUME IInv, Load PROVE IInv'
<1> USE UpdateAssumption DEF identvars, countvars
<1>1. /\ pc' = "idle" /\ UNCHANGED <<identvars, file, spoiled, fingers, faults>>
      /\ lost' = lost \cup Owned
  BY DEF Load
<1> DEFINE V == Valid(file)
<1>2. PICK to \in [V -> Blocks] :
          /\ \A i \in V : Malloc(to[i])
          /\ \A i, j \in V : to[i] = to[j] => i = j
          /\ heap' = [b \in Blocks |->
                IF \E i \in V : to[i] = b
                THEN file[CHOOSE i \in V : to[i] = b].tpl ELSE heap[b]]
          /\ slots' = [i \in Index |->
                IF i \in V THEN [id |-> file[i].id, tpl |-> to[i]] ELSE NoEntry]
  BY DEF Load
<1>3. /\ V \subseteq Index
      /\ \A i \in V : /\ file[i].id \in 1 .. MaxFingers /\ file[i].tpl \in Contents
                      /\ file[i].tpl # Free /\ OfFinger(file[i].tpl, file[i].id)
                      /\ file[i].tpl = Raw => file[i].id \in spoiled
  BY FileFacts
<1> HIDE DEF V
<1>4. \A i \in V : heap[to[i]] = Free /\ to[i] \notin Owned /\ to[i] \notin lost
  BY <1>2, Facts DEF Malloc
<1>5. \A i \in V : heap'[to[i]] = file[i].tpl
  <2> TAKE i \in V
  <2>1. (CHOOSE k \in V : to[k] = to[i]) = i
    BY <1>2
  <2> QED
    BY <1>2, <2>1
<1>6. \A b \in Blocks : (\A i \in V : to[i] # b) => heap'[b] = heap[b]
  BY <1>2
<1>7. /\ \A i \in V : slots'[i].id = file[i].id /\ slots'[i].tpl = to[i]
      /\ \A i \in Index \ V : slots'[i].id = 0 /\ slots'[i].tpl = Null
  BY <1>2, <1>3 DEF NoEntry
<1>8. slots' \in [Index -> Entries]
  <2> SUFFICES ASSUME NEW i \in Index
               PROVE  (IF i \in V THEN [id |-> file[i].id, tpl |-> to[i]] ELSE NoEntry) \in Entries
    BY <1>2
  <2> QED
    BY <1>2, <1>3 DEF NoEntry, Entries
<1>9. heap' \in [Blocks -> Contents]
  <2> SUFFICES ASSUME NEW b \in Blocks PROVE heap'[b] \in Contents
    BY <1>2
  <2> QED
    BY <1>3, <1>5, <1>6 DEF IInv, TypeOK
<1>10. Valid(slots') = V
  <2>1. \A i \in V : slots'[i].id # 0
    BY <1>3, <1>7
  <2> QED
    BY <1>3, <1>7, <1>8, <2>1 DEF Valid
<1>11. Owned' = {to[i] : i \in V}
  <2>1. \A i \in V : i \in Index /\ to[i] # Null
    BY <1>2, <1>3
  <2> QED
    BY <1>7, <2>1 DEF Owned
<1>12. Blocks1'
  <2>1. \A i \in Index : slots'[i].id = 0 <=> slots'[i].tpl = Null
    BY <1>2, <1>3, <1>7
  <2>2. \A i, j \in Valid(slots') : slots'[i].tpl = slots'[j].tpl => i = j
    BY <1>2, <1>7, <1>10
  <2>3. Owned' \cap lost' = {}
    BY <1>1, <1>4, <1>11
  <2>4. \A b \in Blocks : heap'[b] # Free <=> b \in Owned' \cup lost'
    <3> TAKE b \in Blocks
    <3>1. CASE b \in Owned'
      BY <1>3, <1>5, <1>11, <3>1
    <3>2. CASE b \notin Owned'
      <4>1. heap'[b] = heap[b]
        BY <1>6, <1>11, <3>2
      <4> QED
        BY <1>1, <3>2, <4>1, Facts
    <3> QED
      BY <3>1, <3>2
  <2>5. Owned' \subseteq Blocks /\ lost' \subseteq Blocks
    BY <1>1, <1>2, <1>11, Facts DEF IInv, TypeOK
  <2>6. Held' = Owned' \cup lost'
    BY <2>4, <2>5 DEF Held
  <2> QED
    BY <2>1, <2>2, <2>3, <2>6 DEF Blocks1
<1>13. Contents1'
  BY <1>1, <1>3, <1>5, <1>7, <1>10 DEF Contents1
<1>14. TypeOK'
  <2>1. lost' \subseteq Blocks
    BY <1>1, Facts DEF IInv, TypeOK
  <2> QED
    BY <1>1, <1>8, <1>9, <2>1 DEF IInv, TypeOK, Entries
<1> QED
  BY <1>1, <1>12, <1>13, <1>14 DEF IInv, Stored1, Listed, Answered, Round, Valid

-----------------------------------------------------------------------------
(* The identification. *)

(* fpc_db_get_all_templates lists each valid entry's block once. *)
LEMMA ListFacts ==
    ASSUME IInv
    PROVE  /\ Cardinality(Valid(slots)) \in 0 .. Slots
           /\ AllTemplates \in Seq(Blocks)
           /\ Len(AllTemplates) = Cardinality(Valid(slots))
           /\ \A n \in 1 .. Cardinality(Valid(slots)) :
                 NthValid(n) \in Valid(slots) /\ AllTemplates[n] = slots[NthValid(n)].tpl
           /\ \A m, n \in 1 .. Cardinality(Valid(slots)) :
                 AllTemplates[m] = AllTemplates[n] => m = n
<1> USE UpdateAssumption
<1> DEFINE V == Valid(slots)
           N == Cardinality(V)
<1>1. /\ V \in SUBSET Nat /\ Slots - 1 \in Nat /\ \A i \in V : i <= Slots - 1
  BY DEF Valid, Index
<1> HIDE DEF V
<1>2. IsFiniteSet(V) /\ N <= (Slots - 1) + 1
  BY <1>1, FS_BoundedSetOfNaturals
<1>3. N \in Nat
  BY <1>2, FS_CardinalityType
<1>4. N \in 0 .. Slots
  BY <1>2, <1>3
<1> HIDE DEF N
<1>5. ASSUME NEW n \in 1 .. N
      PROVE  NthValid(n) \in V /\ Cardinality({j \in V : j < NthValid(n)}) = n - 1
  <2>1. \E i \in V : Cardinality({j \in V : j < i}) = n - 1
    BY <1>1, NthOf DEF N
  <2> QED
    BY <2>1 DEF NthValid, V
<1>6. AllTemplates = [n \in 1 .. N |-> slots[NthValid(n)].tpl]
  BY DEF AllTemplates, N, V
<1>7. \A n \in 1 .. N : slots[NthValid(n)].tpl \in Blocks
  BY <1>5, Facts DEF V
<1>8. AllTemplates \in Seq(Blocks) /\ Len(AllTemplates) = N
  BY <1>3, <1>6, <1>7, IsASeq
<1>9. ASSUME NEW m \in 1 .. N, NEW n \in 1 .. N, AllTemplates[m] = AllTemplates[n]
      PROVE  m = n
  <2>1. NthValid(m) = NthValid(n)
    BY <1>5, <1>6, <1>9 DEF IInv, Blocks1, V
  <2>2. m - 1 = n - 1
    BY <1>5, <2>1
  <2> QED
    BY <2>2
<1> QED
  BY <1>4, <1>5, <1>6, <1>8, <1>9 DEF N, V

(* fpc_db_set_template_first moves entries, one to one. *)
LEMMA FirstMoves ==
    ASSUME IInv, NEW p \in Index,
           slots' = [i \in Index |-> IF i = 0 THEN slots[p]
                                     ELSE IF i <= p THEN slots[i - 1] ELSE slots[i]]
    PROVE  \E fr, to \in [Index -> Index] :
              \A i \in Index : fr[to[i]] = i /\ to[fr[i]] = i /\ slots'[i] = slots[fr[i]]
<1> USE UpdateAssumption
<1> DEFINE fr == [i \in Index |-> IF i = 0 THEN p ELSE IF i <= p THEN i - 1 ELSE i]
           to == [i \in Index |-> IF i = p THEN 0 ELSE IF i < p THEN i + 1 ELSE i]
<1>1. fr \in [Index -> Index] /\ to \in [Index -> Index]
  BY DEF Index
<1>2. \A i \in Index : fr[to[i]] = i /\ to[fr[i]] = i
  BY DEF Index
<1>3. \A i \in Index : slots'[i] = slots[fr[i]]
  OBVIOUS
<1> HIDE DEF fr, to
<1> QED
  BY <1>1, <1>2, <1>3

(* The list position the algorithm answers with is the slot of its finger. *)
LEMMA IdentifyStep == ASSUME IInv, Identify PROVE IInv'
<1> USE UpdateAssumption DEF countvars
<1>1. /\ pc = "idle" /\ pc' = "answered"
      /\ UNCHANGED <<heap, file, lost, spoiled, fingers, faults>>
      /\ list' = AllTemplates
      /\ cand' = [n \in 1 .. Len(list') |-> heap[list'[n]]]
      /\ upd' = <<>> /\ found' = <<>>
  BY DEF Identify
<1> DEFINE N == Cardinality(Valid(slots))
<1>2. /\ N \in 0 .. Slots /\ list' \in Seq(Blocks) /\ Len(list') = N
      /\ \A n \in 1 .. N : NthValid(n) \in Valid(slots) /\ list'[n] = slots[NthValid(n)].tpl
      /\ \A m, n \in 1 .. N : list'[m] = list'[n] => m = n
  BY <1>1, ListFacts
<1> HIDE DEF N
<1>3. \A n \in 1 .. N : cand'[n] = heap[list'[n]] /\ heap[list'[n]] \in Contents
  BY <1>1, <1>2, Facts DEF IInv, TypeOK
<1>4. cand' \in Seq(Contents) /\ Len(cand') = N
  <2>1. cand' = [n \in 1 .. N |-> heap[list'[n]]] /\ N \in Nat
    BY <1>1, <1>2
  <2> QED
    BY <1>3, <2>1, IsASeq
<1>5. \A n \in 1 .. N : IsTemplate(cand'[n]) => cand'[n].finger = slots[NthValid(n)].id
  BY <1>2, <1>3, ContentFacts DEF IInv, Contents1, OfFinger, IsTemplate
<1>6. /\ hit' \in 0 .. N
      /\ hit' # 0 => IsTemplate(cand'[hit']) /\ answer' = slots[NthValid(hit')].id
      /\ hit' = 0 => answer' = 0
  <2>1. CASE hit' = 0 /\ answer' = 0 /\ UNCHANGED slots
    BY <1>2, <2>1
  <2>2. ASSUME NEW n \in 1 .. N, IsTemplate(cand'[n]), hit' = n, answer' = Answer(list', n)
        PROVE  hit' \in 1 .. N /\ IsTemplate(cand'[hit']) /\ answer' = slots[NthValid(hit')].id
    <3>1. IndexOfTemplate(list'[n]) = NthValid(n)
      BY <1>2, <2>2 DEF IndexOfTemplate, IInv, Blocks1
    <3> QED
      BY <2>2, <3>1 DEF Answer
  <2> QED
    BY <1>2, <2>1, <2>2 DEF Identify
<1>7. PICK fr \in [Index -> Index], to \in [Index -> Index] :
          \A i \in Index : fr[to[i]] = i /\ to[fr[i]] = i /\ slots'[i] = slots[fr[i]]
  <2>1. CASE UNCHANGED slots
    <3> DEFINE id == [i \in Index |-> i]
    <3>1. /\ id \in [Index -> Index]
          /\ \A i \in Index : id[id[i]] = i /\ slots'[i] = slots[id[i]]
      BY <2>1
    <3> QED
      BY <3>1
  <2>2. ASSUME NEW n \in 1 .. N, slots' = SetTemplateFirst(n)
        PROVE  \E f, t \in [Index -> Index] :
                  \A i \in Index : f[t[i]] = i /\ t[f[i]] = i /\ slots'[i] = slots[f[i]]
    <3>1. n - 1 \in Index
      BY <1>2 DEF Index
    <3> QED
      BY <2>2, <3>1, FirstMoves DEF SetTemplateFirst
  <2> QED
    BY <1>2, <2>1, <2>2 DEF Identify
<1>8. slots' \in [Index -> Entries]
  <2>1. slots \in [Index -> Entries]
    BY DEF IInv, TypeOK, Entries
  <2>2. \A i \in Index : slots'[i] \in Entries
    BY <1>7, <2>1
  <2>3. slots' = [i \in Index |-> slots'[i]]
    BY <2>1 DEF Identify, SetTemplateFirst
  <2> QED
    BY <2>2, <2>3
<1>9. \A i \in Index : i \in Valid(slots') <=> fr[i] \in Valid(slots)
  BY <1>7, <1>8, Facts DEF Valid
<1>10. Valid(slots') \subseteq Index /\ Valid(slots) \subseteq Index
  BY DEF Valid
<1>11. Owned' = Owned
  <2>1. \A i \in Index : slots'[i].tpl = slots[fr[i]].tpl /\ fr[i] \in Index
    BY <1>7
  <2>2. \A i \in Index : slots[i].tpl = slots'[to[i]].tpl /\ to[i] \in Index
    BY <1>7
  <2> QED
    BY <2>1, <2>2 DEF Owned
<1>12. Blocks1'
  <2>1. \A i \in Index : slots'[i].id = 0 <=> slots'[i].tpl = Null
    BY <1>7 DEF IInv, Blocks1
  <2>2. ASSUME NEW i \in Valid(slots'), NEW j \in Valid(slots'), slots'[i].tpl = slots'[j].tpl
        PROVE  i = j
    <3>1. fr[i] = fr[j]
      BY <1>7, <1>9, <1>10, <2>2 DEF IInv, Blocks1
    <3> QED
      BY <1>7, <1>10, <3>1
  <2>3. Held' = Held
    BY <1>1 DEF Held
  <2> QED
    BY <1>1, <1>11, <2>1, <2>2, <2>3 DEF IInv, Blocks1
<1>13. Contents1'
  BY <1>1, <1>7, <1>9, <1>10 DEF IInv, Contents1
<1>14. ASSUME NEW n \in 1 .. N, IsTemplate(cand'[n]) PROVE FoundAt(n)'
  <2>1. /\ to[NthValid(n)] \in Valid(slots')
        /\ slots'[to[NthValid(n)]] = slots[NthValid(n)]
    BY <1>2, <1>7, <1>9, <1>10
  <2> QED
    BY <1>2, <1>5, <1>14, <2>1 DEF FoundAt
<1>15. Answered'
  BY <1>1, <1>2, <1>5, <1>6, <1>14 DEF Answered
<1>16. TypeOK'
  <2>1. hit' \in 0 .. Slots
    BY <1>2, <1>6
  <2>2. answer' \in 0 .. MaxFingers
    <3>1. hit' # 0 => NthValid(hit') \in Index
      BY <1>2, <1>6, <1>10
    <3> QED
      BY <1>6, <3>1, Facts
  <2>3. upd' \in Seq(1 .. Slots) /\ found' \in Seq(Index)
    BY <1>1, EmptySeq
  <2> QED
    BY <1>1, <1>2, <1>4, <1>8, <2>1, <2>2, <2>3 DEF IInv, TypeOK, Entries
<1> QED
  BY <1>1, <1>2, <1>4, <1>12, <1>13, <1>15, <1>16 DEF IInv, Stored1, Listed, Round, Valid

-----------------------------------------------------------------------------
(* The update. *)

(* The blocks to update are those of different slots. *)
LEMMA UpdateStartStep == ASSUME IInv, UpdateStart PROVE IInv'
<1> USE UpdateAssumption DEF countvars
<1>1. /\ pc = "answered" /\ pc' = "update"
      /\ UNCHANGED <<slots, heap, list, cand, answer, hit, found, file, lost, spoiled,
                     fingers, faults>>
  BY DEF UpdateStart
<1>k. PICK k \in 1 .. Len(list) : \E s \in [1 .. k -> 1 .. Len(list)] :
          /\ \A x, y \in 1 .. k : s[x] = s[y] => x = y
          /\ \A x \in 1 .. k : IsTemplate(cand[s[x]]) /\ cand[s[x]].gen < MaxGen
          /\ upd' = s
  BY DEF UpdateStart
<1>2. PICK s \in [1 .. k -> 1 .. Len(list)] :
          /\ \A x, y \in 1 .. k : s[x] = s[y] => x = y
          /\ \A x \in 1 .. k : IsTemplate(cand[s[x]]) /\ cand[s[x]].gen < MaxGen
          /\ upd' = s
  BY <1>k
<1>3. Len(list) \in Nat /\ Len(list) <= Slots /\ found = <<>> /\ Len(found) = 0
  BY <1>1, LenProperties, EmptySeq DEF IInv, TypeOK, Listed, Answered
<1>4. k \in Nat /\ upd' \in Seq(1 .. Len(list)) /\ Len(upd') = k
  BY <1>2, <1>3, IsASeq
<1>5. upd' \in Seq(1 .. Slots)
  <2>1. 1 .. Len(list) \subseteq 1 .. Slots
    BY <1>3
  <2> QED
    BY <1>4, <2>1, SeqMonotonic
<1>6. \A x \in 1 .. k : FoundAt(s[x])
  BY <1>1, <1>2 DEF IInv, Answered
<1>7. Round'
  BY <1>1, <1>2, <1>3, <1>4, <1>6 DEF Round, FoundAt
<1>8. TypeOK'
  BY <1>1, <1>5 DEF IInv, TypeOK
<1> QED
  BY <1>1, <1>7, <1>8
     DEF IInv, Blocks1, Contents1, Stored1, Listed, Answered, Owned, Held, Valid

(* The ids whose templates a failed update loses. *)
LEMMA FoundFacts ==
    ASSUME IInv, pc = "update"
    PROVE  /\ DOMAIN found = 1 .. Len(found) /\ Len(found) \in Nat
           /\ FoundIds \subseteq 1 .. MaxFingers
           /\ \A x \in 1 .. Len(found) : slots[found[x]].id \in FoundIds
<1>1. found \in Seq(Index) /\ DOMAIN found = 1 .. Len(found) /\ Len(found) \in Nat
  BY LenProperties DEF IInv, TypeOK
<1>2. \A x \in 1 .. Len(found) : found[x] \in Valid(slots)
  BY DEF IInv, Round
<1>3. \A i \in Valid(slots) : slots[i].id \in 1 .. MaxFingers
  BY Facts, UpdateAssumption
<1> QED
  BY <1>1, <1>2, <1>3 DEF FoundIds

(* A failed update excuses the ids whose blocks are not written. *)
LEMMA UpdateFails == ASSUME IInv, UpdateNoMemory \/ UpdateFillFails PROVE IInv'
<1> USE UpdateAssumption DEF identvars
<1>1. /\ pc = "update" /\ pc' \in {"no_memory", "idle"} /\ spoiled' = spoiled \cup FoundIds
      /\ UNCHANGED <<slots, heap, list, file, lost, fingers>>
  BY DEF UpdateNoMemory, UpdateFillFails
<1>2. faults' \in 0 .. MaxFaults
  BY DEF UpdateNoMemory, UpdateFillFails, Fault, IInv, TypeOK
<1>3. TypeOK'
  <2>1. spoiled' \subseteq 1 .. MaxFingers
    BY <1>1, FoundFacts DEF IInv, TypeOK
  <2>2. CASE UpdateNoMemory
    BY <1>1, <1>2, <2>1, <2>2 DEF UpdateNoMemory, IInv, TypeOK
  <2>3. CASE UpdateFillFails
    <3>1. NoIdent
      BY <2>3 DEF UpdateFillFails
    <3> QED
      BY <1>1, <1>2, <2>1, <3>1, NoIdentType DEF IInv, TypeOK
  <2> QED
    BY <2>2, <2>3
<1>4. Contents1'
  BY <1>1, FoundFacts DEF IInv, Contents1, Valid
<1>5. Stored1'
  BY <1>1 DEF IInv, Stored1, Valid
<1> QED
  BY <1>1, <1>3, <1>4, <1>5 DEF IInv, Blocks1, Listed, Answered, Round, Owned, Held, Valid

(* One entry changes its block for a fresh one; the old one is freed. *)
LEMMA UpdateAllocStep == ASSUME IInv, UpdateAlloc PROVE IInv'
<1> USE UpdateAssumption DEF countvars
<1> DEFINE k == Len(found) + 1
           s == IndexOfTemplate(list[upd[k]])
           old == slots[s].tpl
<1>1. /\ pc = "update" /\ pc' = pc /\ Len(found) < Len(upd)
      /\ UNCHANGED <<list, cand, answer, hit, upd, file, lost, spoiled, fingers, faults>>
  BY DEF UpdateAlloc
<1>2. PICK b \in Blocks :
          /\ heap[b] = Free
          /\ heap' = [heap EXCEPT ![b] = Raw, ![old] = Free]
          /\ slots' = [slots EXCEPT ![s].tpl = b]
          /\ found' = Append(found, s)
  BY DEF UpdateAlloc, Malloc
<1>3. /\ found \in Seq(Index) /\ Len(found) \in Nat /\ Len(upd) \in Nat
      /\ upd \in Seq(1 .. Len(list)) /\ k \in 1 .. Len(upd)
      /\ \A x \in 1 .. Len(upd) : upd[x] \in 1 .. Len(list)
  <2>1. found \in Seq(Index) /\ upd \in Seq(1 .. Len(list))
    BY <1>1 DEF IInv, TypeOK, Round
  <2>2. Len(found) \in Nat /\ Len(upd) \in Nat
    BY <2>1, LenProperties
  <2> QED
    BY <1>1, <2>1, <2>2, ElementOfSeq
<1>4. /\ s \in Valid(slots) /\ old = list[upd[k]] /\ slots[s].id = cand[upd[k]].finger
      /\ \A y \in 1 .. Len(found) : slots[found[y]].tpl # old
  <2>1. FoundAt(upd[k]) /\ \A y \in 1 .. Len(found) : slots[found[y]].tpl # list[upd[k]]
    <3>1. \A x \in Len(found) + 1 .. Len(upd) :
              FoundAt(upd[x]) /\ \A y \in 1 .. Len(found) : slots[found[y]].tpl # list[upd[x]]
      BY <1>1 DEF IInv, Round
    <3>2. k \in Len(found) + 1 .. Len(upd)
      BY <1>1, <1>3
    <3> HIDE DEF k
    <3> QED
      BY <3>1, <3>2
  <2>2. PICK i \in Valid(slots) : slots[i].tpl = list[upd[k]] /\ slots[i].id = cand[upd[k]].finger
    BY <2>1 DEF FoundAt
  <2>3. s = i
    BY <2>2 DEF IndexOfTemplate, IInv, Blocks1
  <2> QED
    BY <2>1, <2>2, <2>3
<1> HIDE DEF s, old, k
<1>5. /\ s \in Index /\ old \in Blocks /\ old \in Owned /\ old \notin lost /\ old = slots[s].tpl
      /\ b # old /\ b \notin Owned /\ b \notin lost
  BY <1>2, <1>4, Facts DEF old, Valid
<1>6. /\ heap' \in [Blocks -> Contents] /\ heap'[b] = Raw /\ heap'[old] = Free
      /\ \A c \in Blocks : c # b /\ c # old => heap'[c] = heap[c]
  <2>1. heap \in [Blocks -> Contents] /\ Raw \in Contents /\ Free \in Contents
    BY ContentFacts DEF IInv, TypeOK
  <2> QED
    BY <1>2, <1>5, <2>1
<1>7. /\ slots' \in [Index -> Entries]
      /\ slots'[s].tpl = b /\ slots'[s].id = slots[s].id
      /\ \A i \in Index : i # s => slots'[i] = slots[i]
      /\ \A i \in Index : slots'[i].id = slots[i].id
  <2>1. slots \in [Index -> Entries]
    BY DEF IInv, TypeOK, Entries
  <2> QED
    BY <1>2, <1>5, <2>1 DEF Entries
<1>8. Valid(slots') = Valid(slots) /\ Valid(slots) \subseteq Index
  BY <1>7, Facts DEF Valid
<1>9. \A i \in Valid(slots) : i # s => slots[i].tpl # old /\ slots[i].tpl # b
  BY <1>4, <1>5, Facts DEF IInv, Blocks1
<1>10. Owned' = (Owned \ {old}) \cup {b}
  <2>1. \A c \in Owned' : c \in (Owned \ {old}) \cup {b}
    <3> SUFFICES ASSUME NEW i \in Index, slots'[i].tpl # Null, i # s
                 PROVE  slots'[i].tpl \in Owned /\ slots'[i].tpl # old
      BY <1>7 DEF Owned
    <3>1. slots'[i] = slots[i] /\ i \in Valid(slots)
      BY <1>7, Facts DEF IInv, Blocks1
    <3> QED
      BY <1>9, <3>1, Facts
  <2>2. \A c \in Owned : c # old => c \in Owned'
    <3> SUFFICES ASSUME NEW i \in Valid(slots), slots[i].tpl # old
                 PROVE  slots[i].tpl \in Owned'
      BY Facts
    <3>1. i \in Index /\ i # s /\ slots'[i] = slots[i] /\ slots[i].tpl # Null
      BY <1>5, <1>7, <1>8, Facts
    <3> QED
      BY <3>1 DEF Owned
  <2>3. b \in Owned'
    BY <1>5, <1>7 DEF Owned
  <2> QED
    BY <2>1, <2>2, <2>3
<1>11. Held' = (Held \ {old}) \cup {b}
  BY <1>5, <1>6, ContentFacts DEF Held
<1>12. Blocks1'
  <2>1. \A i \in Index : slots'[i].id = 0 <=> slots'[i].tpl = Null
    BY <1>4, <1>7, Facts DEF IInv, Blocks1
  <2>2. \A i, j \in Valid(slots') : slots'[i].tpl = slots'[j].tpl => i = j
    BY <1>7, <1>8, <1>9 DEF IInv, Blocks1
  <2>3. Owned' \cap lost' = {} /\ Held' = Owned' \cup lost'
    BY <1>1, <1>5, <1>10, <1>11 DEF IInv, Blocks1
  <2> QED
    BY <2>1, <2>2, <2>3 DEF Blocks1
<1>13. /\ found' \in Seq(Index) /\ Len(found') = k
       /\ found'[k] = s /\ \A x \in 1 .. Len(found) : found'[x] = found[x]
  BY <1>2, <1>3, <1>5, AppendProperties DEF k
<1>14. /\ k \in Nat /\ \A x \in 1 .. k : x = k \/ x \in 1 .. Len(found)
       /\ \A x \in k + 1 .. Len(upd) : x \in k .. Len(upd) /\ x # k /\ x \in 1 .. Len(upd)
       /\ \A x \in 1 .. Len(found) : x \in 1 .. k /\ x # k /\ x \in 1 .. Len(upd)
       /\ k = Len(found) + 1
  BY <1>1, <1>3 DEF k
<1>15. Contents1'
  <2> SUFFICES ASSUME NEW i \in Valid(slots)
               PROVE  /\ OfFinger(heap'[slots'[i].tpl], slots'[i].id)
                      /\ heap'[slots'[i].tpl] = Raw =>
                            \/ slots'[i].id \in spoiled
                            \/ \E x \in 1 .. k : found'[x] = i
    BY <1>1, <1>8, <1>13 DEF Contents1
  <2>1. CASE i = s
    <3>1. k \in 1 .. k
      BY <1>3
    <3> QED
      BY <1>6, <1>7, <1>13, <2>1, <3>1 DEF OfFinger
  <2>2. CASE i # s
    <3>1. slots'[i] = slots[i] /\ heap'[slots[i].tpl] = heap[slots[i].tpl]
      BY <1>6, <1>7, <1>8, <1>9, <2>2, Facts
    <3>2. /\ OfFinger(heap[slots[i].tpl], slots[i].id)
          /\ heap[slots[i].tpl] = Raw =>
                \/ slots[i].id \in spoiled
                \/ \E x \in 1 .. Len(found) : found[x] = i
      BY DEF IInv, Contents1
    <3> QED
      BY <1>13, <1>14, <3>1, <3>2
  <2> QED
    BY <2>1, <2>2
<1>16. \A x \in 1 .. Len(found) : found[x] \in Valid(slots) /\ found[x] # s
  BY <1>1, <1>4, <1>5 DEF IInv, Round
<1>17. ASSUME NEW x \in k + 1 .. Len(upd)
       PROVE  FoundAt(upd[x])' /\ \A y \in 1 .. k : slots'[found'[y]].tpl # list[upd[x]]
  <2>1. /\ FoundAt(upd[x]) /\ \A y \in 1 .. Len(found) : slots[found[y]].tpl # list[upd[x]]
        /\ list[upd[x]] # old
    <3>1. x \in Len(found) + 1 .. Len(upd) /\ upd[x] # upd[k]
      BY <1>1, <1>3, <1>14 DEF IInv, Round
    <3>2. list[upd[x]] # list[upd[k]]
      BY <1>1, <1>3, <1>14, <3>1 DEF IInv, Listed
    <3> QED
      BY <1>1, <1>4, <3>1, <3>2 DEF IInv, Round
  <2>2. PICK i \in Valid(slots) : slots[i].tpl = list[upd[x]] /\ slots[i].id = cand[upd[x]].finger
    BY <2>1 DEF FoundAt
  <2>3. i # s /\ slots'[i] = slots[i] /\ list[upd[x]] # b
    BY <1>5, <1>7, <1>8, <2>1, <2>2, Facts
  <2>4. FoundAt(upd[x])'
    BY <1>1, <1>8, <2>2, <2>3 DEF FoundAt
  <2>5. ASSUME NEW y \in 1 .. k PROVE slots'[found'[y]].tpl # list[upd[x]]
    <3>1. CASE y = k
      BY <1>7, <1>13, <2>3, <3>1
    <3>2. CASE y \in 1 .. Len(found)
      BY <1>7, <1>8, <1>13, <1>16, <2>1, <3>2
    <3> QED
      BY <1>14, <3>1, <3>2
  <2> QED
    BY <2>4, <2>5
<1>18. ASSUME NEW x \in 1 .. k
       PROVE  /\ found'[x] \in Valid(slots') /\ slots'[found'[x]].id = cand[upd[x]].finger
              /\ \A y \in 1 .. k : found'[x] = found'[y] => x = y
  <2>1. CASE x = k
    BY <1>4, <1>7, <1>8, <1>13, <1>14, <1>16, <2>1
  <2>2. CASE x \in 1 .. Len(found)
    <3>1. /\ found'[x] = found[x] /\ found[x] \in Valid(slots) /\ found[x] # s
          /\ slots[found[x]].id = cand[upd[x]].finger
          /\ \A y \in 1 .. Len(found) : found[x] = found[y] => x = y
      BY <1>1, <1>13, <1>16, <2>2 DEF IInv, Round
    <3> QED
      BY <1>7, <1>8, <1>13, <1>14, <3>1
  <2> QED
    BY <1>14, <2>1, <2>2
<1>19. Round'
  <2>1. /\ upd' \in Seq(1 .. Len(list')) /\ Len(found') <= Len(upd')
        /\ \A x, y \in 1 .. Len(upd') : upd'[x] = upd'[y] => x = y
        /\ \A x \in 1 .. Len(upd') : IsTemplate(cand'[upd'[x]]) /\ cand'[upd'[x]].gen < MaxGen
    BY SMTT(20), <1>1, <1>3, <1>13 DEF IInv, Round
  <2> QED
    BY <1>1, <1>13, <1>17, <1>18, <2>1 DEF Round
<1>20. TypeOK'
  BY <1>1, <1>6, <1>7, <1>13 DEF IInv, TypeOK, Entries
<1> QED
  BY <1>1, <1>12, <1>15, <1>19, <1>20 DEF IInv, Stored1, Listed, Answered, Valid

(* The fresh blocks get the templates of the fingers that own them. *)
LEMMA UpdateFillStep == ASSUME IInv, UpdateFill PROVE IInv'
<1> USE UpdateAssumption
<1>1. /\ pc = "update" /\ pc' \in {"up_store", "idle"} /\ Len(found) = Len(upd) /\ NoIdent
      /\ UNCHANGED <<slots, list, file, lost, spoiled, fingers>>
      /\ faults' \in 0 .. MaxFaults
  BY DEF UpdateFill, Fault, IInv, TypeOK
<1> DEFINE D == 1 .. Len(found)
           at(x) == slots[found[x]].tpl
           new(x) == Template(cand[upd[x]].finger, cand[upd[x]].gen + 1)
<1>2. heap' = [b \in Blocks |-> IF \E x \in D : at(x) = b
                                THEN new(CHOOSE x \in D : at(x) = b) ELSE heap[b]]
  BY <1>1, FoundFacts DEF UpdateFill
<1>3. \A x \in D : /\ found[x] \in Valid(slots) /\ slots[found[x]].id = cand[upd[x]].finger
                   /\ \A y \in D : found[x] = found[y] => x = y
  BY <1>1 DEF IInv, Round
<1>4. \A x \in D : at(x) \in Blocks /\ at(x) \in Owned
  BY <1>3, Facts
<1>5. \A x, y \in D : at(x) = at(y) => x = y
  BY <1>3 DEF IInv, Blocks1
<1>6. \A x \in D : /\ new(x) \in Contents /\ new(x) # Raw /\ new(x) # Free
                   /\ OfFinger(new(x), slots[found[x]].id)
  <2> TAKE x \in D
  <2>1. upd[x] \in 1 .. Len(cand) /\ cand[upd[x]] \in Contents
    <3>1. /\ upd \in Seq(1 .. Len(list)) /\ cand \in Seq(Contents) /\ Len(cand) = Len(list)
          /\ x \in 1 .. Len(upd)
      BY <1>1 DEF IInv, TypeOK, Round, Listed
    <3> QED
      BY <3>1, ElementOfSeq
  <2>2. IsTemplate(cand[upd[x]]) /\ cand[upd[x]].gen < MaxGen
    BY <1>1 DEF IInv, Round
  <2>3. cand[upd[x]].finger \in 1 .. MaxFingers /\ cand[upd[x]].gen + 1 \in 0 .. MaxGen
    BY SMTT(20), <2>1, <2>2 DEF Contents, IsTemplate
  <2> QED
    BY <1>3, <2>3, ContentFacts
<1> HIDE DEF D, at, new
<1>7. \A x \in D : heap'[at(x)] = new(x)
  <2> TAKE x \in D
  <2>1. (CHOOSE y \in D : at(y) = at(x)) = x
    BY <1>5
  <2> QED
    BY <1>2, <1>4, <2>1
<1>8. \A b \in Blocks : (\A x \in D : at(x) # b) => heap'[b] = heap[b]
  BY <1>2
<1>9. heap' \in [Blocks -> Contents]
  <2> SUFFICES ASSUME NEW b \in Blocks PROVE heap'[b] \in Contents
    BY <1>2
  <2> QED
    BY <1>6, <1>7, <1>8 DEF IInv, TypeOK
<1>10. Held' = Held
  <2> SUFFICES ASSUME NEW b \in Blocks PROVE heap'[b] # Free <=> heap[b] # Free
    BY DEF Held
  <2>1. CASE \E x \in D : at(x) = b
    BY <1>4, <1>6, <1>7, <2>1, Facts
  <2>2. CASE \A x \in D : at(x) # b
    BY <1>8, <2>2
  <2> QED
    BY <2>1, <2>2
<1>11. Blocks1'
  BY <1>1, <1>10 DEF IInv, Blocks1, Owned, Valid
<1>12. Contents1'
  <2> SUFFICES ASSUME NEW i \in Valid(slots)
               PROVE  /\ OfFinger(heap'[slots[i].tpl], slots[i].id)
                      /\ heap'[slots[i].tpl] = Raw => slots[i].id \in spoiled
    BY <1>1 DEF Contents1, Valid
  <2>1. CASE \E x \in D : found[x] = i
    <3>1. PICK x \in D : found[x] = i
      BY <2>1
    <3>2. heap'[slots[i].tpl] = new(x)
      BY <1>7, <3>1 DEF at
    <3> QED
      BY <1>6, <3>1, <3>2
  <2>2. CASE \A x \in D : found[x] # i
    <3>1. \A x \in D : at(x) # slots[i].tpl
      BY <1>3, <2>2 DEF IInv, Blocks1, at
    <3>2. heap'[slots[i].tpl] = heap[slots[i].tpl]
      BY <1>8, <3>1, Facts
    <3> QED
      BY <2>2, <3>2 DEF IInv, Contents1, D
  <2> QED
    BY <2>1, <2>2
<1>13. TypeOK'
  BY <1>1, <1>9, NoIdentType DEF IInv, TypeOK
<1> QED
  BY <1>1, <1>11, <1>12, <1>13 DEF IInv, Stored1, Listed, Answered, Round, Valid

-----------------------------------------------------------------------------
(* The theorems. *)

(* Every step keeps the invariant: one case per action. *)
LEMMA NextIInv == IInv /\ [Next]_vars => IInv'
<1> SUFFICES ASSUME IInv, [Next]_vars PROVE IInv'
  OBVIOUS
<1>1. CASE UNCHANGED vars
  BY <1>1 DEF vars, IInv, TypeOK, Blocks1, Contents1, Stored1, Listed, Answered, Round,
     FoundAt, Owned, Held, Valid
<1> QED
  BY <1>1, QuietSteps, EnrolStep, DeleteStep, StoreStep, LoadEmptyStep, RestartStep, LoadStep,
     IdentifyStep, UpdateStartStep, UpdateFails, UpdateAllocStep, UpdateFillStep DEF Next

(* No block of a template is freed twice, used after its free, shared by two
   entries of fpc_db.c or lost, except with the databases a load replaces. *)
THEOREM UpdateBlocksOwned == Spec => []BlocksOwned
<1>1. IInv => BlocksOwned
  BY DEF IInv, Blocks1, BlocksOwned
<1> QED
  BY InitIInv, NextIInv, <1>1, PTL DEF Spec

(* The pointers fpc_ta_bio.c hands to the algorithm and looks up again never
   put one finger's template under the id of another. *)
THEOREM UpdateTemplateOfFinger == Spec => []TemplateOfFinger
<1>1. IInv => TemplateOfFinger
  <2> SUFFICES ASSUME IInv PROVE TemplateOfFinger
    OBVIOUS
  <2>1. /\ \A i \in Valid(slots) : OfFinger(heap[slots[i].tpl], slots[i].id)
        /\ \A i \in Valid(file) : OfFinger(file[i].tpl, file[i].id)
        /\ \A i \in Valid(file) : file[i].tpl = Raw => file[i].id \in spoiled
    BY DEF IInv, Contents1, Stored1
  <2>2. pc = "answered" /\ hit # 0 => answer = cand[hit].finger
    BY DEF IInv, Answered
  <2>3. pc = "update" =>
          \A x \in Len(found) + 1 .. Len(upd) :
             \E i \in Valid(slots) : /\ slots[i].tpl = list[upd[x]]
                                     /\ slots[i].id = cand[upd[x]].finger
    BY DEF IInv, Round, FoundAt
  <2> QED
    BY <2>1, <2>2, <2>3 DEF TemplateOfFinger
<1> QED
  BY InitIInv, NextIInv, <1>1, PTL DEF Spec
=============================================================================

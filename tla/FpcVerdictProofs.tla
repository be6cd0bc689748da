-------------------------- MODULE FpcVerdictProofs --------------------------
(***************************************************************************)
(* Proofs about what the trusted application's verdicts are worth: of an   *)
(* authentication or an enrolment (FpcHwAuth), for every set of groups,    *)
(* users and operations, every lifetime and every number of slots,         *)
(* requests, tokens and restarts; and of a sensor test (FpcSensorTest),    *)
(* for every set of services, applications and sensors and any number of   *)
(* starts, calls and failing commands.                                     *)
(***************************************************************************)
EXTENDS FpcHwAuth, FpcSensorTest, FiniteSetTheorems, TLAPS

-----------------------------------------------------------------------------
(* Authentication and enrolment: fpc_ta_bio.c, fpc_ta_hw_auth.c, fpc_db.c. *)

(* A database with ids from I, keys from K and entries from B. *)
DbOf(I, K, B) == [id : I, key : K, slots : [Index -> B]]

(* The list position fpc_ta_bio_identify computes never exceeds the slot it
   stands for: fpc_db_set_template_first is called within the set. *)
LEMMA ListIndexBound ==
    ASSUME NEW d, NEW i \in Index
    PROVE  ListIndex(d, i) \in 0 .. i
<1> DEFINE before == {j \in Valid(d) : j < i}
<1> USE DbAssumption
<1>1. before \subseteq 0 .. (i - 1)
  BY DEF Valid, Index
<1>2. IsFiniteSet(0 .. (i - 1)) /\ Cardinality(0 .. (i - 1)) = i
  BY FS_Interval DEF Index
<1>3. IsFiniteSet(before) /\ Cardinality(before) <= Cardinality(0 .. (i - 1))
  BY <1>1, <1>2, FS_Subset
<1>4. Cardinality(before) \in Nat
  BY <1>3, FS_CardinalityType
<1> QED
  BY <1>2, <1>3, <1>4 DEF ListIndex, Index

(* fpc_db_create without data gives a database. *)
LEMMA EmptyDbType ==
    ASSUME NEW I, NEW K, NEW B, NEW dbid \in I, NoKey \in K, 0 \in B
    PROVE  EmptyDb(dbid) \in DbOf(I, K, B)
BY DEF EmptyDb, DbOf

(* fpc_db_add_fingerprint keeps the shape of the database. *)
LEMMA AddType ==
    ASSUME NEW I, NEW K, NEW B, NEW d \in DbOf(I, K, B),
           NEW key \in K, NEW fid \in B, NEW dbid \in I
    PROVE  AddFingerprint(d, key, fid, dbid) \in DbOf(I, K, B)
BY DEF AddFingerprint, DbOf

(* fpc_db_delete_fingerprint keeps the shape of the database. *)
LEMMA DeleteType ==
    ASSUME NEW I, NEW K, NEW B, NEW d \in DbOf(I, K, B), NEW i,
           NoKey \in K, 0 \in B
    PROVE  DeleteFingerprint(d, i) \in DbOf(I, K, B)
BY DEF DeleteFingerprint, DbOf

(* fpc_db_set_template_first keeps the shape and the key. *)
LEMMA FirstType ==
    ASSUME NEW I, NEW K, NEW B, NEW d \in DbOf(I, K, B), NEW i \in Index
    PROVE  /\ SetTemplateFirst(d, i) \in DbOf(I, K, B)
           /\ SetTemplateFirst(d, i).key = d.key
<1> USE DbAssumption
<1> DEFINE moved == [j \in Index |->
                        IF j = 0 THEN d.slots[i]
                        ELSE IF j <= i THEN d.slots[j - 1] ELSE d.slots[j]]
<1>1. \A j \in Index : j # 0 => j - 1 \in Index
  BY DEF Index
<1>2. moved \in [Index -> B]
  <2> SUFFICES ASSUME NEW j \in Index
               PROVE  (IF j = 0 THEN d.slots[i]
                       ELSE IF j <= i THEN d.slots[j - 1] ELSE d.slots[j]) \in B
    OBVIOUS
  <2> QED
    BY <1>1 DEF DbOf
<1>3. SetTemplateFirst(d, i) = [d EXCEPT !.slots = moved]
  BY DEF SetTemplateFirst
<1> QED
  BY <1>2, <1>3 DEF DbOf

(* A challenge that can be answered is the one issued last, with its time. *)
LastIssued ==
    outgoing # 0 => /\ Len(requests) > 0
                    /\ requests[Len(requests)] = [chal |-> outgoing, at |-> stamp]

(* A good token comes from Gatekeeper, wherever it is kept. *)
GoodIsMinted ==
    /\ token.good => token \in minted
    /\ hat.good => hat \in minted

(* The user kept in an entry is the one whose token authorised it, and the
   database has only templates that were added. *)
EntriesKept ==
    /\ user = enroller
    /\ \A i \in 1 .. adds : user[i] \in Users
    /\ db.slots \in [Index -> 0 .. adds]

(* What the steps of an enrolment and of an authentication know. *)
StepInv ==
    /\ pc = "en_end" => adds < MaxAdds
    /\ pending \/ pc \in {"en_authorize", "en_capture", "en_end"} => akey # InvalidKey
    /\ pc \in {"au_challenge", "au_capture", "au_result"} => result = NoResult
    /\ pc \in {"au_capture", "au_result"} => opchal = opid
    /\ pc = "au_result" => match = seen /\ db.key = akey
    /\ result # NoResult => result.id \in 1 .. adds

IInv == /\ TypeOK /\ LastIssued /\ GoodIsMinted /\ EntriesKept /\ StepInv
        /\ ResultBound

DbSet == DbOf({0}, Groups \cup {NoKey}, TemplateIds \cup {0})

(* The invariant holds initially. *)
LEMMA InitIInv == Init => IInv
<1> SUFFICES ASSUME Init PROVE IInv
  OBVIOUS
<1> USE DbAssumption, HwAuthAssumption
<1>1. NoToken \in BadTokens
  BY DEF NoToken, BadTokens
<1>2. db \in DbOf({0}, Groups \cup {NoKey}, TemplateIds \cup {0})
  BY EmptyDbType DEF Init
<1>3. db.slots \in [Index -> 0 .. adds]
  BY DEF Init, EmptyDb
<1>4. requests \in Seq([chal : Challenges \cup {0}, at : Nat]) /\ Len(requests) = 0
  BY DEF Init
<1>5. NoResult \in [op : OpIds \cup {0}, id : TemplateIds \cup {0}, user : Users \cup {NoUser}]
  BY DEF NoResult
<1>6. TypeOK
  <2>1. keyset \in BOOLEAN /\ pending \in BOOLEAN
    BY DEF Init
  <2>2. /\ token \in BadTokens /\ hat \in BadTokens
        /\ result \in [op : OpIds \cup {0}, id : TemplateIds \cup {0},
             user : Users \cup {NoUser}]
    BY <1>1, <1>5 DEF Init
  <2> QED
    BY <1>2, <1>4, <2>1, <2>2 DEF Init, TypeOK, DbOf
<1>7. LastIssued /\ StepInv /\ ResultBound
  BY DEF Init, LastIssued, StepInv, ResultBound
<1>8. GoodIsMinted
  BY DEF Init, GoodIsMinted, NoToken
<1>9. EntriesKept
  BY <1>3 DEF Init, EntriesKept
<1> QED
  BY <1>6, <1>7, <1>8, <1>9 DEF IInv

(* Every step keeps the invariant: one case per action. *)
LEMMA NextIInv == IInv /\ [Next]_vars => IInv'
<1> SUFFICES ASSUME IInv, [Next]_vars PROVE IInv'
  OBVIOUS
<1> USE DbAssumption, HwAuthAssumption
<1> USE DEF IInv, TypeOK, LastIssued, GoodIsMinted, EntriesKept, StepInv, ResultBound,
            clientvars, authvars, matchvars, dbvars, envvars
<1>db. /\ db \in DbSet
       /\ db \in DbOf({0}, Groups \cup {NoKey}, 0 .. adds)
  BY DEF DbOf, DbSet
<1>1. CASE Tick
  BY <1>1 DEF Tick
<1>2. ASSUME NEW c \in Challenges, NEW u \in Users, Mint(c, u) PROVE IInv'
  <2>1. TypeOK'
    <3>1. (keyset \in BOOLEAN /\ pending \in BOOLEAN)'
      BY <1>2 DEF Mint
    <3>2. [chal |-> c, user |-> u, good |-> TRUE] \in GoodTokens
      BY DEF GoodTokens
    <3>3. minted' \subseteq GoodTokens
      BY <1>2, <3>2 DEF Mint
    <3>4. UNCHANGED <<now, restarts, adds, outgoing, stamp, token, hat, opchal, opid, match,
                      seen, db, user, enroller, akey, pc, requests, result>>
      BY <1>2 DEF Mint
    <3> QED
      BY <3>1, <3>3, <3>4
  <2>2. LastIssued'
    BY <1>2 DEF Mint, GoodTokens
  <2>3. GoodIsMinted'
    BY <1>2 DEF Mint, GoodTokens
  <2>4. EntriesKept'
    BY <1>2 DEF Mint, GoodTokens
  <2>5. StepInv'
    BY <1>2 DEF Mint, GoodTokens
  <2>6. ResultBound'
    BY <1>2 DEF Mint, GoodTokens
  <2> QED
    BY <2>1, <2>2, <2>3, <2>4, <2>5, <2>6 DEF IInv
<1>3. CASE Open
  <2>1. TypeOK'
    <3>1. (keyset \in BOOLEAN /\ pending \in BOOLEAN)'
      BY <1>3 DEF Open
    <3> QED
      BY <1>3, <3>1 DEF Open
  <2>2. LastIssued'
    BY <1>3 DEF Open
  <2>3. GoodIsMinted'
    BY <1>3 DEF Open
  <2>4. EntriesKept'
    BY <1>3 DEF Open
  <2>5. StepInv'
    BY <1>3 DEF Open
  <2>6. ResultBound'
    BY <1>3 DEF Open
  <2> QED
    BY <2>1, <2>2, <2>3, <2>4, <2>5, <2>6 DEF IInv
<1>4. CASE Restart
  <2>1. TypeOK'
    <3>1. (keyset \in BOOLEAN /\ pending \in BOOLEAN)'
      BY <1>4 DEF Restart
    <3>2. NoToken \in BadTokens
      BY DEF NoToken, BadTokens
    <3>3. NoResult \in [op : OpIds \cup {0}, id : TemplateIds \cup {0},
            user : Users \cup {NoUser}]
      BY DEF NoResult
    <3> QED
      BY <1>4, <3>1, <3>2, <3>3 DEF Restart
  <2>2. LastIssued'
    BY <1>4 DEF Restart, NoToken, NoResult, BadTokens
  <2>3. GoodIsMinted'
    BY <1>4 DEF Restart, NoToken, NoResult, BadTokens
  <2>4. EntriesKept'
    BY <1>4 DEF Restart, NoToken, NoResult, BadTokens
  <2>5. StepInv'
    BY <1>4 DEF Restart, NoToken, NoResult, BadTokens
  <2>6. ResultBound'
    BY <1>4 DEF Restart, NoToken, NoResult, BadTokens
  <2> QED
    BY <2>1, <2>2, <2>3, <2>4, <2>5, <2>6 DEF IInv
<1>5. ASSUME NEW g \in Groups, SetActiveGroup(g) PROVE IInv'
  BY <1>5 DEF SetActiveGroup, Idle
<1>6. CASE NewChallenge
  BY <1>6 DEF NewChallenge, Idle, Challenges
<1>7. ASSUME NEW tok \in minted \cup BadTokens, EnrollCall(tok) PROVE IInv'
  <2>1. TypeOK'
    <3>1. (keyset \in BOOLEAN /\ pending \in BOOLEAN)'
      BY <1>7 DEF EnrollCall
    <3> QED
      BY <1>7, <3>1 DEF EnrollCall
  <2>2. LastIssued'
    BY <1>7 DEF EnrollCall, BadTokens
  <2>3. GoodIsMinted'
    BY <1>7 DEF EnrollCall, BadTokens
  <2>4. EntriesKept'
    BY <1>7 DEF EnrollCall, BadTokens
  <2>5. StepInv'
    BY <1>7 DEF EnrollCall, BadTokens
  <2>6. ResultBound'
    BY <1>7 DEF EnrollCall, BadTokens
  <2> QED
    BY <2>1, <2>2, <2>3, <2>4, <2>5, <2>6 DEF IInv
<1>8. CASE EnrollStart
  <2>1. TypeOK'
    <3>1. (keyset \in BOOLEAN /\ pending \in BOOLEAN)'
      BY <1>8 DEF EnrollStart
    <3> QED
      BY <1>8, <3>1 DEF EnrollStart
  <2>2. LastIssued'
    BY <1>8 DEF EnrollStart
  <2>3. GoodIsMinted'
    BY <1>8 DEF EnrollStart
  <2>4. EntriesKept'
    BY <1>8 DEF EnrollStart
  <2>5. StepInv'
    BY <1>8 DEF EnrollStart
  <2>6. ResultBound'
    BY <1>8 DEF EnrollStart
  <2> QED
    BY <2>1, <2>2, <2>3, <2>4, <2>5, <2>6 DEF IInv
<1>9. CASE EnAuthorize
  BY <1>9 DEF EnAuthorize, ExpireChallenge
<1>10. CASE EnCaptured
  BY <1>10 DEF EnCaptured
<1>11. CASE EnEndEnrol
  <2>1. CASE UNCHANGED <<adds, db, user, enroller>> /\ pc' = "idle"
    BY <1>11, <2>1 DEF EnEndEnrol, ExpireChallenge
  <2>2. ASSUME Validates(token),
               adds' = adds + 1,
               db' = AddFingerprint(db, akey, adds + 1, 0),
               user' = [user EXCEPT ![adds + 1] = token.user],
               enroller' = [enroller EXCEPT ![adds + 1] = token.user],
               pc' = "en_check"
        PROVE  IInv'
    <3>1. adds < MaxAdds /\ pc = "en_end"
      BY <1>11 DEF EnEndEnrol
    <3>2. token.user \in Users
      BY <2>2 DEF Validates, GoodTokens
    <3>3. akey \in Groups
      BY <1>11, <3>1
    <3>4. /\ db' \in DbSet
          /\ db' \in DbOf({0}, Groups \cup {NoKey}, 0 .. (adds + 1))
      <4>1. db \in DbOf({0}, Groups \cup {NoKey}, 0 .. (adds + 1))
        BY DEF DbOf
      <4>2. adds + 1 \in TemplateIds \cup {0} /\ adds + 1 \in 0 .. (adds + 1)
        BY <3>1 DEF TemplateIds
      <4> QED
        BY <1>db, <2>2, <3>3, <4>1, <4>2, AddType DEF DbSet
    <3>5. /\ user' \in [TemplateIds -> Users \cup {NoUser}]
          /\ user' = enroller'
          /\ \A i \in 1 .. (adds + 1) : user'[i] \in Users
          /\ \A i \in 1 .. adds : user'[i] = user[i]
      BY <2>2, <3>1, <3>2 DEF TemplateIds
    <3>6. TypeOK'
      BY <1>11, <2>2, <3>1, <3>4, <3>5 DEF EnEndEnrol, ExpireChallenge, DbSet, DbOf
    <3>7. EntriesKept'
      BY <2>2, <3>4, <3>5 DEF DbOf
    <3>8. (LastIssued /\ GoodIsMinted /\ StepInv)'
      BY <1>11, <2>2 DEF EnEndEnrol, ExpireChallenge
    <3>9. ResultBound'
      BY <1>11, <2>2, <3>1, <3>5 DEF EnEndEnrol
    <3> QED
      BY <3>6, <3>7, <3>8, <3>9 DEF IInv
  <2> QED
    BY <1>11, <2>1, <2>2 DEF EnEndEnrol
<1>12. CASE EnCheck
  <2>1. db' \in DbSet /\ db' \in DbOf({0}, Groups \cup {NoKey}, 0 .. adds)
    BY <1>12, <1>db, DeleteType DEF EnCheck, DbSet
  <2>2. TypeOK'
    BY <1>12, <2>1 DEF EnCheck, DbSet, DbOf
  <2>3. EntriesKept'
    BY <1>12, <2>1 DEF EnCheck, DbOf
  <2>4. (LastIssued /\ GoodIsMinted /\ StepInv /\ ResultBound)'
    BY <1>12 DEF EnCheck
  <2> QED
    BY <2>2, <2>3, <2>4 DEF IInv
<1>13. ASSUME NEW op \in OpIds, Authenticate(op) PROVE IInv'
  BY <1>13 DEF Authenticate, Idle, NoResult
<1>14. CASE AuSetChallenge
  BY <1>14 DEF AuSetChallenge
<1>15. CASE AuIdentify
  <2>1. PICK i \in Valid(db) :
          /\ match' = db.slots[i]
          /\ seen' = db.slots[i]
          /\ db' = SetTemplateFirst(db, ListIndex(db, i))
    BY <1>15 DEF AuIdentify
  <2>2. i \in Index /\ db.slots[i] \in TemplateIds
    BY DEF Valid
  <2>3. ListIndex(db, i) \in Index
    BY <2>2, ListIndexBound DEF Index
  <2>4. /\ db' \in DbSet /\ db' \in DbOf({0}, Groups \cup {NoKey}, 0 .. adds)
        /\ db'.key = db.key
    BY <1>db, <2>1, <2>3, FirstType DEF DbSet
  <2>5. TypeOK'
    BY <1>15, <2>1, <2>2, <2>4 DEF AuIdentify, DbSet, DbOf
  <2>6. EntriesKept'
    BY <1>15, <2>4 DEF AuIdentify, DbOf
  <2>7. StepInv'
    BY <1>15, <2>1, <2>4 DEF AuIdentify
  <2>8. (LastIssued /\ GoodIsMinted /\ ResultBound)'
    BY <1>15 DEF AuIdentify
  <2> QED
    BY <2>5, <2>6, <2>7, <2>8 DEF IInv
<1>16. CASE AuEnds
  BY <1>16 DEF AuEnds
<1>17. CASE AuResult
  <2>1. CASE UNCHANGED result
    BY <1>17, <2>1 DEF AuResult
  <2>2. ASSUME match \in Ids(db),
               result' = [op   |-> opchal,
                          id   |-> match,
                          user |-> IF db.key = akey
                                     THEN user[db.slots[IndexOfId(db, match)]]
                                     ELSE NoUser]
        PROVE  IInv'
    <3>1. db.slots[IndexOfId(db, match)] = match
      BY <2>2 DEF Ids, Valid, IndexOfId
    <3>2. match \in 1 .. adds
      BY <2>2 DEF Ids, Valid
    <3>3. db.key = akey /\ match = seen /\ opchal = opid
      BY <1>17 DEF AuResult
    <3>4. result' = [op |-> opid, id |-> seen, user |-> user[seen]]
      BY <2>2, <3>1, <3>3
    <3>5. seen \in TemplateIds /\ user[seen] \in Users /\ enroller[seen] = user[seen]
      BY <3>2, <3>3 DEF TemplateIds
    <3>6. TypeOK'
      BY <1>17, <3>4, <3>5 DEF AuResult
    <3>7. ResultBound'
      BY <1>17, <3>4, <3>5 DEF AuResult
    <3>8. (LastIssued /\ GoodIsMinted /\ EntriesKept /\ StepInv)'
      BY <1>17, <3>2, <3>3, <3>4 DEF AuResult
    <3> QED
      BY <3>6, <3>7, <3>8 DEF IInv
  <2> QED
    BY <1>17, <2>1, <2>2 DEF AuResult
<1>18. ASSUME NEW fid \in TemplateIds, Remove(fid) PROVE IInv'
  <2>1. db' \in DbSet /\ db' \in DbOf({0}, Groups \cup {NoKey}, 0 .. adds)
    BY <1>18, <1>db, DeleteType DEF Remove, DbSet
  <2>2. TypeOK'
    BY <1>18, <2>1 DEF Remove, DbSet, DbOf
  <2>3. EntriesKept'
    BY <1>18, <2>1 DEF Remove, DbOf
  <2>4. (LastIssued /\ GoodIsMinted /\ StepInv /\ ResultBound)'
    BY <1>18 DEF Remove, Idle
  <2> QED
    BY <2>2, <2>3, <2>4 DEF IInv
<1>19. CASE UNCHANGED vars
  BY <1>19 DEF vars
<1> HIDE DEF IInv
<1> QED
  BY <1>1, <1>2, <1>3, <1>4, <1>5, <1>6, <1>7, <1>8, <1>9, <1>10, <1>11, <1>12,
     <1>13, <1>14, <1>15, <1>16, <1>17, <1>18, <1>19 DEF Next

(* Type correctness of the hardware authentication, for any constants. *)
THEOREM HwAuthTypeCorrect == Spec => []TypeOK
<1>1. IInv => TypeOK
  BY DEF IInv
<1> QED
  BY InitIInv, NextIInv, <1>1, PTL DEF Spec

(* get_auth_result hands out a token for the operation asked for, the
   finger matched in it and the user who authorised its enrolment. *)
THEOREM HwAuthResultBound == Spec => []ResultBound
<1>1. IInv => ResultBound
  BY DEF IInv
<1> QED
  BY InitIInv, NextIInv, <1>1, PTL DEF Spec

(* fpc_ta_bio_end_enrol adds a template only under a token Gatekeeper made
   for the challenge issued last, within its lifetime. *)
THEOREM HwAuthEnrolAuthorised == Spec => EnrolAuthorised
<1> DEFINE Authorised ==
      adds' # adds =>
          /\ requests # <<>>
          /\ LET r == requests[Len(requests)]
             IN  /\ r.chal # 0
                 /\ [chal |-> r.chal, user |-> user'[adds'], good |-> TRUE] \in minted
                 /\ now - r.at <= Lifetime
<1>1. IInv /\ [Next]_vars => [Authorised]_vars
  <2> SUFFICES ASSUME IInv, [Next]_vars, adds' # adds PROVE Authorised
    OBVIOUS
  <2>1. EnEndEnrol
    BY DEF Next, vars, clientvars, authvars, matchvars, dbvars, envvars, Tick, Open, Restart,
           NewChallenge, Mint, SetActiveGroup, EnrollCall, EnrollStart, EnAuthorize,
             EnCaptured,
           EnCheck, Authenticate, AuSetChallenge, AuIdentify, AuEnds, AuResult, Remove
  <2>2. /\ Validates(token)
        /\ adds' = adds + 1
        /\ user' = [user EXCEPT ![adds + 1] = token.user]
    BY <2>1 DEF EnEndEnrol
  <2>3. adds + 1 \in TemplateIds /\ user \in [TemplateIds -> Users \cup {NoUser}]
    BY <2>1, HwAuthAssumption DEF EnEndEnrol, IInv, TypeOK, StepInv, TemplateIds
  <2>4. user'[adds'] = token.user
    BY <2>2, <2>3
  <2>5. token = [chal |-> token.chal, user |-> token.user, good |-> TRUE] /\ token \in minted
    BY <2>2 DEF Validates, IInv, GoodIsMinted, TypeOK, GoodTokens
  <2>6. /\ requests # <<>>
        /\ outgoing # 0 /\ token.chal = outgoing
        /\ requests[Len(requests)] = [chal |-> outgoing, at |-> stamp]
    BY <2>2 DEF Validates, Answers, IInv, LastIssued
  <2>7. now - stamp <= Lifetime
    BY <2>2, HwAuthAssumption DEF Validates, Expired, IInv, TypeOK
  <2> DEFINE r == requests[Len(requests)]
  <2>8. r.chal = outgoing /\ r.at = stamp
    BY <2>6
  <2>9. [chal |-> r.chal, user |-> user'[adds'], good |-> TRUE] \in minted
    BY <2>4, <2>5, <2>6, <2>8
  <2> QED
    BY <2>6, <2>7, <2>8, <2>9
<1> QED
  BY InitIInv, NextIInv, <1>1, PTL DEF Spec, EnrolAuthorised

-----------------------------------------------------------------------------
(* Sensor tests: from FingerprintSensorTest.java to fpc_ta_sensortest.c. *)

(* TypeOK, by who writes the variables. *)
TestFlags == {alive, testCb, capCb, isTest, isCap, cancelled, bad, fetch, testMode, wrong,
              leftOn, crashed} \subseteq BOOLEAN

AppType ==
    /\ scenario \in Scenarios
    /\ jtest \in 0 .. MaxStarts /\ jcap \in 0 .. MaxStarts
    /\ notices \subseteq {"test", "capture"} /\ listed \subseteq Always \cup Optional
    /\ starts \in 0 .. MaxStarts /\ calls \in 0 .. MaxCalls

CallType ==
    /\ bpc \in {"free", "module", "join", "return"}
    /\ bop \in Tests \cup Captures \cup {"cancel", "info", "tests"}

Places == {"off", "test", "init", "pin0", "selftest", "pin1", "clean", "pin2", "abort",
           "down", "command", "limits", "otp", "image", "answer", "send", "capture",
           "cap_answer", "cap_send"}

TaskType ==
    /\ wpc \in Places
    /\ wkind \in Tests \cup Captures /\ wreq \in 0 .. MaxStarts
    /\ status \in {"ok", "cancelled", "unsupported", "sensor", "error", "io", "quality"}
    /\ pin \in {"none", "low", "high"} /\ sent \in {"none", "low", "high", "junk"}
    /\ limit \in Snrs \cup {3, NoLimit}
    /\ img \in 0 .. MaxStarts /\ faults \in 0 .. MaxFaults

MessageType == [req : 0 .. MaxStarts, test : BOOLEAN, wrong : BOOLEAN, image : 0 .. MaxStarts,
                code : {"pass", "fail", "cancelled", "unsupported", "error", "ok", "quality"}]

Flow == queue \in Seq(MessageType) /\ got \in [Requests -> Seq(0 .. MaxStarts)]

(* What a message that is on its way says is true. *)
MessageGood(m) ==
    /\ m.code = "pass" => ~m.wrong
    /\ m.test /\ m.code \in {"pass", "fail"} /\ m.image # 0 => m.image = m.req
MessagesGood == \A i \in DOMAIN queue : MessageGood(queue[i])

SelfPlaces == {"init", "pin0", "selftest", "pin1", "clean", "pin2", "abort"}
CapturePlaces == {"capture", "cap_answer", "cap_send"}
GoodPlaces == {"off", "test", "init", "pin0", "selftest", "pin1", "clean", "pin2", "limits",
               "down", "command", "otp"}
Ended == {"image", "answer", "send"}

(* Which task is at which place, and whether it wants the image. *)
TaskPlaces ==
    /\ wpc \in SelfPlaces => wkind = "self" /\ ~fetch
    /\ wpc = "otp" => ~fetch
    /\ wpc = "limits" => wkind = "module"
    /\ wpc # "off" => (wpc \in CapturePlaces <=> wkind \in Captures)

(* A test goes on only while nothing was wrong... *)
GoesOn ==
    /\ wpc \in GoodPlaces => ~wrong /\ ~bad /\ status = "ok"
    /\ wpc = "abort" => (bad \/ status # "ok") /\ status # "unsupported"

(* ...what it ends with accounts for everything that was, and its image is its own... *)
Accounted ==
    wpc \in Ended /\ status = "ok" => (bad \/ ~wrong) /\ (fetch => img = wreq)

(* ...and it is refused only if it was not offered. *)
Refused ==
    /\ wpc \in Ended /\ status = "unsupported" =>
          wkind \notin Always \cup Supported \/ (wkind = "module" /\ Product = "other")
    /\ listed \subseteq Always \cup Supported

(* The self test's mode is on only between its start and its clean-up. *)
ModeKept == testMode /\ ~leftOn => wpc \in {"pin0", "selftest", "pin1", "clean", "abort"}

(* The service knows of a task that has not answered, or is about to note it. *)
FlagsSet ==
    wpc \notin {"off", "send", "cap_send"} =>
       (IF wkind \in Tests THEN isTest ELSE isCap) \/ (bpc = "return" /\ bop = wkind)

Numbered ==
    /\ jtest <= starts /\ jcap <= starts /\ (jtest = jcap => jtest = 0)
    /\ \A n \in Requests : n > starts => got[n] = <<>>

(* A request of one side, tests or captures, is called, runs, is answered or
   is done, in this order. *)
Running(test) == wpc # "off" /\ (IF test THEN wkind \in Tests ELSE wkind \in Captures)
Called(test) == bpc \in {"module", "join"} /\ bop \in (IF test THEN Tests ELSE Captures)
Sent(test) == \E i \in DOMAIN queue : queue[i].test = test
Pending(n) == n \in Requests /\ got[n] = <<>>
SideOk(test, n) ==
    /\ Sent(test) => Pending(n)
    /\ Running(test) => Pending(n) /\ wreq = n /\ ~Sent(test)
    /\ Called(test) => Pending(n) /\ ~Running(test) /\ ~Sent(test)
    /\ \A i \in DOMAIN queue : queue[i].test = test => queue[i].req = n
OneEach ==
    /\ \A i, j \in DOMAIN queue : queue[i].test = queue[j].test => i = j
    /\ \A n \in Requests : got[n] \in {<<>>, <<n>>}
PatientServed == Patient => SideOk(TRUE, jtest) /\ SideOk(FALSE, jcap) /\ OneEach

TypeInv == TestFlags /\ AppType /\ CallType /\ TaskType /\ Flow
TaskInv == TaskPlaces /\ GoesOn /\ Accounted /\ Refused /\ ModeKept
AnswerInv == MessagesGood /\ FlagsSet /\ Numbered /\ PatientServed
(* The inductive invariant. *)
TestInv == TypeInv /\ TaskInv /\ AnswerInv

(* No kind of test is a kind of capture. *)
LEMMA Kinds == Tests \cap Captures = {} /\ "unknown" \in Tests
BY DEF Tests, Captures, Always, Optional

(* What the invariant is for. *)
LEMMA TestConsequences == TestInv => PassMeansGood /\ SelfTestCleaned /\ OwnAnswer
<1> SUFFICES ASSUME TestInv PROVE PassMeansGood /\ SelfTestCleaned /\ OwnAnswer
  OBVIOUS
<1> USE DEF TestInv, TypeInv, TaskInv, AnswerInv
<1>1. PassMeansGood
  BY DEF PassMeansGood, Messages, MessagesGood, MessageGood, GoesOn, Accounted, Refused, Ended
<1>2. SelfTestCleaned
  BY DEF SelfTestCleaned, ModeKept
<1>3. TestTypeOK
  BY DEF TestTypeOK, TestFlags, AppType, CallType, TaskType, Places
<1>4. ASSUME Patient, NEW n \in Requests
      PROVE  Len(got[n]) <= 1 /\ \A i \in DOMAIN got[n] : got[n][i] = n
  <2>1. got[n] = <<>> \/ got[n] = <<n>>
    BY <1>4 DEF PatientServed, OneEach
  <2>2. CASE got[n] = <<>>
    BY <2>2
  <2>3. CASE got[n] = <<n>>
    BY <2>3
  <2> QED
    BY <2>1, <2>2, <2>3
<1>5. OwnAnswer
  BY <1>3, <1>4, Kinds DEF OwnAnswer, FlagsSet
<1> QED
  BY <1>1, <1>2, <1>5

(* The invariant holds initially. *)
LEMMA TestInitInv == TestInit => TestInv
<1> SUFFICES ASSUME TestInit PROVE TestInv
  OBVIOUS
<1> USE SensorTestAssumption
<1>1. {alive, testCb, capCb, isTest, isCap, cancelled, bad, fetch, testMode, wrong,
        leftOn, crashed} \subseteq BOOLEAN
  BY DEF TestInit
<1>2. AppType /\ CallType /\ TaskType
  BY Kinds DEF TestInit, AppType, CallType, TaskType, Places, Snrs, NoLimit
<1>3. Flow /\ DOMAIN queue = {}
  BY DEF TestInit, Flow
<1>4. TaskInv
  BY Kinds DEF TestInit, TaskInv, TaskPlaces, GoesOn, Accounted, Refused, ModeKept,
     SelfPlaces, CapturePlaces, Ended
<1>5. MessagesGood /\ FlagsSet /\ Numbered
  BY <1>3 DEF TestInit, MessagesGood, FlagsSet, Numbered
<1>6. PatientServed
  BY <1>3 DEF TestInit, PatientServed, SideOk, OneEach, Running, Called, Sent
<1> QED
  BY <1>1, <1>2, <1>3, <1>4, <1>5, <1>6 DEF TestInv, TypeInv, TestFlags, AnswerInv

-----------------------------------------------------------------------------
(* A step of the application or the service leaves the task as it is. *)
LEMMA TaskUntouched ==
    ASSUME TestInv, UNCHANGED <<Worker, listed, scenario>>
    PROVE  TaskInv' /\ TaskType'
BY DEF TestInv, TypeInv, TaskInv, TaskType, TaskPlaces, GoesOn, Accounted, Refused, ModeKept,
   Worker, task, data, ta, hist, Supported, Product

(* A step of the worker within its task changes nothing for the service. *)
LEMMA WithinTask ==
    ASSUME TestInv, UNCHANGED Rest, wpc \notin {"off", "send", "cap_send"}, wpc' # "off"
    PROVE  AppType' /\ CallType' /\ Flow' /\ AnswerInv'
<1>1. /\ UNCHANGED <<scenario, jtest, jcap, queue, got, notices, listed, starts, calls, bpc,
                     bop,
                     isTest, isCap, wkind, wreq>>
      /\ Patient' = Patient /\ Requests' = Requests
  BY DEF Rest, Outside, java, death, svc, binder, bounds, task, Patient, Requests
<1>2. AppType' /\ CallType' /\ Flow' /\ MessagesGood' /\ Numbered'
  BY <1>1 DEF TestInv, TypeInv, AnswerInv, AppType, CallType, Flow, MessagesGood, MessageGood,
     Numbered
<1>3. FlagsSet'
  BY <1>1 DEF TestInv, AnswerInv, FlagsSet
<1>4. PatientServed'
  <2>1. \A t \in BOOLEAN : (Sent(t)' <=> Sent(t)) /\ (Called(t)' <=> Called(t))
    BY <1>1 DEF Sent, Called
  <2>2. \A t \in BOOLEAN : Running(t)' <=> Running(t)
    BY <1>1 DEF Running
  <2> QED
    BY <1>1, <2>1, <2>2 DEF TestInv, AnswerInv, PatientServed, SideOk, OneEach, Pending
<1> QED
  BY <1>2, <1>3, <1>4 DEF AnswerInv

(* A task that ends leaves nothing behind: its local variables are gone. *)
LEMMA TaskGone ==
    ASSUME TestInv, TaskEnds, UNCHANGED <<testMode, img, leftOn, listed, scenario>>,
           wpc \notin {"pin0", "selftest", "pin1", "clean", "abort"},
             faults' \in 0 .. MaxFaults
    PROVE  TaskInv' /\ TaskType'
<1> USE SensorTestAssumption
<1>1. TaskType'
  BY Kinds DEF TaskEnds, TestInv, TypeInv, TaskType, Places, NoLimit, Snrs
<1>2. TaskInv'
  BY DEF TaskEnds, TestInv, TaskInv, TaskPlaces, GoesOn, Accounted, Refused, ModeKept,
     SelfPlaces, GoodPlaces, Ended, Supported, Product
<1> QED
  BY <1>1, <1>2

(* The results a test command can have, and what they leave to be accounted for. *)
LEMMA Results ==
    ASSUME TestInv, TaResult, ~wrong
    PROVE  /\ status' \in {"ok", "error"} /\ bad' \in BOOLEAN /\ faults' \in 0 .. MaxFaults
           /\ wrong' \in BOOLEAN /\ (bad' = FALSE /\ status' = "ok" => wrong' = FALSE)
<1>1. wrong = FALSE /\ faults \in 0 .. MaxFaults /\ MaxFaults \in Nat
  BY SensorTestAssumption DEF TestInv, TypeInv, TestFlags, TaskType
<1>2. CASE bad' = FALSE /\ status' = "ok" /\ UNCHANGED <<faults, wrong>>
  BY <1>1, <1>2
<1>3. CASE bad' = TRUE /\ status' = "ok" /\ wrong' = TRUE /\ UNCHANGED faults
  BY <1>1, <1>3
<1>4. CASE status' = "error" /\ bad' \in BOOLEAN /\ Fault /\ wrong' = TRUE
  BY <1>1, <1>4 DEF Fault
<1> QED
  BY <1>2, <1>3, <1>4 DEF TaResult

(* The worker's steps within a test or a capture. *)
LEMMA WorkerKeeps ==
    ASSUME TestInv,
           \/ DoRunSensorTest \/ SelfTestInit \/ SelfTest \/ SelfTestCleanUp \/ SelfTestAbort
           \/ ReadPin("pin0", "low", "selftest") \/ ReadPin("pin1", "high", "clean")
           \/ ReadPin("pin2", "low", "answer")
           \/ ModuleLimit \/ RunCommand \/ OtpValidation \/ FetchImage
           \/ WaitFingerDown \/ WaitCancelled \/ CaptureCancelled
    PROVE  TestInv'
<1> USE SensorTestAssumption
<1>i. TestFlags /\ TaskType /\ TaskPlaces /\ GoesOn /\ Accounted /\ Refused /\ ModeKept
       /\ MaxFaults \in Nat
  BY DEF TestInv, TypeInv, TaskInv
<1>r. UNCHANGED Rest => UNCHANGED <<alive, testCb, capCb, isTest, isCap, cancelled, crashed,
                                    wkind,
                                    wreq, listed, scenario>>
                      /\ Supported' = Supported /\ Product' = Product
  BY DEF Rest, Outside, task, death, svc, Supported, Product
<1>u. Supported \subseteq Optional /\ Product \in {"1028", "1245", "other"}
  BY DEF TestInv, TypeInv, AppType, Supported, Product
<1>q. ASSUME UNCHANGED Rest, wpc \notin {"off", "send", "cap_send"}, wpc' # "off",
             {bad', fetch', testMode', wrong', leftOn'} \subseteq BOOLEAN,
             TaskType', TaskPlaces', GoesOn', Accounted', Refused', ModeKept'
      PROVE  TestInv'
  BY <1>i, <1>r, <1>q, WithinTask DEF TestInv, TypeInv, TestFlags, TaskInv
<1>1. CASE DoRunSensorTest
  <2>1. UNCHANGED Rest /\ wpc \notin {"off", "send", "cap_send"} /\ wpc' # "off"
    BY <1>1 DEF DoRunSensorTest, At
  <2>2. {bad', fetch', testMode', wrong', leftOn'} \subseteq BOOLEAN
    BY <1>1, <1>i, <1>r, <1>u, <2>1 DEF DoRunSensorTest, TestFlags
  <2>3. TaskType'
    BY <1>1, <1>i, <1>r, <1>u, <2>1 DEF DoRunSensorTest, TaskType, Places
  <2>4. TaskPlaces'
    BY <1>1, <1>i, <1>r, <1>u, <2>1 DEF DoRunSensorTest, At, TaskType, TaskPlaces, SelfPlaces,
       CapturePlaces, Tests, Captures, Always, Optional
  <2>5. GoesOn'
    BY <1>1, <1>i, <1>r, <1>u, <2>1
       DEF DoRunSensorTest, At, TestFlags, GoesOn, TaskPlaces, SelfPlaces, GoodPlaces
  <2>6. Accounted'
    BY <1>1, <1>i, <1>r, <1>u, <2>1 DEF DoRunSensorTest, At, TestFlags, TaskPlaces,
       SelfPlaces, GoesOn, Accounted, GoodPlaces, Ended
  <2>7. Refused'
    BY <1>1, <1>i, <1>r, <1>u, <2>1 DEF DoRunSensorTest, At, TaskType, TaskPlaces, SelfPlaces,
       GoesOn, Refused, GoodPlaces, Ended, Tests, Always, Optional
  <2>8. ModeKept'
    BY <1>1, <1>i, <1>r, <1>u, <2>1 DEF DoRunSensorTest, At, TestFlags, ModeKept
  <2> QED
    BY <1>q, <2>1, <2>2, <2>3, <2>4, <2>5, <2>6, <2>7, <2>8
<1>2. CASE SelfTestInit
  <2>1. UNCHANGED Rest /\ wpc \notin {"off", "send", "cap_send"} /\ wpc' # "off"
    BY <1>2 DEF SelfTestInit, TestCommand, Fault, At
  <2>2. {bad', fetch', testMode', wrong', leftOn'} \subseteq BOOLEAN
    BY <1>2, <1>i, <1>r, <1>u, <2>1 DEF SelfTestInit, TestCommand, Fault, TestFlags
  <2>3. TaskType'
    BY <1>2, <1>i, <1>r, <1>u, <2>1 DEF SelfTestInit, TestCommand, Fault, TaskType, Places
  <2>4. TaskPlaces'
    BY <1>2, <1>i, <1>r, <1>u, <2>1 DEF SelfTestInit, TestCommand, Fault, At, TaskType,
       TaskPlaces, SelfPlaces, CapturePlaces, Tests, Captures, Always, Optional
  <2>5. GoesOn'
    BY <1>2, <1>i, <1>r, <1>u, <2>1 DEF SelfTestInit, TestCommand, Fault, At, TestFlags,
       GoesOn, TaskPlaces, SelfPlaces, GoodPlaces
  <2>6. Accounted'
    BY <1>2, <1>i, <1>r, <1>u, <2>1 DEF SelfTestInit, TestCommand, Fault, At, TestFlags,
       TaskPlaces, SelfPlaces, GoesOn, Accounted, GoodPlaces, Ended
  <2>7. Refused'
    BY <1>2, <1>i, <1>r, <1>u, <2>1 DEF SelfTestInit, TestCommand, Fault, At, TaskType,
       TaskPlaces, SelfPlaces, GoesOn, Refused, GoodPlaces, Ended, Tests, Always, Optional
  <2>8. ModeKept'
    BY <1>2, <1>i, <1>r, <1>u, <2>1
       DEF SelfTestInit, TestCommand, Fault, At, TestFlags, ModeKept
  <2> QED
    BY <1>q, <2>1, <2>2, <2>3, <2>4, <2>5, <2>6, <2>7, <2>8
<1>3. CASE SelfTest
  <2>1. UNCHANGED Rest /\ wpc \notin {"off", "send", "cap_send"} /\ wpc' # "off"
    BY <1>3 DEF SelfTest, TestCommand, At
  <2>r. ASSUME TaResult
        PROVE  /\ status' \in {"ok", "error"} /\ bad' \in BOOLEAN /\ faults' \in 0 .. MaxFaults
               /\ wrong' \in BOOLEAN /\ (bad' = FALSE /\ status' = "ok" => wrong' = FALSE)
    BY <1>3, <1>i, <2>r, Results DEF SelfTest, At, GoesOn, GoodPlaces
  <2>2. {bad', fetch', testMode', wrong', leftOn'} \subseteq BOOLEAN
    BY <1>3, <1>i, <1>r, <1>u, <2>r, <2>1 DEF SelfTest, TestCommand, TestFlags
  <2>3. TaskType'
    BY <1>3, <1>i, <1>r, <1>u, <2>r, <2>1 DEF SelfTest, TestCommand, TaskType, Places
  <2>4. TaskPlaces'
    BY <1>3, <1>i, <1>r, <1>u, <2>r, <2>1 DEF SelfTest, TestCommand, At, TaskType, TaskPlaces,
       SelfPlaces, CapturePlaces, Tests, Captures, Always, Optional
  <2>5. GoesOn'
    BY <1>3, <1>i, <1>r, <1>u, <2>r, <2>1
       DEF SelfTest, TestCommand, At, TestFlags, GoesOn, TaskPlaces, SelfPlaces, GoodPlaces
  <2>6. Accounted'
    BY <1>3, <1>i, <1>r, <1>u, <2>r, <2>1 DEF SelfTest, TestCommand, At, TestFlags,
       TaskPlaces, SelfPlaces, GoesOn, Accounted, GoodPlaces, Ended
  <2>7. Refused'
    BY <1>3, <1>i, <1>r, <1>u, <2>r, <2>1 DEF SelfTest, TestCommand, At, TaskType, TaskPlaces,
       SelfPlaces, GoesOn, Refused, GoodPlaces, Ended, Tests, Always, Optional
  <2>8. ModeKept'
    BY <1>3, <1>i, <1>r, <1>u, <2>r, <2>1 DEF SelfTest, TestCommand, At, TestFlags, ModeKept
  <2> QED
    BY <1>q, <2>1, <2>2, <2>3, <2>4, <2>5, <2>6, <2>7, <2>8
<1>4. CASE SelfTestCleanUp
  <2>1. UNCHANGED Rest /\ wpc \notin {"off", "send", "cap_send"} /\ wpc' # "off"
    BY <1>4 DEF SelfTestCleanUp, TestCommand, Cleaned, CleanUpFails, At
  <2>x. /\ testMode' \in BOOLEAN /\ faults' \in 0 .. MaxFaults /\ leftOn' \in BOOLEAN
        /\ \/ wpc' = "pin2" /\ testMode' = FALSE /\ leftOn' = leftOn /\ UNCHANGED <<status,
                                                                                    wrong>>
           \/ wpc' = "answer" /\ leftOn' = TRUE /\ status' = "sensor" /\ wrong' = TRUE
    <3>1. CASE Cleaned("pin2") /\ UNCHANGED <<status, wrong>>
      BY <1>i, <3>1 DEF Cleaned, TestFlags, TaskType
    <3>2. CASE CleanUpFails /\ status' = "sensor" /\ wrong' = TRUE
      <4>1. faults' \in 0 .. MaxFaults /\ leftOn' = TRUE /\ wpc' = "answer"
        BY <1>i, <3>2 DEF CleanUpFails, Fault, TaskType
      <4>2. testMode' = FALSE \/ testMode' = testMode
        BY <3>2, Zenon DEF CleanUpFails
      <4>3. testMode' \in BOOLEAN
        BY <1>i, <4>2 DEF TestFlags
      <4> QED
        BY <3>2, <4>1, <4>3
    <3> QED
      BY <1>4, <3>1, <3>2 DEF SelfTestCleanUp
  <2>2. {bad', fetch', testMode', wrong', leftOn'} \subseteq BOOLEAN
    BY <1>4, <1>i, <1>r, <1>u, <2>1, <2>x DEF SelfTestCleanUp, TestCommand, TestFlags
  <2>3. TaskType'
    BY <1>4, <1>i, <1>r, <1>u, <2>1, <2>x DEF SelfTestCleanUp, TestCommand, TaskType, Places
  <2>4. TaskPlaces'
    BY <1>4, <1>i, <1>r, <1>u, <2>1, <2>x DEF SelfTestCleanUp, TestCommand, At, TaskType,
       TaskPlaces, SelfPlaces, CapturePlaces, Tests, Captures, Always, Optional
  <2>5. GoesOn'
    BY <1>4, <1>i, <1>r, <1>u, <2>1, <2>x DEF SelfTestCleanUp, TestCommand, At, TestFlags,
       GoesOn, TaskPlaces, SelfPlaces, GoodPlaces
  <2>6. Accounted'
    BY <1>4, <1>i, <1>r, <1>u, <2>1, <2>x DEF SelfTestCleanUp, TestCommand, At, TestFlags,
       TaskPlaces, SelfPlaces, GoesOn, Accounted, GoodPlaces, Ended
  <2>7. Refused'
    BY <1>4, <1>i, <1>r, <1>u, <2>1, <2>x DEF SelfTestCleanUp, TestCommand, At, TaskType,
       TaskPlaces, SelfPlaces, GoesOn, Refused, GoodPlaces, Ended, Tests, Always, Optional
  <2>8. ModeKept'
    BY <1>4, <1>i, <1>r, <1>u, <2>1, <2>x
       DEF SelfTestCleanUp, TestCommand, At, TestFlags, ModeKept
  <2> QED
    BY <1>q, <2>1, <2>2, <2>3, <2>4, <2>5, <2>6, <2>7, <2>8
<1>5. CASE SelfTestAbort
  <2>1. UNCHANGED Rest /\ wpc \notin {"off", "send", "cap_send"} /\ wpc' # "off"
    BY <1>5 DEF SelfTestAbort, TestCommand, Cleaned, CleanUpFails, At
  <2>x. /\ testMode' \in BOOLEAN /\ faults' \in 0 .. MaxFaults /\ leftOn' \in BOOLEAN
        /\ wpc' = "answer" /\ (leftOn' = TRUE \/ (leftOn' = leftOn /\ testMode' = FALSE))
    <3>1. CASE Cleaned("answer")
      BY <1>i, <3>1 DEF Cleaned, TestFlags, TaskType
    <3>2. CASE CleanUpFails
      <4>1. faults' \in 0 .. MaxFaults /\ leftOn' = TRUE /\ wpc' = "answer"
        BY <1>i, <3>2 DEF CleanUpFails, Fault, TaskType
      <4>2. testMode' = FALSE \/ testMode' = testMode
        BY <3>2, Zenon DEF CleanUpFails
      <4>3. testMode' \in BOOLEAN
        BY <1>i, <4>2 DEF TestFlags
      <4> QED
        BY <3>2, <4>1, <4>3
    <3> QED
      BY <1>5, <3>1, <3>2 DEF SelfTestAbort
  <2>2. {bad', fetch', testMode', wrong', leftOn'} \subseteq BOOLEAN
    BY <1>5, <1>i, <1>r, <1>u, <2>1, <2>x DEF SelfTestAbort, TestCommand, TestFlags
  <2>3. TaskType'
    BY <1>5, <1>i, <1>r, <1>u, <2>1, <2>x DEF SelfTestAbort, TestCommand, TaskType, Places
  <2>4. TaskPlaces'
    BY <1>5, <1>i, <1>r, <1>u, <2>1, <2>x DEF SelfTestAbort, TestCommand, At, TaskType,
       TaskPlaces, SelfPlaces, CapturePlaces, Tests, Captures, Always, Optional
  <2>5. GoesOn'
    BY <1>5, <1>i, <1>r, <1>u, <2>1, <2>x DEF SelfTestAbort, TestCommand, At, TestFlags,
       GoesOn, TaskPlaces, SelfPlaces, GoodPlaces
  <2>6. Accounted'
    BY <1>5, <1>i, <1>r, <1>u, <2>1, <2>x DEF SelfTestAbort, TestCommand, At, TestFlags,
       TaskPlaces, SelfPlaces, GoesOn, Accounted, GoodPlaces, Ended
  <2>7. Refused'
    BY <1>5, <1>i, <1>r, <1>u, <2>1, <2>x DEF SelfTestAbort, TestCommand, At, TaskType,
       TaskPlaces, SelfPlaces, GoesOn, Refused, GoodPlaces, Ended, Tests, Always, Optional
  <2>8. ModeKept'
    BY <1>5, <1>i, <1>r, <1>u, <2>1, <2>x
       DEF SelfTestAbort, TestCommand, At, TestFlags, ModeKept
  <2> QED
    BY <1>q, <2>1, <2>2, <2>3, <2>4, <2>5, <2>6, <2>7, <2>8
<1>6. CASE ReadPin("pin0", "low", "selftest")
  <2>1. UNCHANGED Rest /\ wpc \notin {"off", "send", "cap_send"} /\ wpc' # "off"
    BY <1>6 DEF ReadPin, At
  <2>2. {bad', fetch', testMode', wrong', leftOn'} \subseteq BOOLEAN
    BY <1>6, <1>i, <1>r, <1>u, <2>1 DEF ReadPin, TestFlags
  <2>3. TaskType'
    BY <1>6, <1>i, <1>r, <1>u, <2>1 DEF ReadPin, TaskType, Places
  <2>4. TaskPlaces'
    BY <1>6, <1>i, <1>r, <1>u, <2>1 DEF ReadPin, At, TaskType, TaskPlaces, SelfPlaces,
       CapturePlaces, Tests, Captures, Always, Optional
  <2>5. GoesOn'
    BY <1>6, <1>i, <1>r, <1>u, <2>1
       DEF ReadPin, At, TestFlags, GoesOn, TaskPlaces, SelfPlaces, GoodPlaces
  <2>6. Accounted'
    BY <1>6, <1>i, <1>r, <1>u, <2>1 DEF ReadPin, At, TestFlags, TaskPlaces, SelfPlaces,
       GoesOn, Accounted, GoodPlaces, Ended
  <2>7. Refused'
    BY <1>6, <1>i, <1>r, <1>u, <2>1 DEF ReadPin, At, TaskType, TaskPlaces, SelfPlaces, GoesOn,
       Refused, GoodPlaces, Ended, Tests, Always, Optional
  <2>8. ModeKept'
    BY <1>6, <1>i, <1>r, <1>u, <2>1 DEF ReadPin, At, TestFlags, ModeKept
  <2> QED
    BY <1>q, <2>1, <2>2, <2>3, <2>4, <2>5, <2>6, <2>7, <2>8
<1>7. CASE ReadPin("pin1", "high", "clean")
  <2>1. UNCHANGED Rest /\ wpc \notin {"off", "send", "cap_send"} /\ wpc' # "off"
    BY <1>7 DEF ReadPin, At
  <2>2. {bad', fetch', testMode', wrong', leftOn'} \subseteq BOOLEAN
    BY <1>7, <1>i, <1>r, <1>u, <2>1 DEF ReadPin, TestFlags
  <2>3. TaskType'
    BY <1>7, <1>i, <1>r, <1>u, <2>1 DEF ReadPin, TaskType, Places
  <2>4. TaskPlaces'
    BY <1>7, <1>i, <1>r, <1>u, <2>1 DEF ReadPin, At, TaskType, TaskPlaces, SelfPlaces,
       CapturePlaces, Tests, Captures, Always, Optional
  <2>5. GoesOn'
    BY <1>7, <1>i, <1>r, <1>u, <2>1
       DEF ReadPin, At, TestFlags, GoesOn, TaskPlaces, SelfPlaces, GoodPlaces
  <2>6. Accounted'
    BY <1>7, <1>i, <1>r, <1>u, <2>1 DEF ReadPin, At, TestFlags, TaskPlaces, SelfPlaces,
       GoesOn, Accounted, GoodPlaces, Ended
  <2>7. Refused'
    BY <1>7, <1>i, <1>r, <1>u, <2>1 DEF ReadPin, At, TaskType, TaskPlaces, SelfPlaces, GoesOn,
       Refused, GoodPlaces, Ended, Tests, Always, Optional
  <2>8. ModeKept'
    BY <1>7, <1>i, <1>r, <1>u, <2>1 DEF ReadPin, At, TestFlags, ModeKept
  <2> QED
    BY <1>q, <2>1, <2>2, <2>3, <2>4, <2>5, <2>6, <2>7, <2>8
<1>8. CASE ReadPin("pin2", "low", "answer")
  <2>1. UNCHANGED Rest /\ wpc \notin {"off", "send", "cap_send"} /\ wpc' # "off"
    BY <1>8 DEF ReadPin, At
  <2>2. {bad', fetch', testMode', wrong', leftOn'} \subseteq BOOLEAN
    BY <1>8, <1>i, <1>r, <1>u, <2>1 DEF ReadPin, TestFlags
  <2>3. TaskType'
    BY <1>8, <1>i, <1>r, <1>u, <2>1 DEF ReadPin, TaskType, Places
  <2>4. TaskPlaces'
    BY <1>8, <1>i, <1>r, <1>u, <2>1 DEF ReadPin, At, TaskType, TaskPlaces, SelfPlaces,
       CapturePlaces, Tests, Captures, Always, Optional
  <2>5. GoesOn'
    BY <1>8, <1>i, <1>r, <1>u, <2>1
       DEF ReadPin, At, TestFlags, GoesOn, TaskPlaces, SelfPlaces, GoodPlaces
  <2>6. Accounted'
    BY <1>8, <1>i, <1>r, <1>u, <2>1 DEF ReadPin, At, TestFlags, TaskPlaces, SelfPlaces,
       GoesOn, Accounted, GoodPlaces, Ended
  <2>7. Refused'
    BY <1>8, <1>i, <1>r, <1>u, <2>1 DEF ReadPin, At, TaskType, TaskPlaces, SelfPlaces, GoesOn,
       Refused, GoodPlaces, Ended, Tests, Always, Optional
  <2>8. ModeKept'
    BY <1>8, <1>i, <1>r, <1>u, <2>1 DEF ReadPin, At, TestFlags, ModeKept
  <2> QED
    BY <1>q, <2>1, <2>2, <2>3, <2>4, <2>5, <2>6, <2>7, <2>8
<1>9. CASE ModuleLimit
  <2>1. UNCHANGED Rest /\ wpc \notin {"off", "send", "cap_send"} /\ wpc' # "off"
    BY <1>9 DEF ModuleLimit, Fault, SnrLimit, Snrs, NoLimit, At
  <2>2. {bad', fetch', testMode', wrong', leftOn'} \subseteq BOOLEAN
    BY <1>9, <1>i, <1>r, <1>u, <2>1 DEF ModuleLimit, Fault, SnrLimit, Snrs, NoLimit, TestFlags
  <2>3. TaskType'
    BY <1>9, <1>i, <1>r, <1>u, <2>1
       DEF ModuleLimit, Fault, SnrLimit, Snrs, NoLimit, TaskType, Places
  <2>4. TaskPlaces'
    BY <1>9, <1>i, <1>r, <1>u, <2>1 DEF ModuleLimit, Fault, SnrLimit, Snrs, NoLimit, At,
       TaskType, TaskPlaces, SelfPlaces, CapturePlaces, Tests, Captures, Always, Optional
  <2>5. GoesOn'
    BY <1>9, <1>i, <1>r, <1>u, <2>1 DEF ModuleLimit, Fault, SnrLimit, Snrs, NoLimit, At,
       TestFlags, GoesOn, TaskPlaces, SelfPlaces, GoodPlaces
  <2>6. Accounted'
    BY <1>9, <1>i, <1>r, <1>u, <2>1 DEF ModuleLimit, Fault, SnrLimit, Snrs, NoLimit, At,
       TestFlags, TaskPlaces, SelfPlaces, GoesOn, Accounted, GoodPlaces, Ended
  <2>7. Refused'
    BY <1>9, <1>i, <1>r, <1>u, <2>1 DEF ModuleLimit, Fault, SnrLimit, Snrs, NoLimit, At,
       TaskType, TaskPlaces, SelfPlaces, GoesOn, Refused, GoodPlaces, Ended, Tests, Always,
       Optional
  <2>8. ModeKept'
    BY <1>9, <1>i, <1>r, <1>u, <2>1
       DEF ModuleLimit, Fault, SnrLimit, Snrs, NoLimit, At, TestFlags, ModeKept
  <2> QED
    BY <1>q, <2>1, <2>2, <2>3, <2>4, <2>5, <2>6, <2>7, <2>8
<1>10. CASE RunCommand
  <2>1. UNCHANGED Rest /\ wpc \notin {"off", "send", "cap_send"} /\ wpc' # "off"
    BY <1>10 DEF RunCommand, TestImage, At
  <2>r. ASSUME TaResult
        PROVE  /\ status' \in {"ok", "error"} /\ bad' \in BOOLEAN /\ faults' \in 0 .. MaxFaults
               /\ wrong' \in BOOLEAN /\ (bad' = FALSE /\ status' = "ok" => wrong' = FALSE)
    BY <1>10, <1>i, <2>r, Results DEF RunCommand, At, GoesOn, GoodPlaces
  <2>m. ASSUME ModuleResult
        PROVE  /\ status' \in {"ok", "error"} /\ bad' \in BOOLEAN /\ faults' \in 0 .. MaxFaults
               /\ wrong' \in BOOLEAN /\ (bad' = FALSE /\ status' = "ok" => wrong' = FALSE)
    <3>1. ASSUME NEW snr \in Snrs, bad' = (snr < limit), wrong' = (snr < limit),
                 status' = "ok", UNCHANGED faults
          PROVE  /\ status' \in {"ok", "error"} /\ bad' \in BOOLEAN
                     /\ faults' \in 0 .. MaxFaults
                 /\ wrong' \in BOOLEAN /\ (bad' = FALSE /\ status' = "ok" => wrong' = FALSE)
      BY <1>i, <3>1 DEF TaskType
    <3> QED
      BY <2>m, <2>r, <3>1 DEF ModuleResult
  <2>x. /\ status' \in {"ok", "error", "unsupported"} /\ bad' \in BOOLEAN
        /\ faults' \in 0 .. MaxFaults /\ wrong' \in BOOLEAN
        /\ (bad' = FALSE /\ status' = "ok" => wrong' = FALSE)
        /\ status' = "unsupported" => wkind \in Optional \ Supported
    BY <1>10, <1>i, <2>r, <2>m DEF RunCommand, TestFlags, TaskType
  <2>2. {bad', fetch', testMode', wrong', leftOn'} \subseteq BOOLEAN
    BY <1>10, <1>i, <1>r, <1>u, <2>r, <2>1, <2>x DEF RunCommand, TestImage, TestFlags
  <2>3. TaskType'
    BY <1>10, <1>i, <1>r, <1>u, <2>r, <2>1, <2>x DEF RunCommand, TestImage, TaskType, Places
  <2>4. TaskPlaces'
    BY <1>10, <1>i, <1>r, <1>u, <2>r, <2>1, <2>x DEF RunCommand, TestImage, At, TaskType,
       TaskPlaces, SelfPlaces, CapturePlaces, Tests, Captures, Always, Optional
  <2>5. GoesOn'
    BY <1>10, <1>i, <1>r, <1>u, <2>r, <2>1, <2>x
       DEF RunCommand, TestImage, At, TestFlags, GoesOn, TaskPlaces, SelfPlaces, GoodPlaces
  <2>6. Accounted'
    BY <1>10, <1>i, <1>r, <1>u, <2>r, <2>1, <2>x DEF RunCommand, TestImage, At, TestFlags,
       TaskPlaces, SelfPlaces, GoesOn, Accounted, GoodPlaces, Ended
  <2>7. Refused'
    BY <1>10, <1>i, <1>r, <1>u, <2>r, <2>1, <2>x DEF RunCommand, TestImage, At, TaskType,
       TaskPlaces, SelfPlaces, GoesOn, Refused, GoodPlaces, Ended, Tests, Always, Optional
  <2>8. ModeKept'
    BY <1>10, <1>i, <1>r, <1>u, <2>r, <2>1, <2>x
       DEF RunCommand, TestImage, At, TestFlags, ModeKept
  <2> QED
    BY <1>q, <2>1, <2>2, <2>3, <2>4, <2>5, <2>6, <2>7, <2>8
<1>11. CASE OtpValidation
  <2>1. UNCHANGED Rest /\ wpc \notin {"off", "send", "cap_send"} /\ wpc' # "off"
    BY <1>11 DEF OtpValidation, At
  <2>r. ASSUME TaResult
        PROVE  /\ status' \in {"ok", "error"} /\ bad' \in BOOLEAN /\ faults' \in 0 .. MaxFaults
               /\ wrong' \in BOOLEAN /\ (bad' = FALSE /\ status' = "ok" => wrong' = FALSE)
    BY <1>11, <1>i, <2>r, Results DEF OtpValidation, At, GoesOn, GoodPlaces
  <2>2. {bad', fetch', testMode', wrong', leftOn'} \subseteq BOOLEAN
    BY <1>11, <1>i, <1>r, <1>u, <2>r, <2>1 DEF OtpValidation, TestFlags
  <2>3. TaskType'
    BY <1>11, <1>i, <1>r, <1>u, <2>r, <2>1 DEF OtpValidation, TaskType, Places
  <2>4. TaskPlaces'
    BY <1>11, <1>i, <1>r, <1>u, <2>r, <2>1 DEF OtpValidation, At, TaskType, TaskPlaces,
       SelfPlaces, CapturePlaces, Tests, Captures, Always, Optional
  <2>5. GoesOn'
    BY <1>11, <1>i, <1>r, <1>u, <2>r, <2>1
       DEF OtpValidation, At, TestFlags, GoesOn, TaskPlaces, SelfPlaces, GoodPlaces
  <2>6. Accounted'
    BY <1>11, <1>i, <1>r, <1>u, <2>r, <2>1 DEF OtpValidation, At, TestFlags, TaskPlaces,
       SelfPlaces, GoesOn, Accounted, GoodPlaces, Ended
  <2>7. Refused'
    BY <1>11, <1>i, <1>r, <1>u, <2>r, <2>1 DEF OtpValidation, At, TaskType, TaskPlaces,
       SelfPlaces, GoesOn, Refused, GoodPlaces, Ended, Tests, Always, Optional
  <2>8. ModeKept'
    BY <1>11, <1>i, <1>r, <1>u, <2>r, <2>1 DEF OtpValidation, At, TestFlags, ModeKept
  <2> QED
    BY <1>q, <2>1, <2>2, <2>3, <2>4, <2>5, <2>6, <2>7, <2>8
<1>12. CASE FetchImage
  <2>1. UNCHANGED Rest /\ wpc \notin {"off", "send", "cap_send"} /\ wpc' # "off"
    BY <1>12 DEF FetchImage, Fault, At
  <2>2. {bad', fetch', testMode', wrong', leftOn'} \subseteq BOOLEAN
    BY <1>12, <1>i, <1>r, <1>u, <2>1 DEF FetchImage, Fault, TestFlags
  <2>3. TaskType'
    BY <1>12, <1>i, <1>r, <1>u, <2>1 DEF FetchImage, Fault, TaskType, Places
  <2>4. TaskPlaces'
    BY <1>12, <1>i, <1>r, <1>u, <2>1 DEF FetchImage, Fault, At, TaskType, TaskPlaces,
       SelfPlaces, CapturePlaces, Tests, Captures, Always, Optional
  <2>5. GoesOn'
    BY <1>12, <1>i, <1>r, <1>u, <2>1
       DEF FetchImage, Fault, At, TestFlags, GoesOn, TaskPlaces, SelfPlaces, GoodPlaces
  <2>6. Accounted'
    BY <1>12, <1>i, <1>r, <1>u, <2>1 DEF FetchImage, Fault, At, TestFlags, TaskPlaces,
       SelfPlaces, GoesOn, Accounted, GoodPlaces, Ended
  <2>7. Refused'
    BY <1>12, <1>i, <1>r, <1>u, <2>1 DEF FetchImage, Fault, At, TaskType, TaskPlaces,
       SelfPlaces, GoesOn, Refused, GoodPlaces, Ended, Tests, Always, Optional
  <2>8. ModeKept'
    BY <1>12, <1>i, <1>r, <1>u, <2>1 DEF FetchImage, Fault, At, TestFlags, ModeKept
  <2> QED
    BY <1>q, <2>1, <2>2, <2>3, <2>4, <2>5, <2>6, <2>7, <2>8
<1>13. CASE WaitFingerDown
  <2>1. UNCHANGED Rest /\ wpc \notin {"off", "send", "cap_send"} /\ wpc' # "off"
    BY <1>13 DEF WaitFingerDown, Fault, At
  <2>2. {bad', fetch', testMode', wrong', leftOn'} \subseteq BOOLEAN
    BY <1>13, <1>i, <1>r, <1>u, <2>1 DEF WaitFingerDown, Fault, TestFlags
  <2>3. TaskType'
    BY <1>13, <1>i, <1>r, <1>u, <2>1 DEF WaitFingerDown, Fault, TaskType, Places
  <2>4. TaskPlaces'
    BY <1>13, <1>i, <1>r, <1>u, <2>1 DEF WaitFingerDown, Fault, At, TaskType, TaskPlaces,
       SelfPlaces, CapturePlaces, Tests, Captures, Always, Optional
  <2>5. GoesOn'
    BY <1>13, <1>i, <1>r, <1>u, <2>1
       DEF WaitFingerDown, Fault, At, TestFlags, GoesOn, TaskPlaces, SelfPlaces, GoodPlaces
  <2>6. Accounted'
    BY <1>13, <1>i, <1>r, <1>u, <2>1 DEF WaitFingerDown, Fault, At, TestFlags, TaskPlaces,
       SelfPlaces, GoesOn, Accounted, GoodPlaces, Ended
  <2>7. Refused'
    BY <1>13, <1>i, <1>r, <1>u, <2>1 DEF WaitFingerDown, Fault, At, TaskType, TaskPlaces,
       SelfPlaces, GoesOn, Refused, GoodPlaces, Ended, Tests, Always, Optional
  <2>8. ModeKept'
    BY <1>13, <1>i, <1>r, <1>u, <2>1 DEF WaitFingerDown, Fault, At, TestFlags, ModeKept
  <2> QED
    BY <1>q, <2>1, <2>2, <2>3, <2>4, <2>5, <2>6, <2>7, <2>8
<1>14. CASE WaitCancelled
  <2>1. UNCHANGED Rest /\ wpc \notin {"off", "send", "cap_send"} /\ wpc' # "off"
    BY <1>14 DEF WaitCancelled, At
  <2>2. {bad', fetch', testMode', wrong', leftOn'} \subseteq BOOLEAN
    BY <1>14, <1>i, <1>r, <1>u, <2>1 DEF WaitCancelled, TestFlags
  <2>3. TaskType'
    BY <1>14, <1>i, <1>r, <1>u, <2>1 DEF WaitCancelled, TaskType, Places
  <2>4. TaskPlaces'
    BY <1>14, <1>i, <1>r, <1>u, <2>1 DEF WaitCancelled, At, TaskType, TaskPlaces, SelfPlaces,
       CapturePlaces, Tests, Captures, Always, Optional
  <2>5. GoesOn'
    BY <1>14, <1>i, <1>r, <1>u, <2>1
       DEF WaitCancelled, At, TestFlags, GoesOn, TaskPlaces, SelfPlaces, GoodPlaces
  <2>6. Accounted'
    BY <1>14, <1>i, <1>r, <1>u, <2>1 DEF WaitCancelled, At, TestFlags, TaskPlaces, SelfPlaces,
       GoesOn, Accounted, GoodPlaces, Ended
  <2>7. Refused'
    BY <1>14, <1>i, <1>r, <1>u, <2>1 DEF WaitCancelled, At, TaskType, TaskPlaces, SelfPlaces,
       GoesOn, Refused, GoodPlaces, Ended, Tests, Always, Optional
  <2>8. ModeKept'
    BY <1>14, <1>i, <1>r, <1>u, <2>1 DEF WaitCancelled, At, TestFlags, ModeKept
  <2> QED
    BY <1>q, <2>1, <2>2, <2>3, <2>4, <2>5, <2>6, <2>7, <2>8
<1>15. CASE CaptureCancelled
  <2>1. UNCHANGED Rest /\ wpc \notin {"off", "send", "cap_send"} /\ wpc' # "off"
    BY <1>15 DEF CaptureCancelled, At
  <2>2. {bad', fetch', testMode', wrong', leftOn'} \subseteq BOOLEAN
    BY <1>15, <1>i, <1>r, <1>u, <2>1 DEF CaptureCancelled, TestFlags
  <2>3. TaskType'
    BY <1>15, <1>i, <1>r, <1>u, <2>1 DEF CaptureCancelled, TaskType, Places
  <2>4. TaskPlaces'
    BY <1>15, <1>i, <1>r, <1>u, <2>1 DEF CaptureCancelled, At, TaskType, TaskPlaces,
       SelfPlaces, CapturePlaces, Tests, Captures, Always, Optional
  <2>5. GoesOn'
    BY <1>15, <1>i, <1>r, <1>u, <2>1
       DEF CaptureCancelled, At, TestFlags, GoesOn, TaskPlaces, SelfPlaces, GoodPlaces
  <2>6. Accounted'
    BY <1>15, <1>i, <1>r, <1>u, <2>1 DEF CaptureCancelled, At, TestFlags, TaskPlaces,
       SelfPlaces, GoesOn, Accounted, GoodPlaces, Ended
  <2>7. Refused'
    BY <1>15, <1>i, <1>r, <1>u, <2>1 DEF CaptureCancelled, At, TaskType, TaskPlaces,
       SelfPlaces, GoesOn, Refused, GoodPlaces, Ended, Tests, Always, Optional
  <2>8. ModeKept'
    BY <1>15, <1>i, <1>r, <1>u, <2>1 DEF CaptureCancelled, At, TestFlags, ModeKept
  <2> QED
    BY <1>q, <2>1, <2>2, <2>3, <2>4, <2>5, <2>6, <2>7, <2>8
<1> QED
  BY <1>1, <1>2, <1>3, <1>4, <1>5, <1>6, <1>7, <1>8, <1>9, <1>10, <1>11, <1>12, <1>13, <1>14,
     <1>15

(* A step that neither sends nor delivers a message, nor calls, nor starts a
   task, serves the application as before. *)
LEMMA QuietStep ==
    ASSUME TestInv, UNCHANGED <<queue, got, jtest, jcap, scenario, starts>>,
           wpc' # "off" => wpc # "off" /\ UNCHANGED <<wkind, wreq>>,
           bpc' \in {"module", "join"} /\ bop' \in Tests \cup Captures =>
              bpc \in {"module", "join"} /\ bop' = bop
    PROVE  Flow' /\ MessagesGood' /\ Numbered' /\ PatientServed'
<1>1. Flow' /\ MessagesGood' /\ Numbered'
  BY DEF TestInv, TypeInv, AnswerInv, Flow, MessagesGood, MessageGood, Numbered
<1>2. \A t \in BOOLEAN : /\ Sent(t)' <=> Sent(t)
                         /\ Called(t)' => Called(t)
                         /\ Running(t)' => Running(t) /\ wreq' = wreq
  BY DEF Sent, Called, Running
<1>3. Patient' = Patient /\ \A n : Pending(n)' <=> Pending(n)
  BY DEF Patient, Pending, Requests
<1>4. PatientServed'
  BY <1>2, <1>3 DEF TestInv, AnswerInv, PatientServed, SideOk, OneEach
<1> QED
  BY <1>1, <1>4

(* A start numbers a new request, which has no answer yet; the application
   that waits for its answers has no other one open on this side. *)
LEMMA StartKeeps ==
    ASSUME TestInv, (\E k \in Tests : JavaRunSensorTest(k))
            \/ (\E k \in Captures : JavaCapture(k))
    PROVE  TestInv'
<1> USE SensorTestAssumption
<1>0. MaxStarts \in Nat
  OBVIOUS
<1>1. ASSUME NEW k \in Tests, JavaRunSensorTest(k) PROVE TestInv'
  <2>1. /\ UNCHANGED <<jcap, got, queue, wpc, wkind, wreq, listed, scenario, isTest, isCap,
                       calls,
                       notices, alive, capCb, cancelled, crashed, bad, fetch, testMode, wrong,
                         leftOn>>
        /\ UNCHANGED Worker
        /\ bpc = "free" /\ bpc' \in {"free", "module"} /\ bop' = k /\ testCb' = TRUE
        /\ starts < MaxStarts /\ starts' = starts + 1 /\ jtest' = starts + 1
        /\ Patient => jtest \notin Unanswered
    BY <1>1 DEF JavaRunSensorTest, Call, Worker, task, data, ta, hist, death, Kinds
  <2>2. TaskInv' /\ TaskType'
    BY <2>1, TaskUntouched DEF Worker
  <2>3. TestFlags' /\ AppType' /\ CallType'
    <3>1. TestFlags'
      BY <2>1 DEF TestInv, TypeInv, TestFlags
    <3>2. AppType' /\ CallType'
      BY <1>0, <2>1 DEF TestInv, TypeInv, AppType, CallType
    <3> QED
      BY <3>1, <3>2
  <2>4. Flow' /\ MessagesGood' /\ FlagsSet'
    BY <2>1 DEF TestInv, TypeInv, AnswerInv, Flow, MessagesGood, MessageGood, FlagsSet
  <2>5. Numbered' /\ Pending(jtest)'
    BY <1>0, <2>1 DEF TestInv, TypeInv, AppType, AnswerInv, Numbered, Pending, Requests
  <2>6. ASSUME Patient PROVE SideOk(TRUE, jtest)' /\ SideOk(FALSE, jcap)' /\ OneEach'
    <3>1. ~Pending(jtest) /\ SideOk(TRUE, jtest) /\ SideOk(FALSE, jcap) /\ OneEach
      BY <2>1, <2>6 DEF TestInv, AnswerInv, PatientServed, Unanswered, Pending
    <3>2. ~Sent(TRUE) /\ ~Running(TRUE) /\ ~Called(TRUE)
      BY <3>1 DEF SideOk
    <3>3. ~Sent(TRUE)' /\ ~Running(TRUE)' /\ ~Called(FALSE)'
      BY <2>1, <3>2, Kinds DEF Sent, Running, Called
    <3>4. SideOk(TRUE, jtest)'
      BY <2>1, <2>5, <3>3 DEF SideOk, Sent
    <3>5. /\ Sent(FALSE)' <=> Sent(FALSE)
          /\ Running(FALSE)' <=> Running(FALSE)
          /\ Pending(jcap)' <=> Pending(jcap)
      BY <2>1 DEF Sent, Running, Pending
    <3>6. SideOk(FALSE, jcap)'
      BY <2>1, <3>1, <3>3, <3>5 DEF SideOk
    <3>7. OneEach'
      BY <2>1, <3>1 DEF OneEach
    <3> QED
      BY <3>4, <3>6, <3>7
  <2>7. PatientServed'
    BY <2>1, <2>6 DEF PatientServed, Patient
  <2> QED
    BY <2>2, <2>3, <2>4, <2>5, <2>7 DEF TestInv, TypeInv, AnswerInv
<1>2. ASSUME NEW k \in Captures, JavaCapture(k) PROVE TestInv'
  <2>1. /\ UNCHANGED <<jtest, got, queue, wpc, wkind, wreq, listed, scenario, isTest, isCap,
                       calls,
                       notices, alive, testCb, cancelled, crashed, bad, fetch, testMode,
                         wrong, leftOn>>
        /\ UNCHANGED Worker
        /\ bpc = "free" /\ bpc' \in {"free", "module"} /\ bop' = k /\ capCb' = TRUE
        /\ starts < MaxStarts /\ starts' = starts + 1 /\ jcap' = starts + 1
        /\ Patient => jcap \notin Unanswered
    BY <1>2 DEF JavaCapture, Call, Worker, task, data, ta, hist, death, Kinds
  <2>2. TaskInv' /\ TaskType'
    BY <2>1, TaskUntouched DEF Worker
  <2>3. TestFlags' /\ AppType' /\ CallType'
    <3>1. TestFlags'
      BY <2>1 DEF TestInv, TypeInv, TestFlags
    <3>2. AppType' /\ CallType'
      BY <1>0, <2>1 DEF TestInv, TypeInv, AppType, CallType
    <3> QED
      BY <3>1, <3>2
  <2>4. Flow' /\ MessagesGood' /\ FlagsSet'
    BY <2>1 DEF TestInv, TypeInv, AnswerInv, Flow, MessagesGood, MessageGood, FlagsSet
  <2>5. Numbered' /\ Pending(jcap)'
    BY <1>0, <2>1 DEF TestInv, TypeInv, AppType, AnswerInv, Numbered, Pending, Requests
  <2>6. ASSUME Patient PROVE SideOk(TRUE, jtest)' /\ SideOk(FALSE, jcap)' /\ OneEach'
    <3>1. ~Pending(jcap) /\ SideOk(TRUE, jtest) /\ SideOk(FALSE, jcap) /\ OneEach
      BY <2>1, <2>6 DEF TestInv, AnswerInv, PatientServed, Unanswered, Pending
    <3>2. ~Sent(FALSE) /\ ~Running(FALSE) /\ ~Called(FALSE)
      BY <3>1 DEF SideOk
    <3>3. ~Sent(FALSE)' /\ ~Running(FALSE)' /\ ~Called(TRUE)'
      BY <2>1, <3>2, Kinds DEF Sent, Running, Called
    <3>4. SideOk(FALSE, jcap)'
      BY <2>1, <2>5, <3>3 DEF SideOk, Sent
    <3>5. /\ Sent(TRUE)' <=> Sent(TRUE)
          /\ Running(TRUE)' <=> Running(TRUE)
          /\ Pending(jtest)' <=> Pending(jtest)
      BY <2>1 DEF Sent, Running, Pending
    <3>6. SideOk(TRUE, jtest)'
      BY <2>1, <3>1, <3>3, <3>5 DEF SideOk
    <3>7. OneEach'
      BY <2>1, <3>1 DEF OneEach
    <3> QED
      BY <3>4, <3>6, <3>7
  <2>7. PatientServed'
    BY <2>1, <2>6 DEF PatientServed, Patient
  <2> QED
    BY <2>2, <2>3, <2>4, <2>5, <2>7 DEF TestInv, TypeInv, AnswerInv
<1> QED
  BY <1>1, <1>2

(* The application's other calls, its death, and the service's thread up to the
   point where it knows that no task runs. *)
LEMMA ServiceKeeps ==
    ASSUME TestInv,
           \/ JavaCancelSensorTest \/ JavaCancelCapture
               \/ \E o \in {"info", "tests"} : JavaGet(o)
           \/ Dies \/ GotoIdle \/ ReturnStarted
               \/ \E c \in {"test", "capture"} : DeathNotice(c)
    PROVE  TestInv'
<1> USE SensorTestAssumption
<1>q. ASSUME UNCHANGED <<queue, got, jtest, jcap, Worker, listed, scenario, starts>>,
             {alive', testCb', capCb', isTest', isCap', cancelled',
               crashed'} \subseteq BOOLEAN,
             notices' \subseteq {"test", "capture"}, calls' \in 0 .. MaxCalls, CallType',
               FlagsSet',
             bpc' = "module" => bop' \notin Tests \cup Captures,
             bpc' = "join" => bpc = "module" /\ bop' = bop
      PROVE  TestInv'
  <2>0. UNCHANGED <<wpc, wkind, wreq, bad, fetch, testMode, wrong, leftOn>>
    BY <1>q DEF Worker, task, data, ta, hist
  <2>1. TaskInv' /\ TaskType'
    BY <1>q, TaskUntouched
  <2>2. Flow' /\ MessagesGood' /\ Numbered' /\ PatientServed'
    BY <1>q, <2>0, QuietStep
  <2>3. TestFlags' /\ AppType'
    BY <1>q, <2>0 DEF TestInv, TypeInv, TestFlags, AppType
  <2> QED
    BY <1>q, <2>1, <2>2, <2>3 DEF TestInv, TypeInv, AnswerInv
<1>i. TestFlags /\ AppType /\ CallType /\ FlagsSet
  BY DEF TestInv, TypeInv, AnswerInv
<1>k. {"cancel", "info", "tests"} \cap (Tests \cup Captures) = {}
  BY DEF Tests, Captures, Always, Optional
<1>1. CASE JavaCancelSensorTest
  <2>1. UNCHANGED <<queue, got, jtest, jcap, Worker, listed, scenario, starts>>
    BY <1>1 DEF JavaCancelSensorTest, CancelSensorTest, Call, java, death, binder, bounds
  <2>2. UNCHANGED <<wpc, wkind>>
    BY <2>1 DEF Worker, task
  <2>3. {alive', testCb', capCb', isTest', isCap', cancelled', crashed'} \subseteq BOOLEAN
    BY <1>1, <1>i DEF JavaCancelSensorTest, CancelSensorTest, Call, java, death, binder,
       bounds, TestFlags
  <2>4. notices' \subseteq {"test", "capture"} /\ calls' \in 0 .. MaxCalls
    BY <1>1, <1>i
       DEF JavaCancelSensorTest, CancelSensorTest, Call, java, death, binder, bounds, AppType
  <2>5. CallType'
    BY <1>1, <1>i
       DEF JavaCancelSensorTest, CancelSensorTest, Call, java, death, binder, bounds, CallType
  <2>6. FlagsSet'
    BY <1>1, <1>i, <2>2, Kinds DEF JavaCancelSensorTest, CancelSensorTest, Call, java, death,
       binder, bounds, FlagsSet, CallType
  <2>7. /\ bpc' = "module" => bop' \notin Tests \cup Captures
        /\ bpc' = "join" => bpc = "module" /\ bop' = bop
    BY <1>1, <1>k DEF JavaCancelSensorTest, CancelSensorTest, Call, java, death, binder, bounds
  <2> QED
    BY <1>q, <2>1, <2>3, <2>4, <2>5, <2>6, <2>7
<1>2. CASE JavaCancelCapture
  <2>1. UNCHANGED <<queue, got, jtest, jcap, Worker, listed, scenario, starts>>
    BY <1>2 DEF JavaCancelCapture, CancelCapture, Call, java, death, binder, bounds
  <2>2. UNCHANGED <<wpc, wkind>>
    BY <2>1 DEF Worker, task
  <2>3. {alive', testCb', capCb', isTest', isCap', cancelled', crashed'} \subseteq BOOLEAN
    BY <1>2, <1>i
       DEF JavaCancelCapture, CancelCapture, Call, java, death, binder, bounds, TestFlags
  <2>4. notices' \subseteq {"test", "capture"} /\ calls' \in 0 .. MaxCalls
    BY <1>2, <1>i
       DEF JavaCancelCapture, CancelCapture, Call, java, death, binder, bounds, AppType
  <2>5. CallType'
    BY <1>2, <1>i
       DEF JavaCancelCapture, CancelCapture, Call, java, death, binder, bounds, CallType
  <2>6. FlagsSet'
    BY <1>2, <1>i, <2>2, Kinds DEF JavaCancelCapture, CancelCapture, Call, java, death,
       binder, bounds, FlagsSet, CallType
  <2>7. /\ bpc' = "module" => bop' \notin Tests \cup Captures
        /\ bpc' = "join" => bpc = "module" /\ bop' = bop
    BY <1>2, <1>k DEF JavaCancelCapture, CancelCapture, Call, java, death, binder, bounds
  <2> QED
    BY <1>q, <2>1, <2>3, <2>4, <2>5, <2>6, <2>7
<1>3. CASE \E o \in {"info", "tests"} : JavaGet(o)
  <2>1. UNCHANGED <<queue, got, jtest, jcap, Worker, listed, scenario, starts>>
    BY <1>3 DEF JavaGet, svc, Call, java, death, binder, bounds
  <2>2. UNCHANGED <<wpc, wkind>>
    BY <2>1 DEF Worker, task
  <2>3. {alive', testCb', capCb', isTest', isCap', cancelled', crashed'} \subseteq BOOLEAN
    BY <1>3, <1>i DEF JavaGet, svc, Call, java, death, binder, bounds, TestFlags
  <2>4. notices' \subseteq {"test", "capture"} /\ calls' \in 0 .. MaxCalls
    BY <1>3, <1>i DEF JavaGet, svc, Call, java, death, binder, bounds, AppType
  <2>5. CallType'
    BY <1>3, <1>i DEF JavaGet, svc, Call, java, death, binder, bounds, CallType
  <2>6. FlagsSet'
    BY <1>3, <1>i, <2>2, Kinds
       DEF JavaGet, svc, Call, java, death, binder, bounds, FlagsSet, CallType
  <2>7. /\ bpc' = "module" => bop' \notin Tests \cup Captures
        /\ bpc' = "join" => bpc = "module" /\ bop' = bop
    BY <1>3, <1>k DEF JavaGet, svc, Call, java, death, binder, bounds
  <2> QED
    BY <1>q, <2>1, <2>3, <2>4, <2>5, <2>6, <2>7
<1>4. CASE Dies
  <2>1. UNCHANGED <<queue, got, jtest, jcap, Worker, listed, scenario, starts>>
    BY <1>4 DEF Dies, svc, Call, java, death, binder, bounds
  <2>2. UNCHANGED <<wpc, wkind>>
    BY <2>1 DEF Worker, task
  <2>3. {alive', testCb', capCb', isTest', isCap', cancelled', crashed'} \subseteq BOOLEAN
    BY <1>4, <1>i DEF Dies, svc, Call, java, death, binder, bounds, TestFlags
  <2>4. notices' \subseteq {"test", "capture"} /\ calls' \in 0 .. MaxCalls
    BY <1>4, <1>i DEF Dies, svc, Call, java, death, binder, bounds, AppType
  <2>5. CallType'
    BY <1>4, <1>i DEF Dies, svc, Call, java, death, binder, bounds, CallType
  <2>6. FlagsSet'
    BY <1>4, <1>i, <2>2, Kinds
       DEF Dies, svc, Call, java, death, binder, bounds, FlagsSet, CallType
  <2>7. /\ bpc' = "module" => bop' \notin Tests \cup Captures
        /\ bpc' = "join" => bpc = "module" /\ bop' = bop
    BY <1>4, <1>k DEF Dies, svc, Call, java, death, binder, bounds
  <2> QED
    BY <1>q, <2>1, <2>3, <2>4, <2>5, <2>6, <2>7
<1>5. CASE GotoIdle
  <2>1. UNCHANGED <<queue, got, jtest, jcap, Worker, listed, scenario, starts>>
    BY <1>5 DEF GotoIdle, svc, Call, java, death, binder, bounds
  <2>2. UNCHANGED <<wpc, wkind>>
    BY <2>1 DEF Worker, task
  <2>3. {alive', testCb', capCb', isTest', isCap', cancelled', crashed'} \subseteq BOOLEAN
    BY <1>5, <1>i DEF GotoIdle, svc, Call, java, death, binder, bounds, TestFlags
  <2>4. notices' \subseteq {"test", "capture"} /\ calls' \in 0 .. MaxCalls
    BY <1>5, <1>i DEF GotoIdle, svc, Call, java, death, binder, bounds, AppType
  <2>5. CallType'
    BY <1>5, <1>i DEF GotoIdle, svc, Call, java, death, binder, bounds, CallType
  <2>6. FlagsSet'
    BY <1>5, <1>i, <2>2, Kinds
       DEF GotoIdle, svc, Call, java, death, binder, bounds, FlagsSet, CallType
  <2>7. /\ bpc' = "module" => bop' \notin Tests \cup Captures
        /\ bpc' = "join" => bpc = "module" /\ bop' = bop
    BY <1>5, <1>k DEF GotoIdle, svc, Call, java, death, binder, bounds
  <2> QED
    BY <1>q, <2>1, <2>3, <2>4, <2>5, <2>6, <2>7
<1>6. CASE ReturnStarted
  <2>1. UNCHANGED <<queue, got, jtest, jcap, Worker, listed, scenario, starts>>
    BY <1>6 DEF ReturnStarted, Call, java, death, binder, bounds
  <2>2. UNCHANGED <<wpc, wkind>>
    BY <2>1 DEF Worker, task
  <2>3. {alive', testCb', capCb', isTest', isCap', cancelled', crashed'} \subseteq BOOLEAN
    BY <1>6, <1>i DEF ReturnStarted, Call, java, death, binder, bounds, TestFlags
  <2>4. notices' \subseteq {"test", "capture"} /\ calls' \in 0 .. MaxCalls
    BY <1>6, <1>i DEF ReturnStarted, Call, java, death, binder, bounds, AppType
  <2>5. CallType'
    BY <1>6, <1>i DEF ReturnStarted, Call, java, death, binder, bounds, CallType
  <2>6. FlagsSet'
    <3>1. /\ isTest \/ bop \in Tests => isTest'
          /\ isCap \/ bop \in Captures => isCap'
      BY <1>6, Zenon DEF ReturnStarted
    <3>2. wkind \in Tests \cup Captures
      BY DEF TestInv, TypeInv, TaskType
    <3> QED
      BY <1>i, <2>2, <3>1, <3>2 DEF FlagsSet
  <2>7. /\ bpc' = "module" => bop' \notin Tests \cup Captures
        /\ bpc' = "join" => bpc = "module" /\ bop' = bop
    BY <1>6, <1>k DEF ReturnStarted, Call, java, death, binder, bounds
  <2> QED
    BY <1>q, <2>1, <2>3, <2>4, <2>5, <2>6, <2>7
<1>7. CASE \E c \in {"test", "capture"} : DeathNotice(c)
  <2>1. UNCHANGED <<queue, got, jtest, jcap, Worker, listed, scenario, starts>>
    BY <1>7 DEF DeathNotice, ServiceDied, BinderDied, CancelSensorTest, CancelCapture, svc,
       Call, java, death, binder, bounds
  <2>2. UNCHANGED <<wpc, wkind>>
    BY <2>1 DEF Worker, task
  <2>3. {alive', testCb', capCb', isTest', isCap', cancelled', crashed'} \subseteq BOOLEAN
    BY <1>7, <1>i DEF DeathNotice, ServiceDied, BinderDied, CancelSensorTest, CancelCapture,
       svc, Call, java, death, binder, bounds, TestFlags
  <2>4. notices' \subseteq {"test", "capture"} /\ calls' \in 0 .. MaxCalls
    BY <1>7, <1>i DEF DeathNotice, ServiceDied, BinderDied, CancelSensorTest, CancelCapture,
       svc, Call, java, death, binder, bounds, AppType
  <2>5. CallType'
    BY <1>7, <1>i DEF DeathNotice, ServiceDied, BinderDied, CancelSensorTest, CancelCapture,
       svc, Call, java, death, binder, bounds, CallType
  <2>6. FlagsSet'
    BY <1>7, <1>i, <2>2, Kinds DEF DeathNotice, ServiceDied, BinderDied, CancelSensorTest,
       CancelCapture, svc, Call, java, death, binder, bounds, FlagsSet, CallType
  <2>7. /\ bpc' = "module" => bop' \notin Tests \cup Captures
        /\ bpc' = "join" => bpc = "module" /\ bop' = bop
    BY <1>7, <1>k DEF DeathNotice, ServiceDied, BinderDied, CancelSensorTest, CancelCapture,
       svc, Call, java, death, binder, bounds
  <2> QED
    BY <1>q, <2>1, <2>3, <2>4, <2>5, <2>6, <2>7
<1> QED
  BY <1>1, <1>2, <1>3, <1>4, <1>5, <1>6, <1>7

(* What is left of the queue when its first message is delivered. *)
LEMMA Delivered ==
    ASSUME queue \in Seq(MessageType), queue # <<>>, queue' = Tail(queue)
    PROVE  /\ queue' \in Seq(MessageType) /\ Head(queue) \in MessageType
           /\ Head(queue) = queue[1] /\ 1 \in DOMAIN queue
           /\ \A i \in DOMAIN queue' : /\ i + 1 \in DOMAIN queue /\ i + 1 # 1
                                       /\ queue'[i] = queue[i + 1]
<1>1. DOMAIN queue = 1 .. Len(queue) /\ Len(queue) \in Nat \ {0}
  OBVIOUS
<1>2. Len(queue') = Len(queue) - 1 /\ queue' \in Seq(MessageType)
  BY <1>1
<1>3. DOMAIN queue' = 1 .. Len(queue')
  BY <1>2
<1>4. \A i \in 1 .. Len(queue') : queue'[i] = queue[i + 1]
  BY <1>1, <1>2
<1> QED
  BY <1>1, <1>2, <1>3, <1>4

(* The queue when a message is added to it. *)
LEMMA Posted ==
    ASSUME queue \in Seq(MessageType), NEW m \in MessageType, queue' = queue \o <<m>>
    PROVE  /\ queue' \in Seq(MessageType)
           /\ \A i \in DOMAIN queue' : \/ i \in DOMAIN queue /\ queue'[i] = queue[i]
                                       \/ i = Len(queue) + 1 /\ queue'[i] = m
           /\ Len(queue) + 1 \notin DOMAIN queue
<1>1. <<m>> \in Seq(MessageType) /\ Len(<<m>>) = 1 /\ <<m>>[1] = m
  OBVIOUS
<1>2. /\ queue' \in Seq(MessageType) /\ Len(queue') = Len(queue) + 1 /\ Len(queue) \in Nat
      /\ DOMAIN queue' = 1 .. Len(queue') /\ DOMAIN queue = 1 .. Len(queue)
  BY <1>1
<1>3. \A i \in 1 .. Len(queue) : queue'[i] = queue[i]
  BY <1>1, <1>2
<1>4. queue'[Len(queue) + 1] = m
  BY <1>1, <1>2
<1> QED
  BY <1>2, <1>3, <1>4

(* A message reaches the callback of the request that it answers. *)
LEMMA DeliveryKeeps == ASSUME TestInv, JavaOnResult PROVE TestInv'
<1> DEFINE m == Head(queue)
           n == IF m.test THEN jtest ELSE jcap
<1>0. /\ queue' = Tail(queue) /\ queue # <<>> /\ got' = [got EXCEPT ![n] = Append(@, m.req)]
      /\ UNCHANGED <<jtest, jcap, notices, alive, testCb, capCb, isTest, isCap, bpc, bop,
                     cancelled,
                     wpc, wkind, wreq, bad, fetch, testMode, wrong, leftOn, listed, starts,
                       calls,
                     crashed, scenario>>
      /\ UNCHANGED Worker
  BY DEF JavaOnResult, death, svc, binder, Worker, task, data, ta, hist, bounds
<1>1. TaskInv' /\ TaskType'
  BY <1>0, TaskUntouched
<1>2. TestFlags' /\ AppType' /\ CallType' /\ FlagsSet'
  BY <1>0 DEF TestInv, TypeInv, AnswerInv, TestFlags, AppType, CallType, FlagsSet
<1>3. /\ queue' \in Seq(MessageType) /\ m \in MessageType /\ m = queue[1] /\ 1 \in DOMAIN queue
      /\ \A i \in DOMAIN queue' : i + 1 \in DOMAIN queue /\ i + 1 # 1
          /\ queue'[i] = queue[i + 1]
  BY <1>0, Delivered DEF TestInv, TypeInv, Flow
<1>4. Flow' /\ \A k \in Requests : k # n => got'[k] = got[k]
  <2>1. got \in [Requests -> Seq(0 .. MaxStarts)] /\ m.req \in 0 .. MaxStarts
    BY <1>3 DEF TestInv, TypeInv, Flow, MessageType
  <2>2. n \in Requests => Append(got[n], m.req) \in Seq(0 .. MaxStarts)
    BY <2>1
  <2> QED
    BY <1>0, <1>3, <2>1, <2>2 DEF Flow
<1>5. MessagesGood'
  BY <1>3 DEF TestInv, AnswerInv, MessagesGood, MessageGood
<1>6. Numbered'
  <2>1. n \in 0 .. MaxStarts /\ n <= starts
    BY <1>3 DEF TestInv, TypeInv, AppType, AnswerInv, Numbered, MessageType
  <2>2. starts \in Nat
    BY SensorTestAssumption DEF TestInv, TypeInv, AppType
  <2>3. \A k \in Requests : k > starts => k # n
    BY <2>1, <2>2, SensorTestAssumption DEF Requests
  <2> QED
    BY <1>0, <1>4, <2>3 DEF TestInv, AnswerInv, Numbered
<1>7. ASSUME Patient PROVE SideOk(TRUE, jtest)' /\ SideOk(FALSE, jcap)' /\ OneEach'
  <2>1. SideOk(TRUE, jtest) /\ SideOk(FALSE, jcap) /\ OneEach /\ (jtest = jcap => jtest = 0)
    BY <1>7 DEF TestInv, AnswerInv, PatientServed, Numbered
  <2>2. m.test \in BOOLEAN /\ Sent(m.test) /\ SideOk(m.test, n)
    BY <1>3, <2>1 DEF MessageType, Sent
  <2>3. Pending(n) /\ m.req = n /\ ~Running(m.test) /\ ~Called(m.test)
    BY <1>3, <2>2 DEF SideOk
  <2>4. \A i \in DOMAIN queue' : queue'[i].test # m.test
    BY <1>3, <2>1 DEF OneEach
  <2>5. got'[n] = <<n>>
    <3>1. Append(got[n], m.req) = <<n>>
      BY <2>3 DEF Pending
    <3> QED
      BY <1>0, <2>3, <3>1 DEF Pending, TestInv, TypeInv, Flow
  <2>6. OneEach'
    <3>1. ASSUME NEW i \in DOMAIN queue', NEW j \in DOMAIN queue',
                 queue'[i].test = queue'[j].test
          PROVE  i = j
      <4>1. i + 1 = j + 1
        BY <1>3, <2>1, <3>1 DEF OneEach
      <4>2. i \in Nat /\ j \in Nat
        BY <1>3, <3>1
      <4> QED
        BY <4>1, <4>2
    <3>2. \A k \in Requests : got'[k] \in {<<>>, <<k>>}
      BY <1>4, <2>1, <2>5 DEF OneEach
    <3> QED
      BY <3>1, <3>2 DEF OneEach
  <2>7. ASSUME NEW t \in BOOLEAN
        PROVE  SideOk(t, IF t THEN jtest ELSE jcap)'
    <3> DEFINE k == IF t THEN jtest ELSE jcap
    <3>1. SideOk(t, k) /\ k' = k
      BY <1>0, <2>1
    <3>2. (Running(t)' <=> Running(t)) /\ (Called(t)' <=> Called(t))
      BY <1>0 DEF Running, Called
    <3>3. CASE t = m.test
      <4>1. ~Sent(t)' /\ ~Running(t)' /\ ~Called(t)'
        BY <2>3, <2>4, <3>2, <3>3 DEF Sent
      <4> QED
        BY <2>4, <3>3, <4>1 DEF SideOk
    <3>4. CASE t # m.test
      <4>1. k # n \/ k = 0
        BY <1>7, <2>1, <2>2, <3>4
      <4>2. Pending(k) => Pending(k)'
        BY <1>4, <3>1, <4>1 DEF Pending, Requests
      <4>3. Sent(t)' => Sent(t)
        BY <1>3 DEF Sent
      <4>4. \A i \in DOMAIN queue' : queue'[i].test = t => queue'[i].req = k
        BY <1>3, <3>1 DEF SideOk
      <4> QED
        BY <1>0, <3>1, <3>2, <4>2, <4>3, <4>4 DEF SideOk
    <3> QED
      BY <3>3, <3>4
  <2> QED
    BY <2>6, <2>7
<1>8. PatientServed'
  BY <1>0, <1>7 DEF PatientServed, Patient
<1> QED
  BY <1>1, <1>2, <1>4, <1>5, <1>6, <1>8 DEF TestInv, TypeInv, AnswerInv

(* A task that sends its result, and is over. *)
LEMMA ResultSent ==
    ASSUME TestInv, NEW test \in BOOLEAN, Running(test), wpc \in {"send", "cap_send"},
             TaskEnds,
           NEW m \in MessageType, MessageGood(m), m.req = wreq, m.test = test,
           queue' \in {queue, queue \o <<m>>}, crashed' \in BOOLEAN,
           UNCHANGED <<jtest, jcap, got, death, svc, binder, cancelled, ta, listed, bounds,
                       faults, leftOn, scenario>>
    PROVE  TestInv'
<1>0. /\ UNCHANGED <<alive, notices, testCb, capCb, isTest, isCap, bpc, bop, testMode, img,
                     starts, calls>>
      /\ wpc' = "off" /\ bad' = FALSE /\ fetch' = FALSE /\ wrong' = FALSE
  BY DEF TaskEnds, death, svc, binder, ta, bounds
<1>1. TaskInv' /\ TaskType'
  BY <1>0, TaskGone DEF TestInv, TypeInv, TaskType
<1>2. TestFlags' /\ AppType' /\ CallType' /\ FlagsSet' /\ Numbered'
  BY <1>0 DEF TestInv, TypeInv, AnswerInv, TestFlags, AppType, CallType, FlagsSet, Numbered
<1>3. /\ queue' \in Seq(MessageType)
      /\ \A i \in DOMAIN queue' : \/ i \in DOMAIN queue /\ queue'[i] = queue[i]
                                  \/ i = Len(queue) + 1 /\ queue'[i] = m
      /\ Len(queue) + 1 \notin DOMAIN queue
  <2>1. queue \in Seq(MessageType)
    BY DEF TestInv, TypeInv, Flow
  <2>2. CASE queue' = queue
    <3>1. DOMAIN queue = 1 .. Len(queue) /\ Len(queue) \in Nat
      BY <2>1
    <3> QED
      BY <2>1, <2>2, <3>1
  <2>3. CASE queue' = queue \o <<m>>
    BY <2>1, <2>3, Posted
  <2> QED
    BY <2>2, <2>3
<1>4. Flow' /\ MessagesGood'
  BY <1>3 DEF TestInv, TypeInv, AnswerInv, Flow, MessagesGood, MessageGood
<1>5. ASSUME Patient PROVE SideOk(TRUE, jtest)' /\ SideOk(FALSE, jcap)' /\ OneEach'
  <2> DEFINE n(t) == IF t THEN jtest ELSE jcap
  <2>1. OneEach /\ \A t \in BOOLEAN : SideOk(t, n(t))
    BY <1>5 DEF TestInv, AnswerInv, PatientServed
  <2>2. Pending(n(test)) /\ wreq = n(test) /\ ~Sent(test) /\ ~Called(test)
    BY <2>1 DEF SideOk
  <2>3. \A t \in BOOLEAN : /\ ~Running(t)' /\ (Called(t)' <=> Called(t))
                           /\ Sent(t)' => Sent(t) \/ t = test
    BY <1>0, <1>3 DEF Running, Called, Sent
  <2>4. \A k : Pending(k)' <=> Pending(k)
    BY DEF Pending
  <2>5. OneEach'
    <3>1. \A i \in DOMAIN queue : queue[i].test # m.test
      BY <2>2 DEF Sent
    <3> QED
      BY <1>3, <2>1, <3>1 DEF OneEach
  <2>6. ASSUME NEW t \in BOOLEAN PROVE SideOk(t, n(t))'
    <3>1. \A i \in DOMAIN queue' : queue'[i].test = t => queue'[i].req = n(t)
      BY <1>3, <2>1, <2>2 DEF SideOk
    <3>2. n(t)' = n(t) /\ SideOk(t, n(t))
      BY <2>1
    <3> QED
      BY <2>2, <2>3, <2>4, <3>1, <3>2 DEF SideOk
  <2> QED
    BY <2>5, <2>6
<1>6. PatientServed'
  BY <1>5 DEF PatientServed, Patient
<1> QED
  BY <1>1, <1>2, <1>4, <1>6 DEF TestInv, TypeInv, AnswerInv

(* The verdict that goes out with a test, and the outcome with a capture. *)
LEMMA SendKeeps == ASSUME TestInv, SendTestResult \/ SendCaptureResult PROVE TestInv'
<1>i. TestFlags /\ TaskType /\ TaskPlaces /\ Accounted
  BY DEF TestInv, TypeInv, TaskInv
<1>1. CASE SendTestResult
  <2> DEFINE m == Message(TRUE, ResultCode)
  <2>1. m \in MessageType /\ m.req = wreq /\ m.test = TRUE
    <3>1. ResultCode \in {"pass", "fail", "cancelled", "unsupported", "error"}
      BY DEF ResultCode
    <3>2. (IF TRUE /\ fetch THEN img ELSE 0) \in 0 .. MaxStarts
      BY <1>i, SensorTestAssumption DEF TaskType
    <3> QED
      BY <1>i, <3>1, <3>2 DEF Message, MessageType, TaskType, TestFlags
  <2>2. wpc = "send" /\ Running(TRUE)
    BY <1>1, <1>i DEF SendTestResult, Send, At, Running, TaskPlaces, CapturePlaces, TaskType
  <2>3. MessageGood(m)
    BY <1>i, <2>2 DEF MessageGood, Message, ResultCode, Accounted, Ended
  <2>4. /\ TaskEnds /\ queue' \in {queue, queue \o <<m>>} /\ crashed' \in BOOLEAN
        /\ UNCHANGED <<jtest, jcap, got, death, svc, binder, cancelled, ta, listed, bounds,
                       faults, leftOn, scenario>>
    BY <1>1 DEF SendTestResult, Send
  <2> QED
    BY <2>1, <2>2, <2>3, <2>4, ResultSent
<1>2. CASE SendCaptureResult
  <2> DEFINE m == Message(FALSE, IF status \in {"ok", "quality"} THEN status ELSE "error")
  <2>1. m \in MessageType /\ m.req = wreq /\ m.test = FALSE
    <3>1. (IF status \in {"ok", "quality"} THEN status ELSE "error") \in {"ok", "quality",
            "error"}
      OBVIOUS
    <3>2. 0 \in 0 .. MaxStarts
      BY SensorTestAssumption
    <3> QED
      BY <1>i, <3>1, <3>2 DEF Message, MessageType, TaskType, TestFlags
  <2>2. wpc = "cap_send" /\ Running(FALSE)
    BY <1>2, <1>i DEF SendCaptureResult, Send, At, Running, TaskPlaces, CapturePlaces, TaskType
  <2>3. MessageGood(m)
    BY DEF MessageGood, Message
  <2>4. /\ TaskEnds /\ queue' \in {queue, queue \o <<m>>} /\ crashed' \in BOOLEAN
        /\ UNCHANGED <<jtest, jcap, got, death, svc, binder, cancelled, ta, listed, bounds,
                       faults, leftOn, scenario>>
    BY <1>2 DEF SendCaptureResult, Send
  <2> QED
    BY <2>1, <2>2, <2>3, <2>4, ResultSent
<1> QED
  BY <1>1, <1>2

(* Whether the callback is still there decides if the task goes on to call it
   or is over; the flag is cleared by the task itself. *)
LEMMA CheckKeeps == ASSUME TestInv, TestOnResult \/ CaptureOnResult PROVE TestInv'
<1>0. /\ UNCHANGED <<jtest, jcap, got, queue, alive, notices, testCb, capCb, bpc, bop,
                     cancelled,
                     testMode, img, listed, starts, calls, faults, leftOn, crashed, scenario>>
      /\ wpc \in {"answer", "cap_answer"}
  BY DEF TestOnResult, CaptureOnResult, CheckCallback, At, java, death, binder, ta, bounds
<1>1. isTest' \in BOOLEAN /\ isCap' \in BOOLEAN
  BY DEF TestOnResult, CaptureOnResult, TestInv, TypeInv, TestFlags
<1>2. AppType' /\ CallType'
  BY <1>0 DEF TestInv, TypeInv, AppType, CallType
<1>i. TaskPlaces /\ GoesOn /\ Accounted /\ Refused /\ ModeKept /\ TaskType /\ TestFlags
  BY DEF TestInv, TypeInv, TaskInv
<1>3. CASE TaskEnds
  <2>1. TaskInv' /\ TaskType'
    BY <1>0, <1>3, <1>i, TaskGone DEF TaskType
  <2>2. wpc' = "off" /\ bad' = FALSE /\ fetch' = FALSE /\ wrong' = FALSE
    BY <1>3 DEF TaskEnds
  <2>3. Flow' /\ MessagesGood' /\ Numbered' /\ PatientServed'
    BY <1>0, <2>2, QuietStep
  <2>4. TestFlags' /\ FlagsSet'
    BY <1>0, <1>1, <1>i, <2>2 DEF TestFlags, FlagsSet
  <2> QED
    BY <1>2, <2>1, <2>3, <2>4 DEF TestInv, TypeInv, AnswerInv
<1>4. CASE \/ wpc = "answer" /\ wpc' = "send" /\ UNCHANGED <<task, data, wrong>>
           \/ wpc = "cap_answer" /\ wpc' = "cap_send" /\ UNCHANGED <<task, data, wrong>>
  <2>1. UNCHANGED <<wkind, wreq, status, bad, fetch, limit, pin, sent, wrong>>
    BY <1>4 DEF task, data
  <2>2. TaskType' /\ TestFlags'
    BY <1>0, <1>1, <1>4, <1>i, <2>1 DEF TaskType, Places, TestFlags
  <2>3. TaskInv'
    BY <1>0, <1>4, <1>i, <2>1 DEF TaskInv, TaskPlaces, GoesOn, Accounted, Refused, ModeKept,
       SelfPlaces, CapturePlaces, GoodPlaces, Ended, Supported, Product
  <2>4. Flow' /\ MessagesGood' /\ Numbered' /\ PatientServed'
    BY <1>0, <1>4, <2>1, QuietStep
  <2>5. FlagsSet'
    BY <1>4 DEF FlagsSet
  <2> QED
    BY <1>2, <2>2, <2>3, <2>4, <2>5 DEF TestInv, TypeInv, AnswerInv
<1> QED
  BY <1>3, <1>4 DEF TestOnResult, CaptureOnResult, CheckCallback, At

(* A capture that ends with an image, with an error, or without an answer. *)
LEMMA CaptureKeeps == ASSUME TestInv, CaptureEnds PROVE TestInv'
<1> USE SensorTestAssumption
<1>0. /\ UNCHANGED <<jtest, jcap, got, queue, alive, notices, testCb, capCb, isTest, isCap,
                     bpc, bop,
                     cancelled, testMode, listed, starts, calls, leftOn, crashed, scenario>>
      /\ wpc = "capture"
  BY DEF CaptureEnds, Outside, At, java, death, svc, binder, bounds
<1>i. TaskPlaces /\ GoesOn /\ Accounted /\ Refused /\ ModeKept /\ TaskType /\ TestFlags
  BY DEF TestInv, TypeInv, TaskInv
<1>2. AppType' /\ CallType'
  BY <1>0 DEF TestInv, TypeInv, AppType, CallType
<1>3. CASE Fault /\ TaskEnds /\ UNCHANGED img
  <2>1. faults' \in 0 .. MaxFaults
    BY <1>3, <1>i DEF Fault, TaskType
  <2>2. TaskInv' /\ TaskType'
    BY <1>0, <1>3, <2>1, TaskGone
  <2>3. wpc' = "off" /\ bad' = FALSE /\ fetch' = FALSE /\ wrong' = FALSE
    BY <1>3 DEF TaskEnds
  <2>4. Flow' /\ MessagesGood' /\ Numbered' /\ PatientServed'
    BY <1>0, <2>3, QuietStep
  <2>5. TestFlags' /\ FlagsSet'
    BY <1>0, <1>i, <2>3 DEF TestFlags, FlagsSet
  <2> QED
    BY <1>2, <2>2, <2>4, <2>5 DEF TestInv, TypeInv, AnswerInv
<1>4. CASE /\ status' \in {"ok", "quality", "io"} /\ img' \in {img, wreq}
               /\ wpc' = "cap_answer"
           /\ UNCHANGED <<task, bad, fetch, limit, pin, sent, wrong>>
               /\ faults' \in 0 .. MaxFaults
  <2>1. UNCHANGED <<wkind, wreq>>
    BY <1>4 DEF task
  <2>2. TaskType' /\ TestFlags'
    BY <1>0, <1>4, <1>i, <2>1 DEF TaskType, Places, TestFlags
  <2>3. TaskInv'
    BY <1>0, <1>4, <1>i, <2>1 DEF TaskInv, TaskPlaces, GoesOn, Accounted, Refused, ModeKept,
       SelfPlaces, CapturePlaces, GoodPlaces, Ended, Supported, Product
  <2>4. Flow' /\ MessagesGood' /\ Numbered' /\ PatientServed'
    BY <1>0, <1>4, <2>1, QuietStep
  <2>5. FlagsSet'
    BY <1>0, <1>4, <2>1 DEF FlagsSet, TestInv, AnswerInv
  <2> QED
    BY <1>2, <2>2, <2>3, <2>4, <2>5 DEF TestInv, TypeInv, AnswerInv
<1>5. faults \in 0 .. MaxFaults /\ (Fault => faults' \in 0 .. MaxFaults)
  BY <1>i DEF Fault, TaskType
<1> QED
  BY <1>3, <1>4, <1>5 DEF CaptureEnds

(* Once the running task has ended, the module lists the tests, starts the task
   it was called for, or only goes on. *)
LEMMA JoinedKeeps == ASSUME TestInv, Joined PROVE TestInv'
<1> USE SensorTestAssumption
<1>0. /\ UNCHANGED <<jtest, jcap, got, queue, alive, notices, testCb, capCb, isTest, isCap,
                     bop,
                     testMode, img, starts, calls, leftOn, crashed, scenario>>
      /\ bpc = "join" /\ wpc = "off" /\ cancelled' = FALSE
  BY DEF Joined, java, death, svc, ta, bounds
<1>i. TaskPlaces /\ GoesOn /\ Accounted /\ Refused /\ ModeKept /\ TaskType /\ TestFlags
       /\ AppType
  BY DEF TestInv, TypeInv, TaskInv
<1>s. Supported \subseteq Optional /\ Supported' = Supported /\ Product' = Product
  BY <1>0, <1>i DEF AppType, Supported, Product
<1>1. CASE StartTask
  <2>1. /\ bop \in Tests \cup Captures /\ bpc' = "return" /\ wkind' = bop
        /\ wpc' = (IF bop \in Tests THEN "test" ELSE "capture")
        /\ wreq' = (IF bop \in Tests THEN jtest ELSE jcap)
        /\ UNCHANGED <<status, bad, fetch, limit, pin, sent, wrong, listed, faults>>
    BY <1>1 DEF StartTask, data
  <2>2. TestFlags' /\ AppType' /\ CallType'
    BY <1>0, <1>i, <2>1 DEF TestFlags, AppType, TestInv, TypeInv, CallType
  <2>3. TaskType'
    BY <1>0, <1>i, <2>1 DEF TaskType, Places, AppType
  <2>4. TaskInv'
    BY <1>0, <1>i, <1>s, <2>1, Kinds DEF TaskInv, TaskPlaces, GoesOn, Accounted, Refused,
       ModeKept, SelfPlaces, CapturePlaces, GoodPlaces, Ended
  <2>5. Flow' /\ MessagesGood' /\ Numbered' /\ FlagsSet'
    BY <1>0, <2>1
       DEF TestInv, TypeInv, AnswerInv, Flow, MessagesGood, MessageGood, Numbered, FlagsSet
  <2>6. ASSUME Patient PROVE SideOk(TRUE, jtest)' /\ SideOk(FALSE, jcap)' /\ OneEach'
    <3> DEFINE n(t) == IF t THEN jtest ELSE jcap
               side == bop \in Tests
    <3>1. OneEach /\ \A t \in BOOLEAN : SideOk(t, n(t))
      BY <2>6 DEF TestInv, AnswerInv, PatientServed
    <3>2. Called(side) /\ wreq' = n(side)
      BY <1>0, <2>1 DEF Called
    <3>3. \A t \in BOOLEAN : /\ ~Called(t)' /\ (Running(t)' <=> t = side)
                             /\ Sent(t)' <=> Sent(t)
      BY <1>0, <2>1, Kinds DEF Called, Running, Sent
    <3>4. \A k : Pending(k)' <=> Pending(k)
      BY <1>0 DEF Pending
    <3>5. OneEach'
      BY <1>0, <3>1 DEF OneEach
    <3>6. ASSUME NEW t \in BOOLEAN PROVE SideOk(t, n(t))'
      <4>1. side \in BOOLEAN
        OBVIOUS
      <4>2. n(t)' = n(t) /\ SideOk(t, n(t)) /\ SideOk(side, n(side))
        BY <1>0, <3>1, <4>1
      <4> QED
        BY <1>0, <3>2, <3>3, <3>4, <4>1, <4>2 DEF SideOk
    <3> QED
      BY <3>5, <3>6
  <2>7. PatientServed'
    BY <1>0, <2>6 DEF PatientServed, Patient
  <2> QED
    BY <2>2, <2>3, <2>4, <2>5, <2>7 DEF TestInv, TypeInv, AnswerInv
<1>2. CASE bpc' = "free" /\ UNCHANGED <<wpc, task, status, bad, fetch, limit, pin, sent,
                                        wrong>>
           /\ faults' \in 0 .. MaxFaults /\ listed' \subseteq Always \cup Supported
  <2>1. UNCHANGED <<wkind, wreq>>
    BY <1>2 DEF task
  <2>2. TestFlags' /\ AppType' /\ CallType'
    BY <1>0, <1>2, <1>i, <1>s DEF TestFlags, AppType, TestInv, TypeInv, CallType
  <2>3. TaskType'
    BY <1>0, <1>2, <1>i, <2>1 DEF TaskType
  <2>4. TaskInv'
    BY <1>0, <1>2, <1>i, <1>s, <2>1
       DEF TaskInv, TaskPlaces, GoesOn, Accounted, Refused, ModeKept, Ended
  <2>5. Flow' /\ MessagesGood' /\ Numbered' /\ PatientServed'
    BY <1>0, <1>2, <2>1, QuietStep
  <2>6. FlagsSet'
    BY <1>0, <1>2 DEF FlagsSet
  <2> QED
    BY <2>2, <2>3, <2>4, <2>5, <2>6 DEF TestInv, TypeInv, AnswerInv
<1>3. faults \in 0 .. MaxFaults /\ (Fault => faults' \in 0 .. MaxFaults)
  BY <1>i DEF Fault, TaskType
<1>4. CASE GetSensorTests
  BY <1>2, <1>3, <1>4 DEF GetSensorTests, TestsListed
<1>5. CASE /\ bop \in {"cancel", "info"} /\ bpc' = "free"
           /\ UNCHANGED <<wpc, task, data, listed, faults, wrong>>
  BY <1>2, <1>3, <1>5, <1>i DEF data, Refused
<1> QED
  BY <1>1, <1>4, <1>5 DEF Joined

(* Every step keeps the invariant. *)
LEMMA TestNextInv == TestInv /\ [TestNext]_testvars => TestInv'
<1> SUFFICES ASSUME TestInv, [TestNext]_testvars PROVE TestInv'
  OBVIOUS
<1>1. CASE UNCHANGED testvars
  <2>1. UNCHANGED <<jtest, jcap, got, queue, alive, notices, testCb, capCb, isTest, isCap,
                    bpc, bop,
                    cancelled, wpc, wkind, wreq, bad, fetch, testMode, wrong, leftOn, listed,
                      starts,
                    calls, crashed, scenario>> /\ UNCHANGED Worker
    BY <1>1 DEF testvars, java, death, svc, binder, bounds, task, data, ta, hist, Worker
  <2>2. TaskInv' /\ TaskType'
    BY <2>1, TaskUntouched
  <2>3. Flow' /\ MessagesGood' /\ Numbered'
    BY <2>1 DEF TestInv, TypeInv, AnswerInv, Flow, MessagesGood, MessageGood, Numbered
  <2>4. PatientServed'
    BY <2>1 DEF TestInv, AnswerInv, PatientServed, Patient, SideOk, OneEach, Sent, Running,
       Called, Pending
  <2>5. TestFlags' /\ AppType' /\ CallType' /\ FlagsSet'
    BY <2>1 DEF TestInv, TypeInv, AnswerInv, TestFlags, AppType, CallType, FlagsSet
  <2> QED
    BY <2>2, <2>3, <2>4, <2>5 DEF TestInv, TypeInv, AnswerInv
<1>2. CASE TestNext
  BY <1>2, StartKeeps, ServiceKeeps, DeliveryKeeps, JoinedKeeps, WorkerKeeps, CheckKeeps,
     SendKeeps, CaptureKeeps DEF TestNext, ServiceStep, WorkerStep, FingerComes
<1> QED
  BY <1>1, <1>2

(* A "pass" of do_run_sensor_test is backed by every reading and every command
   of its test, and an image by the test itself; an offered test is not refused. *)
THEOREM SensorTestPassMeansGood == TestSpec => []PassMeansGood
  BY TestInitInv, TestNextInv, TestConsequences, PTL DEF TestSpec

(* The labels clean and out of fpc_tee_sensortest_self_test: no end of a self
   test leaves the sensor in its mode unless the clean-up command failed. *)
THEOREM SensorTestCleaned == TestSpec => []SelfTestCleaned
  BY TestInitInv, TestNextInv, TestConsequences, PTL DEF TestSpec

(* A patient application gets at most one answer to a request, its own, and the
   service knows of every task a cancel must reach. *)
THEOREM SensorTestOwnAnswer == TestSpec => []OwnAnswer
  BY TestInitInv, TestNextInv, TestConsequences, PTL DEF TestSpec

=============================================================================

----------------------------- MODULE FpcHwAuth -----------------------------
(***************************************************************************)
(* Hardware authentication tokens: fpc_ta_hw_auth.c and its callers in     *)
(* fpc_ta_bio.c, driven by the HAL's pre_enroll, post_enroll, enroll,      *)
(* authenticate and remove (fpc_tee_hal.c).  An enrolment needs a token    *)
(* that Gatekeeper made for the challenge the trusted application issued   *)
(* last; an authentication yields a token for the caller's operation.      *)
(*                                                                         *)
(* A token is a record; good says that its version and HMAC are right.     *)
(* Gatekeeper and the framework are external.  The HAL's worker runs one   *)
(* task at a time (FpcHal); a task it aborts leaves the trusted            *)
(* application where it was, and so does a crash of the daemon.  Storing   *)
(* the database is FpcTemplates' subject: here it survives.                *)
(***************************************************************************)
EXTENDS FpcDb, Integers, Sequences

CONSTANTS
    Groups,       \* group ids
    Users,        \* secure user ids
    NoUser,       \* secure user id 0
    OpIds,        \* operation ids of authenticate
    Lifetime,     \* HW_AUTH_CHALLENGE_LIFETIME
    MaxRequests,  \* bound: requests for a challenge
    MaxTime,      \* bound: the clock
    InvalidKey,   \* INVALID_FINGERPRINT_SET_KEY
    MaxMints,     \* bound: tokens Gatekeeper makes
    MaxAdds,      \* bound: templates added
    MaxRestarts   \* bound: restarts of the daemon

ASSUME HwAuthAssumption ==
    /\ NoKey \notin Groups \cup {InvalidKey} /\ InvalidKey \notin Groups
    /\ NoUser \notin Users
    /\ OpIds \subseteq Nat
    /\ Lifetime \in Nat /\ MaxRequests \in Nat /\ MaxTime \in Nat
    /\ MaxMints \in Nat /\ MaxAdds \in Nat /\ MaxRestarts \in Nat

VARIABLES
    now,        \* fpc_get_uptime
    keyset,     \* hmac_key_initialized
    outgoing,   \* outgoing_challenge
    stamp,      \* outgoing_timestamp
    token,      \* incoming_token
    opchal,     \* incoming_challenge
    match,      \* bio->match_result.template_id
    db,         \* bio->user_db
    user,       \* secure_user_id in each template's entry
    akey,       \* bio->active_set_key
    hat,        \* dev->hat
    opid,       \* dev->challenge
    pc,         \* the HAL: closed, idle, or a step of its task
    pending,    \* an enroll call has set dev->hat and waits in goto_idle
    adds,       \* templates added so far; the next id is adds + 1
    restarts,
    requests,   \* history: what each request for a challenge got, and when
    minted,     \* history: tokens Gatekeeper made
    enroller,   \* history: the user whose token authorised each template
    seen,       \* history: the template this authentication has matched
    result      \* the token the last authentication got, if any

clientvars == <<hat, opid, pc, pending>>
authvars   == <<keyset, outgoing, stamp, token>>
matchvars  == <<opchal, match, seen, result>>
dbvars     == <<db, user, akey, adds, enroller>>
envvars    == <<now, restarts, requests, minted>>
vars == <<clientvars, authvars, matchvars, dbvars, envvars>>

Challenges == 1 .. MaxRequests

(* What Gatekeeper makes, and what does not pass the integrity check: the
   user such a token names makes no difference. *)
GoodTokens == [chal : Challenges, user : Users, good : {TRUE}]
BadTokens  == [chal : Challenges \cup {0}, user : {NoUser}, good : {FALSE}]

NoToken  == [chal |-> 0, user |-> NoUser, good |-> FALSE]
NoResult == [op |-> 0, id |-> 0, user |-> NoUser]
TemplateIds == 1 .. MaxAdds

Init ==
    /\ now = 0 /\ restarts = 0
    /\ keyset = FALSE /\ outgoing = 0 /\ stamp = 0 /\ token = NoToken
    /\ opchal = 0 /\ match = 0 /\ seen = 0 /\ result = NoResult
    /\ db = EmptyDb(0) /\ akey = InvalidKey
    /\ user = [i \in TemplateIds |-> NoUser] /\ enroller = [i \in TemplateIds |-> NoUser]
    /\ adds = 0
    /\ hat = NoToken /\ opid = 0 /\ pc = "closed" /\ pending = FALSE
    /\ requests = <<>> /\ minted = {}
-----------------------------------------------------------------------------
(* Environment: the clock, Gatekeeper and the start of the daemon. *)
Tick ==
    /\ now < MaxTime
    /\ now' = now + 1
    /\ UNCHANGED <<clientvars, authvars, matchvars, dbvars, restarts, requests, minted>>

Mint(c, u) ==
    /\ \E k \in DOMAIN requests : requests[k].chal = c
    /\ Cardinality(minted) < MaxMints
    /\ minted' = minted \cup {[chal |-> c, user |-> u, good |-> TRUE]}
    /\ UNCHANGED <<clientvars, authvars, matchvars, dbvars, now, restarts, requests>>

(* fpc_hal_open up to fpc_tee_init_hw_auth: set_shared_key; without the
   key the open fails. *)
Open ==
    /\ pc = "closed"
    /\ \/ keyset' = TRUE /\ pc' = "idle"
       \/ keyset' = FALSE /\ UNCHANGED pc
    /\ UNCHANGED <<hat, opid, pending, outgoing, stamp, token, matchvars, dbvars,
                   envvars>>

(* The daemon dies and dev with it; fpc_ta_hw_auth_init and
   fpc_ta_bio_init run when the trusted application dies too. *)
Restart ==
    /\ restarts < MaxRestarts
    /\ restarts' = restarts + 1
    /\ hat' = NoToken /\ opid' = 0 /\ pc' = "closed" /\ pending' = FALSE
    /\ seen' = 0 /\ result' = NoResult
    /\ \/ UNCHANGED <<authvars, opchal, match, akey>>
       \/ /\ keyset' = FALSE /\ outgoing' = 0 /\ stamp' = -1 /\ token' = NoToken
          /\ opchal' = 0 /\ match' = 0 /\ akey' = InvalidKey
    /\ UNCHANGED <<now, requests, minted, db, user, adds, enroller>>

(* A call that needs the worker idle. *)
Idle == pc = "idle" /\ ~pending

SetActiveGroup(g) ==
    /\ Idle
    /\ akey' = g
    /\ UNCHANGED <<clientvars, authvars, matchvars, db, user, adds, enroller, envvars>>

(* Variant for the sensitivity check: a failed request leaves the old challenge. *)
NewChallengeKeepsOld ==
    /\ Idle
    /\ Len(requests) < MaxRequests
    /\ \/ /\ outgoing' = Len(requests) + 1
          /\ stamp' = now
          /\ requests' = Append(requests, [chal |-> outgoing', at |-> now])
       \/ /\ requests' = Append(requests, [chal |-> 0, at |-> now])
          /\ UNCHANGED <<outgoing, stamp>>
    /\ UNCHANGED <<clientvars, keyset, token, matchvars, dbvars, now, restarts, minted>>

(* fpc_pre_enroll and fpc_post_enroll: get_enrol_challenge.  Challenges
   are random and do not repeat: the k-th request gets k.  The request
   fails when fpc_secure_random does. *)
NewChallenge ==
    /\ Idle
    /\ Len(requests) < MaxRequests
    /\ \/ /\ outgoing' = Len(requests) + 1
          /\ stamp' = now
       \/ outgoing' = 0 /\ UNCHANGED stamp
    /\ requests' = Append(requests, [chal |-> outgoing', at |-> now])
    /\ UNCHANGED <<clientvars, keyset, token, matchvars, dbvars, now, restarts, minted>>
-----------------------------------------------------------------------------
(* fpc_enroll: dev->hat is written before goto_idle, under a running task.
   The framework has set the group, and passes what Gatekeeper made, or
   a token that is no good. *)
EnrollCall(tok) ==
    /\ pc # "closed" /\ ~pending
    /\ akey # InvalidKey
    /\ hat' = tok
    /\ pending' = TRUE
    /\ UNCHANGED <<opid, pc, authvars, matchvars, dbvars, envvars>>

EnrollStart ==
    /\ pc = "idle" /\ pending
    /\ pc' = "en_authorize"
    /\ pending' = FALSE
    /\ UNCHANGED <<hat, opid, authvars, matchvars, dbvars, envvars>>

(* validate_incoming_token *)
Answers(tok) == keyset /\ outgoing # 0 /\ tok.chal = outgoing
Expired == now - stamp > Lifetime
Validates(tok) == Answers(tok) /\ ~Expired /\ tok.good
ExpireChallenge(tok) ==
    outgoing' = IF Answers(tok) /\ Expired THEN 0 ELSE outgoing

(* fpc_tee_authorize_enrol: authorize_enrol copies the token first. *)
EnAuthorize ==
    /\ pc = "en_authorize"
    /\ token' = hat
    /\ ExpireChallenge(hat)
    /\ pc' = IF Validates(hat) THEN "en_capture" ELSE "idle"
    /\ UNCHANGED <<hat, opid, pending, keyset, stamp, matchvars, dbvars, envvars>>

(* The capture loop is over: enough images, or cancelled or an error. *)
EnCaptured ==
    /\ pc = "en_capture"
    /\ \/ pc' = "en_end" /\ adds < MaxAdds
       \/ pc' = "idle"
    /\ UNCHANGED <<hat, opid, pending, authvars, matchvars, dbvars, envvars>>

(* Variant for the sensitivity check: the user of dev->hat instead of incoming_token. *)
EnEndEnrolHatUser ==
    /\ pc = "en_end"
    /\ ExpireChallenge(token)
    /\ Validates(token) /\ ~Foreign(db, akey) /\ ~Full(db)
    /\ adds' = adds + 1
    /\ db' = AddFingerprint(db, akey, adds + 1, 0)
    /\ user' = [user EXCEPT ![adds + 1] = hat.user]
    /\ enroller' = [enroller EXCEPT ![adds + 1] = token.user]
    /\ pc' = "en_check"
    /\ UNCHANGED <<hat, opid, pending, keyset, stamp, token, matchvars, akey, envvars>>

(* fpc_ta_bio_end_enrol: fpc_enrollment_allowed once more, then the add. *)
EnEndEnrol ==
    /\ pc = "en_end"
    /\ ExpireChallenge(token)
    /\ \/ /\ Validates(token) /\ ~Foreign(db, akey) /\ ~Full(db)
          /\ adds' = adds + 1
          /\ db' = AddFingerprint(db, akey, adds + 1, 0)
          /\ user' = [user EXCEPT ![adds + 1] = token.user]
          /\ enroller' = [enroller EXCEPT ![adds + 1] = token.user]
          /\ pc' = "en_check"
       \/ /\ ~Validates(token) \/ Foreign(db, akey) \/ Full(db)
          /\ pc' = "idle"
          /\ UNCHANGED <<adds, db, user, enroller>>
    /\ UNCHANGED <<hat, opid, pending, keyset, stamp, token, matchvars, akey, envvars>>

(* The enrolment is reported, or undone because it was cancelled. *)
EnCheck ==
    /\ pc = "en_check"
    /\ \/ UNCHANGED db
       \/ db' = DeleteFingerprint(db, IndexOfId(db, adds))
    /\ pc' = "idle"
    /\ UNCHANGED <<hat, opid, pending, authvars, matchvars, user, akey, adds,
                   enroller, envvars>>
-----------------------------------------------------------------------------
(* fpc_authenticate and the first steps of do_authenticate. *)
Authenticate(op) ==
    /\ Idle
    /\ opid' = op
    /\ pc' = "au_challenge"
    /\ result' = NoResult /\ seen' = 0
    /\ UNCHANGED <<hat, pending, authvars, opchal, match, dbvars, envvars>>

(* set_auth_challenge *)
AuSetChallenge ==
    /\ pc = "au_challenge"
    /\ match' = 0
    /\ opchal' = opid
    /\ pc' = "au_capture"
    /\ UNCHANGED <<hat, opid, pending, authvars, seen, result, dbvars, envvars>>

(* fpc_ta_bio_identify: a match.  A non-match is captured again. *)
AuIdentify ==
    /\ pc = "au_capture"
    /\ db.key = akey
    /\ \E i \in Valid(db) :
          /\ match' = db.slots[i]
          /\ seen' = db.slots[i]
          /\ db' = SetTemplateFirst(db, ListIndex(db, i))
    /\ pc' = "au_result"
    /\ UNCHANGED <<hat, opid, pending, authvars, opchal, result, user, akey, adds,
                   enroller, envvars>>

(* Cancelled, an error, or too many failed attempts. *)
AuEnds ==
    /\ pc = "au_capture"
    /\ pc' = "idle"
    /\ UNCHANGED <<hat, opid, pending, authvars, matchvars, dbvars, envvars>>

(* get_auth_result, on_authenticated. The entry is looked up by its id;
   a failed lookup of the user leaves secure_user_id 0. *)
AuResult ==
    /\ pc = "au_result"
    /\ \/ /\ match \in Ids(db)
          /\ result' = [op   |-> opchal,
                        id   |-> match,
                        user |-> IF db.key = akey
                                   THEN user[db.slots[IndexOfId(db, match)]]
                                   ELSE NoUser]
       \/ match \notin Ids(db) /\ UNCHANGED result
    /\ pc' = "idle"
    /\ UNCHANGED <<hat, opid, pending, authvars, opchal, match, seen, dbvars, envvars>>

(* fpc_remove and do_remove of one finger. *)
Remove(fid) ==
    /\ Idle
    /\ fid \in IdsOf(db, akey)
    /\ db' = DeleteFingerprint(db, IndexOfId(db, fid))
    /\ UNCHANGED <<clientvars, authvars, matchvars, user, akey, adds, enroller, envvars>>

Next ==
    \/ Tick \/ Open \/ Restart \/ NewChallenge
    \/ \E c \in Challenges, u \in Users : Mint(c, u)
    \/ \E g \in Groups : SetActiveGroup(g)
    \/ \E tok \in minted \cup BadTokens : EnrollCall(tok)
    \/ EnrollStart \/ EnAuthorize \/ EnCaptured \/ EnEndEnrol \/ EnCheck
    \/ \E op \in OpIds : Authenticate(op)
    \/ AuSetChallenge \/ AuIdentify \/ AuEnds \/ AuResult
    \/ \E fid \in TemplateIds : Remove(fid)

Spec == Init /\ [][Next]_vars
-----------------------------------------------------------------------------
(* Type correctness. *)
TypeOK ==
    /\ now \in Nat /\ restarts \in Nat /\ adds \in 0 .. MaxAdds
    /\ keyset \in BOOLEAN /\ pending \in BOOLEAN
    /\ outgoing \in Challenges \cup {0} /\ stamp \in Int
    /\ token \in GoodTokens \cup BadTokens /\ hat \in GoodTokens \cup BadTokens
    /\ opchal \in OpIds \cup {0} /\ opid \in OpIds \cup {0}
    /\ match \in TemplateIds \cup {0} /\ seen \in TemplateIds \cup {0}
    /\ db \in [id : {0}, key : Groups \cup {NoKey}, slots : [Index -> TemplateIds \cup {0}]]
    /\ user \in [TemplateIds -> Users \cup {NoUser}]
    /\ enroller \in [TemplateIds -> Users \cup {NoUser}]
    /\ akey \in Groups \cup {InvalidKey}
    /\ pc \in {"closed", "idle", "en_authorize", "en_capture", "en_end", "en_check",
               "au_challenge", "au_capture", "au_result"}
    /\ requests \in Seq([chal : Challenges \cup {0}, at : Nat])
    /\ Len(requests) <= MaxRequests
    /\ minted \subseteq GoodTokens
    /\ result \in [op : OpIds \cup {0}, id : TemplateIds \cup {0}, user : Users \cup {NoUser}]

(* A template enters the database only with a token Gatekeeper made for
   the challenge issued last, no older than its lifetime at that moment:
   pre_enroll and post_enroll revoke every earlier challenge, also when
   they fail, and a token authorised before is checked again at the end
   (validate_incoming_token, fpc_enrollment_allowed). *)
EnrolAuthorised ==
    [][ adds' # adds =>
          /\ requests # <<>>
          /\ LET r == requests[Len(requests)]
             IN  /\ r.chal # 0
                 /\ [chal |-> r.chal, user |-> user'[adds'], good |-> TRUE] \in minted
                 /\ now - r.at <= Lifetime ]_vars

(* A token handed out by authenticate is for the operation that is asked
   for, names the finger this very authentication matched, never one that
   an earlier or aborted one left in match_result, and carries the user
   whose token authorised the enrolment of that finger, wherever
   fpc_db_set_template_first has moved it. *)
ResultBound ==
    result # NoResult => /\ result.op = opid
                         /\ result.id = seen
                         /\ result.user = enroller[result.id]
                         /\ result.user \in Users
=============================================================================

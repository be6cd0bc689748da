---------------------------- MODULE FpcPnProofs -----------------------------
(***************************************************************************)
(* The safety properties of FpcPn proved for every set of scenarios        *)
(* (either service, whatever may fail, any number of requests and calls)   *)
(* and any number of failures.                                             *)
(***************************************************************************)
EXTENDS FpcPn, TLAPS

(* A task that has not answered yet. *)
Active == wpc \notin {"off", "reset", "crashed"}

(* A request without an answer. *)
Waiting(n) == n \in Requests /\ got[n] = <<>>

(* No request is answered twice. *)
AtMostOne == \A n \in Requests : Len(got[n]) <= 1

(* Without failures a sound PN file is the image in use. *)
LoadedIsFile == faults = 0 /\ file >= 0 /\ wpc # "load" => loaded = file

(* Requests and challenges are numbered in the order they are made: those to
   come have no answer and no challenge.  A task counts its tries only after it
   has begun to calibrate. *)
Counted ==
    /\ issued <= calls /\ jrec <= starts /\ jcal <= starts
    /\ jrec = jcal => jrec = 0
    /\ \A n \in Requests : n > starts => got[n] = <<>>
    /\ wpc \in {"auth", "lost", "down", "finger", "check", "size"} => tries = 0
    /\ wpc = "try" => tries < MaxTries

(* Which task is at which place, and whose image it saves and loads: between
   the write and the load the file is the one this task wrote, or a damaged
   one. *)
TaskPlaces ==
    /\ wpc \in {"auth", "finger", "check", "end", "reset"} => wkind = "recal"
    /\ wpc = "try" => wkind = "cal"
    /\ wpc \in {"save", "load"} => image \in {wreq, Torn}
    /\ wpc = "load" => file \in {wreq, Torn, Long}

(* Which call the service is in.  A call that is about to start a task has a
   request without an answer, and no other task of its kind is under way. *)
CallPlaces ==
    /\ bpc = "token" => bop = "recal"
    /\ bpc = "set_cb" => bop = "cal"
    /\ bpc = "reset" => bop = "cancel"
    /\ bpc \in {"token", "idle", "join"} /\ bop = "recal" =>
          Waiting(jrec) /\ ~(Active /\ wkind = "recal") /\ (bpc = "token" \/ ~canceled)
    /\ bpc \in {"set_cb", "idle", "join"} /\ bop = "cal" =>
          Waiting(jcal) /\ ~(Active /\ wkind = "cal")

(* The heart of the invariant: a task that has not answered works for the
   request the application waits for, and module->canceled is set on a
   recalibration only by the cancel that will join it. *)
OwnRequest ==
    Active => IF wkind = "recal"
              THEN /\ wreq = jrec /\ Waiting(jrec)
                   /\ canceled => bop = "cancel" /\ bpc \in {"idle", "join"}
              ELSE wreq = jcal /\ Waiting(jcal)

(* The places between calibrate_finger and calibrate_finger_end. *)
Collecting == wkind = "recal" /\ wpc \in {"finger", "check", "size", "end"}

(* A BioLib session is owed its end only where the end is still to come, and is
   the session of the running request. *)
SessionKept ==
    /\ owed => Collecting \/ {"size", "memory"} \cap Faults # {}
    /\ faults = 0 /\ session # 0 => Collecting /\ session = wreq

(* TypeOK, by who writes the variables. *)
Booleans ==
    {alive, notice, rcb, ccb, modCb, canceled, cancelled, stale, owed} \subseteq BOOLEAN

AppType ==
    /\ scenario \in Scenarios
    /\ jrec \in 0 .. MaxStarts /\ jcal \in 0 .. MaxStarts
    /\ challenges \subseteq 1 .. MaxCalls /\ got \in [Requests -> Seq({"done"} \cup Codes)]
    /\ starts \in 0 .. MaxStarts /\ calls \in 0 .. MaxCalls /\ faults \in 0 .. MaxFaults

ServiceType ==
    /\ bpc \in {"free", "set_cb", "token", "idle", "join", "reset"}
    /\ bop \in {"recal", "cal", "cancel"}
    /\ btok \in Token /\ token \in Token

TaskType ==
    /\ wpc \in {"off", "auth", "lost", "down", "finger", "check", "size", "end", "try",
                "save", "load", "answer", "reset", "crashed"}
    /\ wkind \in {"recal", "cal"} /\ wreq \in 0 .. MaxStarts
    /\ status \in Statuses /\ code \in Codes
    /\ tries \in 0 .. MaxTries /\ image \in Images \cup {None, Torn}

TaType ==
    /\ outgoing \in 0 .. MaxCalls /\ issued \in 0 .. MaxCalls /\ incoming \in Token
    /\ session \in 0 .. MaxStarts /\ loaded \in Images \cup {None}
    /\ file \in Images \cup {None, Torn, Long} /\ debug \in Images \cup {None, Torn, Long}

TypeInv == Booleans /\ AppType /\ ServiceType /\ TaskType /\ TaType

(* The inductive invariant. *)
IInv ==
    /\ TypeInv /\ AtMostOne /\ LoadedIsFile /\ Counted /\ TaskPlaces /\ CallPlaces
    /\ OwnRequest /\ SessionKept

(* The parts together are TypeOK. *)
LEMMA TypeParts == TypeInv <=> TypeOK
BY DEF TypeInv, Booleans, AppType, ServiceType, TaskType, TaType, TypeOK

(* What the invariant is for. *)
LEMMA IInvAnswered == IInv => AnsweredOnce
BY TypeParts DEF IInv, AtMostOne, LoadedIsFile, SessionKept, Collecting, AnsweredOnce

(* The invariant holds initially. *)
LEMMA InitIInv == Init => IInv
<1> SUFFICES ASSUME Init PROVE IInv
  OBVIOUS
<1> USE PnAssumption
<1>1. MaxStarts \in Nat /\ MaxCalls \in Nat
  BY DEF Init, MaxStarts, MaxCalls
<1>2. {alive, notice, rcb, ccb, modCb, canceled, cancelled, stale, owed} \subseteq BOOLEAN
  BY DEF Init
<1>3. NoToken \in Token
  BY <1>1 DEF NoToken, Token
<1>4. got \in [Requests -> Seq({"done"} \cup Codes)] /\ \A n \in Requests : got[n] = <<>>
  BY <1>1 DEF Init
<1>5. TypeOK
  BY <1>1, <1>2, <1>3, <1>4
     DEF Init, TypeOK, Images, None, Torn, Long, Codes, Statuses, MaxTries
<1>6. AtMostOne
  BY <1>4 DEF AtMostOne
<1> QED
  BY <1>1, <1>4, <1>5, <1>6, TypeParts DEF Init, IInv, LoadedIsFile, Counted, TaskPlaces,
     CallPlaces, OwnRequest, SessionKept, Active, Collecting, None, Torn, Long

(* on_message of the application: the task answers its own request, which had
   no answer, with m or (the application is dead or has no callback) not at
   all; every other request keeps what it got. *)
LEMMA TellFacts ==
    ASSUME IInv, Active, NEW m \in {"done"} \cup Codes, Tell(m)
    PROVE  /\ got' \in [Requests -> Seq({"done"} \cup Codes)]
           /\ wreq \in Requests /\ got[wreq] = <<>>
           /\ \A n \in Requests : n # wreq => got'[n] = got[n]
           /\ got'[wreq] = <<>> \/ got'[wreq] = <<m>>
           /\ \A n \in Requests : Len(got'[n]) <= 1
<1>1. /\ got \in [Requests -> Seq({"done"} \cup Codes)]
      /\ wreq \in Requests /\ got[wreq] = <<>>
      /\ wreq = IF wkind = "recal" THEN jrec ELSE jcal
  BY DEF IInv, TypeInv, AppType, OwnRequest, Waiting
<1>2. got' \in {got, [got EXCEPT ![wreq] = Append(@, m)]}
  BY <1>1 DEF Tell, TellRecalibration, TellCalibration, OnMessage
<1>3. Append(got[wreq], m) = <<m>> /\ <<m>> \in Seq({"done"} \cup Codes)
  BY <1>1
<1>4. Len(<<m>>) = 1 /\ Len(<<>>) = 0 /\ \A n \in Requests : Len(got[n]) <= 1
  BY DEF IInv, AtMostOne
<1>5. CASE got' = got
  BY <1>1, <1>4, <1>5
<1>6. CASE got' = [got EXCEPT ![wreq] = Append(@, m)]
  <2>1. got' = [got EXCEPT ![wreq] = <<m>>]
    BY <1>3, <1>6
  <2> QED
    BY <1>1, <1>3, <1>4, <2>1
<1> QED
  BY <1>2, <1>5, <1>6

(* The requests whose task is still to start are not the one a task answers. *)
LEMMA OthersWait ==
    ASSUME IInv, Active, wreq \in Requests,
           \A n \in Requests : n # wreq => got'[n] = got[n]
    PROVE  /\ \A n \in Requests : n > starts => got'[n] = <<>>
           /\ bpc \in {"token", "idle", "join"} /\ bop = "recal" =>
                 jrec \in Requests /\ got'[jrec] = <<>>
           /\ bpc \in {"set_cb", "idle", "join"} /\ bop = "cal" =>
                 jcal \in Requests /\ got'[jcal] = <<>>
<1>1. /\ wreq = IF wkind = "recal" THEN jrec ELSE jcal
      /\ starts \in Nat /\ Requests \subseteq Nat \ {0}
  BY DEF IInv, TypeInv, AppType, OwnRequest, Requests, MaxStarts
<1>2. wreq <= starts /\ jrec # jcal
  BY <1>1 DEF IInv, TypeInv, AppType, Counted
<1>3. \A n \in Requests : n > starts => got'[n] = <<>>
  BY <1>1, <1>2 DEF IInv, Counted
<1>4. ASSUME bpc \in {"token", "idle", "join"}, bop = "recal"
      PROVE  jrec \in Requests /\ got'[jrec] = <<>>
  <2>1. wkind # "recal" /\ jrec \in Requests /\ got[jrec] = <<>>
    BY <1>4 DEF IInv, CallPlaces, Waiting
  <2> QED
    BY <1>1, <1>2, <2>1
<1>5. ASSUME bpc \in {"set_cb", "idle", "join"}, bop = "cal"
      PROVE  jcal \in Requests /\ got'[jcal] = <<>>
  <2>1. wkind = "recal" /\ jcal \in Requests /\ got[jcal] = <<>>
    BY <1>5 DEF IInv, TypeInv, TaskType, CallPlaces, Waiting
  <2> QED
    BY <1>1, <1>2, <2>1
<1> QED
  BY <1>3, <1>4, <1>5

(* Every step keeps the invariant. *)
LEMMA NextIInv == IInv /\ [Next]_vars => IInv'
<1> SUFFICES ASSUME IInv, [Next]_vars PROVE IInv'
  OBVIOUS
<1> USE PnAssumption
<1>c. /\ MaxStarts \in Nat /\ MaxCalls \in Nat
      /\ scenario' = scenario /\ MaxStarts' = MaxStarts /\ MaxCalls' = MaxCalls
      /\ Requests' = Requests /\ Faults' = Faults /\ Images' = Images /\ Token' = Token
      /\ Requests = 1 .. MaxStarts
  <2>1. MaxStarts \in Nat /\ MaxCalls \in Nat
    BY DEF IInv, TypeInv, AppType, MaxStarts, MaxCalls
  <2>2. scenario' = scenario
    BY DEF Next, Service, Worker, vars, bounds, JavaRecalibrate, JavaCalibrate, JavaCancel,
       JavaPreRecalibrate, Expire, Dies, Restart, FingerDown, SetCalibrationCb, StoreToken,
       GotoIdle, Joined, CancelReset, DeathNotice, Authorize, FingerLost, DownEnds,
       CalibrateFinger, CheckFinger, GetSize, FingerEnd, CalibrateTry, SavePn, LoadAndAnswer,
       Answer, TaskReset, Still, Outside, NotApp
  <2> QED
    BY <2>1, <2>2 DEF MaxStarts, MaxCalls, Requests, Faults, Images, Token
<1>f. faults' \in 0 .. MaxFaults /\ (faults' = 0 => faults = 0)
  <2>1. faults \in 0 .. MaxFaults
    BY DEF IInv, TypeInv, AppType
  <2>2. UNCHANGED faults \/ \E k \in Kinds : Fault(k)
    BY DEF Next, Service, Worker, vars, JavaRecalibrate, JavaCalibrate, JavaCancel,
       JavaPreRecalibrate, Expire, Dies, Restart, FingerDown, SetCalibrationCb, StoreToken,
       GotoIdle, Joined, CancelReset, DeathNotice, Authorize, FingerLost, DownEnds,
       CalibrateFinger, CheckFinger, GetSize, FingerEnd, CalibrateTry, SavePn, LoadAndAnswer,
       Answer, TaskReset, CallFrom, ServiceRecalibrate, SetRecalibrationCb, Answered,
       ServiceCalibrate, CancelRecalibration, PreRecalibratePn, PnGetChallenge, At, Still,
       Outside, ResetRecalibration, ServiceDied, BinderDied, TeePnAuthorize, PnAuthorize, Out,
       TaCalibrateFinger, CleanUp, TeePnGetSize, TaPnGetSize, TeeCalibrateFingerEnd,
       TaCalibrateFingerEnd, TeePnCalibrate, TaPnCalibrate, Written, LoadPn, TeePnLoad,
       TaPnLoad, ReadFails, SavePnDebug, LeaveTask, NotApp, Kinds
  <2> QED
    BY ONLY PnAssumption, <2>1, <2>2 DEF Fault
<1>g. \A k : Fault(k) => faults' # 0 /\ k \in Faults
  BY DEF Fault, IInv, TypeInv, AppType
<1> USE DEF IInv
<1>t. NoToken \in Token
  BY <1>c DEF NoToken, Token
<1>1. CASE JavaRecalibrate
  <2> USE <1>c, <1>t, <1>f, <1>g, <1>1 DEF JavaRecalibrate, CallFrom, ServiceRecalibrate,
         SetRecalibrationCb, Answered, app, svc, module, task, security, ta, files, bounds
  <2>p. /\ starts < MaxStarts /\ starts' = starts + 1 /\ jrec' = starts + 1
        /\ UNCHANGED <<jcal, got, calls, scenario, faults, challenges>>
        /\ bpc = "free" /\ bpc' = "token" /\ bop' = "recal" /\ alive
        /\ UNCHANGED <<canceled, task, ta, files, token, security>>
    OBVIOUS
  <2>r. btok' \in Token
    <3>1. btok' \in [ch : challenges, sound : BOOLEAN] \cup {NoToken}
      OBVIOUS
    <3>2. challenges \subseteq 0 .. MaxCalls
      BY ONLY <1>c, IInv DEF IInv, TypeInv, AppType
    <3>3. [ch : challenges, sound : BOOLEAN] \subseteq Token
      BY ONLY <3>2 DEF Token
    <3> QED
      BY ONLY <1>t, <3>1, <3>3
  <2>q. got[jrec] # <<>> \/ jrec \notin Requests \/ canceled
    OBVIOUS
  <2>1. Booleans'
    BY DEF TypeInv, Booleans
  <2>2. AppType' /\ ServiceType'
    BY ONLY PnAssumption, IInv, <1>c, <1>f, <2>p, <2>q, <2>r DEF app, svc, module, task,
       security, ta, files, bounds, IInv, TypeInv, AppType, ServiceType, Counted, Token
  <2>3. TaskType' /\ TaType'
    BY ONLY PnAssumption, IInv, <1>c, <1>f, <2>p, <2>q, <2>r DEF app, svc, module, task,
       security, ta, files, bounds, IInv, TypeInv, AppType, ServiceType, TaskType, TaType,
       Counted, Images, None, Torn, Long, Codes, Statuses, MaxTries
  <2>4. AtMostOne' /\ LoadedIsFile' /\ Counted' /\ TaskPlaces'
    BY ONLY PnAssumption, IInv, <1>c, <1>f, <2>p, <2>q, <2>r DEF app, svc, module, task,
       security, ta, files, bounds, IInv, TypeInv, AppType, ServiceType, TaskType, TaType,
       AtMostOne, LoadedIsFile, Counted, TaskPlaces, None, Torn, Long, MaxTries
  <2>5. CallPlaces' /\ OwnRequest'
    BY ONLY PnAssumption, IInv, <1>c, <1>f, <2>p, <2>q, <2>r DEF app, svc, module, task,
       security, ta, files, bounds, IInv, TypeInv, AppType, ServiceType, TaskType, TaType,
       CallPlaces, OwnRequest, Active, Waiting, Counted, TaskPlaces
  <2>6. SessionKept'
    BY ONLY PnAssumption, IInv, <1>c, <1>f, <2>p, <2>q, <2>r DEF app, svc, module, task,
       security, ta, files, bounds, IInv, TypeInv, AppType, ServiceType, TaskType, TaType,
       SessionKept, Collecting, TaskPlaces, Kinds
  <2> QED
    BY ONLY <2>1, <2>2, <2>3, <2>4, <2>5, <2>6 DEF IInv, TypeInv
<1>2. CASE JavaCalibrate
  <2> USE <1>c, <1>t, <1>f, <1>g, <1>2 DEF JavaCalibrate, CallFrom, ServiceCalibrate,
         Answered, app, svc, module, task, security, ta, files, bounds
  <2>p. /\ starts < MaxStarts /\ starts' = starts + 1 /\ jcal' = starts + 1
        /\ UNCHANGED <<jrec, got, calls, scenario, faults, challenges>>
        /\ bpc = "free" /\ bpc' = "set_cb" /\ bop' = "cal" /\ alive
        /\ UNCHANGED <<canceled, task, ta, files, token, btok, security>>
    OBVIOUS
  <2>q. got[jcal] # <<>> \/ jcal \notin Requests
    OBVIOUS
  <2>1. Booleans'
    BY DEF TypeInv, Booleans
  <2>2. AppType' /\ ServiceType'
    BY ONLY PnAssumption, IInv, <1>c, <1>f, <2>p, <2>q DEF app, svc, module, task, security,
       ta, files, bounds, IInv, TypeInv, AppType, ServiceType, Counted, Token
  <2>3. TaskType' /\ TaType'
    BY ONLY PnAssumption, IInv, <1>c, <1>f, <2>p, <2>q DEF app, svc, module, task, security,
       ta, files, bounds, IInv, TypeInv, AppType, ServiceType, TaskType, TaType, Counted,
       Images, None, Torn, Long, Codes, Statuses, MaxTries
  <2>4. AtMostOne' /\ LoadedIsFile' /\ Counted' /\ TaskPlaces'
    BY ONLY PnAssumption, IInv, <1>c, <1>f, <2>p, <2>q DEF app, svc, module, task, security,
       ta, files, bounds, IInv, TypeInv, AppType, ServiceType, TaskType, TaType, AtMostOne,
       LoadedIsFile, Counted, TaskPlaces, None, Torn, Long, MaxTries
  <2>5. CallPlaces' /\ OwnRequest'
    BY ONLY PnAssumption, IInv, <1>c, <1>f, <2>p, <2>q DEF app, svc, module, task, security,
       ta, files, bounds, IInv, TypeInv, AppType, ServiceType, TaskType, TaType, CallPlaces,
       OwnRequest, Active, Waiting, Counted, TaskPlaces
  <2>6. SessionKept'
    BY ONLY PnAssumption, IInv, <1>c, <1>f, <2>p, <2>q DEF app, svc, module, task, security,
       ta, files, bounds, IInv, TypeInv, AppType, ServiceType, TaskType, TaType, SessionKept,
       Collecting, TaskPlaces, Kinds
  <2> QED
    BY ONLY <2>1, <2>2, <2>3, <2>4, <2>5, <2>6 DEF IInv, TypeInv
<1>3. CASE JavaCancel
  <2> USE <1>c, <1>t, <1>f, <1>g, <1>3 DEF JavaCancel, CallFrom, CancelRecalibration, app,
         svc, module, task, security, ta, files, bounds
  <2>1. Booleans'
    BY DEF TypeInv, Booleans
  <2>2. AppType' /\ ServiceType'
    BY DEF TypeInv, AppType, ServiceType, Token
  <2>3. TaskType' /\ TaType'
    BY DEF TypeInv, AppType, ServiceType, TaskType, TaType, Counted, Images, None, Torn, Long,
       Codes, Statuses, MaxTries
  <2>4. AtMostOne' /\ LoadedIsFile' /\ Counted' /\ TaskPlaces'
    BY DEF TypeInv, AppType, ServiceType, TaskType, TaType, AtMostOne, LoadedIsFile, Counted,
       TaskPlaces, None, Torn, Long, MaxTries
  <2>5. CallPlaces' /\ OwnRequest'
    BY DEF TypeInv, AppType, ServiceType, TaskType, TaType, CallPlaces, OwnRequest, Active,
       Waiting, Counted, TaskPlaces
  <2>6. SessionKept'
    BY DEF TypeInv, AppType, ServiceType, TaskType, TaType, SessionKept, Collecting,
       TaskPlaces, Kinds
  <2> QED
    BY ONLY <2>1, <2>2, <2>3, <2>4, <2>5, <2>6 DEF IInv, TypeInv
<1>4. CASE JavaPreRecalibrate
  <2> USE <1>c, <1>t, <1>f, <1>g, <1>4 DEF JavaPreRecalibrate, CallFrom, PreRecalibratePn,
         PnGetChallenge, app, svc, module, task, security, ta, files, bounds
  <2>p. issued + 1 \in 1 .. MaxCalls /\ issued \in 0 .. MaxCalls
    BY DEF TypeInv, AppType, TaType, Counted
  <2>q. challenges' \subseteq 1 .. MaxCalls
    BY <2>p DEF TypeInv, AppType
  <2>r. calls' \in 0 .. MaxCalls /\ faults' \in 0 .. MaxFaults
    BY DEF TypeInv, AppType
  <2>1. Booleans'
    BY DEF TypeInv, Booleans
  <2>2. AppType' /\ ServiceType'
    BY <2>p, <2>q, <2>r DEF TypeInv, AppType, ServiceType, Counted, Token
  <2>3. TaskType' /\ TaType'
    BY <2>p, <2>q, <2>r DEF TypeInv, AppType, ServiceType, TaskType, TaType, Counted, Images,
       None, Torn, Long, Codes, Statuses, MaxTries
  <2>4. AtMostOne' /\ LoadedIsFile' /\ Counted' /\ TaskPlaces'
    BY <2>p, <2>q, <2>r DEF TypeInv, AppType, ServiceType, TaskType, TaType, AtMostOne,
       LoadedIsFile, Counted, TaskPlaces, None, Torn, Long, MaxTries
  <2>5. CallPlaces' /\ OwnRequest'
    BY <2>p, <2>q, <2>r DEF TypeInv, AppType, ServiceType, TaskType, TaType, CallPlaces,
       OwnRequest, Active, Waiting, Counted, TaskPlaces
  <2>6. SessionKept'
    BY DEF TypeInv, AppType, ServiceType, TaskType, TaType, SessionKept, Collecting,
       TaskPlaces, Kinds
  <2> QED
    BY ONLY <2>1, <2>2, <2>3, <2>4, <2>5, <2>6 DEF IInv, TypeInv
<1>5. CASE Expire
  <2> USE <1>c, <1>t, <1>f, <1>g, <1>5
         DEF Expire, app, svc, module, task, security, ta, files, bounds
  <2>1. Booleans'
    BY DEF TypeInv, Booleans
  <2>2. AppType' /\ ServiceType'
    BY DEF TypeInv, AppType, ServiceType, Token
  <2>3. TaskType' /\ TaType'
    BY DEF TypeInv, AppType, ServiceType, TaskType, TaType, Counted, Images, None, Torn, Long,
       Codes, Statuses, MaxTries
  <2>4. AtMostOne' /\ LoadedIsFile' /\ Counted' /\ TaskPlaces'
    BY DEF TypeInv, AppType, ServiceType, TaskType, TaType, AtMostOne, LoadedIsFile, Counted,
       TaskPlaces, None, Torn, Long, MaxTries
  <2>5. CallPlaces' /\ OwnRequest'
    BY DEF TypeInv, AppType, ServiceType, TaskType, TaType, CallPlaces, OwnRequest, Active,
       Waiting, Counted, TaskPlaces
  <2>6. SessionKept'
    BY DEF TypeInv, AppType, ServiceType, TaskType, TaType, SessionKept, Collecting,
       TaskPlaces, Kinds
  <2> QED
    BY ONLY <2>1, <2>2, <2>3, <2>4, <2>5, <2>6 DEF IInv, TypeInv
<1>6. CASE Dies
  <2> USE <1>c, <1>t, <1>f, <1>g, <1>6
         DEF Dies, app, svc, module, task, security, ta, files, bounds
  <2>1. Booleans'
    BY DEF TypeInv, Booleans
  <2>2. AppType' /\ ServiceType'
    BY DEF TypeInv, AppType, ServiceType, Token
  <2>3. TaskType' /\ TaType'
    BY DEF TypeInv, AppType, ServiceType, TaskType, TaType, Counted, Images, None, Torn, Long,
       Codes, Statuses, MaxTries
  <2>4. AtMostOne' /\ LoadedIsFile' /\ Counted' /\ TaskPlaces'
    BY DEF TypeInv, AppType, ServiceType, TaskType, TaType, AtMostOne, LoadedIsFile, Counted,
       TaskPlaces, None, Torn, Long, MaxTries
  <2>5. CallPlaces' /\ OwnRequest'
    BY DEF TypeInv, AppType, ServiceType, TaskType, TaType, CallPlaces, OwnRequest, Active,
       Waiting, Counted, TaskPlaces
  <2>6. SessionKept'
    BY DEF TypeInv, AppType, ServiceType, TaskType, TaType, SessionKept, Collecting,
       TaskPlaces, Kinds
  <2> QED
    BY ONLY <2>1, <2>2, <2>3, <2>4, <2>5, <2>6 DEF IInv, TypeInv
<1>7. CASE Restart
  <2> USE <1>c, <1>t, <1>f, <1>g, <1>7
         DEF Restart, app, svc, module, task, security, ta, files, bounds
  <2>1. Booleans'
    BY DEF TypeInv, Booleans
  <2>2. AppType' /\ ServiceType'
    BY DEF TypeInv, AppType, ServiceType, Token
  <2>3. TaskType' /\ TaType'
    BY DEF TypeInv, AppType, ServiceType, TaskType, TaType, Counted, Images, None, Torn, Long,
       Codes, Statuses, MaxTries
  <2>4. AtMostOne' /\ LoadedIsFile' /\ Counted' /\ TaskPlaces'
    BY DEF TypeInv, AppType, ServiceType, TaskType, TaType, AtMostOne, LoadedIsFile, Counted,
       TaskPlaces, None, Torn, Long, MaxTries
  <2>5. CallPlaces' /\ OwnRequest'
    BY DEF TypeInv, AppType, ServiceType, TaskType, TaType, CallPlaces, OwnRequest, Active,
       Waiting, Counted, TaskPlaces
  <2>6. SessionKept'
    BY DEF TypeInv, AppType, ServiceType, TaskType, TaType, SessionKept, Collecting,
       TaskPlaces, Kinds
  <2> QED
    BY ONLY <2>1, <2>2, <2>3, <2>4, <2>5, <2>6 DEF IInv, TypeInv
<1>8. CASE FingerDown
  <2> USE <1>c, <1>t, <1>f, <1>g, <1>8 DEF FingerDown, At, Still, Outside, app, svc, module,
         task, security, ta, files, bounds
  <2>1. Booleans'
    BY DEF TypeInv, Booleans
  <2>2. AppType' /\ ServiceType'
    BY DEF TypeInv, AppType, ServiceType, Token
  <2>3. TaskType' /\ TaType'
    BY DEF TypeInv, AppType, ServiceType, TaskType, TaType, Counted, Images, None, Torn, Long,
       Codes, Statuses, MaxTries
  <2>4. AtMostOne' /\ LoadedIsFile' /\ Counted' /\ TaskPlaces'
    BY DEF TypeInv, AppType, ServiceType, TaskType, TaType, AtMostOne, LoadedIsFile, Counted,
       TaskPlaces, None, Torn, Long, MaxTries
  <2>5. CallPlaces' /\ OwnRequest'
    BY DEF TypeInv, AppType, ServiceType, TaskType, TaType, CallPlaces, OwnRequest, Active,
       Waiting, Counted, TaskPlaces
  <2>6. SessionKept'
    BY DEF TypeInv, AppType, ServiceType, TaskType, TaType, SessionKept, Collecting,
       TaskPlaces, Kinds
  <2> QED
    BY ONLY <2>1, <2>2, <2>3, <2>4, <2>5, <2>6 DEF IInv, TypeInv
<1>9. CASE SetCalibrationCb
  <2> USE <1>c, <1>t, <1>f, <1>g, <1>9
         DEF SetCalibrationCb, app, svc, module, task, security, ta, files, bounds
  <2>1. Booleans'
    BY DEF TypeInv, Booleans
  <2>2. AppType' /\ ServiceType'
    BY DEF TypeInv, AppType, ServiceType, Token
  <2>3. TaskType' /\ TaType'
    BY DEF TypeInv, AppType, ServiceType, TaskType, TaType, Counted, Images, None, Torn, Long,
       Codes, Statuses, MaxTries
  <2>4. AtMostOne' /\ LoadedIsFile' /\ Counted' /\ TaskPlaces'
    BY DEF TypeInv, AppType, ServiceType, TaskType, TaType, AtMostOne, LoadedIsFile, Counted,
       TaskPlaces, None, Torn, Long, MaxTries
  <2>5. CallPlaces' /\ OwnRequest'
    BY DEF TypeInv, AppType, ServiceType, TaskType, TaType, CallPlaces, OwnRequest, Active,
       Waiting, Counted, TaskPlaces
  <2>6. SessionKept'
    BY DEF TypeInv, AppType, ServiceType, TaskType, TaType, SessionKept, Collecting,
       TaskPlaces, Kinds
  <2> QED
    BY ONLY <2>1, <2>2, <2>3, <2>4, <2>5, <2>6 DEF IInv, TypeInv
<1>10. CASE StoreToken
  <2> USE <1>c, <1>t, <1>f, <1>g, <1>10
         DEF StoreToken, app, svc, module, task, security, ta, files, bounds
  <2>1. Booleans'
    BY DEF TypeInv, Booleans
  <2>2. AppType' /\ ServiceType'
    BY DEF TypeInv, AppType, ServiceType, Token
  <2>3. TaskType' /\ TaType'
    BY DEF TypeInv, AppType, ServiceType, TaskType, TaType, Counted, Images, None, Torn, Long,
       Codes, Statuses, MaxTries
  <2>4. AtMostOne' /\ LoadedIsFile' /\ Counted' /\ TaskPlaces'
    BY DEF TypeInv, AppType, ServiceType, TaskType, TaType, AtMostOne, LoadedIsFile, Counted,
       TaskPlaces, None, Torn, Long, MaxTries
  <2>5. CallPlaces' /\ OwnRequest'
    BY DEF TypeInv, AppType, ServiceType, TaskType, TaType, CallPlaces, OwnRequest, Active,
       Waiting, Counted, TaskPlaces
  <2>6. SessionKept'
    BY DEF TypeInv, AppType, ServiceType, TaskType, TaType, SessionKept, Collecting,
       TaskPlaces, Kinds
  <2> QED
    BY ONLY <2>1, <2>2, <2>3, <2>4, <2>5, <2>6 DEF IInv, TypeInv
<1>11. CASE GotoIdle
  <2> USE <1>c, <1>t, <1>f, <1>g, <1>11
         DEF GotoIdle, app, svc, module, task, security, ta, files, bounds
  <2>1. Booleans'
    BY DEF TypeInv, Booleans
  <2>2. AppType' /\ ServiceType'
    BY DEF TypeInv, AppType, ServiceType, Token
  <2>3. TaskType' /\ TaType'
    BY DEF TypeInv, AppType, ServiceType, TaskType, TaType, Counted, Images, None, Torn, Long,
       Codes, Statuses, MaxTries
  <2>4. AtMostOne' /\ LoadedIsFile' /\ Counted' /\ TaskPlaces'
    BY DEF TypeInv, AppType, ServiceType, TaskType, TaType, AtMostOne, LoadedIsFile, Counted,
       TaskPlaces, None, Torn, Long, MaxTries
  <2>5. CallPlaces' /\ OwnRequest'
    BY DEF TypeInv, AppType, ServiceType, TaskType, TaType, CallPlaces, OwnRequest, Active,
       Waiting, Counted, TaskPlaces
  <2>6. SessionKept'
    BY DEF TypeInv, AppType, ServiceType, TaskType, TaType, SessionKept, Collecting,
       TaskPlaces, Kinds
  <2> QED
    BY ONLY <2>1, <2>2, <2>3, <2>4, <2>5, <2>6 DEF IInv, TypeInv
<1>12. CASE Joined
  <2> USE <1>c, <1>t, <1>f, <1>g, <1>12
         DEF Joined, app, svc, module, task, security, ta, files, bounds
  <2>1. Booleans'
    BY DEF TypeInv, Booleans
  <2>2. AppType' /\ ServiceType'
    BY DEF TypeInv, AppType, ServiceType, Token
  <2>3. TaskType' /\ TaType'
    <3>1. TaskType'
      BY DEF TypeInv, TaskType, AppType, ServiceType, Images, None, Torn, Statuses, MaxTries
    <3>2. TaType'
      BY DEF TypeInv, TaType
    <3> QED
      BY ONLY <3>1, <3>2
  <2>4. AtMostOne' /\ LoadedIsFile' /\ Counted' /\ TaskPlaces'
    BY DEF TypeInv, AppType, ServiceType, TaskType, TaType, AtMostOne, LoadedIsFile, Counted,
       TaskPlaces, None, Torn, Long, MaxTries
  <2>5. CallPlaces' /\ OwnRequest'
    BY DEF TypeInv, AppType, ServiceType, TaskType, TaType, CallPlaces, OwnRequest, Active,
       Waiting, Counted, TaskPlaces
  <2>6. SessionKept'
    BY DEF TypeInv, AppType, ServiceType, TaskType, TaType, SessionKept, Collecting,
       TaskPlaces, Kinds
  <2> QED
    BY ONLY <2>1, <2>2, <2>3, <2>4, <2>5, <2>6 DEF IInv, TypeInv
<1>13. CASE CancelReset
  <2> USE <1>c, <1>t, <1>f, <1>g, <1>13 DEF CancelReset, ResetRecalibration, app, svc, module,
         task, security, ta, files, bounds
  <2>1. Booleans'
    BY DEF TypeInv, Booleans
  <2>2. AppType' /\ ServiceType'
    BY DEF TypeInv, AppType, ServiceType, Token
  <2>3. TaskType' /\ TaType'
    BY DEF TypeInv, AppType, ServiceType, TaskType, TaType, Counted, Images, None, Torn, Long,
       Codes, Statuses, MaxTries
  <2>4. AtMostOne' /\ LoadedIsFile' /\ Counted' /\ TaskPlaces'
    BY DEF TypeInv, AppType, ServiceType, TaskType, TaType, AtMostOne, LoadedIsFile, Counted,
       TaskPlaces, None, Torn, Long, MaxTries
  <2>5. CallPlaces' /\ OwnRequest'
    BY DEF TypeInv, AppType, ServiceType, TaskType, TaType, CallPlaces, OwnRequest, Active,
       Waiting, Counted, TaskPlaces
  <2>6. SessionKept'
    BY DEF TypeInv, AppType, ServiceType, TaskType, TaType, SessionKept, Collecting,
       TaskPlaces, Kinds
  <2> QED
    BY ONLY <2>1, <2>2, <2>3, <2>4, <2>5, <2>6 DEF IInv, TypeInv
<1>14. CASE DeathNotice
  <2> USE <1>c, <1>t, <1>f, <1>g, <1>14 DEF DeathNotice, ServiceDied, BinderDied,
         CancelRecalibration, app, svc, module, task, security, ta, files, bounds
  <2>1. Booleans'
    BY DEF TypeInv, Booleans
  <2>2. AppType' /\ ServiceType'
    BY DEF TypeInv, AppType, ServiceType, Token
  <2>3. TaskType' /\ TaType'
    BY DEF TypeInv, AppType, ServiceType, TaskType, TaType, Counted, Images, None, Torn, Long,
       Codes, Statuses, MaxTries
  <2>4. AtMostOne' /\ LoadedIsFile' /\ Counted' /\ TaskPlaces'
    BY DEF TypeInv, AppType, ServiceType, TaskType, TaType, AtMostOne, LoadedIsFile, Counted,
       TaskPlaces, None, Torn, Long, MaxTries
  <2>5. CallPlaces' /\ OwnRequest'
    BY DEF TypeInv, AppType, ServiceType, TaskType, TaType, CallPlaces, OwnRequest, Active,
       Waiting, Counted, TaskPlaces
  <2>6. SessionKept'
    BY DEF TypeInv, AppType, ServiceType, TaskType, TaType, SessionKept, Collecting,
       TaskPlaces, Kinds
  <2> QED
    BY ONLY <2>1, <2>2, <2>3, <2>4, <2>5, <2>6 DEF IInv, TypeInv
<1>15. CASE Authorize
  <2> USE <1>c, <1>t, <1>f, <1>g, <1>15 DEF Authorize, At, TeePnAuthorize, PnAuthorize,
         StoredToken, Outside, app, svc, module, task, security, ta, files, bounds
  <2>1. Booleans'
    BY DEF TypeInv, Booleans
  <2>2. AppType' /\ ServiceType'
    BY DEF TypeInv, AppType, ServiceType, Token
  <2>3. TaskType' /\ TaType'
    BY DEF TypeInv, AppType, ServiceType, TaskType, TaType, Counted, Images, None, Torn, Long,
       Codes, Statuses, MaxTries
  <2>4. AtMostOne' /\ LoadedIsFile' /\ Counted' /\ TaskPlaces'
    BY DEF TypeInv, AppType, ServiceType, TaskType, TaType, AtMostOne, LoadedIsFile, Counted,
       TaskPlaces, None, Torn, Long, MaxTries
  <2>5. CallPlaces' /\ OwnRequest'
    BY DEF TypeInv, AppType, ServiceType, TaskType, TaType, CallPlaces, OwnRequest, Active,
       Waiting, Counted, TaskPlaces
  <2>6. SessionKept'
    BY DEF TypeInv, AppType, ServiceType, TaskType, TaType, SessionKept, Collecting,
       TaskPlaces, Kinds
  <2> QED
    BY ONLY <2>1, <2>2, <2>3, <2>4, <2>5, <2>6 DEF IInv, TypeInv
<1>16. CASE FingerLost
  <2> USE <1>c, <1>t, <1>f, <1>g, <1>16 DEF FingerLost, At, Still, Outside, Out, app, svc,
         module, task, security, ta, files, bounds
  <2>1. Booleans'
    BY DEF TypeInv, Booleans
  <2>2. AppType' /\ ServiceType'
    BY DEF TypeInv, AppType, ServiceType, Token
  <2>3. TaskType' /\ TaType'
    BY DEF TypeInv, AppType, ServiceType, TaskType, TaType, Counted, Images, None, Torn, Long,
       Codes, Statuses, MaxTries
  <2>4. AtMostOne' /\ LoadedIsFile' /\ Counted' /\ TaskPlaces'
    BY DEF TypeInv, AppType, ServiceType, TaskType, TaType, AtMostOne, LoadedIsFile, Counted,
       TaskPlaces, None, Torn, Long, MaxTries
  <2>5. CallPlaces' /\ OwnRequest'
    BY DEF TypeInv, AppType, ServiceType, TaskType, TaType, CallPlaces, OwnRequest, Active,
       Waiting, Counted, TaskPlaces
  <2>6. SessionKept'
    BY DEF TypeInv, AppType, ServiceType, TaskType, TaType, SessionKept, Collecting,
       TaskPlaces, Kinds
  <2> QED
    BY ONLY <2>1, <2>2, <2>3, <2>4, <2>5, <2>6 DEF IInv, TypeInv
<1>17. CASE DownEnds
  <2> USE <1>c, <1>t, <1>f, <1>g, <1>17 DEF DownEnds, At, Still, Outside, Out, app, svc,
         module, task, security, ta, files, bounds
  <2>1. Booleans'
    BY DEF TypeInv, Booleans
  <2>2. AppType' /\ ServiceType'
    BY DEF TypeInv, AppType, ServiceType, Token
  <2>3. TaskType' /\ TaType'
    BY DEF TypeInv, AppType, ServiceType, TaskType, TaType, Counted, Images, None, Torn, Long,
       Codes, Statuses, MaxTries
  <2>4. AtMostOne' /\ LoadedIsFile' /\ Counted' /\ TaskPlaces'
    BY DEF TypeInv, AppType, ServiceType, TaskType, TaType, AtMostOne, LoadedIsFile, Counted,
       TaskPlaces, None, Torn, Long, MaxTries
  <2>5. CallPlaces' /\ OwnRequest'
    BY DEF TypeInv, AppType, ServiceType, TaskType, TaType, CallPlaces, OwnRequest, Active,
       Waiting, Counted, TaskPlaces
  <2>6. SessionKept'
    BY DEF TypeInv, AppType, ServiceType, TaskType, TaType, SessionKept, Collecting,
       TaskPlaces, Kinds
  <2> QED
    BY ONLY <2>1, <2>2, <2>3, <2>4, <2>5, <2>6 DEF IInv, TypeInv
<1>18. CASE CalibrateFinger
  <2> USE <1>c, <1>t, <1>f, <1>g, <1>18 DEF CalibrateFinger, At, Still, Outside,
         TaCalibrateFinger, app, svc, module, task, security, ta, files, bounds
  <2>1. Booleans'
    BY DEF TypeInv, Booleans
  <2>2. AppType' /\ ServiceType'
    BY DEF TypeInv, AppType, ServiceType, Token
  <2>3. TaskType' /\ TaType'
    BY DEF TypeInv, AppType, ServiceType, TaskType, TaType, Counted, Images, None, Torn, Long,
       Codes, Statuses, MaxTries
  <2>4. AtMostOne' /\ LoadedIsFile' /\ Counted' /\ TaskPlaces'
    BY DEF TypeInv, AppType, ServiceType, TaskType, TaType, AtMostOne, LoadedIsFile, Counted,
       TaskPlaces, None, Torn, Long, MaxTries
  <2>5. CallPlaces' /\ OwnRequest'
    BY DEF TypeInv, AppType, ServiceType, TaskType, TaType, CallPlaces, OwnRequest, Active,
       Waiting, Counted, TaskPlaces
  <2>6. SessionKept'
    BY DEF TypeInv, AppType, ServiceType, TaskType, TaType, SessionKept, Collecting,
       TaskPlaces, Kinds
  <2> QED
    BY ONLY <2>1, <2>2, <2>3, <2>4, <2>5, <2>6 DEF IInv, TypeInv
<1>19. CASE CheckFinger
  <2> USE <1>c, <1>t, <1>f, <1>g, <1>19 DEF CheckFinger, At, Still, Outside, CleanUp, Out,
         app, svc, module, task, security, ta, files, bounds
  <2>1. Booleans'
    BY DEF TypeInv, Booleans
  <2>2. AppType' /\ ServiceType'
    BY DEF TypeInv, AppType, ServiceType, Token
  <2>3. TaskType' /\ TaType'
    BY DEF TypeInv, AppType, ServiceType, TaskType, TaType, Counted, Images, None, Torn, Long,
       Codes, Statuses, MaxTries
  <2>4. AtMostOne' /\ LoadedIsFile' /\ Counted' /\ TaskPlaces'
    BY DEF TypeInv, AppType, ServiceType, TaskType, TaType, AtMostOne, LoadedIsFile, Counted,
       TaskPlaces, None, Torn, Long, MaxTries
  <2>5. CallPlaces' /\ OwnRequest'
    BY DEF TypeInv, AppType, ServiceType, TaskType, TaType, CallPlaces, OwnRequest, Active,
       Waiting, Counted, TaskPlaces
  <2>6. SessionKept'
    BY DEF TypeInv, AppType, ServiceType, TaskType, TaType, SessionKept, Collecting,
       TaskPlaces, Kinds
  <2> QED
    BY ONLY <2>1, <2>2, <2>3, <2>4, <2>5, <2>6 DEF IInv, TypeInv
<1>20. CASE GetSize
  <2> USE <1>c, <1>t, <1>f, <1>g, <1>20 DEF GetSize, At, Still, Outside, TeePnGetSize,
         TaPnGetSize, Out, app, svc, module, task, security, ta, files, bounds
  <2>1. Booleans'
    BY DEF TypeInv, Booleans
  <2>2. AppType' /\ ServiceType'
    BY DEF TypeInv, AppType, ServiceType, Token
  <2>3. TaskType' /\ TaType'
    BY DEF TypeInv, AppType, ServiceType, TaskType, TaType, Counted, Images, None, Torn, Long,
       Codes, Statuses, MaxTries
  <2>4. AtMostOne' /\ LoadedIsFile' /\ Counted' /\ TaskPlaces'
    BY DEF TypeInv, AppType, ServiceType, TaskType, TaType, AtMostOne, LoadedIsFile, Counted,
       TaskPlaces, None, Torn, Long, MaxTries
  <2>5. CallPlaces' /\ OwnRequest'
    BY DEF TypeInv, AppType, ServiceType, TaskType, TaType, CallPlaces, OwnRequest, Active,
       Waiting, Counted, TaskPlaces
  <2>6. SessionKept'
    BY DEF TypeInv, AppType, ServiceType, TaskType, TaType, SessionKept, Collecting,
       TaskPlaces, Kinds
  <2> QED
    BY ONLY <2>1, <2>2, <2>3, <2>4, <2>5, <2>6 DEF IInv, TypeInv
<1>21. CASE FingerEnd
  <2> USE <1>c, <1>t, <1>f, <1>g, <1>21 DEF FingerEnd, At, Still, Outside,
         TeeCalibrateFingerEnd, TaCalibrateFingerEnd, app, svc, module, task, security, ta,
         files, bounds
  <2>1. Booleans'
    BY DEF TypeInv, Booleans
  <2>2. AppType' /\ ServiceType'
    BY DEF TypeInv, AppType, ServiceType, Token
  <2>3. TaskType' /\ TaType'
    BY DEF TypeInv, AppType, ServiceType, TaskType, TaType, Counted, Images, None, Torn, Long,
       Codes, Statuses, MaxTries
  <2>4. AtMostOne' /\ LoadedIsFile' /\ Counted' /\ TaskPlaces'
    BY DEF TypeInv, AppType, ServiceType, TaskType, TaType, AtMostOne, LoadedIsFile, Counted,
       TaskPlaces, None, Torn, Long, MaxTries
  <2>5. CallPlaces' /\ OwnRequest'
    BY DEF TypeInv, AppType, ServiceType, TaskType, TaType, CallPlaces, OwnRequest, Active,
       Waiting, Counted, TaskPlaces
  <2>6. SessionKept'
    BY DEF TypeInv, AppType, ServiceType, TaskType, TaType, SessionKept, Collecting,
       TaskPlaces, Kinds
  <2> QED
    BY ONLY <2>1, <2>2, <2>3, <2>4, <2>5, <2>6 DEF IInv, TypeInv
<1>22. CASE CalibrateTry
  <2> USE <1>c, <1>t, <1>f, <1>g, <1>22 DEF CalibrateTry, At, Outside, TeePnCalibrate,
         TaPnCalibrate, app, svc, module, task, security, ta, files, bounds
  <2>p. wpc' \in {"save", "try", "answer"} /\ tries' \in 0 .. MaxTries
    BY DEF TypeInv, TaskType, Counted, MaxTries
  <2>q. image' \in Images \cup {None, Torn} /\ status' \in Statuses
    BY DEF TypeInv, TaskType, Images, None, Torn, Statuses
  <2>1. Booleans'
    BY DEF TypeInv, Booleans
  <2>2. AppType' /\ ServiceType'
    BY <2>p, <2>q DEF TypeInv, AppType, ServiceType
  <2>3. TaskType' /\ TaType'
    BY <2>p, <2>q DEF TypeInv, AppType, ServiceType, TaskType, TaType, Counted, Images, None,
       Torn, Long, Codes, Statuses, MaxTries
  <2>4. AtMostOne' /\ LoadedIsFile' /\ Counted' /\ TaskPlaces'
    BY <2>p, <2>q DEF TypeInv, AppType, ServiceType, TaskType, TaType, AtMostOne,
       LoadedIsFile, Counted, TaskPlaces, None, Torn, Long, MaxTries
  <2>5. CallPlaces' /\ OwnRequest'
    BY <2>p, <2>q DEF TypeInv, AppType, ServiceType, TaskType, TaType, CallPlaces, OwnRequest,
       Active, Waiting, Counted, TaskPlaces
  <2>6. SessionKept'
    BY <2>p, <2>q DEF TypeInv, AppType, ServiceType, TaskType, TaType, SessionKept,
       Collecting, TaskPlaces, Kinds
  <2> QED
    BY ONLY <2>1, <2>2, <2>3, <2>4, <2>5, <2>6 DEF IInv, TypeInv
<1>23. CASE SavePn
  <2> USE <1>c, <1>t, <1>f, <1>g, <1>23 DEF SavePn, At, Outside, Written, Out, app, svc,
         module, task, security, ta, files, bounds
  <2>1. Booleans'
    BY DEF TypeInv, Booleans
  <2>2. AppType' /\ ServiceType'
    BY DEF TypeInv, AppType, ServiceType, Token
  <2>3. TaskType' /\ TaType'
    BY DEF TypeInv, AppType, ServiceType, TaskType, TaType, Counted, Images, None, Torn, Long,
       Codes, Statuses, MaxTries
  <2>4. AtMostOne' /\ LoadedIsFile' /\ Counted' /\ TaskPlaces'
    BY DEF TypeInv, AppType, ServiceType, TaskType, TaType, AtMostOne, LoadedIsFile, Counted,
       TaskPlaces, None, Torn, Long, MaxTries
  <2>5. CallPlaces' /\ OwnRequest'
    BY DEF TypeInv, AppType, ServiceType, TaskType, TaType, CallPlaces, OwnRequest, Active,
       Waiting, Counted, TaskPlaces
  <2>6. SessionKept'
    BY DEF TypeInv, AppType, ServiceType, TaskType, TaType, SessionKept, Collecting,
       TaskPlaces, Kinds
  <2> QED
    BY ONLY <2>1, <2>2, <2>3, <2>4, <2>5, <2>6 DEF IInv, TypeInv
<1>24. CASE LoadAndAnswer
  <2> USE <1>c, <1>t, <1>f, <1>g, <1>24 DEF LoadAndAnswer, At, LoadPn, TeePnLoad, TaPnLoad,
         ReadFails, SavePnDebug, LeaveTask, NotApp, app, svc, module, task, security, ta,
         files, bounds
  <2>d. /\ faults' \in {faults, faults + 1} /\ faults' \in 0 .. MaxFaults
        /\ loaded' \in Images \cup {None} /\ status' \in {"ok", "error"}
        /\ faults' = 0 /\ file >= 0 => loaded' = file
        /\ debug' \in {debug, loaded'}
    BY DEF TypeInv, AppType, TaType, TaskType, Images, None, Torn, Long, Fault
  <2>n. /\ wpc = "load"
        /\ wpc' = (IF wkind = "recal" THEN "reset" ELSE "off") /\ tries' = 0 /\ image' = None
        /\ UNCHANGED <<jrec, jcal, challenges, alive, notice, svc, module, cancelled, bounds,
                       security, wreq, code, session, owed, file, wkind>>
    OBVIOUS
  <2>0. PICK m \in {"done"} \cup Codes : Tell(m)
    BY DEF Codes
  <2>g. /\ got' \in [Requests -> Seq({"done"} \cup Codes)]
        /\ wreq \in Requests /\ got[wreq] = <<>>
        /\ \A n \in Requests : n # wreq => got'[n] = got[n]
        /\ \A n \in Requests : Len(got'[n]) <= 1
    BY ONLY IInv, <1>24, <2>0, TellFacts DEF Active, LoadAndAnswer, At
  <2>i. /\ \A n \in Requests : n > starts => got'[n] = <<>>
        /\ bpc \in {"token", "idle", "join"} /\ bop = "recal" =>
              jrec \in Requests /\ got'[jrec] = <<>>
        /\ bpc \in {"set_cb", "idle", "join"} /\ bop = "cal" =>
              jcal \in Requests /\ got'[jcal] = <<>>
    BY ONLY IInv, <1>24, <2>g, OthersWait DEF Active, LoadAndAnswer, At
  <2>1. Booleans'
    BY DEF TypeInv, Booleans
  <2>2. AppType' /\ ServiceType'
    BY ONLY PnAssumption, IInv, <1>c, <1>f, <2>d, <2>n, <2>g, <2>i DEF app, svc, module, task,
       security, ta, files, bounds, IInv, TypeInv, AppType, ServiceType
  <2>3. TaskType' /\ TaType'
    BY ONLY IInv, <1>c, <2>d, <2>n
       DEF security, IInv, TypeInv, TaskType, TaType, Statuses, MaxTries
  <2>4. AtMostOne' /\ LoadedIsFile' /\ Counted' /\ TaskPlaces'
    BY ONLY PnAssumption, IInv, <1>c, <1>f, <2>d, <2>n, <2>g, <2>i DEF app, svc, module, task,
       security, ta, files, bounds, IInv, LoadAndAnswer, At, TypeInv, AppType, ServiceType,
       TaskType, TaType, AtMostOne, LoadedIsFile, Counted, TaskPlaces, None, Torn, Long,
       MaxTries
  <2>5. CallPlaces' /\ OwnRequest'
    BY ONLY PnAssumption, IInv, <1>c, <1>f, <2>d, <2>n, <2>g, <2>i DEF app, svc, module, task,
       security, ta, files, bounds, IInv, LoadAndAnswer, At, TypeInv, AppType, ServiceType,
       TaskType, TaType, CallPlaces, OwnRequest, Active, Waiting, Counted, TaskPlaces
  <2>6. SessionKept'
    BY ONLY IInv, <1>c, <1>f, <2>n DEF IInv, SessionKept, Collecting
  <2> QED
    BY ONLY <2>1, <2>2, <2>3, <2>4, <2>5, <2>6 DEF IInv, TypeInv
<1>25. CASE Answer
  <2> USE <1>c, <1>t, <1>f, <1>g, <1>25 DEF Answer, At, LeaveTask, NotApp, app, svc, module,
         task, security, ta, files, bounds
  <2>n. /\ wpc' = (IF wkind = "recal" THEN "reset" ELSE "off") /\ tries' = 0 /\ image' = None
        /\ UNCHANGED <<jrec, jcal, challenges, alive, notice, svc, module, cancelled, bounds,
                       security, wreq, code, session, owed, file, wkind, status, loaded, debug,
                       faults>>
    OBVIOUS
  <2>g. /\ got' \in [Requests -> Seq({"done"} \cup Codes)]
        /\ wreq \in Requests /\ got[wreq] = <<>>
        /\ \A n \in Requests : n # wreq => got'[n] = got[n]
        /\ \A n \in Requests : Len(got'[n]) <= 1
    <3>1. wreq \in Requests /\ got[wreq] = <<>>
           /\ got \in [Requests -> Seq({"done"} \cup Codes)]
      BY DEF OwnRequest, Active, Waiting, TypeInv, AppType
    <3>2. CASE UNCHANGED got
      BY <3>1, <3>2 DEF AtMostOne
    <3>3. CASE Tell(code)
      <4>1. code \in {"done"} \cup Codes
        BY DEF TypeInv, TaskType
      <4> QED
        BY ONLY IInv, <1>25, <3>3, <4>1, TellFacts DEF Active, Answer, At
    <3> QED
      BY <3>2, <3>3
  <2>i. /\ \A n \in Requests : n > starts => got'[n] = <<>>
        /\ bpc \in {"token", "idle", "join"} /\ bop = "recal" =>
              jrec \in Requests /\ got'[jrec] = <<>>
        /\ bpc \in {"set_cb", "idle", "join"} /\ bop = "cal" =>
              jcal \in Requests /\ got'[jcal] = <<>>
    BY ONLY IInv, <1>25, <2>g, OthersWait DEF Active, Answer, At
  <2>1. Booleans'
    BY DEF TypeInv, Booleans
  <2>2. AppType' /\ ServiceType'
    BY ONLY PnAssumption, IInv, <1>c, <1>f, <1>25, <2>n, <2>g, <2>i DEF app, svc, module,
       task, security, ta, files, bounds, IInv, TypeInv, AppType, ServiceType
  <2>3. TaskType' /\ TaType'
    BY ONLY PnAssumption, IInv, <1>c, <1>f, <1>25, <2>n, <2>g, <2>i DEF app, svc, module,
       task, security, ta, files, bounds, IInv, Answer, At, TypeInv, AppType, ServiceType,
       TaskType, TaType, Counted, Images, None, Torn, Long, Codes, Statuses, MaxTries
  <2>4. AtMostOne' /\ LoadedIsFile' /\ Counted' /\ TaskPlaces'
    BY ONLY PnAssumption, IInv, <1>c, <1>f, <1>25, <2>n, <2>g, <2>i DEF app, svc, module,
       task, security, ta, files, bounds, IInv, Answer, At, TypeInv, AppType, ServiceType,
       TaskType, TaType, AtMostOne, LoadedIsFile, Counted, TaskPlaces, None, Torn, Long,
       MaxTries
  <2>5. CallPlaces' /\ OwnRequest'
    BY ONLY PnAssumption, IInv, <1>c, <1>f, <1>25, <2>n, <2>g, <2>i DEF app, svc, module,
       task, security, ta, files, bounds, IInv, Answer, At, TypeInv, AppType, ServiceType,
       TaskType, TaType, CallPlaces, OwnRequest, Active, Waiting, Counted, TaskPlaces
  <2>6. SessionKept'
    BY ONLY PnAssumption, IInv, <1>c, <1>f, <1>25, <2>n, <2>g, <2>i DEF app, svc, module,
       task, security, ta, files, bounds, IInv, Answer, At, TypeInv, AppType, ServiceType,
       TaskType, TaType, SessionKept, Collecting, TaskPlaces, Kinds
  <2> QED
    BY ONLY <2>1, <2>2, <2>3, <2>4, <2>5, <2>6 DEF IInv, TypeInv
<1>26. CASE TaskReset
  <2> USE <1>c, <1>t, <1>f, <1>g, <1>26 DEF TaskReset, At, ResetRecalibration, app, svc,
         module, task, security, ta, files, bounds
  <2>1. Booleans'
    BY DEF TypeInv, Booleans
  <2>2. AppType' /\ ServiceType'
    BY DEF TypeInv, AppType, ServiceType, Token
  <2>3. TaskType' /\ TaType'
    BY DEF TypeInv, AppType, ServiceType, TaskType, TaType, Counted, Images, None, Torn, Long,
       Codes, Statuses, MaxTries
  <2>4. AtMostOne' /\ LoadedIsFile' /\ Counted' /\ TaskPlaces'
    BY DEF TypeInv, AppType, ServiceType, TaskType, TaType, AtMostOne, LoadedIsFile, Counted,
       TaskPlaces, None, Torn, Long, MaxTries
  <2>5. CallPlaces' /\ OwnRequest'
    BY DEF TypeInv, AppType, ServiceType, TaskType, TaType, CallPlaces, OwnRequest, Active,
       Waiting, Counted, TaskPlaces
  <2>6. SessionKept'
    BY DEF TypeInv, AppType, ServiceType, TaskType, TaType, SessionKept, Collecting,
       TaskPlaces, Kinds
  <2> QED
    BY ONLY <2>1, <2>2, <2>3, <2>4, <2>5, <2>6 DEF IInv, TypeInv
<1>27. CASE UNCHANGED vars
  <2> USE <1>c, <1>27 DEF vars, app, svc, module, task, security, ta, files, bounds
  <2>b. Booleans'
    BY DEF TypeInv, Booleans
  <2>1. AppType' /\ ServiceType' /\ TaskType' /\ TaType'
    BY DEF TypeInv, AppType, ServiceType, TaskType, TaType
  <2>2. AtMostOne' /\ LoadedIsFile' /\ Counted' /\ TaskPlaces'
    BY DEF AtMostOne, LoadedIsFile, Counted, TaskPlaces
  <2>3. CallPlaces' /\ OwnRequest' /\ SessionKept'
    BY DEF CallPlaces, OwnRequest, SessionKept, Active, Collecting, Waiting
  <2> QED
    BY ONLY <2>b, <2>1, <2>2, <2>3 DEF IInv, TypeInv
<1> QED
  BY <1>1, <1>2, <1>3, <1>4, <1>5, <1>6, <1>7, <1>8, <1>9, <1>10, <1>11, <1>12, <1>13, <1>14,
     <1>15, <1>16, <1>17, <1>18, <1>19, <1>20, <1>21, <1>22, <1>23, <1>24, <1>25, <1>26, <1>27
     DEF Next, Service, Worker

(* Only fpc_ta_pn_calibrate_finger_end fills the buffer of a recalibration, and it
   checks the token against the challenge and its age right before. *)
LEMMA ReleaseStep ==
    ASSUME IInv, [Next]_vars, wkind = "recal", image' # None, image = None
    PROVE  incoming.sound /\ incoming.ch = outgoing /\ outgoing # 0 /\ ~stale
<1>0. image' # image
  OBVIOUS
<1>1. FingerEnd \/ CalibrateTry
  BY <1>0 DEF Next, Service, Worker, vars, JavaRecalibrate, JavaCalibrate, JavaCancel,
     JavaPreRecalibrate, Expire, Dies, Restart, FingerDown, SetCalibrationCb, StoreToken,
     GotoIdle, Joined, CancelReset, DeathNotice, Authorize, FingerLost, DownEnds,
     CalibrateFinger, CheckFinger, GetSize, SavePn, LoadAndAnswer, Answer, TaskReset, Still,
     Outside, NotApp, LeaveTask, task
<1>2. FingerEnd
  BY <1>1 DEF IInv, TaskPlaces, CalibrateTry, At
<1>3. PnValidateIncomingToken(incoming) = "ok"
  BY <1>0, <1>2 DEF FingerEnd, TeeCalibrateFingerEnd, TaCalibrateFingerEnd
<1> QED
  BY <1>3 DEF PnValidateIncomingToken

(* Only the load at the end of a task says DONE, and what it loaded is the file
   this task wrote. *)
LEMMA DoneStep ==
    ASSUME IInv, [Next]_vars, NEW n \in Requests, got'[n] = Append(got[n], "done")
    PROVE  (loaded' = n /\ file' = n) \/ file' \in {Torn, Long}
<1>1. got[n] \in Seq({"done"} \cup Codes) /\ Len(got'[n]) = Len(got[n]) + 1
  BY DEF IInv, TypeInv, AppType
<1>2. got' # got
  BY <1>1
<1>3. LoadAndAnswer \/ Answer
  BY <1>2 DEF Next, Service, Worker, vars, app, JavaRecalibrate, JavaCalibrate, JavaCancel,
     JavaPreRecalibrate, Expire, Dies, Restart, FingerDown, SetCalibrationCb, StoreToken,
     GotoIdle, Joined, CancelReset, DeathNotice, Authorize, FingerLost, DownEnds,
     CalibrateFinger, CheckFinger, GetSize, FingerEnd, CalibrateTry, SavePn, TaskReset, Still,
     Outside
<1>4. PICK m \in {"done"} \cup Codes : Tell(m) /\ (m = "done" => LoadAndAnswer
       /\ status' = "ok")
  <2>1. CASE LoadAndAnswer
    BY <2>1 DEF LoadAndAnswer, Codes
  <2>2. CASE Answer
    <3>1. Tell(code) /\ code \in Codes
      BY <1>2, <2>2 DEF Answer, IInv, TypeInv, TaskType
    <3> QED
      BY <3>1 DEF Codes
  <2> QED
    BY <1>3, <2>1, <2>2
<1>5. Active
  BY <1>3 DEF Active, LoadAndAnswer, Answer, At
<1>6. /\ wreq \in Requests /\ got[wreq] = <<>>
      /\ \A k \in Requests : k # wreq => got'[k] = got[k]
      /\ got'[wreq] = <<>> \/ got'[wreq] = <<m>>
  BY <1>4, <1>5, TellFacts
<1>7. n = wreq /\ got[n] = <<>>
  BY <1>1, <1>6
<1>8. Append(got[n], "done") = <<"done">> /\ Len(<<>>) = 0
  BY <1>7
<1>9. m = "done"
  BY <1>1, <1>6, <1>7, <1>8
<1>10. LoadAndAnswer /\ status' = "ok" /\ file' = file
  BY <1>4, <1>9 DEF LoadAndAnswer, NotApp
<1>11. file \in {n, Torn, Long} /\ n \in Nat
  BY <1>7, <1>10 DEF LoadAndAnswer, At, IInv, TaskPlaces, Requests, MaxStarts
<1>12. CASE file = n
  BY <1>10, <1>11, <1>12 DEF LoadAndAnswer, LoadPn, TeePnLoad, TaPnLoad, None
<1> QED
  BY <1>10, <1>11, <1>12

(* do_recalibrate_pn and do_calibrate_pn answer a request at most once; a BioLib
   session is ended by the task that began it; without failures a sound PN file
   is the image in use. *)
THEOREM PnAnsweredOnce == Spec => []AnsweredOnce
BY InitIInv, NextIInv, IInvAnswered, PTL DEF Spec

(* A PN image leaves the trusted application only for a sound token made for the
   challenge issued last and before that challenge expires. *)
THEOREM PnReleaseAuthorised == Spec => ReleaseAuthorised
<1>1. IInv /\ [Next]_vars =>
        [wkind = "recal" /\ image' # None /\ image = None =>
            /\ incoming.sound /\ incoming.ch = outgoing
            /\ outgoing # 0 /\ ~stale]_vars
  BY ReleaseStep
<1> QED
  BY InitIInv, NextIInv, <1>1, PTL DEF Spec, ReleaseAuthorised

(* DONE is said only when the image of this request is in the file and in the
   sensor library, unless the file was damaged by its write or holds what an
   encryption that failed left. *)
THEOREM PnDoneMeansInUse == Spec => DoneMeansInUse
<1>1. IInv /\ [Next]_vars =>
        [\A n \in Requests :
            got'[n] = Append(got[n], "done") =>
                (loaded' = n /\ file' = n) \/ file' \in {Torn, Long}]_vars
  BY DoneStep
<1> QED
  BY InitIInv, NextIInv, <1>1, PTL DEF Spec, DoneMeansInUse
=============================================================================

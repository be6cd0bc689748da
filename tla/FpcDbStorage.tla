---------------------------- MODULE FpcDbStorage ----------------------------
(***************************************************************************)
(* What storing and loading the template database promise to the HAL: the  *)
(* file holds a whole database or does not exist; a store replaces it by   *)
(* the database in memory, and a load does the reverse, in one step each   *)
(* or not at all.  FpcTemplates relies on it and FpcDbBlob implements it.  *)
(***************************************************************************)
CONSTANTS
    Dbs,    \* contents a database can have
    Empty,  \* the empty database
    NoDb    \* no file

VARIABLES
    db,     \* the database in the trusted application
    saved,  \* the database in the file
    call    \* the call in progress: "none", "store" or "load"

avars == <<db, saved, call>>

Init == db = Empty /\ saved = NoDb /\ call = "none"

(* Enrolments, removals, updates. *)
Change ==
    /\ call = "none"
    /\ db' \in Dbs
    /\ UNCHANGED <<saved, call>>

Begin(c) == call = "none" /\ call' = c /\ UNCHANGED <<db, saved>>

Store == call = "store" /\ saved' = db /\ UNCHANGED <<db, call>>

Load ==
    /\ call = "load"
    /\ db' = IF saved = NoDb THEN Empty ELSE saved
    /\ UNCHANGED <<saved, call>>

End == call' = "none" /\ UNCHANGED <<db, saved>>

(* The daemon dies, with the trusted application or without. *)
Crash == call' = "none" /\ db' \in {db, Empty} /\ UNCHANGED saved

Next ==
    \/ Change \/ Begin("store") \/ Begin("load")
    \/ Store \/ Load \/ End \/ Crash

Spec == Init /\ [][Next]_avars
=============================================================================

--------------------------- MODULE MCFpcTemplates ---------------------------
(* Small instances of FpcTemplates: two groups, few slots and ids. *)
EXTENDS FpcTemplates, TLC

CONSTANTS d1, d2, d3, d4

MCDbIds == {d1, d2, d3, d4}
MCSymmetry == Permutations(MCDbIds)

(* Stores fail, three enrolments; group 0 is the value current_gid starts with. *)
MCStores == [groups |-> {0, 1}, faults |-> {"store"}, enrols |-> 3]

(* Loads fail too, two enrolments, and no group is current at the start. *)
MCLoads == [groups |-> {1, 2}, faults |-> {"store", "load"}, enrols |-> 2]

(* Commands fail or lose their answers; loads work, so what was removed stays
   gone. *)
MCAnswers == [groups |-> {1}, faults |-> {"store", "tee"}, enrols |-> 2]

(* The same with the answer of a set_gid lost between two groups. *)
MCSwitch == [groups |-> {1, 2}, faults |-> {"tee"}, enrols |-> 1]

(* Everything fails, and group 0 is in use: calls before a group is active. *)
MCZero == [groups |-> {0}, faults |-> {"store", "load", "tee"}, enrols |-> 2]

MCScenarios == {MCStores, MCLoads, MCAnswers, MCSwitch, MCZero}
=============================================================================

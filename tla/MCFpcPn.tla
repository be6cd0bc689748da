------------------------------ MODULE MCFpcPn -------------------------------
(* Recalibration and calibration through the HIDL services, with failures of
   either group, and through the legacy ones. *)
EXTENDS FpcPn

MCScenarios ==
    {[hidl |-> TRUE, faults |-> {"transfer", "write", "load"}, starts |-> 2, calls |-> 2],
     [hidl |-> TRUE, faults |-> {"size", "memory"}, starts |-> 2, calls |-> 2],
     [hidl |-> FALSE, faults |-> {"write"}, starts |-> 2, calls |-> 2]}
=============================================================================

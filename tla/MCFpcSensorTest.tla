-------------------------- MODULE MCFpcSensorTest ---------------------------
(* The sensor test extension through either service.  The application of the
   legacy service does not wait, and its sensor has no table of limits. *)
EXTENDS FpcSensorTest

MCScenarios ==
    {[hidl |-> TRUE, patient |-> TRUE, supported |-> {"pixel", "quality", "module"},
      product |-> "1028"],
     [hidl |-> FALSE, patient |-> FALSE, supported |-> {"stamp", "otp", "module"},
      product |-> "other"]}
=============================================================================

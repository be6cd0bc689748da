-------------------------- MODULE MCFpcEngineering --------------------------
(* The engineering extension through either service. *)
EXTENDS FpcEngineering

MCScenarios ==
    {[hidl |-> TRUE, injects |-> FALSE, subscribes |-> FALSE, calls |-> 1],
     [hidl |-> FALSE, injects |-> TRUE, subscribes |-> TRUE, calls |-> 2]}
=============================================================================

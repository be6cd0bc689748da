---------------------------- MODULE MCFpcCapture ----------------------------
(* A build that waits for the finger-lost interrupt, and one with a force
   sensor that polls for the lifted finger. *)
EXTENDS FpcCapture

Interrupt ==
    [lostInterrupt |-> TRUE, force |-> FALSE, down |-> FALSE, up |-> FALSE,
     retries |-> 2, qualify |-> 4, attempts |-> 5]
Polling(d, u) ==
    [lostInterrupt |-> FALSE, force |-> TRUE, down |-> d, up |-> u,
     retries |-> 2, qualify |-> 2, attempts |-> 2]

MCBuilds == {Interrupt} \cup {Polling(d, u) : d \in BOOLEAN, u \in BOOLEAN}
=============================================================================

---------------------------- MODULE MCFpcWorker ----------------------------
(* The worker with three calling threads. *)
EXTENDS FpcWorker, TLC

CONSTANTS c1, c2, c3

MCCallers == {c1, c2, c3}
=============================================================================

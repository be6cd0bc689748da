------------------------------ MODULE MCFpcHal ------------------------------
(* Two API threads and one caller of the navigation extension. *)
EXTENDS FpcHal

CONSTANTS a1, a2, n1

MCApi == {a1, a2}
MCNavApi == {n1}
=============================================================================

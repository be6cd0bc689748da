---------------------------- MODULE MCFpcHwAuth ----------------------------
(* FpcHwAuth with small sets of groups, users and operations. *)
EXTENDS FpcHwAuth, TLC

CONSTANTS u1, u2

MCGroups == {1}
MCUsers  == {u1, u2}
MCOpIds  == {3}
MCSymmetry == Permutations(MCUsers)
=============================================================================

---------------------------- MODULE MCToolsUpdate ----------------------------
(* Small instances of ToolsUpdate. *)
EXTENDS ToolsUpdate, TLC

CONSTANTS u1, u2

TwoUpdaters == {u1, u2}
Symmetry == Permutations(TwoUpdaters)
=============================================================================

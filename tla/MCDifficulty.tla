---------------------------- MODULE MCDifficulty ----------------------------
(* Difficulty with targets of five base-4 digits, a limit that is not a    *)
(* value of the compact encoding and a retarget every second block.        *)
EXTENDS Difficulty
MCSteps == {-3, 1, 5, 9, 40}
=============================================================================

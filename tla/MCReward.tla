------------------------------ MODULE MCReward ------------------------------
(* Reward with a halving every second block and a subsidy of twenty units: *)
(* the shares are 2, 1 and then 0, the subsidies 20, 10, 5, 2, 1 and, when *)
(* the shift count reaches the width, 0.                                   *)
EXTENDS Reward
=============================================================================

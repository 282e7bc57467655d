---------------------------- MODULE MinerService ----------------------------
(***************************************************************************)
(* What the CPU miner promises its user: it is off or mines for exactly    *)
(* one address, and goes from one address to another only through off.     *)
(***************************************************************************)
CONSTANT Payees    \* the addresses that may be mined for
VARIABLE mining    \* the addresses whose workers are running

Init == mining = {}

Start == mining = {} /\ \E a \in Payees : mining' = {a}

Stop == mining # {} /\ mining' = {}

Spec == Init /\ [][Start \/ Stop]_mining
=============================================================================

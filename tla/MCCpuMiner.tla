----------------------------- MODULE MCCpuMiner -----------------------------
(* CpuMiner with small sets of threads, callers and addresses.             *)
EXTENDS CpuMiner, TLC

Symmetry == Permutations(Workers) \cup Permutations(Callers)
            \cup Permutations(Addresses \ {Treasury})
=============================================================================

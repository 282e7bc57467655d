----------------------------- MODULE MCDesktop -----------------------------
(***************************************************************************)
(* Both desktop apps.  A computer has one of them: os says which, and the   *)
(* variables of the other one stay as they are at first.                    *)
(***************************************************************************)
EXTENDS LinuxApp, WindowsUpdate, TLC

VARIABLE os

DesktopInit == Init /\ UpdateInit /\ os \in {"linux", "windows"}

DesktopNext ==
  \/ os = "linux" /\ Next /\ UNCHANGED <<os, updateVars>>
  \/ os = "windows" /\ UpdateNext /\ UNCHANGED <<os, vars>>

DesktopSpec == DesktopInit /\ [][DesktopNext]_<<os, vars, updateVars>>

(* App and node processes are interchangeable. *)
Symmetry == Permutations(Apps) \cup Permutations(Nodes)
=============================================================================

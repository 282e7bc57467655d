-------------------------- MODULE ToolsUpdateProofs --------------------------
(***************************************************************************)
(* Proofs about ToolsUpdate, for any number of runs of the script, releases, *)
(* failures, signals and kills.                                             *)
(***************************************************************************)
EXTENDS ToolsUpdate, TLAPS

(* The steps under the lock up to the commit, and those of the rollback. *)
Early == {"idle", "compare", "download", "flock", "stage", "service"}
Locked == {"stage", "service", "stop", "confirm", "moveOld", "mark", "moveNew", "moveVersion",
           "start", "probe", "commit"}
Swapped == {"moveNew", "moveVersion", "start", "probe", "commit"}
Rollback == {"stopAgain", "setAside", "putBack", "restoreVersion"}

(* Who holds the lock, and which flags a step of the script has set. *)
LockAt(p) ==
  /\ lock = p => up[p].pc \in Locked \cup Trapped
  /\ up[p].pc \in Locked => lock = p
  /\ up[p].pc # "done" /\ (up[p].replaced \/ up[p].wasActive \/ up[p].committed) => lock = p
  /\ up[p].pc \in Early => ~up[p].wasActive
  /\ up[p].pc \in {"stop", "start", "probe"} => up[p].wasActive
  /\ up[p].pc \in Working \ Swapped => ~up[p].replaced
  /\ up[p].pc \in Swapped \cup Rollback => up[p].replaced
  /\ up[p].committed => up[p].pc \in {"cleanup", "sweep", "done"}

(* The service is down from its confirmed stop to the end of the swap, in    *)
(* the rollback, and throughout if the script found it down.                 *)
UnitAt(p) ==
  /\ up[p].pc \in {"confirm", "moveOld", "mark", "moveNew", "moveVersion", "setAside", "putBack"}
       => unit \notin Running
  /\ up[p].replaced /\ ~up[p].wasActive /\ up[p].pc # "done" => unit \notin Running

(* Where the directories are. *)
PlaceAt(p) ==
  /\ up[p].pc \in Early \cup {"stop", "confirm", "moveOld"} => backup[p].bin = <<>>
  /\ up[p].pc \in {"service", "stop", "confirm", "moveOld", "mark", "moveNew"}
       => stage[p].bin = <<up[p].cand>>
  /\ up[p].pc \in {"service", "stop", "confirm", "moveOld", "mark", "moveNew", "moveVersion"}
       => stage[p].ver = up[p].cand
  /\ up[p].pc \in {"mark", "moveNew"} => bin = <<>>
  /\ up[p].pc \in Swapped \ {"moveNew"} => bin = <<up[p].cand>>

LockInv == \A p \in Updaters : LockAt(p)
UnitInv == \A p \in Updaters : UnitAt(p)
PlaceInv == \A p \in Updaters : PlaceAt(p)

(* The old directory is in the backup of this run. *)
OldAside(p) ==
  \/ up[p].pc \in {"mark"} \cup Swapped \cup {"stopAgain", "setAside", "putBack"}
  \/ up[p].pc = "cleanup" /\ up[p].replaced /\ ~up[p].committed

Kept == {0} \cup {up[p].cand : p \in {q \in Updaters : up[q].committed}}
InBackup(v) == \E p \in Updaters : v \in Releases(backup[p].bin)

(* During a swap that is not committed all that must be kept is in backups.  *)
KeptInv ==
  /\ \A v \in Kept : v \in Releases(bin) \/ InBackup(v)
  /\ \A p \in Updaters : OldAside(p) => \A v \in Kept : InBackup(v)

(* A directory and a VERSION file that belong together. *)
Whole(dir, v, first) ==
  \E r \in Versions : dir = <<r>> /\ (v = r \/ (v = None /\ first = None /\ r = 0))

Faulted == left.fault < MaxFaults

(* While the only failure so far is a command or a start that failed once,   *)
(* the installation or the backup is whole at every step of whoever holds    *)
(* the lock; a swap is undone only after that failure.                       *)
WholeAt(p) ==
  /\ up[p].pc \in {"stage", "service", "stop", "confirm", "moveOld", "restart", "sweep"}
       => Whole(bin, ver, found.ver)
  /\ up[p].pc = "cleanup" /\ (~up[p].replaced \/ up[p].committed) => Whole(bin, ver, found.ver)
  /\ up[p].pc \in {"service", "stop", "confirm", "moveOld", "mark", "moveNew", "moveVersion"}
       => backup[p].ver = ver
  /\ OldAside(p) => Whole(backup[p].bin, backup[p].ver, found.ver)
  /\ up[p].pc \in {"start", "probe", "commit"} => ver = up[p].cand
  /\ up[p].pc = "putBack" => bin = <<>>
  /\ up[p].pc = "restoreVersion" => Whole(bin, backup[p].ver, found.ver)
  /\ up[p].pc \in Rollback => Faulted
  /\ up[p].pc = "cleanup" /\ up[p].replaced /\ ~up[p].committed => Faulted
  /\ up[p].pc = "probe" => unit = "active" \/ Faulted

WholeInv ==
  OneFailure =>
    /\ lock = None => Whole(bin, ver, found.ver)
    /\ \A p \in Updaters : lock = p => WholeAt(p)

AsFound == unit # "activating" /\ (unit = "active") = found.active

(* Under the same condition the service is as it was found, except while a   *)
(* run that found it running has stopped it.                                 *)
ServiceAt(p) ==
  /\ ~up[p].wasActive => AsFound
  /\ up[p].wasActive => found.active
  /\ up[p].wasActive /\ up[p].pc \in {"commit", "sweep"} => unit = "active"
  /\ up[p].wasActive /\ up[p].committed => unit = "active"
  /\ up[p].wasActive /\ ~up[p].committed /\ up[p].pc \in Trapped \ {"sweep"} => Faulted

ServiceInv ==
  OneFailure =>
    /\ lock = None => AsFound
    /\ \A p \in Updaters : lock = p => ServiceAt(p)

IInv == TypeOK /\ LockInv /\ UnitInv /\ PlaceInv /\ KeptInv /\ WholeInv /\ ServiceInv

USE UpdateAssumption

-----------------------------------------------------------------------------
(* Types.                                                                   *)

Labels == Working \cup Trapped \cup {"commit", "done"}
Runs == [pc : Labels, cand : Versions, replaced : BOOLEAN, wasActive : BOOLEAN, committed : BOOLEAN]
Units == Running \cup {"inactive", "failed"}
Dirs == [bin : Seq(Versions), ver : File]
Budgets == [fault : 0..MaxFaults, signal : 0..MaxSignals, kill : 0..MaxKills]

(* The type invariant, by the record sets named above.                     *)
LEMMA Types ==
  TypeOK <=> /\ feed \in Versions /\ bin \in Seq(Versions) /\ ver \in File /\ unit \in Units
             /\ found \in [active : BOOLEAN, ver : File] /\ lock \in Updaters \cup {None}
             /\ up \in [Updaters -> Runs] /\ stage \in [Updaters -> Dirs]
             /\ backup \in [Updaters -> Dirs]
             /\ left \in Budgets
BY DEF TypeOK, Labels, Runs, Units, Dirs, Budgets

(* The type invariant of the next state, part by part.                     *)
LEMMA TypesKept ==
  ASSUME feed' \in Versions, bin' \in Seq(Versions), ver' \in File, unit' \in Units,
         found' \in [active : BOOLEAN, ver : File], lock' \in Updaters \cup {None},
         up' \in [Updaters -> Runs], stage' \in [Updaters -> Dirs], backup' \in [Updaters -> Dirs],
         left' \in Budgets
  PROVE  TypeOK'
BY DEF TypeOK, Labels, Runs, Units, Dirs, Budgets

(* What a step does to the run that takes it. *)
Effect(p, pc, cand, replaced, wasActive, committed) ==
  /\ up' \in [Updaters -> Runs]
  /\ up'[p].pc = pc /\ up'[p].cand = cand /\ up'[p].replaced = replaced
  /\ up'[p].wasActive = wasActive /\ up'[p].committed = committed
  /\ \A q \in Updaters \ {p} : up'[q] = up[q]

(* What a step does to the staging or backup directory of that run. *)
Moved(new, old, p, b, v) ==
  /\ new \in [Updaters -> Dirs] /\ new[p].bin = b /\ new[p].ver = v
  /\ \A q \in Updaters \ {p} : new[q] = old[q]

(* mv into a staging or backup directory touches that of one run.          *)
LEMMA DirMoved ==
  ASSUME NEW old \in [Updaters -> Dirs], NEW p \in Updaters, NEW b \in Seq(Versions), NEW v \in File
  PROVE  /\ Moved([old EXCEPT ![p].bin = b], old, p, b, old[p].ver)
         /\ Moved([old EXCEPT ![p].ver = v], old, p, old[p].bin, v)
         /\ Moved([old EXCEPT ![p] = [bin |-> b, ver |-> v]], old, p, b, v)
<1>1. /\ [old[p] EXCEPT !.bin = b] \in Dirs /\ [old[p] EXCEPT !.ver = v] \in Dirs
      /\ [bin |-> b, ver |-> v] \in Dirs
  BY DEF Dirs
<1> QED
  BY <1>1 DEF Moved, Dirs

(* A run goes on to its next command.                                      *)
LEMMA GotoEffect ==
  ASSUME TypeOK, NEW p \in Updaters, NEW pc \in Labels, Goto(p, pc)
  PROVE  Effect(p, pc, up[p].cand, up[p].replaced, up[p].wasActive, up[p].committed)
<1>1. up \in [Updaters -> Runs] /\ [up[p] EXCEPT !.pc = pc] \in Runs
  BY Types DEF Runs
<1> QED
  BY <1>1 DEF Goto, Effect, Runs

(* The failures that are left only become fewer. *)
LEMMA Failures ==
  ASSUME TypeOK, left' = left \/ Fault
  PROVE  /\ left' \in Budgets /\ (OneFailure' => OneFailure) /\ (Faulted => Faulted')
         /\ left' = left \/ (Faulted' /\ (Faulted => ~OneFailure'))
         /\ Fault => left' # left
<1>1. left \in Budgets /\ left.fault \in 0..MaxFaults
  BY Types DEF Budgets
<1>2. CASE left' = left
  BY <1>1, <1>2 DEF OneFailure, Faulted, Fault, Budgets
<1>3. CASE Fault
  <2>1. /\ left' \in Budgets /\ left'.fault = left.fault - 1 /\ left'.signal = left.signal
        /\ left'.kill = left.kill
    BY <1>1, <1>3 DEF Fault, Budgets
  <2> QED
    BY <1>1, <2>1 DEF OneFailure, Faulted
<1> QED
  BY <1>2, <1>3

(* The releases in a directory. *)
LEMMA ReleasesOf ==
  /\ Releases(<<>>) = {}
  /\ \A v \in Versions : Releases(<<v>>) = {v}
BY DEF Releases

(* mv onto a directory that exists keeps the releases of both.             *)
LEMMA ReleasesJoined ==
  ASSUME NEW s \in Seq(Versions), NEW t \in Seq(Versions)
  PROVE  Releases(s) \subseteq Releases(s \o t) /\ Releases(t) \subseteq Releases(s \o t)
<1>1. \A i \in 1..Len(s) : i \in 1..Len(s \o t) /\ (s \o t)[i] = s[i]
  OBVIOUS
<1>2. \A i \in 1..Len(t) : Len(s) + i \in 1..Len(s \o t) /\ (s \o t)[Len(s) + i] = t[i]
  OBVIOUS
<1> QED
  BY <1>1, <1>2 DEF Releases

(* No updater runs and the installation is the one that was found.         *)
LEMMA InitIInv == Init => IInv
<1> SUFFICES ASSUME Init PROVE IInv
  OBVIOUS
<1>0. 0 \in Versions /\ Empty \in Dirs /\ <<0>> \in Seq(Versions)
  BY DEF Versions, Empty, Dirs, File
<1>1. TypeOK
  <2>1. up \in [Updaters -> Runs]
    BY <1>0 DEF Init, Runs, Labels, Working
  <2>2. left \in Budgets
    BY DEF Init, Budgets
  <2>3. stage \in [Updaters -> Dirs] /\ backup \in [Updaters -> Dirs]
    BY <1>0 DEF Init
  <2>4. found \in [active : BOOLEAN, ver : File] /\ unit \in Units /\ ver \in File
    BY <1>0 DEF Init, Units, Running, File
  <2> QED
    BY <1>0, <2>1, <2>2, <2>3, <2>4, Types DEF Init
<1>2. LockInv /\ UnitInv /\ PlaceInv
  BY DEF Init, LockInv, UnitInv, PlaceInv, LockAt, UnitAt, PlaceAt, Early, Locked, Working,
         Swapped, Rollback, Empty, Trapped
<1>3. KeptInv
  <2>1. Kept = {0}
    BY DEF Init, Kept
  <2>2. 0 \in Releases(bin)
    BY <1>0, ReleasesOf DEF Init
  <2>3. \A p \in Updaters : ~OldAside(p)
    BY Zenon DEF Init, OldAside, Swapped
  <2> QED
    BY <2>1, <2>2, <2>3 DEF KeptInv
<1>4. WholeInv /\ ServiceInv
  <2>1. Whole(bin, ver, found.ver)
    BY <1>0 DEF Init, Whole
  <2>2. AsFound
    BY DEF Init, AsFound
  <2> QED
    BY <2>1, <2>2 DEF Init, WholeInv, ServiceInv
<1> QED
  BY <1>1, <1>2, <1>3, <1>4 DEF IInv

-----------------------------------------------------------------------------
(* The steps.                                                               *)

(* Steps that move no directory keep all releases where they are. *)
LEMMA KeptSame ==
  ASSUME IInv, NEW p \in Updaters, NEW pc, NEW cand, NEW replaced, NEW wasActive,
         Effect(p, pc, cand, replaced, wasActive, up[p].committed),
         cand = up[p].cand \/ ~up[p].committed, OldAside(p)' => OldAside(p),
         bin' = bin, \A q \in Updaters : backup'[q].bin = backup[q].bin
  PROVE  KeptInv'
<1>1. Kept' = Kept
  BY DEF Effect, Kept
<1>2. \A q \in Updaters : OldAside(q)' => OldAside(q)
  BY DEF Effect, OldAside
<1>3. \A v \in Kept : InBackup(v) => InBackup(v)'
  BY DEF InBackup
<1> QED
  BY <1>1, <1>2, <1>3 DEF IInv, KeptInv

(* Nor does a release get lost while the old directory is set aside. *)
LEMMA KeptAside ==
  ASSUME IInv, NEW p \in Updaters, NEW pc, NEW replaced, NEW wasActive,
         Effect(p, pc, up[p].cand, replaced, wasActive, up[p].committed),
         OldAside(p), backup' = backup
  PROVE  KeptInv'
<1>1. Kept' = Kept
  BY DEF Effect, Kept
<1>2. \A v \in Kept : InBackup(v)'
  BY DEF IInv, KeptInv, InBackup
<1> QED
  BY <1>1, <1>2 DEF KeptInv

(* A step of one run leaves what is known of the other runs, of which at     *)
(* most one holds the lock.                                                 *)
LEMMA OtherRuns ==
  ASSUME IInv, NEW p \in Updaters, NEW pc, NEW cand, NEW replaced, NEW wasActive, NEW committed,
         Effect(p, pc, cand, replaced, wasActive, committed),
         lock' = lock \/ (lock \in {p, None} /\ lock' \in {p, None}),
         lock = p \/ (bin' = bin /\ unit' = unit),
         \A q \in Updaters \ {p} : stage'[q] = stage[q] /\ backup'[q] = backup[q]
  PROVE  \A q \in Updaters \ {p} : LockAt(q)' /\ UnitAt(q)' /\ PlaceAt(q)'
<1> SUFFICES ASSUME NEW q \in Updaters \ {p}
             PROVE  LockAt(q)' /\ UnitAt(q)' /\ PlaceAt(q)'
  OBVIOUS
<1>1. /\ LockAt(q) /\ UnitAt(q) /\ PlaceAt(q)
      /\ up'[q] = up[q] /\ stage'[q] = stage[q] /\ backup'[q] = backup[q]
  BY DEF IInv, LockInv, UnitInv, PlaceInv, Effect
<1>2. (lock' = q) = (lock = q)
  OBVIOUS
<1>3. LockAt(q)'
  BY <1>1, <1>2 DEF LockAt
<1>4. CASE lock = q
  <2>1. bin' = bin /\ unit' = unit
    BY <1>4
  <2> QED
    BY <1>1, <1>3, <2>1 DEF UnitAt, PlaceAt
<1>5. CASE lock # q
  <2>1. up[q].pc \notin Locked /\ (up[q].pc # "done" => ~up[q].replaced) /\ up[q].pc \notin Rollback
    BY <1>1, <1>5 DEF LockAt, Rollback
  <2>2. UnitAt(q)'
    BY <1>1, <2>1 DEF UnitAt, Locked, Rollback
  <2>3. PlaceAt(q)'
    BY <1>1, <2>1 DEF PlaceAt, Locked, Swapped
  <2> QED
    BY <1>3, <2>2, <2>3
<1> QED
  BY <1>4, <1>5

(* Whoever holds the lock is not disturbed by the steps of other runs. *)
LEMMA Others ==
  ASSUME IInv, NEW p \in Updaters, NEW pc, NEW cand, NEW replaced, NEW wasActive, NEW committed,
         Effect(p, pc, cand, replaced, wasActive, committed),
         lock' \in {lock, p, None}, found' = found, left' = left \/ Fault, OneFailure',
         lock # p => bin' = bin /\ ver' = ver /\ unit' = unit,
         \A q \in Updaters \ {p} : backup'[q] = backup[q]
  PROVE  /\ \A q \in Updaters \ {p} : lock' = q => WholeAt(q)' /\ ServiceAt(q)'
         /\ lock = None /\ lock' = None => (Whole(bin, ver, found.ver) /\ AsFound)'
<1>1. OneFailure /\ (Faulted => Faulted')
  BY Failures DEF IInv
<1>2. None \notin Updaters
  OBVIOUS
<1>3. ASSUME NEW q \in Updaters \ {p}, lock' = q
      PROVE  WholeAt(q)' /\ ServiceAt(q)'
  <2>1. lock = q /\ bin' = bin /\ ver' = ver /\ unit' = unit
    BY <1>2, <1>3
  <2>2. WholeAt(q) /\ ServiceAt(q)
    BY <1>1, <2>1 DEF IInv, WholeInv, ServiceInv
  <2>3. up'[q] = up[q]
    BY DEF Effect
  <2>4. WholeAt(q)'
    BY <1>1, <2>1, <2>2, <2>3 DEF WholeAt, OldAside
  <2> QED
    BY <1>1, <2>1, <2>2, <2>3, <2>4 DEF ServiceAt, AsFound
<1>4. ASSUME lock = None, lock' = None
      PROVE  (Whole(bin, ver, found.ver) /\ AsFound)'
  <2>1. lock # p
    BY <1>2, <1>4
  <2>2. Whole(bin, ver, found.ver) /\ AsFound
    BY <1>1, <1>4 DEF IInv, WholeInv, ServiceInv
  <2> QED
    BY <2>1, <2>2 DEF AsFound
<1> QED
  BY <1>3, <1>4

(* The feed is read. *)
LEMMA FetchKeeps ==
  ASSUME IInv, NEW p \in Updaters, Fetch(p)
  PROVE  IInv'
<1>0. /\ Effect(p, "compare", feed, up[p].replaced, up[p].wasActive, up[p].committed)
      /\ feed' = feed /\ bin' = bin /\ ver' = ver /\ unit' = unit /\ found' = found /\ lock' = lock
      /\ stage' = stage /\ backup' = backup /\ left' = left
  <2>1. up \in [Updaters -> Runs] /\ feed \in Versions
    BY Types DEF IInv
  <2>2. \A pc \in {"compare"} : [up[p] EXCEPT !.pc = pc, !.cand = feed] \in Runs
    BY <2>1, ZenonT(30) DEF Runs, Labels, Working, Trapped
  <2> QED
    BY <2>1, <2>2 DEF Fetch, Effect, Runs, Disk
<1>a. up[p].pc = "idle"
  BY DEF At, Fetch
<1>b. LockAt(p) /\ UnitAt(p) /\ PlaceAt(p)
  BY DEF IInv, LockInv, UnitInv, PlaceInv
<1>c. \A q \in Updaters \ {p} : LockAt(q)' /\ UnitAt(q)' /\ PlaceAt(q)'
  BY <1>0, <1>a, <1>b, OtherRuns, Zenon DEF LockAt, Locked, Rollback, Moved
<1>1. TypeOK'
  BY <1>0, TypesKept, Types, Failures, Zenon DEF IInv, Effect, Moved, Units, Running
<1>2. LockInv'
  <2>1. LockAt(p)'
    BY <1>0, <1>a, <1>b, Zenon DEF LockAt, Effect, Early, Locked, Swapped, Rollback, Working, Trapped
  <2> QED
    BY <1>c, <2>1 DEF LockInv
<1>3. UnitInv'
  <2>1. UnitAt(p)'
    BY <1>0, <1>a, <1>b, Zenon DEF LockAt, UnitAt, Effect, Running, Locked, Swapped, Rollback
  <2> QED
    BY <1>c, <2>1 DEF UnitInv
<1>4. PlaceInv'
  <2>1. PlaceAt(p)'
    BY <1>0, <1>a, <1>b, Zenon DEF LockAt, PlaceAt, Effect, Moved, Early, Locked, Swapped
  <2> QED
    BY <1>c, <2>1 DEF PlaceInv
<1>5. KeptInv'
  <2>1. OldAside(p)' => OldAside(p)
    BY <1>0, <1>a, <1>b, Zenon DEF LockAt, OldAside, Effect, Early, Locked, Swapped, Rollback, Working,
           Trapped
  <2>2. \A q \in Updaters : backup'[q].bin = backup[q].bin
    BY <1>0 DEF Moved
  <2>3. up[p].committed => feed = up[p].cand
    BY <1>a, <1>b DEF LockAt, Early, Locked, Swapped, Rollback, Working, Trapped
  <2> QED
    BY <1>0, <2>1, <2>2, <2>3, KeptSame
<1>6. WholeInv' /\ ServiceInv'
  <2> SUFFICES ASSUME OneFailure'
               PROVE  /\ lock' = None => (Whole(bin, ver, found.ver) /\ AsFound)'
                      /\ \A q \in Updaters : lock' = q => WholeAt(q)' /\ ServiceAt(q)'
    BY DEF WholeInv, ServiceInv
  <2>0. /\ OneFailure /\ (Faulted => Faulted') /\ (left' = left \/ (Faulted' /\ ~Faulted))
        /\ (Fault => left' # left)
    BY <1>0, Failures, Zenon DEF IInv
  <2>1. lock # p /\ lock' # p
    BY <1>0, <1>a, <1>b DEF LockAt, Early, Locked, Swapped, Rollback, Working, Trapped
  <2> QED
    BY <1>0, <2>1, Others
<1> QED
  BY <1>1, <1>2, <1>3, <1>4, <1>5, <1>6 DEF IInv

(* The releases are compared. *)
LEMMA CompareKeeps ==
  ASSUME IInv, NEW p \in Updaters, Compare(p)
  PROVE  IInv'
<1>0. PICK pc \in {"download", "cleanup"} :
        /\ Effect(p, pc, up[p].cand, up[p].replaced, up[p].wasActive, up[p].committed)
        /\ feed' = feed /\ bin' = bin /\ ver' = ver /\ unit' = unit /\ found' = found
        /\ lock' = lock /\ stage' = stage /\ backup' = backup /\ left' = left
  BY GotoEffect, DirMoved, Types DEF IInv, At, Disk, Labels, Working, Trapped, Compare
<1>a. up[p].pc = "compare"
  BY DEF At, Compare
<1>b. LockAt(p) /\ UnitAt(p) /\ PlaceAt(p)
  BY DEF IInv, LockInv, UnitInv, PlaceInv
<1>c. \A q \in Updaters \ {p} : LockAt(q)' /\ UnitAt(q)' /\ PlaceAt(q)'
  BY <1>0, <1>a, <1>b, OtherRuns, Zenon DEF LockAt, Locked, Rollback, Moved
<1>1. TypeOK'
  BY <1>0, TypesKept, Types, Failures, Zenon DEF IInv, Effect, Moved, Units, Running
<1>2. LockInv'
  <2>1. LockAt(p)'
    BY <1>0, <1>a, <1>b, Zenon DEF LockAt, Effect, Early, Locked, Swapped, Rollback, Working, Trapped
  <2> QED
    BY <1>c, <2>1 DEF LockInv
<1>3. UnitInv'
  <2>1. UnitAt(p)'
    BY <1>0, <1>a, <1>b, Zenon DEF LockAt, UnitAt, Effect, Running, Locked, Swapped, Rollback
  <2> QED
    BY <1>c, <2>1 DEF UnitInv
<1>4. PlaceInv'
  <2>1. PlaceAt(p)'
    BY <1>0, <1>a, <1>b, Zenon DEF LockAt, PlaceAt, Effect, Moved, Early, Locked, Swapped
  <2> QED
    BY <1>c, <2>1 DEF PlaceInv
<1>5. KeptInv'
  <2>1. OldAside(p)' => OldAside(p)
    BY <1>0, <1>a, <1>b, Zenon DEF LockAt, OldAside, Effect, Early, Locked, Swapped, Rollback, Working,
           Trapped
  <2>2. \A q \in Updaters : backup'[q].bin = backup[q].bin
    BY <1>0 DEF Moved
  <2> QED
    BY <1>0, <2>1, <2>2, KeptSame, Zenon
<1>6. WholeInv' /\ ServiceInv'
  <2> SUFFICES ASSUME OneFailure'
               PROVE  /\ lock' = None => (Whole(bin, ver, found.ver) /\ AsFound)'
                      /\ \A q \in Updaters : lock' = q => WholeAt(q)' /\ ServiceAt(q)'
    BY DEF WholeInv, ServiceInv
  <2>0. /\ OneFailure /\ (Faulted => Faulted') /\ (left' = left \/ (Faulted' /\ ~Faulted))
        /\ (Fault => left' # left)
    BY <1>0, Failures, Zenon DEF IInv
  <2>1. lock # p /\ lock' # p
    BY <1>0, <1>a, <1>b DEF LockAt, Early, Locked, Swapped, Rollback, Working, Trapped
  <2> QED
    BY <1>0, <2>1, Others
<1> QED
  BY <1>1, <1>2, <1>3, <1>4, <1>5, <1>6 DEF IInv

(* The package is downloaded, or the run ends. *)
LEMMA DownloadKeeps ==
  ASSUME IInv, NEW p \in Updaters, Download(p)
  PROVE  IInv'
<1>0. PICK pc \in {"flock", "cleanup"} :
        /\ Effect(p, pc, up[p].cand, up[p].replaced, up[p].wasActive, up[p].committed)
        /\ feed' = feed /\ bin' = bin /\ ver' = ver /\ unit' = unit /\ found' = found
        /\ lock' = lock /\ stage' = stage /\ backup' = backup /\ left' = left
  BY GotoEffect, DirMoved, Types DEF IInv, At, Disk, Labels, Working, Trapped, Download
<1>a. up[p].pc = "download"
  BY DEF At, Download
<1>b. LockAt(p) /\ UnitAt(p) /\ PlaceAt(p)
  BY DEF IInv, LockInv, UnitInv, PlaceInv
<1>c. \A q \in Updaters \ {p} : LockAt(q)' /\ UnitAt(q)' /\ PlaceAt(q)'
  BY <1>0, <1>a, <1>b, OtherRuns, Zenon DEF LockAt, Locked, Rollback, Moved
<1>1. TypeOK'
  BY <1>0, TypesKept, Types, Failures, Zenon DEF IInv, Effect, Moved, Units, Running
<1>2. LockInv'
  <2>1. LockAt(p)'
    BY <1>0, <1>a, <1>b, Zenon DEF LockAt, Effect, Early, Locked, Swapped, Rollback, Working, Trapped
  <2> QED
    BY <1>c, <2>1 DEF LockInv
<1>3. UnitInv'
  <2>1. UnitAt(p)'
    BY <1>0, <1>a, <1>b, Zenon DEF LockAt, UnitAt, Effect, Running, Locked, Swapped, Rollback
  <2> QED
    BY <1>c, <2>1 DEF UnitInv
<1>4. PlaceInv'
  <2>1. PlaceAt(p)'
    BY <1>0, <1>a, <1>b, Zenon DEF LockAt, PlaceAt, Effect, Moved, Early, Locked, Swapped
  <2> QED
    BY <1>c, <2>1 DEF PlaceInv
<1>5. KeptInv'
  <2>1. OldAside(p)' => OldAside(p)
    BY <1>0, <1>a, <1>b, Zenon DEF LockAt, OldAside, Effect, Early, Locked, Swapped, Rollback, Working,
           Trapped
  <2>2. \A q \in Updaters : backup'[q].bin = backup[q].bin
    BY <1>0 DEF Moved
  <2> QED
    BY <1>0, <2>1, <2>2, KeptSame, Zenon
<1>6. WholeInv' /\ ServiceInv'
  <2> SUFFICES ASSUME OneFailure'
               PROVE  /\ lock' = None => (Whole(bin, ver, found.ver) /\ AsFound)'
                      /\ \A q \in Updaters : lock' = q => WholeAt(q)' /\ ServiceAt(q)'
    BY DEF WholeInv, ServiceInv
  <2>0. /\ OneFailure /\ (Faulted => Faulted') /\ (left' = left \/ (Faulted' /\ ~Faulted))
        /\ (Fault => left' # left)
    BY <1>0, Failures, Zenon DEF IInv
  <2>1. lock # p /\ lock' # p
    BY <1>0, <1>a, <1>b DEF LockAt, Early, Locked, Swapped, Rollback, Working, Trapped
  <2> QED
    BY <1>0, <2>1, Others
<1> QED
  BY <1>1, <1>2, <1>3, <1>4, <1>5, <1>6 DEF IInv

(* flock -n: the run gets the lock, or gives up. *)
LEMMA FlockKeeps ==
  ASSUME IInv, NEW p \in Updaters, Flock(p)
  PROVE  IInv'
<1>0. PICK pc \in {"stage", "cleanup"} :
        /\ Effect(p, pc, up[p].cand, up[p].replaced, up[p].wasActive, up[p].committed)
        /\ feed' = feed /\ bin' = bin /\ ver' = ver /\ unit' = unit /\ found' = found
        /\ stage' = stage /\ backup' = backup /\ left' = left
        /\ \/ pc = "stage" /\ lock = None /\ lock' = p
           \/ pc = "cleanup" /\ lock # None /\ lock' = lock
  BY GotoEffect, DirMoved, Types DEF IInv, At, Disk, Labels, Working, Trapped, Flock
<1>a. up[p].pc = "flock"
  BY DEF At, Flock
<1>b. LockAt(p) /\ UnitAt(p) /\ PlaceAt(p)
  BY DEF IInv, LockInv, UnitInv, PlaceInv
<1>c. \A q \in Updaters \ {p} : LockAt(q)' /\ UnitAt(q)' /\ PlaceAt(q)'
  BY <1>0, <1>a, <1>b, OtherRuns, Zenon DEF LockAt, Locked, Rollback, Moved
<1>1. TypeOK'
  BY <1>0, TypesKept, Types, Failures, Zenon DEF IInv, Effect, Moved, Units, Running
<1>2. LockInv'
  <2>1. LockAt(p)'
    BY <1>0, <1>a, <1>b, Zenon DEF LockAt, Effect, Early, Locked, Swapped, Rollback, Working, Trapped
  <2> QED
    BY <1>c, <2>1 DEF LockInv
<1>3. UnitInv'
  <2>1. UnitAt(p)'
    BY <1>0, <1>a, <1>b, Zenon DEF LockAt, UnitAt, Effect, Running, Locked, Swapped, Rollback
  <2> QED
    BY <1>c, <2>1 DEF UnitInv
<1>4. PlaceInv'
  <2>1. PlaceAt(p)'
    BY <1>0, <1>a, <1>b, Zenon DEF LockAt, PlaceAt, Effect, Moved, Early, Locked, Swapped
  <2> QED
    BY <1>c, <2>1 DEF PlaceInv
<1>5. KeptInv'
  <2>1. OldAside(p)' => OldAside(p)
    BY <1>0, <1>a, <1>b, Zenon DEF LockAt, OldAside, Effect, Early, Locked, Swapped, Rollback, Working,
           Trapped
  <2>2. \A q \in Updaters : backup'[q].bin = backup[q].bin
    BY <1>0 DEF Moved
  <2> QED
    BY <1>0, <2>1, <2>2, KeptSame, Zenon
<1>6. WholeInv' /\ ServiceInv'
  <2> SUFFICES ASSUME OneFailure'
               PROVE  /\ lock' = None => (Whole(bin, ver, found.ver) /\ AsFound)'
                      /\ \A q \in Updaters : lock' = q => WholeAt(q)' /\ ServiceAt(q)'
    BY DEF WholeInv, ServiceInv
  <2>0. /\ OneFailure /\ (Faulted => Faulted') /\ (left' = left \/ (Faulted' /\ ~Faulted))
        /\ (Fault => left' # left)
    BY <1>0, Failures, Zenon DEF IInv
  <2>1. CASE pc = "cleanup"
    <3>1. lock # p /\ lock' = lock
      BY <1>0, <1>a, <1>b, <2>1 DEF LockAt, Early, Locked, Swapped, Rollback, Working, Trapped
    <3> QED
      BY <1>0, <3>1, Others
  <2>2. CASE pc = "stage"
    <3>1. lock = None /\ lock' = p /\ Whole(bin, ver, found.ver) /\ AsFound
      BY <1>0, <2>0, <2>2 DEF IInv, WholeInv, ServiceInv
    <3>2. ~up[p].wasActive /\ ~up[p].committed
      BY <1>a, <1>b DEF LockAt, Early, Locked, Swapped, Rollback, Working, Trapped
    <3>3. WholeAt(p)' /\ ServiceAt(p)'
      BY <1>0, <2>2, <3>1, <3>2 DEF WholeAt, ServiceAt, AsFound, OldAside, Effect, Early, Locked,
             Swapped, Rollback, Working, Trapped
    <3> QED
      BY <3>1, <3>3
  <2> QED
    BY <1>0, <2>1, <2>2
<1> QED
  BY <1>1, <1>2, <1>3, <1>4, <1>5, <1>6 DEF IInv

(* The package is staged. *)
LEMMA StageKeeps ==
  ASSUME IInv, NEW p \in Updaters, Stage(p)
  PROVE  IInv'
<1>0. PICK pc \in {"cleanup", "service"} :
        /\ Effect(p, pc, up[p].cand, up[p].replaced, up[p].wasActive, up[p].committed)
        /\ feed' = feed /\ bin' = bin /\ ver' = ver /\ unit' = unit /\ found' = found
        /\ lock' = lock /\ left' = left
        /\ Moved(stage', stage, p, <<up[p].cand>>, up[p].cand)
        /\ \/ pc = "cleanup" /\ backup' = backup
           \/ pc = "service" /\ Moved(backup', backup, p, backup[p].bin, ver)
  <2>1. /\ up[p].cand \in Versions /\ stage \in [Updaters -> Dirs] /\ backup \in [Updaters -> Dirs]
        /\ ver \in File
    BY Types DEF IInv, Runs
  <2>2. <<up[p].cand>> \in Seq(Versions) /\ up[p].cand \in File
    BY <2>1 DEF File
  <2>3. Moved(stage', stage, p, <<up[p].cand>>, up[p].cand)
    BY <2>1, <2>2, DirMoved, Zenon DEF Stage
  <2>4. Moved([backup EXCEPT ![p].ver = ver], backup, p, backup[p].bin, ver)
    BY <2>1, <2>2, DirMoved, Zenon
  <2> QED
    BY <2>3, <2>4, GotoEffect DEF IInv, Stage, Labels, Working, Trapped
<1>a. up[p].pc = "stage"
  BY DEF At, Stage
<1>b. LockAt(p) /\ UnitAt(p) /\ PlaceAt(p)
  BY DEF IInv, LockInv, UnitInv, PlaceInv
<1>c. \A q \in Updaters \ {p} : LockAt(q)' /\ UnitAt(q)' /\ PlaceAt(q)'
  BY <1>0, <1>a, <1>b, OtherRuns, Zenon DEF LockAt, Locked, Rollback, Moved
<1>1. TypeOK'
  BY <1>0, TypesKept, Types, Failures, Zenon DEF IInv, Effect, Moved, Units, Running
<1>2. LockInv'
  <2>1. LockAt(p)'
    BY <1>0, <1>a, <1>b, Zenon DEF LockAt, Effect, Early, Locked, Swapped, Rollback, Working, Trapped
  <2> QED
    BY <1>c, <2>1 DEF LockInv
<1>3. UnitInv'
  <2>1. UnitAt(p)'
    BY <1>0, <1>a, <1>b, Zenon DEF LockAt, UnitAt, Effect, Running, Locked, Swapped, Rollback
  <2> QED
    BY <1>c, <2>1 DEF UnitInv
<1>4. PlaceInv'
  <2>1. PlaceAt(p)'
    BY <1>0, <1>a, <1>b, Zenon DEF LockAt, PlaceAt, Effect, Moved, Early, Locked, Swapped
  <2> QED
    BY <1>c, <2>1 DEF PlaceInv
<1>5. KeptInv'
  <2>1. OldAside(p)' => OldAside(p)
    BY <1>0, <1>a, <1>b, Zenon DEF LockAt, OldAside, Effect, Early, Locked, Swapped, Rollback, Working,
           Trapped
  <2>2. \A q \in Updaters : backup'[q].bin = backup[q].bin
    BY <1>0 DEF Moved
  <2> QED
    BY <1>0, <2>1, <2>2, KeptSame, Zenon
<1>6. WholeInv' /\ ServiceInv'
  <2> SUFFICES ASSUME OneFailure'
               PROVE  /\ lock' = None => (Whole(bin, ver, found.ver) /\ AsFound)'
                      /\ \A q \in Updaters : lock' = q => WholeAt(q)' /\ ServiceAt(q)'
    BY DEF WholeInv, ServiceInv
  <2>0. /\ OneFailure /\ (Faulted => Faulted') /\ (left' = left \/ (Faulted' /\ ~Faulted))
        /\ (Fault => left' # left)
    BY <1>0, Failures, Zenon DEF IInv
  <2>1. lock = p /\ lock' = p /\ WholeAt(p) /\ ServiceAt(p)
    BY <1>0, <1>a, <1>b, <2>0, Zenon DEF IInv, LockAt, WholeInv, ServiceInv, Early, Locked, Swapped, Rollback,
           Working, Trapped
  <2>2. \A q \in Updaters \ {p} : lock' = q => WholeAt(q)' /\ ServiceAt(q)'
    BY <2>1
  <2>3. WholeAt(p)'
    BY <1>0, <1>a, <1>b, <2>0, <2>1, Zenon DEF LockAt, PlaceAt, WholeAt, OldAside, Effect, Moved, Early,
           Locked, Swapped, Rollback, Working, Trapped
  <2>4. ServiceAt(p)'
    BY <1>0, <1>a, <1>b, <2>0, <2>1, Zenon DEF LockAt, UnitAt, WholeAt, ServiceAt, AsFound, Effect,
           Running, Early, Locked, Swapped, Rollback, Working, Trapped
  <2> QED
    BY <2>1, <2>2, <2>3, <2>4
<1> QED
  BY <1>1, <1>2, <1>3, <1>4, <1>5, <1>6 DEF IInv

(* The service is examined. *)
LEMMA ServiceKeeps ==
  ASSUME IInv, NEW p \in Updaters, Service(p)
  PROVE  IInv'
<1>0. PICK pc \in {"stop", "confirm"} :
        /\ Effect(p, pc, up[p].cand, up[p].replaced, unit \in Running, up[p].committed)
        /\ feed' = feed /\ bin' = bin /\ ver' = ver /\ unit' = unit /\ found' = found
        /\ lock' = lock /\ stage' = stage /\ backup' = backup /\ left' = left
        /\ \/ pc = "stop" /\ up'[p].wasActive = TRUE /\ unit \in Running
           \/ pc = "confirm" /\ up'[p].wasActive = FALSE /\ unit \notin Running
  <2>1. up \in [Updaters -> Runs] /\ (unit \in Running) \in BOOLEAN
    BY Types DEF IInv
  <2>2. \A pc \in {"stop", "confirm"} :
          [up[p] EXCEPT !.pc = pc, !.wasActive = unit \in Running] \in Runs
    BY <2>1, ZenonT(30) DEF Runs, Labels, Working
  <2> QED
    BY <2>1, <2>2, Zenon DEF Service, Effect, Runs, Disk
<1>a. up[p].pc = "service"
  BY DEF At, Service
<1>b. LockAt(p) /\ UnitAt(p) /\ PlaceAt(p)
  BY DEF IInv, LockInv, UnitInv, PlaceInv
<1>c. \A q \in Updaters \ {p} : LockAt(q)' /\ UnitAt(q)' /\ PlaceAt(q)'
  BY <1>0, <1>a, <1>b, OtherRuns, Zenon DEF LockAt, Locked, Rollback, Moved
<1>1. TypeOK'
  BY <1>0, TypesKept, Types, Failures, Zenon DEF IInv, Effect, Moved, Units, Running
<1>2. LockInv'
  <2>1. LockAt(p)'
    BY <1>0, <1>a, <1>b, Zenon DEF LockAt, Effect, Early, Locked, Swapped, Rollback, Working, Trapped
  <2> QED
    BY <1>c, <2>1 DEF LockInv
<1>3. UnitInv'
  <2>1. UnitAt(p)'
    BY <1>0, <1>a, <1>b, Zenon DEF LockAt, UnitAt, Effect, Running, Locked, Swapped, Rollback
  <2> QED
    BY <1>c, <2>1 DEF UnitInv
<1>4. PlaceInv'
  <2>1. PlaceAt(p)'
    BY <1>0, <1>a, <1>b, Zenon DEF LockAt, PlaceAt, Effect, Moved, Early, Locked, Swapped
  <2> QED
    BY <1>c, <2>1 DEF PlaceInv
<1>5. KeptInv'
  <2>1. OldAside(p)' => OldAside(p)
    BY <1>0, <1>a, <1>b, Zenon DEF LockAt, OldAside, Effect, Early, Locked, Swapped, Rollback, Working,
           Trapped
  <2>2. \A q \in Updaters : backup'[q].bin = backup[q].bin
    BY <1>0 DEF Moved
  <2> QED
    BY <1>0, <2>1, <2>2, KeptSame, Zenon
<1>6. WholeInv' /\ ServiceInv'
  <2> SUFFICES ASSUME OneFailure'
               PROVE  /\ lock' = None => (Whole(bin, ver, found.ver) /\ AsFound)'
                      /\ \A q \in Updaters : lock' = q => WholeAt(q)' /\ ServiceAt(q)'
    BY DEF WholeInv, ServiceInv
  <2>0. /\ OneFailure /\ (Faulted => Faulted') /\ (left' = left \/ (Faulted' /\ ~Faulted))
        /\ (Fault => left' # left)
    BY <1>0, Failures, Zenon DEF IInv
  <2>1. lock = p /\ lock' = p /\ WholeAt(p) /\ ServiceAt(p)
    BY <1>0, <1>a, <1>b, <2>0, Zenon DEF IInv, LockAt, WholeInv, ServiceInv, Early, Locked, Swapped, Rollback,
           Working, Trapped
  <2>2. \A q \in Updaters \ {p} : lock' = q => WholeAt(q)' /\ ServiceAt(q)'
    BY <2>1
  <2>3. WholeAt(p)'
    BY <1>0, <1>a, <1>b, <2>0, <2>1, Zenon DEF LockAt, PlaceAt, WholeAt, OldAside, Effect, Moved, Early,
           Locked, Swapped, Rollback, Working, Trapped
  <2>4. ServiceAt(p)'
    BY <1>0, <1>a, <1>b, <2>0, <2>1, Zenon DEF LockAt, UnitAt, WholeAt, ServiceAt, AsFound, Effect,
           Running, Early, Locked, Swapped, Rollback, Working, Trapped
  <2> QED
    BY <2>1, <2>2, <2>3, <2>4
<1> QED
  BY <1>1, <1>2, <1>3, <1>4, <1>5, <1>6 DEF IInv

(* The service is stopped. *)
LEMMA StopKeeps ==
  ASSUME IInv, NEW p \in Updaters, Stop(p)
  PROVE  IInv'
<1>0. /\ Effect(p, "confirm", up[p].cand, up[p].replaced, up[p].wasActive, up[p].committed)
      /\ feed' = feed /\ bin' = bin /\ ver' = ver /\ found' = found /\ lock' = lock
      /\ stage' = stage /\ backup' = backup /\ left' = left
      /\ unit' = "inactive" \/ (unit \notin Running /\ unit' = unit)
  BY GotoEffect, DirMoved, Types DEF IInv, At, Disk, Labels, Working, Trapped, Stop, systemctl_stop
<1>a. up[p].pc = "stop"
  BY DEF At, Stop
<1>b. LockAt(p) /\ UnitAt(p) /\ PlaceAt(p)
  BY DEF IInv, LockInv, UnitInv, PlaceInv
<1>c. \A q \in Updaters \ {p} : LockAt(q)' /\ UnitAt(q)' /\ PlaceAt(q)'
  BY <1>0, <1>a, <1>b, OtherRuns, Zenon DEF LockAt, Locked, Rollback, Moved
<1>1. TypeOK'
  BY <1>0, TypesKept, Types, Failures, Zenon DEF IInv, Effect, Moved, Units, Running
<1>2. LockInv'
  <2>1. LockAt(p)'
    BY <1>0, <1>a, <1>b, Zenon DEF LockAt, Effect, Early, Locked, Swapped, Rollback, Working, Trapped
  <2> QED
    BY <1>c, <2>1 DEF LockInv
<1>3. UnitInv'
  <2>1. UnitAt(p)'
    BY <1>0, <1>a, <1>b, Zenon DEF LockAt, UnitAt, Effect, Running, Locked, Swapped, Rollback
  <2> QED
    BY <1>c, <2>1 DEF UnitInv
<1>4. PlaceInv'
  <2>1. PlaceAt(p)'
    BY <1>0, <1>a, <1>b, Zenon DEF LockAt, PlaceAt, Effect, Moved, Early, Locked, Swapped
  <2> QED
    BY <1>c, <2>1 DEF PlaceInv
<1>5. KeptInv'
  <2>1. OldAside(p)' => OldAside(p)
    BY <1>0, <1>a, <1>b, Zenon DEF LockAt, OldAside, Effect, Early, Locked, Swapped, Rollback, Working,
           Trapped
  <2>2. \A q \in Updaters : backup'[q].bin = backup[q].bin
    BY <1>0 DEF Moved
  <2> QED
    BY <1>0, <2>1, <2>2, KeptSame, Zenon
<1>6. WholeInv' /\ ServiceInv'
  <2> SUFFICES ASSUME OneFailure'
               PROVE  /\ lock' = None => (Whole(bin, ver, found.ver) /\ AsFound)'
                      /\ \A q \in Updaters : lock' = q => WholeAt(q)' /\ ServiceAt(q)'
    BY DEF WholeInv, ServiceInv
  <2>0. /\ OneFailure /\ (Faulted => Faulted') /\ (left' = left \/ (Faulted' /\ ~Faulted))
        /\ (Fault => left' # left)
    BY <1>0, Failures, Zenon DEF IInv
  <2>1. lock = p /\ lock' = p /\ WholeAt(p) /\ ServiceAt(p)
    BY <1>0, <1>a, <1>b, <2>0, Zenon DEF IInv, LockAt, WholeInv, ServiceInv, Early, Locked, Swapped, Rollback,
           Working, Trapped
  <2>2. \A q \in Updaters \ {p} : lock' = q => WholeAt(q)' /\ ServiceAt(q)'
    BY <2>1
  <2>3. WholeAt(p)'
    BY <1>0, <1>a, <1>b, <2>0, <2>1, Zenon DEF LockAt, PlaceAt, WholeAt, OldAside, Effect, Moved, Early,
           Locked, Swapped, Rollback, Working, Trapped
  <2>4. ServiceAt(p)'
    BY <1>0, <1>a, <1>b, <2>0, <2>1, Zenon DEF LockAt, UnitAt, WholeAt, ServiceAt, AsFound, Effect,
           Running, Early, Locked, Swapped, Rollback, Working, Trapped
  <2> QED
    BY <2>1, <2>2, <2>3, <2>4
<1> QED
  BY <1>1, <1>2, <1>3, <1>4, <1>5, <1>6 DEF IInv

(* The stop is confirmed. *)
LEMMA ConfirmKeeps ==
  ASSUME IInv, NEW p \in Updaters, Confirm(p)
  PROVE  IInv'
<1>0. PICK pc \in {"moveOld", "cleanup"} :
        /\ Effect(p, pc, up[p].cand, up[p].replaced, up[p].wasActive, up[p].committed)
        /\ feed' = feed /\ bin' = bin /\ ver' = ver /\ found' = found /\ lock' = lock
        /\ stage' = stage /\ backup' = backup /\ left' = left
        /\ unit' = unit \/ (unit = "failed" /\ unit' = "inactive")
        /\ pc = "moveOld" <=> unit \notin Running
  BY GotoEffect, DirMoved, Types DEF IInv, At, Disk, Labels, Working, Trapped, Confirm,
         service_is_stopped, reset_failed
<1>a. up[p].pc = "confirm"
  BY DEF At, Confirm
<1>b. LockAt(p) /\ UnitAt(p) /\ PlaceAt(p)
  BY DEF IInv, LockInv, UnitInv, PlaceInv
<1>c. \A q \in Updaters \ {p} : LockAt(q)' /\ UnitAt(q)' /\ PlaceAt(q)'
  BY <1>0, <1>a, <1>b, OtherRuns, Zenon DEF LockAt, Locked, Rollback, Moved
<1>1. TypeOK'
  BY <1>0, TypesKept, Types, Failures, Zenon DEF IInv, Effect, Moved, Units, Running
<1>2. LockInv'
  <2>1. LockAt(p)'
    BY <1>0, <1>a, <1>b, Zenon DEF LockAt, Effect, Early, Locked, Swapped, Rollback, Working, Trapped
  <2> QED
    BY <1>c, <2>1 DEF LockInv
<1>3. UnitInv'
  <2>1. UnitAt(p)'
    BY <1>0, <1>a, <1>b, Zenon DEF LockAt, UnitAt, Effect, Running, Locked, Swapped, Rollback
  <2> QED
    BY <1>c, <2>1 DEF UnitInv
<1>4. PlaceInv'
  <2>1. PlaceAt(p)'
    BY <1>0, <1>a, <1>b, Zenon DEF LockAt, PlaceAt, Effect, Moved, Early, Locked, Swapped
  <2> QED
    BY <1>c, <2>1 DEF PlaceInv
<1>5. KeptInv'
  <2>1. OldAside(p)' => OldAside(p)
    BY <1>0, <1>a, <1>b, Zenon DEF LockAt, OldAside, Effect, Early, Locked, Swapped, Rollback, Working,
           Trapped
  <2>2. \A q \in Updaters : backup'[q].bin = backup[q].bin
    BY <1>0 DEF Moved
  <2> QED
    BY <1>0, <2>1, <2>2, KeptSame, Zenon
<1>6. WholeInv' /\ ServiceInv'
  <2> SUFFICES ASSUME OneFailure'
               PROVE  /\ lock' = None => (Whole(bin, ver, found.ver) /\ AsFound)'
                      /\ \A q \in Updaters : lock' = q => WholeAt(q)' /\ ServiceAt(q)'
    BY DEF WholeInv, ServiceInv
  <2>0. /\ OneFailure /\ (Faulted => Faulted') /\ (left' = left \/ (Faulted' /\ ~Faulted))
        /\ (Fault => left' # left)
    BY <1>0, Failures, Zenon DEF IInv
  <2>1. lock = p /\ lock' = p /\ WholeAt(p) /\ ServiceAt(p)
    BY <1>0, <1>a, <1>b, <2>0, Zenon DEF IInv, LockAt, WholeInv, ServiceInv, Early, Locked, Swapped, Rollback,
           Working, Trapped
  <2>2. \A q \in Updaters \ {p} : lock' = q => WholeAt(q)' /\ ServiceAt(q)'
    BY <2>1
  <2>3. WholeAt(p)'
    BY <1>0, <1>a, <1>b, <2>0, <2>1, Zenon DEF LockAt, PlaceAt, WholeAt, OldAside, Effect, Moved, Early,
           Locked, Swapped, Rollback, Working, Trapped
  <2>4. ServiceAt(p)'
    BY <1>0, <1>a, <1>b, <2>0, <2>1, Zenon DEF LockAt, UnitAt, WholeAt, ServiceAt, AsFound, Effect,
           Running, Early, Locked, Swapped, Rollback, Working, Trapped
  <2> QED
    BY <2>1, <2>2, <2>3, <2>4
<1> QED
  BY <1>1, <1>2, <1>3, <1>4, <1>5, <1>6 DEF IInv

(* The old directory is moved to the backup. *)
LEMMA MoveOldKeeps ==
  ASSUME IInv, NEW p \in Updaters, MoveOld(p)
  PROVE  IInv'
<1>0. /\ Effect(p, "mark", up[p].cand, up[p].replaced, up[p].wasActive, up[p].committed)
      /\ feed' = feed /\ ver' = ver /\ unit' = unit /\ found' = found /\ lock' = lock
      /\ stage' = stage /\ left' = left
      /\ bin' = <<>>
      /\ Moved(backup', backup, p, bin, backup[p].ver)
  BY GotoEffect, DirMoved, Types, Zenon DEF IInv, At, Disk, Labels, Working, Trapped, MoveOld
<1>a. up[p].pc = "moveOld"
  BY DEF At, MoveOld
<1>b. LockAt(p) /\ UnitAt(p) /\ PlaceAt(p)
  BY DEF IInv, LockInv, UnitInv, PlaceInv
<1>c. \A q \in Updaters \ {p} : LockAt(q)' /\ UnitAt(q)' /\ PlaceAt(q)'
  BY <1>0, <1>a, <1>b, OtherRuns, Zenon DEF LockAt, Locked, Rollback, Moved
<1>1. TypeOK'
  BY <1>0, TypesKept, Types, Failures DEF IInv, Effect, Moved, Units, Running
<1>2. LockInv'
  <2>1. LockAt(p)'
    BY <1>0, <1>a, <1>b, Zenon DEF LockAt, Effect, Early, Locked, Swapped, Rollback, Working, Trapped
  <2> QED
    BY <1>c, <2>1 DEF LockInv
<1>3. UnitInv'
  <2>1. UnitAt(p)'
    BY <1>0, <1>a, <1>b, Zenon DEF LockAt, UnitAt, Effect, Running, Locked, Swapped, Rollback
  <2> QED
    BY <1>c, <2>1 DEF UnitInv
<1>4. PlaceInv'
  <2>1. PlaceAt(p)'
    BY <1>0, <1>a, <1>b, Zenon DEF LockAt, PlaceAt, Effect, Moved, Early, Locked, Swapped
  <2> QED
    BY <1>c, <2>1 DEF PlaceInv
<1>5. KeptInv'
  <2>0. \A q \in Updaters : up'[q].cand = up[q].cand /\ up'[q].committed = up[q].committed
    BY <1>0, Zenon DEF Effect
  <2>1. Kept' = Kept
    BY <2>0 DEF Kept
  <2>2. backup[p].bin = <<>> /\ Releases(<<>>) = {}
    BY <1>a, <1>b, ReleasesOf, Zenon DEF PlaceAt
  <2>3. \A v \in Kept : InBackup(v)'
    BY <1>0, <2>2, Zenon DEF IInv, KeptInv, InBackup, Moved
  <2> QED
    BY <2>1, <2>3 DEF KeptInv
<1>6. WholeInv' /\ ServiceInv'
  <2> SUFFICES ASSUME OneFailure'
               PROVE  /\ lock' = None => (Whole(bin, ver, found.ver) /\ AsFound)'
                      /\ \A q \in Updaters : lock' = q => WholeAt(q)' /\ ServiceAt(q)'
    BY DEF WholeInv, ServiceInv
  <2>0. /\ OneFailure /\ (Faulted => Faulted') /\ (left' = left \/ (Faulted' /\ ~Faulted))
        /\ (Fault => left' # left)
    BY <1>0, Failures, Zenon DEF IInv
  <2>1. lock = p /\ lock' = p /\ WholeAt(p) /\ ServiceAt(p)
    BY <1>0, <1>a, <1>b, <2>0, Zenon DEF IInv, LockAt, WholeInv, ServiceInv, Early, Locked, Swapped, Rollback,
           Working, Trapped
  <2>2. \A q \in Updaters \ {p} : lock' = q => WholeAt(q)' /\ ServiceAt(q)'
    BY <2>1
  <2>3. WholeAt(p)'
    <3>1. Whole(bin, ver, found.ver) /\ backup[p].ver = ver
      BY <1>a, <2>1, Zenon DEF WholeAt
    <3>2. /\ up'[p].pc = "mark" /\ backup'[p].bin = bin /\ backup'[p].ver = backup[p].ver
          /\ ver' = ver /\ found' = found /\ up'[p].replaced = up[p].replaced
      BY <1>0, Zenon DEF Effect, Moved
    <3>3. Whole(backup'[p].bin, backup'[p].ver, found'.ver)
      BY <3>1, <3>2, Zenon
    <3> QED
      BY <3>1, <3>2, <3>3, Zenon DEF WholeAt, Rollback, OldAside
  <2>4. ServiceAt(p)'
    BY <1>0, <1>a, <1>b, <2>0, <2>1, Zenon DEF LockAt, UnitAt, WholeAt, ServiceAt, AsFound, Effect,
           Running, Early, Locked, Swapped, Rollback, Working, Trapped
  <2> QED
    BY <2>1, <2>2, <2>3, <2>4
<1> QED
  BY <1>1, <1>2, <1>3, <1>4, <1>5, <1>6 DEF IInv

(* BIN_REPLACED=1 is noted once the old directory is aside. *)
LEMMA MarkKeeps ==
  ASSUME IInv, NEW p \in Updaters, Mark(p)
  PROVE  IInv'
<1>0. /\ Effect(p, "moveNew", up[p].cand, TRUE, up[p].wasActive, up[p].committed)
      /\ feed' = feed /\ bin' = bin /\ ver' = ver /\ unit' = unit /\ found' = found /\ lock' = lock
      /\ stage' = stage /\ backup' = backup /\ left' = left
  <2>1. up \in [Updaters -> Runs] /\ feed \in Versions
    BY Types DEF IInv
  <2>2. \A pc \in {"moveNew"} : [up[p] EXCEPT !.pc = pc, !.replaced = TRUE] \in Runs
    BY <2>1, ZenonT(30) DEF Runs, Labels, Working, Trapped
  <2> QED
    BY <2>1, <2>2 DEF Mark, Effect, Runs, Disk
<1>a. up[p].pc = "mark"
  BY DEF At, Mark
<1>b. LockAt(p) /\ UnitAt(p) /\ PlaceAt(p)
  BY DEF IInv, LockInv, UnitInv, PlaceInv
<1>c. \A q \in Updaters \ {p} : LockAt(q)' /\ UnitAt(q)' /\ PlaceAt(q)'
  BY <1>0, <1>a, <1>b, OtherRuns, Zenon DEF LockAt, Locked, Rollback, Moved
<1>1. TypeOK'
  BY <1>0, TypesKept, Types, Failures, Zenon DEF IInv, Effect, Moved, Units, Running
<1>2. LockInv'
  <2>1. LockAt(p)'
    BY <1>0, <1>a, <1>b, Zenon DEF LockAt, Effect, Early, Locked, Swapped, Rollback, Working, Trapped
  <2> QED
    BY <1>c, <2>1 DEF LockInv
<1>3. UnitInv'
  <2>1. UnitAt(p)'
    BY <1>0, <1>a, <1>b, Zenon DEF LockAt, UnitAt, Effect, Running, Locked, Swapped, Rollback
  <2> QED
    BY <1>c, <2>1 DEF UnitInv
<1>4. PlaceInv'
  <2>1. PlaceAt(p)'
    BY <1>0, <1>a, <1>b, Zenon DEF LockAt, PlaceAt, Effect, Moved, Early, Locked, Swapped
  <2> QED
    BY <1>c, <2>1 DEF PlaceInv
<1>5. KeptInv'
  <2>1. OldAside(p)' => OldAside(p)
    BY <1>0, <1>a, <1>b, Zenon DEF LockAt, OldAside, Effect, Early, Locked, Swapped, Rollback, Working,
           Trapped
  <2>2. \A q \in Updaters : backup'[q].bin = backup[q].bin
    BY <1>0 DEF Moved
  <2> QED
    BY <1>0, <2>1, <2>2, KeptSame, Zenon
<1>6. WholeInv' /\ ServiceInv'
  <2> SUFFICES ASSUME OneFailure'
               PROVE  /\ lock' = None => (Whole(bin, ver, found.ver) /\ AsFound)'
                      /\ \A q \in Updaters : lock' = q => WholeAt(q)' /\ ServiceAt(q)'
    BY DEF WholeInv, ServiceInv
  <2>0. /\ OneFailure /\ (Faulted => Faulted') /\ (left' = left \/ (Faulted' /\ ~Faulted))
        /\ (Fault => left' # left)
    BY <1>0, Failures, Zenon DEF IInv
  <2>1. lock = p /\ lock' = p /\ WholeAt(p) /\ ServiceAt(p)
    BY <1>0, <1>a, <1>b, <2>0, Zenon DEF IInv, LockAt, WholeInv, ServiceInv, Early, Locked, Swapped, Rollback,
           Working, Trapped
  <2>2. \A q \in Updaters \ {p} : lock' = q => WholeAt(q)' /\ ServiceAt(q)'
    BY <2>1
  <2>3. WholeAt(p)'
    BY <1>0, <1>a, <1>b, <2>0, <2>1, Zenon DEF LockAt, PlaceAt, WholeAt, OldAside, Effect, Moved, Early,
           Locked, Swapped, Rollback, Working, Trapped
  <2>4. ServiceAt(p)'
    BY <1>0, <1>a, <1>b, <2>0, <2>1, Zenon DEF LockAt, UnitAt, WholeAt, ServiceAt, AsFound, Effect,
           Running, Early, Locked, Swapped, Rollback, Working, Trapped
  <2> QED
    BY <2>1, <2>2, <2>3, <2>4
<1> QED
  BY <1>1, <1>2, <1>3, <1>4, <1>5, <1>6 DEF IInv

(* The staged directory is moved into place. *)
LEMMA MoveNewKeeps ==
  ASSUME IInv, NEW p \in Updaters, MoveNew(p)
  PROVE  IInv'
<1>0. /\ Effect(p, "moveVersion", up[p].cand, up[p].replaced, up[p].wasActive, up[p].committed)
      /\ feed' = feed /\ ver' = ver /\ unit' = unit /\ found' = found /\ lock' = lock
      /\ backup' = backup /\ left' = left
      /\ bin' = stage[p].bin
      /\ Moved(stage', stage, p, <<>>, stage[p].ver)
  <2>1. stage \in [Updaters -> Dirs] /\ <<>> \in Seq(Versions) /\ None \in File
    BY Types DEF IInv, File
  <2>2. Moved(stage', stage, p, <<>>, stage[p].ver)
    BY <2>1, DirMoved, Zenon DEF MoveNew
  <2> QED
    BY <2>2, GotoEffect DEF IInv, MoveNew, Labels, Working
<1>a. up[p].pc = "moveNew"
  BY DEF At, MoveNew
<1>b. LockAt(p) /\ UnitAt(p) /\ PlaceAt(p)
  BY DEF IInv, LockInv, UnitInv, PlaceInv
<1>c. \A q \in Updaters \ {p} : LockAt(q)' /\ UnitAt(q)' /\ PlaceAt(q)'
  BY <1>0, <1>a, <1>b, OtherRuns, Zenon DEF LockAt, Locked, Rollback, Moved
<1>1. TypeOK'
  <2>1. stage[p].bin \in Seq(Versions)
    BY Types DEF IInv, Dirs
  <2> QED
    BY <1>0, <2>1, TypesKept, Types, Failures DEF IInv, Effect, Moved
<1>2. LockInv'
  <2>1. LockAt(p)'
    BY <1>0, <1>a, <1>b, Zenon DEF LockAt, Effect, Early, Locked, Swapped, Rollback, Working, Trapped
  <2> QED
    BY <1>c, <2>1 DEF LockInv
<1>3. UnitInv'
  <2>1. UnitAt(p)'
    BY <1>0, <1>a, <1>b, Zenon DEF LockAt, UnitAt, Effect, Running, Locked, Swapped, Rollback
  <2> QED
    BY <1>c, <2>1 DEF UnitInv
<1>4. PlaceInv'
  <2>1. PlaceAt(p)'
    BY <1>0, <1>a, <1>b, Zenon DEF LockAt, PlaceAt, Effect, Moved, Early, Locked, Swapped
  <2> QED
    BY <1>c, <2>1 DEF PlaceInv
<1>5. KeptInv'
  BY <1>0, <1>a, KeptAside, Zenon DEF OldAside, Swapped
<1>6. WholeInv' /\ ServiceInv'
  <2> SUFFICES ASSUME OneFailure'
               PROVE  /\ lock' = None => (Whole(bin, ver, found.ver) /\ AsFound)'
                      /\ \A q \in Updaters : lock' = q => WholeAt(q)' /\ ServiceAt(q)'
    BY DEF WholeInv, ServiceInv
  <2>0. /\ OneFailure /\ (Faulted => Faulted') /\ (left' = left \/ (Faulted' /\ ~Faulted))
        /\ (Fault => left' # left)
    BY <1>0, Failures, Zenon DEF IInv
  <2>1. lock = p /\ lock' = p /\ WholeAt(p) /\ ServiceAt(p)
    BY <1>0, <1>a, <1>b, <2>0, Zenon DEF IInv, LockAt, WholeInv, ServiceInv, Early, Locked, Swapped, Rollback,
           Working, Trapped
  <2>2. \A q \in Updaters \ {p} : lock' = q => WholeAt(q)' /\ ServiceAt(q)'
    BY <2>1
  <2>3. WholeAt(p)'
    BY <1>0, <1>a, <1>b, <2>0, <2>1, Zenon DEF LockAt, PlaceAt, WholeAt, OldAside, Effect, Moved, Early,
           Locked, Swapped, Rollback, Working, Trapped
  <2>4. ServiceAt(p)'
    BY <1>0, <1>a, <1>b, <2>0, <2>1, Zenon DEF LockAt, UnitAt, WholeAt, ServiceAt, AsFound, Effect,
           Running, Early, Locked, Swapped, Rollback, Working, Trapped
  <2> QED
    BY <2>1, <2>2, <2>3, <2>4
<1> QED
  BY <1>1, <1>2, <1>3, <1>4, <1>5, <1>6 DEF IInv

(* VERSION is moved into place. *)
LEMMA MoveVersionKeeps ==
  ASSUME IInv, NEW p \in Updaters, MoveVersion(p)
  PROVE  IInv'
<1>0. PICK pc \in {"start", "commit"} :
        /\ Effect(p, pc, up[p].cand, up[p].replaced, up[p].wasActive, up[p].committed)
        /\ feed' = feed /\ bin' = bin /\ unit' = unit /\ found' = found /\ lock' = lock
        /\ backup' = backup /\ left' = left
        /\ ver' = stage[p].ver
        /\ Moved(stage', stage, p, stage[p].bin, None)
        /\ pc = "start" <=> up[p].wasActive
  BY GotoEffect, DirMoved, Types, Zenon DEF IInv, At, File, Labels, Working, Trapped, MoveVersion
<1>a. up[p].pc = "moveVersion"
  BY DEF At, MoveVersion
<1>b. LockAt(p) /\ UnitAt(p) /\ PlaceAt(p)
  BY DEF IInv, LockInv, UnitInv, PlaceInv
<1>c. \A q \in Updaters \ {p} : LockAt(q)' /\ UnitAt(q)' /\ PlaceAt(q)'
  BY <1>0, <1>a, <1>b, OtherRuns, Zenon DEF LockAt, Locked, Rollback, Moved
<1>1. TypeOK'
  <2>1. stage[p].ver \in File
    BY Types DEF IInv, Dirs
  <2> QED
    BY <1>0, <2>1, TypesKept, Types, Failures, Zenon DEF IInv, Effect, Moved
<1>2. LockInv'
  <2>1. LockAt(p)'
    BY <1>0, <1>a, <1>b, Zenon DEF LockAt, Effect, Early, Locked, Swapped, Rollback, Working, Trapped
  <2> QED
    BY <1>c, <2>1 DEF LockInv
<1>3. UnitInv'
  <2>1. UnitAt(p)'
    BY <1>0, <1>a, <1>b, Zenon DEF LockAt, UnitAt, Effect, Running, Locked, Swapped, Rollback
  <2> QED
    BY <1>c, <2>1 DEF UnitInv
<1>4. PlaceInv'
  <2>1. PlaceAt(p)'
    BY <1>0, <1>a, <1>b, Zenon DEF LockAt, PlaceAt, Effect, Moved, Early, Locked, Swapped
  <2> QED
    BY <1>c, <2>1 DEF PlaceInv
<1>5. KeptInv'
  <2>1. OldAside(p)' => OldAside(p)
    BY <1>0, <1>a, <1>b, Zenon DEF LockAt, OldAside, Effect, Early, Locked, Swapped, Rollback, Working,
           Trapped
  <2>2. \A q \in Updaters : backup'[q].bin = backup[q].bin
    BY <1>0 DEF Moved
  <2> QED
    BY <1>0, <2>1, <2>2, KeptSame, Zenon
<1>6. WholeInv' /\ ServiceInv'
  <2> SUFFICES ASSUME OneFailure'
               PROVE  /\ lock' = None => (Whole(bin, ver, found.ver) /\ AsFound)'
                      /\ \A q \in Updaters : lock' = q => WholeAt(q)' /\ ServiceAt(q)'
    BY DEF WholeInv, ServiceInv
  <2>0. /\ OneFailure /\ (Faulted => Faulted') /\ (left' = left \/ (Faulted' /\ ~Faulted))
        /\ (Fault => left' # left)
    BY <1>0, Failures, Zenon DEF IInv
  <2>1. lock = p /\ lock' = p /\ WholeAt(p) /\ ServiceAt(p)
    BY <1>0, <1>a, <1>b, <2>0, Zenon DEF IInv, LockAt, WholeInv, ServiceInv, Early, Locked, Swapped, Rollback,
           Working, Trapped
  <2>2. \A q \in Updaters \ {p} : lock' = q => WholeAt(q)' /\ ServiceAt(q)'
    BY <2>1
  <2>3. WholeAt(p)'
    BY <1>0, <1>a, <1>b, <2>0, <2>1, Zenon DEF LockAt, PlaceAt, WholeAt, OldAside, Effect, Moved, Early,
           Locked, Swapped, Rollback, Working, Trapped
  <2>4. ServiceAt(p)'
    BY <1>0, <1>a, <1>b, <2>0, <2>1, Zenon DEF LockAt, UnitAt, WholeAt, ServiceAt, AsFound, Effect,
           Running, Early, Locked, Swapped, Rollback, Working, Trapped
  <2> QED
    BY <2>1, <2>2, <2>3, <2>4
<1> QED
  BY <1>1, <1>2, <1>3, <1>4, <1>5, <1>6 DEF IInv

(* The service is started. *)
LEMMA StartKeeps ==
  ASSUME IInv, NEW p \in Updaters, Start(p)
  PROVE  IInv'
<1>0. /\ Effect(p, "probe", up[p].cand, up[p].replaced, up[p].wasActive, up[p].committed)
      /\ feed' = feed /\ bin' = bin /\ ver' = ver /\ found' = found /\ lock' = lock
      /\ stage' = stage /\ backup' = backup
      /\ unit' \in {"active", "activating", "failed"}
      /\ left' = left \/ Fault
      /\ bin # <<>> /\ left' = left => unit' = "active"
  <2>1. Effect(p, "probe", up[p].cand, up[p].replaced, up[p].wasActive, up[p].committed)
    BY GotoEffect DEF IInv, Start, Labels, Working
  <2>2. ASSUME Fault PROVE left' # left
    BY <2>2, Types DEF IInv, Fault, Budgets
  <2> QED
    BY <2>1, <2>2 DEF Start, systemctl_start, NoFault, Disk
<1>a. up[p].pc = "start"
  BY DEF At, Start
<1>b. LockAt(p) /\ UnitAt(p) /\ PlaceAt(p)
  BY DEF IInv, LockInv, UnitInv, PlaceInv
<1>c. \A q \in Updaters \ {p} : LockAt(q)' /\ UnitAt(q)' /\ PlaceAt(q)'
  BY <1>0, <1>a, <1>b, OtherRuns, Zenon DEF LockAt, Locked, Rollback, Moved
<1>1. TypeOK'
  BY <1>0, TypesKept, Types, Failures, Zenon DEF IInv, Effect, Moved, Units, Running
<1>2. LockInv'
  <2>1. LockAt(p)'
    BY <1>0, <1>a, <1>b, Zenon DEF LockAt, Effect, Early, Locked, Swapped, Rollback, Working, Trapped
  <2> QED
    BY <1>c, <2>1 DEF LockInv
<1>3. UnitInv'
  <2>1. UnitAt(p)'
    BY <1>0, <1>a, <1>b, Zenon DEF LockAt, UnitAt, Effect, Running, Locked, Swapped, Rollback
  <2> QED
    BY <1>c, <2>1 DEF UnitInv
<1>4. PlaceInv'
  <2>1. PlaceAt(p)'
    BY <1>0, <1>a, <1>b, Zenon DEF LockAt, PlaceAt, Effect, Moved, Early, Locked, Swapped
  <2> QED
    BY <1>c, <2>1 DEF PlaceInv
<1>5. KeptInv'
  <2>1. OldAside(p)' => OldAside(p)
    BY <1>0, <1>a, <1>b, Zenon DEF LockAt, OldAside, Effect, Early, Locked, Swapped, Rollback, Working,
           Trapped
  <2>2. \A q \in Updaters : backup'[q].bin = backup[q].bin
    BY <1>0 DEF Moved
  <2> QED
    BY <1>0, <2>1, <2>2, KeptSame, Zenon
<1>6. WholeInv' /\ ServiceInv'
  <2> SUFFICES ASSUME OneFailure'
               PROVE  /\ lock' = None => (Whole(bin, ver, found.ver) /\ AsFound)'
                      /\ \A q \in Updaters : lock' = q => WholeAt(q)' /\ ServiceAt(q)'
    BY DEF WholeInv, ServiceInv
  <2>0. /\ OneFailure /\ (Faulted => Faulted') /\ (left' = left \/ (Faulted' /\ ~Faulted))
        /\ (Fault => left' # left)
    BY <1>0, Failures, Zenon DEF IInv
  <2>1. lock = p /\ lock' = p /\ WholeAt(p) /\ ServiceAt(p)
    BY <1>0, <1>a, <1>b, <2>0, Zenon DEF IInv, LockAt, WholeInv, ServiceInv, Early, Locked, Swapped, Rollback,
           Working, Trapped
  <2>2. \A q \in Updaters \ {p} : lock' = q => WholeAt(q)' /\ ServiceAt(q)'
    BY <2>1
  <2>3. WholeAt(p)'
    <3>1. bin = <<up[p].cand>> /\ bin # <<>>
      BY <1>a, <1>b DEF PlaceAt, Swapped
    <3>2. unit' = "active" \/ Faulted'
      BY <1>0, <2>0, <3>1, Zenon
    <3> QED
      BY <1>0, <1>a, <2>0, <2>1, <3>2, Zenon DEF WholeAt, OldAside, Effect, Early, Locked,
             Swapped, Rollback
  <2>4. ServiceAt(p)'
    BY <1>0, <1>a, <1>b, <2>0, <2>1, Zenon DEF LockAt, UnitAt, WholeAt, ServiceAt, AsFound, Effect,
           Running, Early, Locked, Swapped, Rollback, Working, Trapped
  <2> QED
    BY <2>1, <2>2, <2>3, <2>4
<1> QED
  BY <1>1, <1>2, <1>3, <1>4, <1>5, <1>6 DEF IInv

(* The service is examined again. *)
LEMMA ProbeKeeps ==
  ASSUME IInv, NEW p \in Updaters, Probe(p)
  PROVE  IInv'
<1>0. PICK pc \in {"commit", "cleanup"} :
        /\ Effect(p, pc, up[p].cand, up[p].replaced, up[p].wasActive, up[p].committed)
        /\ feed' = feed /\ bin' = bin /\ ver' = ver /\ found' = found /\ lock' = lock
        /\ stage' = stage /\ backup' = backup
        /\ unit' = unit \/ (unit # "active" /\ unit' = "inactive")
        /\ left' = left \/ Fault
        /\ pc = "commit" => unit = "active" /\ unit' = unit
        /\ pc = "cleanup" => unit # "active"
  BY GotoEffect, DirMoved, Types DEF IInv, At, Disk, Labels, Working, Trapped, Probe,
         systemctl_stop, NoFault
<1>a. up[p].pc = "probe"
  BY DEF At, Probe
<1>b. LockAt(p) /\ UnitAt(p) /\ PlaceAt(p)
  BY DEF IInv, LockInv, UnitInv, PlaceInv
<1>c. \A q \in Updaters \ {p} : LockAt(q)' /\ UnitAt(q)' /\ PlaceAt(q)'
  BY <1>0, <1>a, <1>b, OtherRuns, Zenon DEF LockAt, Locked, Rollback, Moved
<1>1. TypeOK'
  BY <1>0, TypesKept, Types, Failures, Zenon DEF IInv, Effect, Moved, Units, Running
<1>2. LockInv'
  <2>1. LockAt(p)'
    BY <1>0, <1>a, <1>b, Zenon DEF LockAt, Effect, Early, Locked, Swapped, Rollback, Working, Trapped
  <2> QED
    BY <1>c, <2>1 DEF LockInv
<1>3. UnitInv'
  <2>1. UnitAt(p)'
    BY <1>0, <1>a, <1>b, Zenon DEF LockAt, UnitAt, Effect, Running, Locked, Swapped, Rollback
  <2> QED
    BY <1>c, <2>1 DEF UnitInv
<1>4. PlaceInv'
  <2>1. PlaceAt(p)'
    BY <1>0, <1>a, <1>b, Zenon DEF LockAt, PlaceAt, Effect, Moved, Early, Locked, Swapped
  <2> QED
    BY <1>c, <2>1 DEF PlaceInv
<1>5. KeptInv'
  <2>1. OldAside(p)' => OldAside(p)
    BY <1>0, <1>a, <1>b, Zenon DEF LockAt, OldAside, Effect, Early, Locked, Swapped, Rollback, Working,
           Trapped
  <2>2. \A q \in Updaters : backup'[q].bin = backup[q].bin
    BY <1>0 DEF Moved
  <2> QED
    BY <1>0, <2>1, <2>2, KeptSame, Zenon
<1>6. WholeInv' /\ ServiceInv'
  <2> SUFFICES ASSUME OneFailure'
               PROVE  /\ lock' = None => (Whole(bin, ver, found.ver) /\ AsFound)'
                      /\ \A q \in Updaters : lock' = q => WholeAt(q)' /\ ServiceAt(q)'
    BY DEF WholeInv, ServiceInv
  <2>0. /\ OneFailure /\ (Faulted => Faulted') /\ (left' = left \/ (Faulted' /\ ~Faulted))
        /\ (Fault => left' # left)
    BY <1>0, Failures, Zenon DEF IInv
  <2>1. lock = p /\ lock' = p /\ WholeAt(p) /\ ServiceAt(p)
    BY <1>0, <1>a, <1>b, <2>0, Zenon DEF IInv, LockAt, WholeInv, ServiceInv, Early, Locked, Swapped, Rollback,
           Working, Trapped
  <2>2. \A q \in Updaters \ {p} : lock' = q => WholeAt(q)' /\ ServiceAt(q)'
    BY <2>1
  <2>3. WholeAt(p)'
    BY <1>0, <1>a, <1>b, <2>0, <2>1, Zenon DEF LockAt, PlaceAt, WholeAt, OldAside, Effect, Moved, Early,
           Locked, Swapped, Rollback, Working, Trapped
  <2>4. ServiceAt(p)'
    BY <1>0, <1>a, <1>b, <2>0, <2>1, Zenon DEF LockAt, UnitAt, WholeAt, ServiceAt, AsFound, Effect,
           Running, Early, Locked, Swapped, Rollback, Working, Trapped
  <2> QED
    BY <2>1, <2>2, <2>3, <2>4
<1> QED
  BY <1>1, <1>2, <1>3, <1>4, <1>5, <1>6 DEF IInv

(* COMMITTED=1 is noted once the new release is in place. *)
LEMMA CommitKeeps ==
  ASSUME IInv, NEW p \in Updaters, Commit(p)
  PROVE  IInv'
<1>0. /\ Effect(p, "cleanup", up[p].cand, up[p].replaced, up[p].wasActive, TRUE)
      /\ feed' = feed /\ bin' = bin /\ ver' = ver /\ unit' = unit /\ found' = found /\ lock' = lock
      /\ stage' = stage /\ backup' = backup /\ left' = left
  <2>1. up \in [Updaters -> Runs] /\ feed \in Versions
    BY Types DEF IInv
  <2>2. \A pc \in {"cleanup"} : [up[p] EXCEPT !.pc = pc, !.committed = TRUE] \in Runs
    BY <2>1, ZenonT(30) DEF Runs, Labels, Working, Trapped
  <2> QED
    BY <2>1, <2>2 DEF Commit, Effect, Runs, Disk
<1>a. up[p].pc = "commit"
  BY DEF At, Commit
<1>b. LockAt(p) /\ UnitAt(p) /\ PlaceAt(p)
  BY DEF IInv, LockInv, UnitInv, PlaceInv
<1>c. \A q \in Updaters \ {p} : LockAt(q)' /\ UnitAt(q)' /\ PlaceAt(q)'
  BY <1>0, <1>a, <1>b, OtherRuns, Zenon DEF LockAt, Locked, Rollback, Moved
<1>1. TypeOK'
  BY <1>0, TypesKept, Types, Failures, Zenon DEF IInv, Effect, Moved, Units, Running
<1>2. LockInv'
  <2>1. LockAt(p)'
    BY <1>0, <1>a, <1>b, Zenon DEF LockAt, Effect, Early, Locked, Swapped, Rollback, Working, Trapped
  <2> QED
    BY <1>c, <2>1 DEF LockInv
<1>3. UnitInv'
  <2>1. UnitAt(p)'
    BY <1>0, <1>a, <1>b, Zenon DEF LockAt, UnitAt, Effect, Running, Locked, Swapped, Rollback
  <2> QED
    BY <1>c, <2>1 DEF UnitInv
<1>4. PlaceInv'
  <2>1. PlaceAt(p)'
    BY <1>0, <1>a, <1>b, Zenon DEF LockAt, PlaceAt, Effect, Moved, Early, Locked, Swapped
  <2> QED
    BY <1>c, <2>1 DEF PlaceInv
<1>5. KeptInv'
  <2>1. Kept' = Kept \cup {up[p].cand}
    BY <1>0 DEF Effect, Kept
  <2>2. up[p].cand \in Releases(bin)
    BY <1>a, <1>b, ReleasesOf, Types DEF IInv, PlaceAt, Swapped, Runs
  <2>3. \A v \in Kept : InBackup(v) => InBackup(v)'
    BY <1>0 DEF InBackup
  <2>4. \A v \in Kept' : v \in Releases(bin') \/ InBackup(v)'
    BY <1>0, <2>1, <2>2, <2>3 DEF IInv, KeptInv
  <2>5. ASSUME NEW q \in Updaters, OldAside(q)' PROVE FALSE
    <3>1. lock = p
      BY <1>a, <1>b DEF LockAt, Locked
    <3>2. q # p /\ up'[q] = up[q]
      BY <1>0, <2>5, Zenon DEF Effect, OldAside, Swapped
    <3> QED
      BY <2>5, <3>1, <3>2 DEF IInv, LockInv, LockAt, OldAside, Locked, Swapped, Rollback
  <2> QED
    BY <2>4, <2>5 DEF KeptInv
<1>6. WholeInv' /\ ServiceInv'
  <2> SUFFICES ASSUME OneFailure'
               PROVE  /\ lock' = None => (Whole(bin, ver, found.ver) /\ AsFound)'
                      /\ \A q \in Updaters : lock' = q => WholeAt(q)' /\ ServiceAt(q)'
    BY DEF WholeInv, ServiceInv
  <2>0. /\ OneFailure /\ (Faulted => Faulted') /\ (left' = left \/ (Faulted' /\ ~Faulted))
        /\ (Fault => left' # left)
    BY <1>0, Failures, Zenon DEF IInv
  <2>1. lock = p /\ lock' = p /\ WholeAt(p) /\ ServiceAt(p)
    BY <1>0, <1>a, <1>b, <2>0, Zenon DEF IInv, LockAt, WholeInv, ServiceInv, Early, Locked, Swapped, Rollback,
           Working, Trapped
  <2>2. \A q \in Updaters \ {p} : lock' = q => WholeAt(q)' /\ ServiceAt(q)'
    BY <2>1
  <2>3. WholeAt(p)'
    <3>1. up[p].cand \in Versions /\ bin = <<up[p].cand>> /\ ver = up[p].cand
      BY <1>a, <1>b, <2>1, Types DEF IInv, PlaceAt, WholeAt, Runs, Swapped
    <3>2. Whole(bin, ver, found.ver)
      BY <3>1 DEF Whole
    <3> QED
      BY <1>0, <3>2, Zenon DEF WholeAt, OldAside, Effect, Early, Locked, Swapped, Rollback, Working,
             Trapped
  <2>4. ServiceAt(p)'
    BY <1>0, <1>a, <1>b, <2>0, <2>1, Zenon DEF LockAt, UnitAt, WholeAt, ServiceAt, AsFound, Effect,
           Running, Early, Locked, Swapped, Rollback, Working, Trapped
  <2> QED
    BY <2>1, <2>2, <2>3, <2>4
<1> QED
  BY <1>1, <1>2, <1>3, <1>4, <1>5, <1>6 DEF IInv

(* The EXIT trap begins. *)
LEMMA CleanupKeeps ==
  ASSUME IInv, NEW p \in Updaters, Cleanup(p)
  PROVE  IInv'
<1>0. PICK pc \in {"sweep", "restart", "stopAgain"} :
        /\ Effect(p, pc, up[p].cand, up[p].replaced, up[p].wasActive, up[p].committed)
        /\ feed' = feed /\ bin' = bin /\ ver' = ver /\ unit' = unit /\ found' = found
        /\ lock' = lock /\ stage' = stage /\ backup' = backup /\ left' = left
        /\ pc = "sweep" <=> up[p].committed
        /\ pc = "stopAgain" <=> ~up[p].committed /\ up[p].replaced
  BY GotoEffect, DirMoved, Types DEF IInv, At, Disk, Labels, Working, Trapped, Cleanup
<1>a. up[p].pc = "cleanup"
  BY DEF At, Cleanup
<1>b. LockAt(p) /\ UnitAt(p) /\ PlaceAt(p)
  BY DEF IInv, LockInv, UnitInv, PlaceInv
<1>c. \A q \in Updaters \ {p} : LockAt(q)' /\ UnitAt(q)' /\ PlaceAt(q)'
  BY <1>0, <1>a, <1>b, OtherRuns, Zenon DEF LockAt, Locked, Rollback, Moved
<1>1. TypeOK'
  BY <1>0, TypesKept, Types, Failures, Zenon DEF IInv, Effect, Moved, Units, Running
<1>2. LockInv'
  <2>1. LockAt(p)'
    BY <1>0, <1>a, <1>b, Zenon DEF LockAt, Effect, Early, Locked, Swapped, Rollback, Working, Trapped
  <2> QED
    BY <1>c, <2>1 DEF LockInv
<1>3. UnitInv'
  <2>1. UnitAt(p)'
    BY <1>0, <1>a, <1>b, Zenon DEF LockAt, UnitAt, Effect, Running, Locked, Swapped, Rollback
  <2> QED
    BY <1>c, <2>1 DEF UnitInv
<1>4. PlaceInv'
  <2>1. PlaceAt(p)'
    BY <1>0, <1>a, <1>b, Zenon DEF LockAt, PlaceAt, Effect, Moved, Early, Locked, Swapped
  <2> QED
    BY <1>c, <2>1 DEF PlaceInv
<1>5. KeptInv'
  <2>1. OldAside(p)' => OldAside(p)
    BY <1>0, <1>a, <1>b, Zenon DEF LockAt, OldAside, Effect, Early, Locked, Swapped, Rollback, Working,
           Trapped
  <2>2. \A q \in Updaters : backup'[q].bin = backup[q].bin
    BY <1>0 DEF Moved
  <2> QED
    BY <1>0, <2>1, <2>2, KeptSame, Zenon
<1>6. WholeInv' /\ ServiceInv'
  <2> SUFFICES ASSUME OneFailure'
               PROVE  /\ lock' = None => (Whole(bin, ver, found.ver) /\ AsFound)'
                      /\ \A q \in Updaters : lock' = q => WholeAt(q)' /\ ServiceAt(q)'
    BY DEF WholeInv, ServiceInv
  <2>0. /\ OneFailure /\ (Faulted => Faulted') /\ (left' = left \/ (Faulted' /\ ~Faulted))
        /\ (Fault => left' # left)
    BY <1>0, Failures, Zenon DEF IInv
  <2>1. CASE lock # p
    BY <1>0, <2>1, Others
  <2>2. CASE lock = p
    <3>1. WholeAt(p) /\ ServiceAt(p)
      BY <2>0, <2>2 DEF IInv, WholeInv, ServiceInv
    <3>2. WholeAt(p)'
      BY <1>0, <1>a, <1>b, <2>0, <2>2, <3>1, Zenon DEF LockAt, PlaceAt, WholeAt, OldAside, Effect, Moved,
             Early, Locked, Swapped, Rollback, Working, Trapped
    <3>3. ServiceAt(p)'
      BY <1>0, <1>a, <1>b, <2>0, <2>2, <3>1, Zenon DEF LockAt, UnitAt, WholeAt, ServiceAt, AsFound,
             Effect, Running, Early, Locked, Swapped, Rollback, Working, Trapped
    <3> QED
      BY <1>0, <2>2, <3>2, <3>3
  <2> QED
    BY <2>1, <2>2
<1> QED
  BY <1>1, <1>2, <1>3, <1>4, <1>5, <1>6 DEF IInv

(* The service is stopped once more. *)
LEMMA StopAgainKeeps ==
  ASSUME IInv, NEW p \in Updaters, StopAgain(p)
  PROVE  IInv'
<1>0. PICK pc \in {"setAside", "done"} :
        /\ Effect(p, pc, up[p].cand, up[p].replaced, up[p].wasActive, up[p].committed)
        /\ feed' = feed /\ bin' = bin /\ ver' = ver /\ found' = found /\ stage' = stage
        /\ backup' = backup
        /\ unit' \in {unit, "inactive"}
        /\ \/ pc = "setAside" /\ lock' = lock /\ left' = left
           \/ pc = "done" /\ up[p].wasActive /\ Fault /\ lock' = IF lock = p THEN None ELSE lock
        /\ left' = left \/ Fault
        /\ ~up[p].wasActive \/ unit' = "inactive" \/ pc = "done"
        /\ unit' = unit \/ up[p].wasActive
  BY GotoEffect, DirMoved, Types DEF IInv, At, Disk, Labels, Working, Trapped, StopAgain, Leave,
         NoFault
<1>a. up[p].pc = "stopAgain"
  BY DEF At, StopAgain
<1>b. LockAt(p) /\ UnitAt(p) /\ PlaceAt(p)
  BY DEF IInv, LockInv, UnitInv, PlaceInv
<1>c. \A q \in Updaters \ {p} : LockAt(q)' /\ UnitAt(q)' /\ PlaceAt(q)'
  BY <1>0, <1>a, <1>b, OtherRuns, Zenon DEF LockAt, Locked, Rollback, Moved
<1>1. TypeOK'
  BY <1>0, TypesKept, Types, Failures, Zenon DEF IInv, Effect, Moved, Units, Running
<1>2. LockInv'
  <2>1. LockAt(p)'
    BY <1>0, <1>a, <1>b, Zenon DEF LockAt, Effect, Early, Locked, Swapped, Rollback, Working, Trapped
  <2> QED
    BY <1>c, <2>1 DEF LockInv
<1>3. UnitInv'
  <2>1. UnitAt(p)'
    BY <1>0, <1>a, <1>b, Zenon DEF LockAt, UnitAt, Effect, Running, Locked, Swapped, Rollback
  <2> QED
    BY <1>c, <2>1 DEF UnitInv
<1>4. PlaceInv'
  <2>1. PlaceAt(p)'
    BY <1>0, <1>a, <1>b, Zenon DEF LockAt, PlaceAt, Effect, Moved, Early, Locked, Swapped
  <2> QED
    BY <1>c, <2>1 DEF PlaceInv
<1>5. KeptInv'
  <2>1. OldAside(p)' => OldAside(p)
    BY <1>0, <1>a, <1>b, Zenon DEF LockAt, OldAside, Effect, Early, Locked, Swapped, Rollback, Working,
           Trapped
  <2>2. \A q \in Updaters : backup'[q].bin = backup[q].bin
    BY <1>0 DEF Moved
  <2> QED
    BY <1>0, <2>1, <2>2, KeptSame, Zenon
<1>6. WholeInv' /\ ServiceInv'
  <2> SUFFICES ASSUME OneFailure'
               PROVE  /\ lock' = None => (Whole(bin, ver, found.ver) /\ AsFound)'
                      /\ \A q \in Updaters : lock' = q => WholeAt(q)' /\ ServiceAt(q)'
    BY DEF WholeInv, ServiceInv
  <2>0. /\ OneFailure /\ (Faulted => Faulted') /\ (left' = left \/ (Faulted' /\ ~Faulted))
        /\ (Fault => left' # left)
    BY <1>0, Failures, Zenon DEF IInv
  <2>1. lock = p /\ WholeAt(p) /\ ServiceAt(p) /\ Faulted
    BY <1>0, <1>a, <1>b, <2>0, Zenon DEF IInv, LockAt, WholeInv, ServiceInv, WholeAt, Early, Locked, Swapped,
           Rollback, Working, Trapped
  <2>2. pc = "setAside" /\ lock' = p /\ left' = left
    BY <1>0, <2>0, <2>1
  <2>3. WholeAt(p)'
    BY <1>0, <1>a, <2>0, <2>1, <2>2, Zenon DEF WholeAt, OldAside, Effect, Early, Locked, Swapped, Rollback,
           Working, Trapped
  <2>4. ServiceAt(p)'
    BY <1>0, <1>a, <1>b, <2>0, <2>1, <2>2, Zenon DEF LockAt, ServiceAt, AsFound, Effect, Early, Locked,
           Swapped, Rollback, Working, Trapped
  <2> QED
    BY <2>2, <2>3, <2>4
<1> QED
  BY <1>1, <1>2, <1>3, <1>4, <1>5, <1>6 DEF IInv

(* The new directory is set aside. *)
LEMMA SetAsideKeeps ==
  ASSUME IInv, NEW p \in Updaters, SetAside(p)
  PROVE  IInv'
<1>0. /\ Effect(p, "putBack", up[p].cand, up[p].replaced, up[p].wasActive, up[p].committed)
      /\ feed' = feed /\ ver' = ver /\ unit' = unit /\ found' = found /\ lock' = lock
      /\ stage' = stage /\ backup' = backup
      /\ (bin' = <<>> /\ left' = left) \/ (bin' = bin /\ Fault)
      /\ left' = left \/ Fault
  BY GotoEffect, DirMoved, Types DEF IInv, At, Disk, Labels, Working, Trapped, SetAside, NoFault
<1>a. up[p].pc = "setAside"
  BY DEF At, SetAside
<1>b. LockAt(p) /\ UnitAt(p) /\ PlaceAt(p)
  BY DEF IInv, LockInv, UnitInv, PlaceInv
<1>c. \A q \in Updaters \ {p} : LockAt(q)' /\ UnitAt(q)' /\ PlaceAt(q)'
  BY <1>0, <1>a, <1>b, OtherRuns, Zenon DEF LockAt, Locked, Rollback, Moved
<1>1. TypeOK'
  <2>1. <<>> \in Seq(Versions) /\ bin \in Seq(Versions)
    BY Types DEF IInv
  <2>2. bin' \in Seq(Versions)
    BY <1>0, <2>1, Zenon
  <2> QED
    BY <1>0, <2>2, TypesKept, Types, Failures, Zenon DEF IInv, Effect
<1>2. LockInv'
  <2>1. LockAt(p)'
    BY <1>0, <1>a, <1>b, Zenon DEF LockAt, Effect, Early, Locked, Swapped, Rollback, Working, Trapped
  <2> QED
    BY <1>c, <2>1 DEF LockInv
<1>3. UnitInv'
  <2>1. UnitAt(p)'
    BY <1>0, <1>a, <1>b, Zenon DEF LockAt, UnitAt, Effect, Running, Locked, Swapped, Rollback
  <2> QED
    BY <1>c, <2>1 DEF UnitInv
<1>4. PlaceInv'
  <2>1. PlaceAt(p)'
    BY <1>0, <1>a, <1>b, Zenon DEF LockAt, PlaceAt, Effect, Moved, Early, Locked, Swapped
  <2> QED
    BY <1>c, <2>1 DEF PlaceInv
<1>5. KeptInv'
  BY <1>0, <1>a, KeptAside, Zenon DEF OldAside, Swapped
<1>6. WholeInv' /\ ServiceInv'
  <2> SUFFICES ASSUME OneFailure'
               PROVE  /\ lock' = None => (Whole(bin, ver, found.ver) /\ AsFound)'
                      /\ \A q \in Updaters : lock' = q => WholeAt(q)' /\ ServiceAt(q)'
    BY DEF WholeInv, ServiceInv
  <2>0. /\ OneFailure /\ (Faulted => Faulted') /\ (left' = left \/ (Faulted' /\ ~Faulted))
        /\ (Fault => left' # left)
    BY <1>0, Failures, Zenon DEF IInv
  <2>1. lock = p /\ lock' = p /\ WholeAt(p) /\ ServiceAt(p)
    BY <1>0, <1>a, <1>b, <2>0, Zenon DEF IInv, LockAt, WholeInv, ServiceInv, Early, Locked, Swapped, Rollback,
           Working, Trapped
  <2>2. \A q \in Updaters \ {p} : lock' = q => WholeAt(q)' /\ ServiceAt(q)'
    BY <2>1
  <2>3. WholeAt(p)'
    <3>1. bin' = <<>> /\ left' = left
      BY <1>0, <1>a, <2>0, <2>1, Zenon DEF WholeAt, Rollback
    <3> QED
      BY <1>0, <1>a, <2>0, <2>1, <3>1, Zenon DEF WholeAt, OldAside, Effect, Early, Locked, Swapped,
             Rollback, Working, Trapped
  <2>4. ServiceAt(p)'
    BY <1>0, <1>a, <1>b, <2>0, <2>1, Zenon DEF LockAt, UnitAt, WholeAt, ServiceAt, AsFound, Effect,
           Running, Early, Locked, Swapped, Rollback, Working, Trapped
  <2> QED
    BY <2>1, <2>2, <2>3, <2>4
<1> QED
  BY <1>1, <1>2, <1>3, <1>4, <1>5, <1>6 DEF IInv

(* The old directory is put back. *)
LEMMA PutBackKeeps ==
  ASSUME IInv, NEW p \in Updaters, PutBack(p)
  PROVE  IInv'
<1>0. /\ Effect(p, "restoreVersion", up[p].cand, up[p].replaced, up[p].wasActive, up[p].committed)
      /\ feed' = feed /\ ver' = ver /\ unit' = unit /\ found' = found /\ lock' = lock
      /\ stage' = stage
      /\ \/ /\ backup[p].bin # <<>> /\ bin' = bin \o backup[p].bin
            /\ Moved(backup', backup, p, <<>>, backup[p].ver) /\ left' = left
         \/ (backup[p].bin = <<>> \/ Len(bin) > 1) /\ bin' = bin /\ backup' = backup /\ left' = left
         \/ bin' = bin /\ backup' = backup /\ Fault
      /\ left' = left \/ Fault
  <2>1. Effect(p, "restoreVersion", up[p].cand, up[p].replaced, up[p].wasActive, up[p].committed)
    BY GotoEffect DEF IInv, PutBack, Labels, Trapped
  <2>2. backup \in [Updaters -> Dirs] /\ <<>> \in Seq(Versions) /\ None \in File
    BY Types DEF IInv, File
  <2>3. Moved([backup EXCEPT ![p].bin = <<>>], backup, p, <<>>, backup[p].ver)
    BY <2>2, DirMoved, Zenon
  <2> QED
    BY <2>1, <2>3, SMTT(30) DEF PutBack, NoFault
<1>a. up[p].pc = "putBack"
  BY DEF At, PutBack
<1>b. LockAt(p) /\ UnitAt(p) /\ PlaceAt(p)
  BY DEF IInv, LockInv, UnitInv, PlaceInv
<1>d. /\ bin' \in Seq(Versions) /\ backup' \in [Updaters -> Dirs]
      /\ \A q \in Updaters \ {p} : backup'[q] = backup[q]
  <2>1. bin \in Seq(Versions) /\ backup[p].bin \in Seq(Versions) /\ backup \in [Updaters -> Dirs]
    BY Types DEF IInv, Dirs
  <2>2. bin \o backup[p].bin \in Seq(Versions)
    BY <2>1
  <2> QED
    BY <1>0, <2>1, <2>2, Zenon DEF Moved
<1>c. \A q \in Updaters \ {p} : LockAt(q)' /\ UnitAt(q)' /\ PlaceAt(q)'
  BY <1>0, <1>a, <1>b, <1>d, OtherRuns, Zenon DEF LockAt, Rollback
<1>1. TypeOK'
  BY <1>0, <1>d, TypesKept, Types, Failures DEF IInv, Effect
<1>2. LockInv'
  <2>1. LockAt(p)'
    BY <1>0, <1>a, <1>b, Zenon DEF LockAt, Effect, Early, Locked, Swapped, Rollback, Working, Trapped
  <2> QED
    BY <1>c, <2>1 DEF LockInv
<1>3. UnitInv'
  <2>1. UnitAt(p)'
    BY <1>0, <1>a, <1>b, Zenon DEF LockAt, UnitAt, Effect, Running, Locked, Swapped, Rollback
  <2> QED
    BY <1>c, <2>1 DEF UnitInv
<1>4. PlaceInv'
  <2>1. PlaceAt(p)'
    BY <1>0 DEF PlaceAt, Effect, Early, Swapped
  <2> QED
    BY <1>c, <2>1 DEF PlaceInv
<1>5. KeptInv'
  <2>1. CASE bin' = bin /\ backup' = backup
    BY <1>0, <1>a, <2>1, KeptSame, Zenon DEF OldAside, Swapped
  <2>2. CASE bin' = bin \o backup[p].bin /\ Moved(backup', backup, p, <<>>, backup[p].ver)
    <3>1. Kept' = Kept
      BY <1>0 DEF Effect, Kept
    <3>2. Releases(bin) \subseteq Releases(bin') /\ Releases(backup[p].bin) \subseteq Releases(bin')
      BY <2>2, ReleasesJoined, Types DEF IInv, Dirs
    <3>3. \A v \in Kept : v \in Releases(bin') \/ InBackup(v)'
      BY <2>2, <3>2 DEF IInv, KeptInv, InBackup, Moved
    <3>4. ASSUME NEW q \in Updaters, OldAside(q)' PROVE FALSE
      <4>1. lock = p
        BY <1>a, <1>b DEF LockAt, Early, Locked, Swapped, Rollback, Working, Trapped
      <4>2. q # p /\ up'[q] = up[q]
        BY <1>0, <3>4 DEF Effect, OldAside, Swapped
      <4> QED
        BY <3>4, <4>1, <4>2 DEF IInv, LockInv, LockAt, OldAside, Locked, Swapped, Rollback
    <3> QED
      BY <3>1, <3>3, <3>4 DEF KeptInv
  <2> QED
    BY <1>0, <2>1, <2>2, Zenon
<1>6. WholeInv' /\ ServiceInv'
  <2> SUFFICES ASSUME OneFailure'
               PROVE  /\ lock' = None => (Whole(bin, ver, found.ver) /\ AsFound)'
                      /\ \A q \in Updaters : lock' = q => WholeAt(q)' /\ ServiceAt(q)'
    BY DEF WholeInv, ServiceInv
  <2>0. /\ OneFailure /\ (Faulted => Faulted') /\ (left' = left \/ (Faulted' /\ ~Faulted))
        /\ (Fault => left' # left)
    BY <1>0, Failures, Zenon DEF IInv
  <2>1. lock = p /\ lock' = p /\ WholeAt(p) /\ ServiceAt(p)
    BY <1>0, <1>a, <1>b, <2>0, Zenon DEF IInv, LockAt, WholeInv, ServiceInv, Early, Locked, Swapped, Rollback,
           Working, Trapped
  <2>2. \A q \in Updaters \ {p} : lock' = q => WholeAt(q)' /\ ServiceAt(q)'
    BY <2>1
  <2>3. WholeAt(p)'
    <3>1. left' = left /\ bin = <<>> /\ Whole(backup[p].bin, backup[p].ver, found.ver)
      BY <1>0, <1>a, <2>0, <2>1, Zenon DEF WholeAt, OldAside, Rollback, Swapped
    <3>2. backup[p].bin # <<>> /\ ~(Len(bin) > 1) /\ bin \o backup[p].bin = backup[p].bin
      BY <3>1 DEF Whole
    <3>3. bin' = backup[p].bin /\ Moved(backup', backup, p, <<>>, backup[p].ver)
      BY <1>0, <2>0, <3>1, <3>2, Zenon
    <3> QED
      <4>1. up'[p].pc = "restoreVersion" /\ backup'[p].ver = backup[p].ver /\ found' = found
        BY <1>0, <3>3, Zenon DEF Effect, Moved
      <4>2. Whole(bin', backup'[p].ver, found'.ver) /\ Faulted'
        BY <1>a, <2>0, <2>1, <3>1, <3>3, <4>1, Zenon DEF WholeAt, Rollback
      <4> QED
        BY <4>1, <4>2, Zenon DEF WholeAt, OldAside, Swapped
  <2>4. ServiceAt(p)'
    BY <1>0, <1>a, <1>b, <2>0, <2>1, Zenon DEF LockAt, UnitAt, WholeAt, ServiceAt, AsFound, Effect,
           Running, Early, Locked, Swapped, Rollback, Working, Trapped
  <2> QED
    BY <2>1, <2>2, <2>3, <2>4
<1> QED
  BY <1>1, <1>2, <1>3, <1>4, <1>5, <1>6 DEF IInv

(* A process that ends where no single failure explains it leaves all in    *)
(* place, and the lock is free.                                             *)
LEMMA EndKeeps ==
  ASSUME IInv, NEW p \in Updaters, up[p].pc \in Working \cup Trapped \cup {"commit"},
         Effect(p, "done", up[p].cand, up[p].replaced, up[p].wasActive, up[p].committed),
         feed' = feed, bin' = bin, ver' = ver, unit' = unit, found' = found,
         stage' = stage, backup' = backup, lock' = IF lock = p THEN None ELSE lock,
         ~OneFailure', left' \in Budgets
  PROVE  IInv'
<1>b. LockAt(p) /\ UnitAt(p) /\ PlaceAt(p)
  BY DEF IInv, LockInv, UnitInv, PlaceInv
<1>c. \A q \in Updaters \ {p} : LockAt(q)' /\ UnitAt(q)' /\ PlaceAt(q)'
  BY <1>b, OtherRuns, Zenon DEF LockAt, Locked, Rollback, Moved
<1>1. TypeOK'
  BY TypesKept, Types, Zenon DEF IInv, Effect, Moved
<1>2. LockInv'
  <2>1. LockAt(p)'
    BY <1>b, Zenon DEF LockAt, Effect, Early, Locked, Swapped, Rollback, Working, Trapped
  <2> QED
    BY <1>c, <2>1 DEF LockInv
<1>3. UnitInv'
  <2>1. UnitAt(p)'
    BY <1>b, Zenon DEF LockAt, UnitAt, Effect, Running, Locked, Swapped, Rollback
  <2> QED
    BY <1>c, <2>1 DEF UnitInv
<1>4. PlaceInv'
  <2>1. PlaceAt(p)'
    BY <1>b, Zenon DEF LockAt, PlaceAt, Effect, Moved, Early, Locked, Swapped
  <2> QED
    BY <1>c, <2>1 DEF PlaceInv
<1>5. KeptInv'
  <2>1. OldAside(p)' => OldAside(p)
    BY <1>b, Zenon DEF LockAt, OldAside, Effect, Early, Locked, Swapped, Rollback, Working,
           Trapped
  <2>2. \A q \in Updaters : backup'[q].bin = backup[q].bin
    BY DEF Moved
  <2> QED
    BY <2>1, <2>2, KeptSame, Zenon
<1>6. WholeInv' /\ ServiceInv'
  BY DEF WholeInv, ServiceInv
<1> QED
  BY <1>1, <1>2, <1>3, <1>4, <1>5, <1>6 DEF IInv

(* VERSION is put back, or the copy fails and the script goes on. *)
LEMMA VersionRestored ==
  ASSUME IInv, NEW p \in Updaters, At(p, "restoreVersion"), Goto(p, "restart"),
         (ver' = backup[p].ver /\ NoFault) \/ (UNCHANGED ver /\ Fault),
         UNCHANGED <<feed, bin, stage, backup, unit, found, lock>>
  PROVE  IInv'
<1>0. /\ Effect(p, "restart", up[p].cand, up[p].replaced, up[p].wasActive, up[p].committed)
      /\ feed' = feed /\ bin' = bin /\ unit' = unit /\ found' = found /\ lock' = lock
      /\ stage' = stage /\ backup' = backup
      /\ (ver' = backup[p].ver /\ left' = left) \/ (ver' = ver /\ Fault)
      /\ left' = left \/ Fault
  BY GotoEffect, DirMoved, Types DEF IInv, At, Disk, Labels, Working, Trapped, NoFault
<1>a. up[p].pc = "restoreVersion"
  BY DEF At
<1>b. LockAt(p) /\ UnitAt(p) /\ PlaceAt(p)
  BY DEF IInv, LockInv, UnitInv, PlaceInv
<1>c. \A q \in Updaters \ {p} : LockAt(q)' /\ UnitAt(q)' /\ PlaceAt(q)'
  BY <1>0, <1>a, <1>b, OtherRuns, Zenon DEF LockAt, Locked, Rollback, Moved
<1>1. TypeOK'
  <2>1. backup[p].ver \in File
    BY Types DEF IInv, Dirs
  <2> QED
    BY <1>0, <2>1, TypesKept, Types, Failures, Zenon DEF IInv, Effect
<1>2. LockInv'
  <2>1. LockAt(p)'
    BY <1>0, <1>a, <1>b, Zenon DEF LockAt, Effect, Early, Locked, Swapped, Rollback, Working, Trapped
  <2> QED
    BY <1>c, <2>1 DEF LockInv
<1>3. UnitInv'
  <2>1. UnitAt(p)'
    BY <1>0, <1>a, <1>b, Zenon DEF LockAt, UnitAt, Effect, Running, Locked, Swapped, Rollback
  <2> QED
    BY <1>c, <2>1 DEF UnitInv
<1>4. PlaceInv'
  <2>1. PlaceAt(p)'
    BY <1>0, <1>a, <1>b, Zenon DEF LockAt, PlaceAt, Effect, Moved, Early, Locked, Swapped
  <2> QED
    BY <1>c, <2>1 DEF PlaceInv
<1>5. KeptInv'
  <2>1. OldAside(p)' => OldAside(p)
    BY <1>0, <1>a, <1>b, Zenon DEF LockAt, OldAside, Effect, Early, Locked, Swapped, Rollback, Working,
           Trapped
  <2>2. \A q \in Updaters : backup'[q].bin = backup[q].bin
    BY <1>0 DEF Moved
  <2> QED
    BY <1>0, <2>1, <2>2, KeptSame, Zenon
<1>6. WholeInv' /\ ServiceInv'
  <2> SUFFICES ASSUME OneFailure'
               PROVE  /\ lock' = None => (Whole(bin, ver, found.ver) /\ AsFound)'
                      /\ \A q \in Updaters : lock' = q => WholeAt(q)' /\ ServiceAt(q)'
    BY DEF WholeInv, ServiceInv
  <2>0. /\ OneFailure /\ (Faulted => Faulted') /\ (left' = left \/ (Faulted' /\ ~Faulted))
        /\ (Fault => left' # left)
    BY <1>0, Failures, Zenon DEF IInv
  <2>1. lock = p /\ lock' = p /\ WholeAt(p) /\ ServiceAt(p)
    BY <1>0, <1>a, <1>b, <2>0, Zenon DEF IInv, LockAt, WholeInv, ServiceInv, Early, Locked, Swapped, Rollback,
           Working, Trapped
  <2>2. \A q \in Updaters \ {p} : lock' = q => WholeAt(q)' /\ ServiceAt(q)'
    BY <2>1
  <2>3. WholeAt(p)'
    <3>1. ver' = backup[p].ver /\ left' = left /\ Whole(bin, backup[p].ver, found.ver)
      BY <1>0, <1>a, <2>0, <2>1, Zenon DEF WholeAt, Rollback
    <3> QED
      BY <1>0, <3>1, Zenon DEF WholeAt, OldAside, Effect, Early, Locked, Swapped, Rollback, Working,
             Trapped
  <2>4. ServiceAt(p)'
    BY <1>0, <1>a, <1>b, <2>0, <2>1, Zenon DEF LockAt, UnitAt, WholeAt, ServiceAt, AsFound, Effect,
           Running, Early, Locked, Swapped, Rollback, Working, Trapped
  <2> QED
    BY <2>1, <2>2, <2>3, <2>4
<1> QED
  BY <1>1, <1>2, <1>3, <1>4, <1>5, <1>6 DEF IInv

(* The rollback reaches VERSION after a failure; when rm fails as well, two  *)
(* commands have failed.                                                    *)
LEMMA RestoreVersionKeeps ==
  ASSUME IInv, NEW p \in Updaters, RestoreVersion(p)
  PROVE  IInv'
<1>0. up[p].pc = "restoreVersion" /\ At(p, "restoreVersion")
  BY DEF At, RestoreVersion
<1>1. CASE UNCHANGED lock /\ Goto(p, "restart")
           /\ ((ver' = backup[p].ver /\ NoFault) \/ (UNCHANGED ver /\ Fault))
  BY <1>0, <1>1, VersionRestored, Zenon DEF RestoreVersion
<1>2. CASE UNCHANGED ver /\ Leave(p) /\ Fault
  <2>1. lock = p
    BY <1>0, Zenon DEF IInv, LockInv, LockAt, Rollback
  <2>2. left' \in Budgets
    BY <1>2, Failures, Zenon DEF IInv
  <2>3. ~OneFailure'
    <3> SUFFICES ASSUME OneFailure' PROVE FALSE
      OBVIOUS
    <3>1. OneFailure /\ ~Faulted
      BY <1>2, Failures, Zenon DEF IInv
    <3> QED
      BY <1>0, <2>1, <3>1, Zenon DEF IInv, WholeInv, WholeAt, Rollback
  <2>4. Effect(p, "done", up[p].cand, up[p].replaced, up[p].wasActive, up[p].committed)
    BY <1>2, GotoEffect, Types DEF IInv, Leave, Labels
  <2>5. up[p].pc \in Working \cup Trapped \cup {"commit"}
    BY <1>0 DEF Trapped
  <2> QED
    BY <1>2, <2>2, <2>3, <2>4, <2>5, EndKeeps, Zenon DEF RestoreVersion, Leave
<1> QED
  BY <1>1, <1>2, Zenon DEF RestoreVersion

(* The service is started again. *)
LEMMA RestartKeeps ==
  ASSUME IInv, NEW p \in Updaters, Restart(p)
  PROVE  IInv'
<1>0. /\ Effect(p, "sweep", up[p].cand, up[p].replaced, up[p].wasActive, up[p].committed)
      /\ feed' = feed /\ bin' = bin /\ ver' = ver /\ found' = found /\ lock' = lock
      /\ stage' = stage /\ backup' = backup
      /\ (~up[p].wasActive /\ unit' = unit) \/ (up[p].wasActive /\ unit' \in Units)
      /\ left' = left \/ Fault
      /\ up[p].wasActive /\ bin # <<>> /\ left' = left => unit' = "active"
  <2>1. Effect(p, "sweep", up[p].cand, up[p].replaced, up[p].wasActive, up[p].committed)
    BY GotoEffect DEF IInv, Restart, Labels, Trapped
  <2>2. ASSUME Fault PROVE left' # left
    BY <2>2, Types DEF IInv, Fault, Budgets
  <2> QED
    BY <2>1, <2>2 DEF Restart, systemctl_start, NoFault, Disk, Units, Running
<1>a. up[p].pc = "restart"
  BY DEF At, Restart
<1>b. LockAt(p) /\ UnitAt(p) /\ PlaceAt(p)
  BY DEF IInv, LockInv, UnitInv, PlaceInv
<1>c. \A q \in Updaters \ {p} : LockAt(q)' /\ UnitAt(q)' /\ PlaceAt(q)'
  BY <1>0, <1>a, <1>b, OtherRuns, Zenon DEF LockAt, Locked, Rollback, Moved
<1>1. TypeOK'
  BY <1>0, TypesKept, Types, Failures, Zenon DEF IInv, Effect, Moved, Units, Running
<1>2. LockInv'
  <2>1. LockAt(p)'
    BY <1>0, <1>a, <1>b, Zenon DEF LockAt, Effect, Early, Locked, Swapped, Rollback, Working, Trapped
  <2> QED
    BY <1>c, <2>1 DEF LockInv
<1>3. UnitInv'
  <2>1. UnitAt(p)'
    BY <1>0, <1>a, <1>b, Zenon DEF LockAt, UnitAt, Effect, Running, Locked, Swapped, Rollback
  <2> QED
    BY <1>c, <2>1 DEF UnitInv
<1>4. PlaceInv'
  <2>1. PlaceAt(p)'
    BY <1>0, <1>a, <1>b, Zenon DEF LockAt, PlaceAt, Effect, Moved, Early, Locked, Swapped
  <2> QED
    BY <1>c, <2>1 DEF PlaceInv
<1>5. KeptInv'
  <2>1. OldAside(p)' => OldAside(p)
    BY <1>0, <1>a, <1>b, Zenon DEF LockAt, OldAside, Effect, Early, Locked, Swapped, Rollback, Working,
           Trapped
  <2>2. \A q \in Updaters : backup'[q].bin = backup[q].bin
    BY <1>0 DEF Moved
  <2> QED
    BY <1>0, <2>1, <2>2, KeptSame, Zenon
<1>6. WholeInv' /\ ServiceInv'
  <2> SUFFICES ASSUME OneFailure'
               PROVE  /\ lock' = None => (Whole(bin, ver, found.ver) /\ AsFound)'
                      /\ \A q \in Updaters : lock' = q => WholeAt(q)' /\ ServiceAt(q)'
    BY DEF WholeInv, ServiceInv
  <2>0. /\ OneFailure /\ (Faulted => Faulted') /\ (left' = left \/ (Faulted' /\ ~Faulted))
        /\ (Fault => left' # left)
    BY <1>0, Failures, Zenon DEF IInv
  <2>1. CASE lock # p
    <3>1. ~up[p].wasActive
      BY <1>a, <1>b, <2>1 DEF LockAt
    <3> QED
      BY <1>0, <2>1, <3>1, Others
  <2>2. CASE lock = p
    <3>1. WholeAt(p) /\ ServiceAt(p) /\ Whole(bin, ver, found.ver)
      BY <1>a, <2>0, <2>2, Zenon DEF IInv, WholeInv, ServiceInv, WholeAt
    <3>2. bin # <<>>
      BY <3>1, SMTT(30) DEF Whole
    <3>3. up[p].wasActive => Faulted /\ left' = left /\ unit' = "active"
      BY <1>0, <1>a, <1>b, <2>0, <3>1, <3>2, Zenon DEF LockAt, ServiceAt, Early, Locked, Swapped,
             Rollback, Working, Trapped
    <3>4. WholeAt(p)'
      BY <1>0, <1>a, <2>0, <3>1, Zenon DEF WholeAt, OldAside, Effect, Early, Locked, Swapped, Rollback,
             Working, Trapped
    <3>5. ServiceAt(p)'
      BY <1>0, <1>a, <2>0, <3>1, <3>3, Zenon DEF ServiceAt, AsFound, Effect, Early, Locked, Swapped,
             Rollback, Working, Trapped
    <3> QED
      BY <1>0, <2>2, <3>4, <3>5
  <2> QED
    BY <2>1, <2>2
<1> QED
  BY <1>1, <1>2, <1>3, <1>4, <1>5, <1>6 DEF IInv

(* The trap removes the staging directory and ends. *)
LEMMA SweepKeeps ==
  ASSUME IInv, NEW p \in Updaters, Sweep(p)
  PROVE  IInv'
<1>0. /\ Effect(p, "done", up[p].cand, up[p].replaced, up[p].wasActive, up[p].committed)
      /\ feed' = feed /\ bin' = bin /\ ver' = ver /\ unit' = unit /\ found' = found
      /\ backup' = backup /\ left' = left
      /\ lock' = IF lock = p THEN None ELSE lock
      /\ Moved(stage', stage, p, <<>>, None)
  <2>1. stage \in [Updaters -> Dirs] /\ <<>> \in Seq(Versions) /\ None \in File
    BY Types DEF IInv, File
  <2>2. Moved(stage', stage, p, <<>>, None)
    BY <2>1, DirMoved, Zenon DEF Sweep, Empty
  <2> QED
    BY <2>2, GotoEffect DEF IInv, Sweep, Leave, Labels
<1>a. up[p].pc = "sweep"
  BY DEF At, Sweep
<1>b. LockAt(p) /\ UnitAt(p) /\ PlaceAt(p)
  BY DEF IInv, LockInv, UnitInv, PlaceInv
<1>c. \A q \in Updaters \ {p} : LockAt(q)' /\ UnitAt(q)' /\ PlaceAt(q)'
  BY <1>0, <1>a, <1>b, OtherRuns, Zenon DEF LockAt, Locked, Rollback, Moved
<1>1. TypeOK'
  BY <1>0, TypesKept, Types, Failures, Zenon DEF IInv, Effect, Moved, Units, Running
<1>2. LockInv'
  <2>1. LockAt(p)'
    BY <1>0, <1>a, <1>b, Zenon DEF LockAt, Effect, Early, Locked, Swapped, Rollback, Working, Trapped
  <2> QED
    BY <1>c, <2>1 DEF LockInv
<1>3. UnitInv'
  <2>1. UnitAt(p)'
    BY <1>0, <1>a, <1>b, Zenon DEF LockAt, UnitAt, Effect, Running, Locked, Swapped, Rollback
  <2> QED
    BY <1>c, <2>1 DEF UnitInv
<1>4. PlaceInv'
  <2>1. PlaceAt(p)'
    BY <1>0, <1>a, <1>b, Zenon DEF LockAt, PlaceAt, Effect, Moved, Early, Locked, Swapped
  <2> QED
    BY <1>c, <2>1 DEF PlaceInv
<1>5. KeptInv'
  <2>1. OldAside(p)' => OldAside(p)
    BY <1>0, <1>a, <1>b, Zenon DEF LockAt, OldAside, Effect, Early, Locked, Swapped, Rollback, Working,
           Trapped
  <2>2. \A q \in Updaters : backup'[q].bin = backup[q].bin
    BY <1>0, Zenon DEF Moved
  <2> QED
    BY <1>0, <2>1, <2>2, KeptSame, Zenon
<1>6. WholeInv' /\ ServiceInv'
  <2> SUFFICES ASSUME OneFailure'
               PROVE  /\ lock' = None => (Whole(bin, ver, found.ver) /\ AsFound)'
                      /\ \A q \in Updaters : lock' = q => WholeAt(q)' /\ ServiceAt(q)'
    BY DEF WholeInv, ServiceInv
  <2>0. /\ OneFailure /\ (Faulted => Faulted') /\ (left' = left \/ (Faulted' /\ ~Faulted))
        /\ (Fault => left' # left)
    BY <1>0, Failures, Zenon DEF IInv
  <2>1. CASE lock # p
    BY <1>0, <2>1, Others
  <2>2. CASE lock = p
    <3>1. WholeAt(p) /\ ServiceAt(p) /\ lock' = None
      BY <1>0, <2>0, <2>2, SMTT(30) DEF IInv, WholeInv, ServiceInv
    <3>2. Whole(bin, ver, found.ver)'
      BY <1>0, <1>a, <3>1, Zenon DEF WholeAt
    <3>3. AsFound'
      BY <1>0, <1>a, <3>1, Zenon DEF ServiceAt, AsFound
    <3> QED
      BY <3>1, <3>2, <3>3
  <2> QED
    BY <2>1, <2>2
<1> QED
  BY <1>1, <1>2, <1>3, <1>4, <1>5, <1>6 DEF IInv

(* A command fails and set -e ends the run in its EXIT trap. *)
LEMMA FailKeeps ==
  ASSUME IInv, NEW p \in Updaters, Fail(p)
  PROVE  IInv'
<1>0. /\ Effect(p, "cleanup", up[p].cand, up[p].replaced, up[p].wasActive, up[p].committed)
      /\ feed' = feed /\ bin' = bin /\ ver' = ver /\ unit' = unit /\ found' = found /\ lock' = lock
      /\ stage' = stage /\ backup' = backup
      /\ Fault
  BY GotoEffect, DirMoved, Types, SMTT(30) DEF IInv, At, Disk, Labels, Working, Trapped, Fail
<1>a. up[p].pc \in Working \ {"mark", "start", "probe"}
  BY DEF At, Fail
<1>b. LockAt(p) /\ UnitAt(p) /\ PlaceAt(p)
  BY DEF IInv, LockInv, UnitInv, PlaceInv
<1>c. \A q \in Updaters \ {p} : LockAt(q)' /\ UnitAt(q)' /\ PlaceAt(q)'
  BY <1>0, <1>a, <1>b, OtherRuns, Zenon DEF LockAt, Locked, Rollback, Moved
<1>1. TypeOK'
  BY <1>0, TypesKept, Types, Failures, Zenon DEF IInv, Effect, Moved, Units, Running
<1>2. LockInv'
  <2>1. LockAt(p)'
    BY <1>0, <1>a, <1>b, Zenon DEF LockAt, Effect, Early, Locked, Swapped, Rollback, Working, Trapped
  <2> QED
    BY <1>c, <2>1 DEF LockInv
<1>3. UnitInv'
  <2>1. UnitAt(p)'
    BY <1>0, <1>a, <1>b, Zenon DEF LockAt, UnitAt, Effect, Running, Locked, Swapped, Rollback
  <2> QED
    BY <1>c, <2>1 DEF UnitInv
<1>4. PlaceInv'
  <2>1. PlaceAt(p)'
    BY <1>0, <1>a, <1>b, Zenon DEF LockAt, PlaceAt, Effect, Moved, Early, Locked, Swapped
  <2> QED
    BY <1>c, <2>1 DEF PlaceInv
<1>5. KeptInv'
  <2>1. OldAside(p)' => OldAside(p)
    BY <1>0, <1>a, <1>b, Zenon DEF LockAt, OldAside, Effect, Early, Locked, Swapped, Rollback, Working,
           Trapped
  <2>2. \A q \in Updaters : backup'[q].bin = backup[q].bin
    BY <1>0 DEF Moved
  <2> QED
    BY <1>0, <2>1, <2>2, KeptSame, Zenon
<1>6. WholeInv' /\ ServiceInv'
  <2> SUFFICES ASSUME OneFailure'
               PROVE  /\ lock' = None => (Whole(bin, ver, found.ver) /\ AsFound)'
                      /\ \A q \in Updaters : lock' = q => WholeAt(q)' /\ ServiceAt(q)'
    BY DEF WholeInv, ServiceInv
  <2>0. /\ OneFailure /\ (Faulted => Faulted') /\ (left' = left \/ (Faulted' /\ ~Faulted))
        /\ (Fault => left' # left)
    BY <1>0, Failures, Zenon DEF IInv
  <2>1. CASE lock # p
    BY <1>0, <2>1, Others
  <2>2. CASE lock = p
    <3>1. WholeAt(p) /\ ServiceAt(p)
      BY <2>0, <2>2 DEF IInv, WholeInv, ServiceInv
    <3>2. WholeAt(p)'
      BY <1>0, <1>a, <1>b, <2>0, <2>2, <3>1, Zenon DEF LockAt, PlaceAt, WholeAt, OldAside, Effect, Moved,
             Early, Locked, Swapped, Rollback, Working, Trapped
    <3>3. ServiceAt(p)'
      BY <1>0, <1>a, <1>b, <2>0, <2>2, <3>1, Zenon DEF LockAt, UnitAt, WholeAt, ServiceAt, AsFound,
             Effect, Running, Early, Locked, Swapped, Rollback, Working, Trapped
    <3> QED
      BY <1>0, <2>2, <3>2, <3>3
  <2> QED
    BY <2>1, <2>2
<1> QED
  BY <1>1, <1>2, <1>3, <1>4, <1>5, <1>6 DEF IInv

(* INT or TERM: the EXIT trap runs, or is cut short. *)
LEMMA SignalKeeps ==
  ASSUME IInv, NEW p \in Updaters, Signal(p)
  PROVE  IInv'
<1>0. PICK pc \in {"cleanup", "done"} :
        /\ Effect(p, pc, up[p].cand, up[p].replaced, up[p].wasActive, up[p].committed)
        /\ feed' = feed /\ bin' = bin /\ ver' = ver /\ unit' = unit /\ found' = found
        /\ stage' = stage /\ backup' = backup
        /\ \/ pc = "cleanup" /\ up[p].pc \notin Trapped /\ lock' = lock
           \/ pc = "done" /\ lock' = IF lock = p THEN None ELSE lock
        /\ ~OneFailure' /\ left' \in Budgets
  <2>1. left' \in Budgets /\ left'.signal < MaxSignals
    BY Types DEF IInv, Signal, Budgets
  <2>2. ~OneFailure'
    BY <2>1 DEF OneFailure, Budgets
  <2> QED
    BY <2>1, <2>2, GotoEffect DEF IInv, Signal, Leave, Labels, Working, Trapped, Disk
<1>a. up[p].pc \in Working \cup Trapped \cup {"commit"}
  BY DEF At, Signal
<1>b. LockAt(p) /\ UnitAt(p) /\ PlaceAt(p)
  BY DEF IInv, LockInv, UnitInv, PlaceInv
<1>c. \A q \in Updaters \ {p} : LockAt(q)' /\ UnitAt(q)' /\ PlaceAt(q)'
  BY <1>0, <1>a, <1>b, OtherRuns, Zenon DEF LockAt, Locked, Rollback, Moved
<1>1. TypeOK'
  BY <1>0, TypesKept, Types, Zenon DEF IInv, Effect, Moved
<1>2. LockInv'
  <2>1. LockAt(p)'
    BY <1>0, <1>a, <1>b, Zenon DEF LockAt, Effect, Early, Locked, Swapped, Rollback, Working, Trapped
  <2> QED
    BY <1>c, <2>1 DEF LockInv
<1>3. UnitInv'
  <2>1. UnitAt(p)'
    BY <1>0, <1>a, <1>b, Zenon DEF LockAt, UnitAt, Effect, Running, Locked, Swapped, Rollback
  <2> QED
    BY <1>c, <2>1 DEF UnitInv
<1>4. PlaceInv'
  <2>1. PlaceAt(p)'
    BY <1>0, <1>a, <1>b, Zenon DEF LockAt, PlaceAt, Effect, Moved, Early, Locked, Swapped
  <2> QED
    BY <1>c, <2>1 DEF PlaceInv
<1>5. KeptInv'
  <2>1. OldAside(p)' => OldAside(p)
    BY <1>0, <1>a, <1>b, Zenon DEF LockAt, OldAside, Effect, Early, Locked, Swapped, Rollback, Working,
           Trapped
  <2>2. \A q \in Updaters : backup'[q].bin = backup[q].bin
    BY <1>0 DEF Moved
  <2> QED
    BY <1>0, <2>1, <2>2, KeptSame, Zenon
<1>6. WholeInv' /\ ServiceInv'
  BY <1>0 DEF WholeInv, ServiceInv
<1> QED
  BY <1>1, <1>2, <1>3, <1>4, <1>5, <1>6 DEF IInv

(* The process is killed: no trap runs, and the lock is free. *)
LEMMA KillKeeps ==
  ASSUME IInv, NEW p \in Updaters, Kill(p)
  PROVE  IInv'
<1>1. up[p].pc \in Working \cup Trapped \cup {"commit"}
  BY DEF Kill
<1>2. left' \in Budgets /\ left'.kill < MaxKills
  BY Types, SMTT(30) DEF IInv, Kill, Budgets
<1>3. ~OneFailure'
  BY <1>2 DEF OneFailure, Budgets
<1>4. Effect(p, "done", up[p].cand, up[p].replaced, up[p].wasActive, up[p].committed)
  BY GotoEffect, Types DEF IInv, Kill, Leave, Labels
<1> QED
  BY <1>1, <1>2, <1>3, <1>4, EndKeeps, Zenon DEF Kill, Leave, Disk

(* Publishing a release, and steps that change nothing. *)
LEMMA OutsideKeeps ==
  ASSUME IInv, Publish \/ UNCHANGED vars
  PROVE  IInv'
<1>0. /\ feed' \in Versions
      /\ UNCHANGED <<bin, ver, unit, found, lock, up, stage, backup, left>>
  BY Types DEF IInv, Publish, Disk, vars, Versions
<1>1. TypeOK'
  BY <1>0, Types, TypesKept DEF IInv
<1>2. LockInv' /\ UnitInv' /\ PlaceInv'
  BY <1>0, Zenon DEF IInv, LockInv, UnitInv, PlaceInv, LockAt, UnitAt, PlaceAt
<1>3. KeptInv'
  BY <1>0, Zenon DEF IInv, KeptInv, Kept, InBackup, OldAside
<1>4. WholeInv' /\ ServiceInv'
  <2>1. OneFailure' = OneFailure /\ Faulted' = Faulted
    BY <1>0 DEF OneFailure, Faulted
  <2>2. WholeInv'
    BY <1>0, <2>1, ZenonT(30) DEF IInv, WholeInv, WholeAt, OldAside
  <2>3. ServiceInv'
    BY <1>0, <2>1, Zenon DEF IInv, ServiceInv, ServiceAt, AsFound
  <2> QED
    BY <2>2, <2>3
<1> QED
  BY <1>1, <1>2, <1>3, <1>4 DEF IInv

(* Every step of every run keeps the inductive invariant. *)
LEMMA NextKeepsIInv == IInv /\ [Next]_vars => IInv'
<1> SUFFICES ASSUME IInv, [Next]_vars PROVE IInv'
  OBVIOUS
<1>0. CASE Publish \/ Finished \/ UNCHANGED vars
  BY <1>0, OutsideKeeps DEF Finished
<1>1. ASSUME NEW p \in Updaters, Fetch(p) PROVE IInv'
  BY <1>1, FetchKeeps
<1>2. ASSUME NEW p \in Updaters, Compare(p) PROVE IInv'
  BY <1>2, CompareKeeps, SMTT(30)
<1>3. ASSUME NEW p \in Updaters, Download(p) PROVE IInv'
  BY <1>3, DownloadKeeps
<1>4. ASSUME NEW p \in Updaters, Flock(p) PROVE IInv'
  BY <1>4, FlockKeeps
<1>5. ASSUME NEW p \in Updaters, Stage(p) PROVE IInv'
  BY <1>5, StageKeeps
<1>6. ASSUME NEW p \in Updaters, Service(p) PROVE IInv'
  BY <1>6, ServiceKeeps
<1>7. ASSUME NEW p \in Updaters, Stop(p) PROVE IInv'
  BY <1>7, StopKeeps
<1>8. ASSUME NEW p \in Updaters, Confirm(p) PROVE IInv'
  BY <1>8, ConfirmKeeps
<1>9. ASSUME NEW p \in Updaters, MoveOld(p) PROVE IInv'
  BY <1>9, MoveOldKeeps
<1>10. ASSUME NEW p \in Updaters, Mark(p) PROVE IInv'
  BY <1>10, MarkKeeps
<1>11. ASSUME NEW p \in Updaters, MoveNew(p) PROVE IInv'
  BY <1>11, MoveNewKeeps
<1>12. ASSUME NEW p \in Updaters, MoveVersion(p) PROVE IInv'
  BY <1>12, MoveVersionKeeps
<1>13. ASSUME NEW p \in Updaters, Start(p) PROVE IInv'
  BY <1>13, StartKeeps
<1>14. ASSUME NEW p \in Updaters, Probe(p) PROVE IInv'
  BY <1>14, ProbeKeeps
<1>15. ASSUME NEW p \in Updaters, Commit(p) PROVE IInv'
  BY <1>15, CommitKeeps
<1>16. ASSUME NEW p \in Updaters, Cleanup(p) PROVE IInv'
  BY <1>16, CleanupKeeps
<1>17. ASSUME NEW p \in Updaters, StopAgain(p) PROVE IInv'
  BY <1>17, StopAgainKeeps
<1>18. ASSUME NEW p \in Updaters, SetAside(p) PROVE IInv'
  BY <1>18, SetAsideKeeps
<1>19. ASSUME NEW p \in Updaters, PutBack(p) PROVE IInv'
  BY <1>19, PutBackKeeps
<1>20. ASSUME NEW p \in Updaters, RestoreVersion(p) PROVE IInv'
  BY <1>20, RestoreVersionKeeps
<1>21. ASSUME NEW p \in Updaters, Restart(p) PROVE IInv'
  BY <1>21, RestartKeeps
<1>22. ASSUME NEW p \in Updaters, Sweep(p) PROVE IInv'
  BY <1>22, SweepKeeps
<1>23. ASSUME NEW p \in Updaters, Fail(p) PROVE IInv'
  BY <1>23, FailKeeps
<1>24. ASSUME NEW p \in Updaters, Signal(p) PROVE IInv'
  BY <1>24, SignalKeeps
<1>25. ASSUME NEW p \in Updaters, Kill(p) PROVE IInv'
  BY <1>25, KillKeeps
<1> QED
  BY <1>0, <1>1, <1>2, <1>3, <1>4, <1>5, <1>6, <1>7, <1>8, <1>9, <1>10, <1>11, <1>12, <1>13, <1>14,
     <1>15, <1>16, <1>17, <1>18, <1>19, <1>20, <1>21, <1>22, <1>23, <1>24, <1>25
     DEF Next

-----------------------------------------------------------------------------
(* The theorems.                                                            *)

(* The inductive invariant holds in every state of the updater, whatever    *)
(* commands fail and wherever its runs are interrupted or killed.           *)
THEOREM Invariance == Spec => []IInv
BY InitIInv, NextKeepsIInv, PTL DEF Spec

(* Every piece of the script's state keeps its type. *)
THEOREM TypeCorrect == Spec => []TypeOK
<1>1. IInv => TypeOK
  BY DEF IInv
<1> QED
  BY <1>1, Invariance, PTL

(* cleanup and the swap of slithy-update.sh: after at most one failing       *)
(* command the directory that is installed between two updates is whole and *)
(* VERSION names it.                                                        *)
THEOREM InstallationWhole == Spec => []WholeInstallation
<1>1. IInv => WholeInstallation
  <2> SUFFICES ASSUME IInv, lock = None, OneFailure
               PROVE  /\ Len(bin) = 1
                      /\ ver = bin[1] \/ (ver = None /\ found.ver = None /\ bin[1] = 0)
    BY DEF WholeInstallation
  <2>1. Whole(bin, ver, found.ver)
    BY DEF IInv, WholeInv
  <2> QED
    BY <2>1 DEF Whole
<1> QED
  BY <1>1, Invariance, PTL

(* WAS_ACTIVE in slithy-update.sh: after at most one failing command the    *)
(* service runs between two updates exactly if it ran before the first.     *)
THEOREM ServiceUndisturbed == Spec => []ServiceAsFound
<1>1. IInv => ServiceAsFound
  BY DEF IInv, ServiceInv, AsFound, ServiceAsFound
<1> QED
  BY <1>1, Invariance, PTL

(* The two mv of the swap and the mv of cleanup: whatever fails or is cut    *)
(* short, no release that must be kept leaves the disk.                     *)
THEOREM NothingLost == Spec => []ReleasesKept
<1>1. IInv => ReleasesKept
  BY Zenon DEF IInv, KeptInv, Kept, InBackup, ReleasesKept
<1> QED
  BY <1>1, Invariance, PTL

(* Only the four renames change bin, and each comes after a confirmed stop. *)
LEMMA RenameStep == IInv /\ [Next]_vars => (bin' # bin => unit \notin Running)
<1> SUFFICES ASSUME IInv, Next, bin' # bin PROVE unit \notin Running
  BY DEF vars
<1>1. PICK p \in Updaters : MoveOld(p) \/ MoveNew(p) \/ SetAside(p) \/ PutBack(p)
  BY ZenonT(60) DEF Next, Disk, vars, Publish, Finished, Fetch, Compare, Download, Flock, Stage, Service, Stop,
         Confirm, Mark, MoveVersion, Start, Probe, Commit, Cleanup, StopAgain, RestoreVersion,
         Restart, Sweep, Fail, Signal, Kill
<1> QED
  BY <1>1 DEF IInv, UnitInv, UnitAt, At, MoveOld, MoveNew, SetAside, PutBack

(* "A running service must confirm shutdown before any executable is        *)
(* replaced", in the swap and in the rollback, whatever went wrong before.  *)
THEOREM ReplacedWhileStopped == Spec => SwapWhileStopped
<1>1. IInv /\ [Next]_vars => [bin' # bin => unit \notin Running]_vars
  BY RenameStep
<1> QED
  BY <1>1, Invariance, PTL DEF Spec, SwapWhileStopped
=============================================================================

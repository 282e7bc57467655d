----------------------------- MODULE ToolsUpdate -----------------------------
(***************************************************************************)
(* The updater of the Linux terminal tools (slithy-update.sh): one bash     *)
(* process per run, which reads the signed feed, compares it with the       *)
(* installed VERSION, downloads, takes the update lock, stops the service,  *)
(* swaps the bin directory and either commits or rolls back in its EXIT     *)
(* trap.  Several runs may be alive at once (the menu, cron, a second       *)
(* terminal).  A command may fail (set -e ends the script, which runs the   *)
(* trap), a signal may arrive between two commands (bash runs the INT or    *)
(* TERM trap when the foreground command ends), the process may be killed.  *)
(* Releases are numbers.  A directory is the list of the releases in it:    *)
(* its own files first, then those of a directory mv left in it; <<>> is a  *)
(* directory that does not exist.                                           *)
(***************************************************************************)
EXTENDS Naturals, Sequences

CONSTANTS Updaters, MaxVersion, None, MaxFaults, MaxSignals, MaxKills

(* None stands for a missing file and for a free lock. *)
ASSUME UpdateAssumption ==
  /\ MaxVersion \in Nat \ {0}
  /\ None \notin Nat \cup Updaters
  /\ MaxFaults \in Nat /\ MaxSignals \in Nat /\ MaxKills \in Nat

VARIABLES
  feed,       \* the release the signed feed offers
  bin,        \* $INSTALL_DIR/bin
  ver,        \* $INSTALL_DIR/VERSION
  unit,       \* ActiveState of the service
  found,      \* the service and VERSION before any update (history)
  lock,       \* the holder of the flock on .update.lock
  up,         \* one record per run of the script
  stage,      \* $STAGE of each run
  backup,     \* $BACKUP of each run
  left        \* failures, signals and kills still allowed

vars == <<feed, bin, ver, unit, found, lock, up, stage, backup, left>>

Versions == 0..MaxVersion
File == Versions \cup {None}
Running == {"active", "activating"}

Working == {"idle", "compare", "download", "flock", "stage", "service", "stop",
            "confirm", "moveOld", "mark", "moveNew", "moveVersion", "start", "probe"}
Trapped == {"cleanup", "stopAgain", "setAside", "putBack", "restoreVersion",
            "restart", "sweep"}

Empty == [bin |-> <<>>, ver |-> None]

Init ==
  /\ feed \in Versions /\ bin = <<0>> /\ ver \in {0, None}
  /\ unit \in {"active", "inactive", "failed"}
  /\ found = [active |-> unit = "active", ver |-> ver]
  /\ lock = None
  /\ up = [p \in Updaters |-> [pc |-> "idle", cand |-> 0, replaced |-> FALSE,
                               wasActive |-> FALSE, committed |-> FALSE]]
  /\ stage = [p \in Updaters |-> Empty]
  /\ backup = [p \in Updaters |-> Empty]
  /\ left = [fault |-> MaxFaults, signal |-> MaxSignals, kill |-> MaxKills]

At(p, label) == up[p].pc = label
Goto(p, label) == up' = [up EXCEPT ![p].pc = label]
Fault == left.fault > 0 /\ left' = [left EXCEPT !.fault = @ - 1]
NoFault == UNCHANGED left
Disk == <<bin, ver, stage, backup>>

(* The end of the process closes file descriptor 9, and with it the lock. *)
Leave(p) ==
  /\ Goto(p, "done")
  /\ lock' = IF lock = p THEN None ELSE lock

----------------------------------------------------------------------------
(* The script up to the swap.                                               *)

(* The release team publishes a newer signed feed. *)
Publish ==
  /\ feed < MaxVersion
  /\ feed' = feed + 1
  /\ UNCHANGED <<Disk, unit, found, lock, up, left>>

(* Download the feed and verify its signature and fields. *)
Fetch(p) ==
  /\ At(p, "idle")
  /\ up' = [up EXCEPT ![p].pc = "compare", ![p].cand = feed]
  /\ UNCHANGED <<feed, Disk, unit, found, lock, left>>

(* Read the installed VERSION and order it against the candidate: equal or  *)
(* older ends the run.  Without a VERSION file (and none inside bin) the    *)
(* script takes the release for newer.                                      *)
Compare(p) ==
  /\ At(p, "compare")
  /\ Goto(p, IF ver = None \/ up[p].cand > ver THEN "download" ELSE "cleanup")
  /\ UNCHANGED <<feed, Disk, unit, found, lock, left>>

(* `check` ends here and so does a declined prompt; else the package is     *)
(* downloaded, hashed and unpacked, and the paths are examined.             *)
Download(p) ==
  /\ At(p, "download")
  /\ \E next \in {"flock", "cleanup"} : Goto(p, next)
  /\ UNCHANGED <<feed, Disk, unit, found, lock, left>>

(* flock -n: the lock or the end of the run. *)
FlockIgnored(p) ==
  /\ At(p, "flock")
  /\ lock' = p /\ Goto(p, "stage")
  /\ UNCHANGED <<feed, Disk, unit, found, left>>

Flock(p) ==
  /\ At(p, "flock")
  /\ IF lock = None THEN lock' = p /\ Goto(p, "stage")
                    ELSE UNCHANGED lock /\ Goto(p, "cleanup")
  /\ UNCHANGED <<feed, Disk, unit, found, left>>

(* Copy the package into $STAGE, compare the network identity with the      *)
(* installed one (which fails when the installed file cannot be read), back *)
(* up VERSION.                                                              *)
Stage(p) ==
  /\ At(p, "stage")
  /\ stage' = [stage EXCEPT ![p] = [bin |-> <<up[p].cand>>, ver |-> up[p].cand]]
  /\ IF bin = <<>> THEN Goto(p, "cleanup") /\ UNCHANGED backup
                   ELSE Goto(p, "service") /\ backup' = [backup EXCEPT ![p].ver = ver]
  /\ UNCHANGED <<feed, bin, ver, unit, found, lock, left>>

(* Note whether the service runs, before it is stopped. *)
Service(p) ==
  /\ At(p, "service")
  /\ up' = [up EXCEPT ![p].pc = IF unit \in Running THEN "stop" ELSE "confirm",
                      ![p].wasActive = unit \in Running]
  /\ UNCHANGED <<feed, Disk, unit, found, lock, left>>

(* systemctl stop: a running or restarting unit becomes inactive. *)
systemctl_stop == unit' = IF unit \in Running THEN "inactive" ELSE unit

Stop(p) ==
  /\ At(p, "stop")
  /\ systemctl_stop /\ Goto(p, "confirm")
  /\ UNCHANGED <<feed, Disk, found, lock, left>>

(* service_is_stopped clears a recorded failure and then wants inactive. *)
service_is_stopped == unit \notin Running
reset_failed == unit' = IF unit = "failed" THEN "inactive" ELSE unit

Confirm(p) ==
  /\ At(p, "confirm")
  /\ reset_failed
  /\ Goto(p, IF service_is_stopped THEN "moveOld" ELSE "cleanup")
  /\ UNCHANGED <<feed, Disk, found, lock, left>>

----------------------------------------------------------------------------
(* The swap.  A rename is atomic; the flag that arms the rollback is an     *)
(* assignment of its own, after the first rename.                           *)

MoveOld(p) ==
  /\ At(p, "moveOld")
  /\ bin' = <<>>
  /\ backup' = [backup EXCEPT ![p].bin = bin]
  /\ Goto(p, "mark")
  /\ UNCHANGED <<feed, ver, stage, unit, found, lock, left>>

Mark(p) ==
  /\ At(p, "mark")
  /\ up' = [up EXCEPT ![p].pc = "moveNew", ![p].replaced = TRUE]
  /\ UNCHANGED <<feed, Disk, unit, found, lock, left>>

MoveNew(p) ==
  /\ At(p, "moveNew")
  /\ bin' = stage[p].bin
  /\ stage' = [stage EXCEPT ![p].bin = <<>>]
  /\ Goto(p, "moveVersion")
  /\ UNCHANGED <<feed, ver, backup, unit, found, lock, left>>

MoveVersion(p) ==
  /\ At(p, "moveVersion")
  /\ ver' = stage[p].ver
  /\ stage' = [stage EXCEPT ![p].ver = None]
  /\ Goto(p, IF up[p].wasActive THEN "start" ELSE "commit")
  /\ UNCHANGED <<feed, bin, backup, unit, found, lock, left>>

(* systemctl start of a Type=simple unit with Restart=always: a program     *)
(* that is missing or exits leaves the unit restarting or failed.           *)
systemctl_start(runs) ==
  IF runs /\ bin # <<>> THEN unit' = "active" ELSE unit' \in {"activating", "failed"}

Start(p) ==
  /\ At(p, "start")
  /\ \/ systemctl_start(TRUE) /\ NoFault
     \/ systemctl_start(FALSE) /\ Fault
  /\ Goto(p, "probe")
  /\ UNCHANGED <<feed, Disk, found, lock>>

(* After three seconds systemctl is-active decides between the commit and a *)
(* stop (its failure ignored) with the rollback.                            *)
Probe(p) ==
  /\ At(p, "probe")
  /\ \/ unit = "active" /\ Goto(p, "commit") /\ UNCHANGED <<unit, left>>
     \/ unit # "active" /\ systemctl_stop /\ Goto(p, "cleanup") /\ NoFault
     \/ unit # "active" /\ UNCHANGED unit /\ Goto(p, "cleanup") /\ Fault
  /\ UNCHANGED <<feed, Disk, found, lock>>

Commit(p) ==
  /\ At(p, "commit")
  /\ up' = [up EXCEPT ![p].pc = "cleanup", ![p].committed = TRUE]
  /\ UNCHANGED <<feed, Disk, unit, found, lock, left>>

----------------------------------------------------------------------------
(* cleanup, the EXIT trap.                                                  *)

Cleanup(p) ==
  /\ At(p, "cleanup")
  /\ Goto(p, CASE up[p].committed -> "sweep"
               [] ~up[p].committed /\ ~up[p].replaced -> "restart"
               [] ~up[p].committed /\ up[p].replaced -> "stopAgain")
  /\ UNCHANGED <<feed, Disk, unit, found, lock, left>>

(* The service is stopped once more; when that cannot be confirmed the      *)
(* files are left where they are and the script ends.                       *)
StopAgain(p) ==
  /\ At(p, "stopAgain")
  /\ \/ ~up[p].wasActive /\ Goto(p, "setAside") /\ UNCHANGED <<unit, lock, left>>
     \/ up[p].wasActive /\ unit' = "inactive" /\ Goto(p, "setAside")
        /\ NoFault /\ UNCHANGED lock
     \/ up[p].wasActive /\ unit \in Running /\ UNCHANGED unit /\ Leave(p) /\ Fault
  /\ UNCHANGED <<feed, Disk, found>>

(* Move the failed release to $BACKUP/failed-bin, where nothing reads it    *)
(* again; a failing mv is only recorded.                                    *)
SetAside(p) ==
  /\ At(p, "setAside")
  /\ \/ bin' = <<>> /\ NoFault
     \/ bin # <<>> /\ UNCHANGED bin /\ Fault
  /\ Goto(p, "putBack")
  /\ UNCHANGED <<feed, ver, stage, backup, unit, found, lock>>

(* Put the old directory back.  Where the failed release could not be set   *)
(* aside, mv moves the old directory into it (and fails if that holds one). *)
PutBack(p) ==
  /\ At(p, "putBack")
  /\ \/ /\ backup[p].bin # <<>> /\ Len(bin) < 2
        /\ bin' = bin \o backup[p].bin
        /\ backup' = [backup EXCEPT ![p].bin = <<>>]
        /\ NoFault
     \/ (backup[p].bin = <<>> \/ Len(bin) > 1) /\ UNCHANGED <<bin, backup, left>>
     \/ backup[p].bin # <<>> /\ UNCHANGED <<bin, backup>> /\ Fault
  /\ Goto(p, "restoreVersion")
  /\ UNCHANGED <<feed, ver, stage, unit, found, lock>>

(* Copy VERSION back, or remove it when there was none.  A failing cp is    *)
(* only recorded; a failing rm ends the script there (set -e, with the EXIT *)
(* trap disarmed).                                                          *)
RestoreVersionForgotten(p) ==
  /\ At(p, "restoreVersion")
  /\ Goto(p, "restart")
  /\ UNCHANGED <<feed, Disk, unit, found, lock, left>>

RestoreVersion(p) ==
  /\ At(p, "restoreVersion")
  /\ \/ ver' = backup[p].ver /\ Goto(p, "restart") /\ NoFault /\ UNCHANGED lock
     \/ backup[p].ver # None /\ UNCHANGED <<ver, lock>> /\ Goto(p, "restart") /\ Fault
     \/ backup[p].ver = None /\ ver # None /\ UNCHANGED ver /\ Leave(p) /\ Fault
  /\ UNCHANGED <<feed, bin, stage, backup, unit, found>>

(* A service the script stopped is started again. *)
RestartAlways(p) ==
  /\ At(p, "restart")
  /\ systemctl_start(TRUE) /\ Goto(p, "sweep")
  /\ UNCHANGED <<feed, Disk, found, lock, left>>

Restart(p) ==
  /\ At(p, "restart")
  /\ \/ ~up[p].wasActive /\ UNCHANGED <<unit, left>>
     \/ up[p].wasActive /\ systemctl_start(TRUE) /\ NoFault
     \/ up[p].wasActive /\ unit \notin Running /\ unit' \in {"inactive", "failed"} /\ Fault
  /\ Goto(p, "sweep")
  /\ UNCHANGED <<feed, Disk, found, lock>>

(* Remove $STAGE and the temporary directory, and exit. *)
SweepBackup(p) ==
  /\ At(p, "sweep")
  /\ stage' = [stage EXCEPT ![p] = Empty]
  /\ backup' = [backup EXCEPT ![p] = Empty]
  /\ Leave(p)
  /\ UNCHANGED <<feed, bin, ver, unit, found, left>>

Sweep(p) ==
  /\ At(p, "sweep")
  /\ stage' = [stage EXCEPT ![p] = Empty]
  /\ Leave(p)
  /\ UNCHANGED <<feed, bin, ver, backup, unit, found, left>>

----------------------------------------------------------------------------
(* What may end a run early.                                                *)

(* set -e: a failing command ends the script and runs the EXIT trap.  The   *)
(* assignment of BIN_REPLACED and the commit are not commands that fail.    *)
Fail(p) ==
  /\ up[p].pc \in Working \ {"mark", "start", "probe"}
  /\ Fault /\ Goto(p, "cleanup")
  /\ UNCHANGED <<feed, Disk, unit, found, lock>>

(* INT or TERM: before the EXIT trap it runs cleanup; inside cleanup, which *)
(* has disarmed that trap, it ends the process.                             *)
Signal(p) ==
  /\ left.signal > 0 /\ left' = [left EXCEPT !.signal = @ - 1]
  /\ \/ up[p].pc \in Working \cup {"commit"} /\ Goto(p, "cleanup") /\ UNCHANGED lock
     \/ up[p].pc \in Trapped /\ Leave(p)
  /\ UNCHANGED <<feed, Disk, unit, found>>

(* KILL or a power cut: no trap runs. *)
Kill(p) ==
  /\ up[p].pc \in Working \cup Trapped \cup {"commit"}
  /\ left.kill > 0 /\ left' = [left EXCEPT !.kill = @ - 1]
  /\ Leave(p)
  /\ UNCHANGED <<feed, Disk, unit, found>>

(* Every run has ended. *)
Finished ==
  /\ \A p \in Updaters : At(p, "done")
  /\ UNCHANGED vars

Next ==
  \/ Publish
  \/ \E p \in Updaters :
       \/ Fetch(p) \/ Compare(p) \/ Download(p) \/ Flock(p) \/ Stage(p)
       \/ Service(p) \/ Stop(p) \/ Confirm(p) \/ MoveOld(p) \/ Mark(p)
       \/ MoveNew(p) \/ MoveVersion(p) \/ Start(p) \/ Probe(p) \/ Commit(p)
       \/ Cleanup(p) \/ StopAgain(p) \/ SetAside(p) \/ PutBack(p)
       \/ RestoreVersion(p) \/ Restart(p) \/ Sweep(p)
       \/ Fail(p) \/ Signal(p) \/ Kill(p)
  \/ Finished

Spec == Init /\ [][Next]_vars

----------------------------------------------------------------------------
Releases(dir) == {dir[i] : i \in 1..Len(dir)}

(* Every piece of the script's state stays in the set of values the script  *)
(* can give it.                                                             *)
TypeOK ==
  /\ feed \in Versions /\ bin \in Seq(Versions) /\ ver \in File
  /\ unit \in Running \cup {"inactive", "failed"}
  /\ found \in [active : BOOLEAN, ver : File]
  /\ lock \in Updaters \cup {None}
  /\ up \in [Updaters -> [pc : Working \cup Trapped \cup {"commit", "done"},
                         cand : Versions, replaced : BOOLEAN,
                         wasActive : BOOLEAN, committed : BOOLEAN]]
  /\ stage \in [Updaters -> [bin : Seq(Versions), ver : File]]
  /\ backup \in [Updaters -> [bin : Seq(Versions), ver : File]]
  /\ left \in [fault : 0..MaxFaults, signal : 0..MaxSignals, kill : 0..MaxKills]

(* "A running service must confirm shutdown before any executable is         *)
(* replaced": no rename of bin, in the swap or in the rollback of any run,   *)
(* happens while the service runs or is about to be restarted by systemd,    *)
(* whatever failed or was cut short before.                                  *)
SwapWhileStopped == [][bin' # bin => unit \notin Running]_vars

(* At most one command has failed, and no run was interrupted or killed.      *)
OneFailure == left.fault + 1 >= MaxFaults /\ left.signal = MaxSignals /\ left.kill = MaxKills

(* After any single failing command or release that does not start, whoever  *)
(* looks at the installation between two updates finds a complete bin that   *)
(* VERSION names: the swap and the rollback of cleanup treat the directory   *)
(* and the file as one.  A signal between "mv bin" and BIN_REPLACED=1 would  *)
(* leave no bin.                                                             *)
WholeInstallation ==
  lock = None /\ OneFailure =>
    /\ Len(bin) = 1
    /\ ver = bin[1] \/ (ver = None /\ found.ver = None /\ bin[1] = 0)

(* "A stopped service stays stopped", and a service that ran before an       *)
(* update runs after it, committed or rolled back, after at most one         *)
(* failing command.                                                          *)
ServiceAsFound == lock = None /\ OneFailure => (unit = "active") = found.active

(* Whatever fails, is interrupted or is killed, and however often, the       *)
(* release found at first and every release an update committed stay on      *)
(* disk, installed or in a backup: the swap and the rollback never destroy   *)
(* the only copy.                                                            *)
ReleasesKept ==
  \A v \in {0} \cup {up[p].cand : p \in {q \in Updaters : up[q].committed}} :
    \/ v \in Releases(bin)
    \/ \E p \in Updaters : v \in Releases(backup[p].bin)

(* "The signed feed is older than the installed release. Refusing a          *)
(* downgrade.": once an update has been committed, no later one leaves an    *)
(* older release installed.                                                  *)
NoDowngrade ==
  \A p \in Updaters : up[p].committed => ver # None /\ ver >= up[p].cand
=============================================================================

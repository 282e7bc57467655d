--------------------------- MODULE WindowsUpdate ---------------------------
(***************************************************************************)
(* The Windows app's update (UpdateInstaller.cs, StartUpdateHandoffAsync    *)
(* and OnFormClosing in Form1.cs): the app hands over to a helper, a copy   *)
(* of itself outside the installation, which waits for the app to exit,     *)
(* backs the installation up, replaces it, starts the new app, waits for    *)
(* its health marker and rolls back without it.  The app's single-instance  *)
(* mutex (Program.cs) lets one window run at a time; Windows refuses to     *)
(* write a program file or move a directory that a running app uses.        *)
(* An attempt to update is a number, and stands for its health token, its   *)
(* helper process and its backup directory.  A directory is the set of its  *)
(* files, a file a name and the release it is from: the program, which both *)
(* releases have, a file the new one drops and a file it adds.              *)
(***************************************************************************)
EXTENDS Naturals

CONSTANT MaxAttempts

ASSUME AttemptsAssumption == MaxAttempts \in Nat

VARIABLES
  form,     \* the running window: version, step, _updateHandoffRequested, starter
  helper,   \* per attempt: step of Apply, and whether its parent still runs
  disk,     \* installation, backups, pending-update.json, .ready, the marker
  undisturbed  \* no app was opened by hand, no helper died, no undo failed

updateVars == <<form, helper, disk, undisturbed>>

(* A release: the program, and a file that the other release does not have. *)
FilesOf(ver) == {<<"program", ver>>, <<IF ver = "old" THEN "dropped" ELSE "added", ver>>}
AppFiles == FilesOf("old") \cup FilesOf("new")

(* SafeDirectoryCopy: files replace those of their names and no others. *)
Overlay(files, dir) == files \cup {f \in dir : \A g \in files : g[1] # f[1]}

(* What a successful update leaves: the new release over the old one. *)
Updated == Overlay(FilesOf("new"), FilesOf("old"))

Attempts == 1..MaxAttempts
None == 0
NoForm == [pc |-> "none", ver |-> "old", handed |-> FALSE, by |-> None]
NewForm(ver, by) == [pc |-> "opening", ver |-> ver, handed |-> FALSE, by |-> by]

UpdateInit ==
  /\ form = NoForm
  /\ helper = [k \in Attempts |-> [pc |-> "unused", parent |-> FALSE]]
  /\ disk = [install |-> FilesOf("old"), backup |-> [k \in Attempts |-> {}],
             pending |-> None, ready |-> FALSE, healthy |-> None]
  /\ undisturbed = TRUE

(* The release of the program file, which a window runs. *)
Programs == {ver \in {"old", "new"} : <<"program", ver>> \in disk.install}

FormRuns == form.pc # "none"
HelperAt(k, pc) == helper[k].pc = pc
HelperGoto(k, pc) == helper' = [helper EXCEPT ![k].pc = pc]
Install(files) == disk' = [disk EXCEPT !.install = files]

(* Past WaitForParentExit. *)
Replacing(k) == helper[k].pc \in {"backup", "apply", "copy", "start", "health", "kill", "restore",
                                  "reopen"}

(* The window's process ends, and helpers that wait for it see it. *)
EndForm ==
  /\ form' = NoForm
  /\ helper' = [k \in Attempts |-> [helper[k] EXCEPT !.parent = FALSE]]

----------------------------------------------------------------------------
(* The app.                                                                 *)

(* Opened by hand. *)
OpenForm ==
  /\ ~FormRuns /\ \E ver \in Programs : form' = NewForm(ver, None)
  /\ undisturbed' = (undisturbed /\ \A k \in Attempts : helper[k].pc \in {"unused", "ended"})
  /\ UNCHANGED <<helper, disk>>

(* Form1_Shown and TermsDialog.OnShown: MarkCurrentVersionHealthy. *)
Shown ==
  /\ form.pc = "opening" /\ form' = [form EXCEPT !.pc = "open"]
  /\ disk' = IF disk.pending # None /\ form.ver = "new"
             THEN [disk EXCEPT !.healthy = disk.pending] ELSE disk
  /\ UNCHANGED <<helper, undisturbed>>

(* The window is closed or crashes, whatever it is doing. *)
FormEnds ==
  /\ FormRuns /\ EndForm
  /\ UNCHANGED <<disk, undisturbed>>

(* CreatePendingUpdate, CreateHelperCopy, and the helper is started. *)
StartUpdateHandoff(k) ==
  /\ form.pc = "open" /\ form.ver = "old" /\ ~form.handed
  /\ HelperAt(k, "unused") /\ \A j \in Attempts : HelperAt(j, "unused") => k <= j
  /\ disk' = [disk EXCEPT !.pending = k, !.healthy = None, !.ready = FALSE]
  /\ helper' = [helper EXCEPT ![k] = [pc |-> "verify", parent |-> TRUE]]
  /\ form' = [form EXCEPT !.pc = "handing"]
  /\ UNCHANGED undisturbed

(* The helper is ready, and the window begins to close. *)
HelperReady ==
  /\ form.pc = "handing" /\ disk.ready
  /\ form' = [form EXCEPT !.pc = "closing", !.handed = TRUE]
  /\ UNCHANGED <<helper, disk, undisturbed>>

(* 15 seconds or an exited helper: it is killed, and the window stays. *)
HelperNotReady(k) ==
  /\ form.pc = "handing" /\ helper[k].parent
  /\ form' = [form EXCEPT !.pc = "open"]
  /\ helper' = [helper EXCEPT ![k] = [pc |-> "ended", parent |-> FALSE]]
  /\ UNCHANGED <<disk, undisturbed>>

(* OnFormClosing fails: "Slithy could not finish shutting down." *)
ShutdownFails ==
  /\ form.pc = "closing" /\ form' = [form EXCEPT !.pc = "open"]
  /\ UNCHANGED <<helper, disk, undisturbed>>

----------------------------------------------------------------------------
(* Apply, in the helper.                                                    *)

(* OpenVerifiedPackage, and the .ready file. *)
Verify(k) ==
  /\ HelperAt(k, "verify")
  /\ \/ HelperGoto(k, "wait") /\ disk' = [disk EXCEPT !.ready = TRUE]
     \/ HelperGoto(k, "ended") /\ UNCHANGED disk
  /\ UNCHANGED <<form, undisturbed>>

(* Fault: WaitForParentExit goes on after its 30 seconds. *)
WaitForParentExitAnyway(k) ==
  /\ HelperAt(k, "wait") /\ HelperGoto(k, "backup")
  /\ UNCHANGED <<form, disk, undisturbed>>

(* WaitForParentExit: 30 seconds are an exception that ends the helper. *)
WaitForParentExit(k) ==
  /\ HelperAt(k, "wait")
  /\ HelperGoto(k, IF helper[k].parent THEN "ended" ELSE "backup")
  /\ UNCHANGED <<form, disk, undisturbed>>

(* CreateBackup; its failure ends the helper before a file is replaced. *)
CreateBackup(k) ==
  /\ HelperAt(k, "backup")
  /\ \/ HelperGoto(k, "apply") /\ disk' = [disk EXCEPT !.backup[k] = disk.install]
     \/ HelperGoto(k, "ended") /\ UNCHANGED disk
  /\ UNCHANGED <<form, undisturbed>>

(* ApplyPackage, a ZIP's copy or the installer's (which deletes an old .pdb  *)
(* file only): some files are copied, or it fails before the first of them.  *)
ApplyPackage(k) ==
  /\ HelperAt(k, "apply")
  /\ \/ /\ HelperGoto(k, "copy")
        /\ \E part \in SUBSET FilesOf("new") : Install(Overlay(part, disk.install))
     \/ HelperGoto(k, "restore") /\ UNCHANGED disk
  /\ UNCHANGED <<form, undisturbed>>

(* The last file is copied, or an error leaves a part of them. *)
Copied(k) ==
  /\ HelperAt(k, "copy")
  /\ \/ ~FormRuns /\ HelperGoto(k, "start") /\ Install(Overlay(FilesOf("new"), disk.install))
     \/ HelperGoto(k, "restore") /\ UNCHANGED disk
  /\ UNCHANGED <<form, undisturbed>>

(* StartApplication: a second window gives way to the one that runs. *)
StartApplication(k) ==
  /\ HelperAt(k, "start")
  /\ \/ /\ HelperGoto(k, "health")
        /\ IF FormRuns THEN UNCHANGED form ELSE \E ver \in Programs : form' = NewForm(ver, k)
     \/ HelperGoto(k, "restore") /\ UNCHANGED form
  /\ UNCHANGED <<disk, undisturbed>>

(* WaitForHealthyMarker finds this attempt's token. *)
Healthy(k) ==
  /\ HelperAt(k, "health") /\ disk.healthy = k
  /\ HelperGoto(k, "ended") /\ disk' = [disk EXCEPT !.pending = None]
  /\ UNCHANGED <<form, undisturbed>>

(* 30 seconds, or the new app has exited. *)
Unhealthy(k) ==
  /\ HelperAt(k, "health") /\ HelperGoto(k, "kill")
  /\ UNCHANGED <<form, disk, undisturbed>>

(* TryTerminate; an app that does not end ends the helper instead. *)
TryTerminate(k) ==
  /\ HelperAt(k, "kill")
  /\ IF FormRuns /\ form.by = k
     THEN \/ /\ form' = NoForm /\ UNCHANGED undisturbed
             /\ helper' = [j \in Attempts |-> IF j = k THEN [helper[k] EXCEPT !.pc = "restore"]
                                              ELSE [helper[j] EXCEPT !.parent = FALSE]]
          \/ HelperGoto(k, "ended") /\ undisturbed' = FALSE /\ UNCHANGED form
     ELSE HelperGoto(k, "restore") /\ UNCHANGED <<form, undisturbed>>
  /\ UNCHANGED disk

(* Fault: the backup is laid over the files of the failed release. *)
RestoreOverlay(k) ==
  /\ HelperAt(k, "restore")
  /\ HelperGoto(k, "reopen")
  /\ disk' = [disk EXCEPT !.install = Overlay(disk.backup[k], @), !.pending = None]
  /\ UNCHANGED <<form, undisturbed>>

(* RestoreBackup: the whole directory is moved aside and the copy of the     *)
(* backup into its place; a failure leaves the installation as it is and     *)
(* ends the helper.                                                          *)
RestoreBackup(k) ==
  /\ HelperAt(k, "restore")
  /\ \/ /\ ~FormRuns /\ HelperGoto(k, "reopen") /\ UNCHANGED undisturbed
        /\ disk' = [disk EXCEPT !.install = disk.backup[k], !.pending = None]
     \/ HelperGoto(k, "ended") /\ undisturbed' = FALSE /\ UNCHANGED disk
  /\ UNCHANGED form

(* The restored app is opened with --update-rolled-back. *)
Reopen(k) ==
  /\ HelperAt(k, "reopen") /\ HelperGoto(k, "ended")
  /\ IF FormRuns THEN UNCHANGED form ELSE \E ver \in Programs : form' = NewForm(ver, None)
  /\ UNCHANGED <<disk, undisturbed>>

(* The helper is killed. *)
HelperDies(k) ==
  /\ helper[k].pc \notin {"unused", "ended"} /\ HelperGoto(k, "ended")
  /\ undisturbed' = (undisturbed /\ ~Replacing(k))
  /\ UNCHANGED <<form, disk>>

HelperStep(k) ==
  \/ Verify(k) \/ WaitForParentExit(k) \/ CreateBackup(k) \/ ApplyPackage(k) \/ Copied(k)
  \/ StartApplication(k) \/ Healthy(k) \/ Unhealthy(k) \/ TryTerminate(k) \/ RestoreBackup(k)
  \/ Reopen(k)

UpdateNext ==
  \/ OpenForm \/ Shown \/ FormEnds \/ HelperReady \/ ShutdownFails
  \/ \E k \in Attempts : StartUpdateHandoff(k) \/ HelperNotReady(k) \/ HelperDies(k) \/ HelperStep(k)

UpdateSpec == UpdateInit /\ [][UpdateNext]_updateVars

----------------------------------------------------------------------------
(* The variables have their types. *)
UpdateTypeOK ==
  /\ form \in [pc : {"none", "opening", "open", "handing", "closing"}, ver : {"old", "new"},
               handed : BOOLEAN, by : Attempts \cup {None}]
  /\ helper \in [Attempts -> [pc : {"unused", "verify", "wait", "backup", "apply", "copy", "start",
                                    "health", "kill", "restore", "reopen", "ended"},
                              parent : BOOLEAN]]
  /\ disk \in [install : SUBSET AppFiles, backup : [Attempts -> SUBSET AppFiles],
               pending : Attempts \cup {None}, ready : BOOLEAN, healthy : Attempts \cup {None}]
  /\ undisturbed \in BOOLEAN

(* "Restore a complete snapshot": once no helper works on it, the            *)
(* installation has exactly the files of the old release, none of a failed   *)
(* one among them, whichever step failed; or it has all of the new release   *)
(* laid over the old one, and a window of the new one has shown since the    *)
(* attempt began.  An update that succeeds removes nothing: a file that the  *)
(* new release dropped stays.  The condition leaves out an app opened by     *)
(* hand in the middle, whose files Windows keeps locked, a helper that is    *)
(* killed, and a rollback that fails in its turn.                            *)
InstallWhole ==
  undisturbed /\ (\A k \in Attempts : ~Replacing(k)) =>
    disk.install = FilesOf("old") \/ (disk.install = Updated /\ disk.healthy # None)

(* "The helper cannot overwrite the old exe until the old process has        *)
(* exited": no file is replaced under the app that handed over, not even     *)
(* when it fails to shut down or gives the helper up.                        *)
ReplacedAfterExit ==
  [][\A k \in Attempts : helper[k].parent /\ helper'[k] # helper[k]
                           => disk'.install = disk.install]_updateVars
=============================================================================

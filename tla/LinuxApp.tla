------------------------------ MODULE LinuxApp ------------------------------
(***************************************************************************)
(* The Linux app: windows that open, initialise, quit and update            *)
(* themselves (MainWindow.cs, MainWindow.Updates.cs), with the activation   *)
(* of an update and the hand-over to the replacement app                    *)
(* (LinuxGuiUpdateInstaller.cs), over the node hosts of NodeHost.  An       *)
(* element of Apps is a process of the app; it is used again after it ends. *)
(***************************************************************************)
EXTENDS NodeHost

VARIABLES
  app,      \* per process: its window, version, replacement, snapshots; stay:
            \* a failed update will leave its node stopped
  desktop,  \* the version that the shortcut and the icon are of
  told,     \* a replacement app has been told to go on
  orderly   \* no update was cut short, failed to undo, or met another one

appVars == <<app, desktop, told, orderly>>
vars == <<hostVars, appVars>>

Closed == [win |-> "closed", ver |-> "old", stay |-> FALSE,
           child |-> Nobody, go |-> FALSE, saved |-> [launcher |-> "old", icon |-> "old"]]

Init ==
  /\ HostInit
  /\ app = [a \in Apps |-> Closed]
  /\ desktop = [launcher |-> "old", icon |-> "old"] /\ told = FALSE /\ orderly = TRUE

In(a, win) == app[a].win = win
Show(a, win) == app' = [app EXCEPT ![a].win = win]
Finish(a, stay) == app' = [app EXCEPT ![a] =
  [@ EXCEPT !.win = "failed", !.stay = stay, !.saved = Closed.saved]]
Call(a, pc) == Goto(a, pc) /\ UNCHANGED <<node, receipt, lock>>
Return(a, pc) == At(a, pc) /\ Call(a, "idle")

(* From the snapshots of the desktop files to the last write to them. *)
Updating(a) == app[a].win \in {"stopping", "icon", "launcher", "spawn", "await", "seen",
                               "killing", "undoLauncher", "undoIcon"}

(* A process that no app waits for as its replacement. *)
Unused(a) == In(a, "closed") /\ \A b \in Apps : app[b].child # a

----------------------------------------------------------------------------
(* The window.                                                              *)

(* The shortcut opens the version it names; nothing is handed over to it.    *)
(* Initialize shows the terms and starts the node.                           *)
Open(a) ==
  /\ Unused(a)
  /\ app' = [app EXCEPT ![a] = [Closed EXCEPT !.win = "starting", !.ver = desktop.launcher]]
  /\ Call(a, "start")
  /\ UNCHANGED <<desktop, told, orderly>>

(* The terms are declined. *)
Decline(a) ==
  /\ In(a, "starting") /\ Return(a, "start") /\ app' = [app EXCEPT ![a] = Closed]
  /\ UNCHANGED <<desktop, told, orderly>>

(* Initialize returns, or Run shows its error and leaves the window open. *)
Initialized(a) ==
  /\ In(a, "starting")
  /\ Return(a, "started") \/ Return(a, "failed")
  /\ Show(a, "open")
  /\ UNCHANGED <<desktop, told, orderly>>

(* Quit; OnClosing and Quit return at once while the window is busy. *)
Quit(a) ==
  /\ In(a, "open") /\ Show(a, "quitting") /\ Call(a, "stop")
  /\ UNCHANGED <<desktop, told, orderly>>

(* The node has stopped and the window closes, or it stays open. *)
Quitted(a) ==
  /\ In(a, "quitting")
  /\ \/ Return(a, "stopped") /\ app' = [app EXCEPT ![a] = Closed]
     \/ Return(a, "failed") /\ Show(a, "open")
  /\ UNCHANGED <<desktop, told, orderly>>

(* The process is killed: its lock goes with it, its node stays. *)
Crash(a) ==
  /\ ~In(a, "closed")
  /\ orderly' = (orderly /\ ~Updating(a))
  /\ app' = [app EXCEPT ![a] = Closed]
  /\ host' = [host EXCEPT ![a] = Alone] /\ Release(a)
  /\ UNCHANGED <<node, receipt, desktop, told>>

----------------------------------------------------------------------------
(* ReviewUpdate and ActivateAndLaunchAsync.                                 *)

(* CheckAsync, the dialog, DownloadAsync and StageAsync, which touch nothing *)
(* but new directories and may fail; then the snapshots, and the call of     *)
(* StopOwnedAsync.                                                           *)
Review(a) ==
  /\ In(a, "open") /\ app[a].ver = "old"
  /\ app' = [app EXCEPT ![a].win = "stopping", ![a].saved = desktop]
  /\ orderly' = (orderly /\ \A b \in Apps : ~Updating(b))
  /\ Call(a, "stop")
  /\ UNCHANGED <<desktop, told>>

(* A node that is still saving ends the update before anything is written. *)
NodeStopped(a) ==
  /\ In(a, "stopping")
  /\ \/ Return(a, "stopped") /\ Show(a, "icon")
     \/ Return(a, "failed") /\ app' = [app EXCEPT ![a].win = "open", ![a].saved = Closed.saved]
  /\ UNCHANGED <<desktop, told, orderly>>

(* WriteAtomic of the icon, then of the launcher; either may fail. *)
WriteIcon(a) ==
  /\ In(a, "icon")
  /\ \/ Show(a, "launcher") /\ desktop' = [desktop EXCEPT !.icon = "new"]
     \/ Finish(a, FALSE) /\ UNCHANGED desktop
  /\ UNCHANGED <<hostVars, told, orderly>>

(* Fault: an update that fails here leaves the new icon. *)
WriteLauncherOnly(a) ==
  /\ In(a, "launcher")
  /\ \/ Show(a, "spawn") /\ desktop' = [desktop EXCEPT !.launcher = "new"]
     \/ Finish(a, FALSE) /\ UNCHANGED desktop
  /\ UNCHANGED <<hostVars, told, orderly>>

WriteLauncher(a) ==
  /\ In(a, "launcher")
  /\ \/ Show(a, "spawn") /\ desktop' = [desktop EXCEPT !.launcher = "new"]
     \/ Show(a, "undoIcon") /\ UNCHANGED desktop
  /\ UNCHANGED <<hostVars, told, orderly>>

(* LaunchAsync: request.json, and the replacement app is started. *)
Spawn(a) ==
  /\ In(a, "spawn")
  /\ \/ \E c \in Apps :
          /\ Unused(c)
          /\ app' = [app EXCEPT ![a].win = "await", ![a].child = c,
                                ![c] = [Closed EXCEPT !.win = "hello", !.ver = "new"]]
     \/ Show(a, "undoLauncher")
  /\ UNCHANGED <<hostVars, desktop, told, orderly>>

(* ready.json is there. *)
SeeReady(a) ==
  /\ In(a, "await") /\ In(app[a].child, "waiting")
  /\ Show(a, "seen")
  /\ UNCHANGED <<hostVars, desktop, told, orderly>>

(* proceed.json is moved into place: "After this write it owns startup." *)
Proceed(a) ==
  /\ In(a, "seen")
  /\ app' = [app EXCEPT ![a].win = "leaving",
                        ![app[a].child].go = In(app[a].child, "waiting")]
  /\ told' = TRUE
  /\ UNCHANGED <<hostVars, desktop, orderly>>

(* The deadline of 20 seconds, which is a cancellation, or an error in       *)
(* reading or writing a file of the hand-over: SIGTERM to a replacement that *)
(* is there.                                                                 *)
GiveUp(a) ==
  /\ \E late \in BOOLEAN :
       /\ IF late THEN In(a, "await") ELSE app[a].win \in {"await", "seen"}
       /\ app' = [app EXCEPT ![a].win = "killing", ![a].stay = late]
  /\ UNCHANGED <<hostVars, desktop, told, orderly>>

(* The replacement is gone. *)
ChildGone(a) ==
  /\ app[a].win \in {"await", "killing"} /\ In(app[a].child, "closed")
  /\ app' = [app EXCEPT ![a].win = "undoLauncher", ![a].child = Nobody]
  /\ UNCHANGED <<hostVars, desktop, told, orderly>>

(* LinuxGuiUpdateLaunchUncertainException after 10 more seconds. *)
KillTimesOut(a) ==
  /\ In(a, "killing") /\ ~In(app[a].child, "closed")
  /\ app' = [app EXCEPT ![a].win = "undoLauncher", ![a].child = Nobody, ![a].stay = TRUE]
  /\ UNCHANGED <<hostVars, desktop, told, orderly>>

(* The catch of ActivateAndLaunchAsync: Restore of the launcher, then of the *)
(* icon.  A Restore that fails ends the catch with its own exception.        *)
UndoLauncher(a) ==
  /\ In(a, "undoLauncher")
  /\ \/ /\ Show(a, "undoIcon") /\ UNCHANGED orderly
        /\ desktop' = [desktop EXCEPT !.launcher = app[a].saved.launcher]
     \/ Finish(a, FALSE) /\ orderly' = FALSE /\ UNCHANGED desktop
  /\ UNCHANGED <<hostVars, told>>

UndoIcon(a) ==
  /\ In(a, "undoIcon")
  /\ \/ /\ Finish(a, app[a].stay) /\ UNCHANGED orderly
        /\ desktop' = [desktop EXCEPT !.icon = app[a].saved.icon]
     \/ Finish(a, FALSE) /\ orderly' = FALSE /\ UNCHANGED desktop
  /\ UNCHANGED <<hostVars, told>>

(* The catches of ReviewUpdate: the node is started again, but not after a   *)
(* cancellation nor when the replacement may still be there.                 *)
Failed(a) ==
  /\ In(a, "failed")
  /\ IF app[a].stay
     THEN /\ app' = [app EXCEPT ![a].win = "open", ![a].stay = FALSE]
          /\ UNCHANGED hostVars
     ELSE Show(a, "restarting") /\ Call(a, "start")
  /\ UNCHANGED <<desktop, told, orderly>>

Restarted(a) ==
  /\ In(a, "restarting")
  /\ Return(a, "started") \/ Return(a, "failed")
  /\ Show(a, "open")
  /\ UNCHANGED <<desktop, told, orderly>>

(* DisposeAsync of a host that has stopped, and Close. *)
Leave(a) ==
  /\ In(a, "leaving")
  /\ app' = [app EXCEPT ![a] = Closed]
  /\ UNCHANGED <<hostVars, desktop, told, orderly>>

----------------------------------------------------------------------------
(* AcknowledgeAsync, in the replacement app.                                *)

(* request.json is valid, and ready.json is moved into place. *)
Acknowledge(c) ==
  /\ In(c, "hello") /\ Show(c, "waiting")
  /\ UNCHANGED <<hostVars, desktop, told, orderly>>

(* Fault: the replacement does not wait for proceed.json. *)
GoOnAtOnce(c) ==
  /\ In(c, "waiting")
  /\ app' = [app EXCEPT ![c].win = "starting", ![c].go = FALSE]
  /\ Call(c, "start")
  /\ UNCHANGED <<desktop, told, orderly>>

(* proceed.json is there, and the replacement opens its node. *)
GoOn(c) ==
  /\ In(c, "waiting") /\ app[c].go
  /\ app' = [app EXCEPT ![c].win = "starting", ![c].go = FALSE]
  /\ Call(c, "start")
  /\ UNCHANGED <<desktop, told, orderly>>

(* SIGTERM has come, or the 30 seconds of the request are over.  The         *)
(* previous app waits for 20 of them, so that it has given up or ended,      *)
(* unless one of the two stalls.                                             *)
Abandon(c) ==
  /\ app[c].win \in {"hello", "waiting"} /\ ~app[c].go
  /\ app' = [app EXCEPT ![c] = Closed]
  /\ UNCHANGED <<hostVars, desktop, told, orderly>>

----------------------------------------------------------------------------
AppStep(a) ==
  \/ Initialized(a) \/ Quitted(a) \/ NodeStopped(a) \/ WriteIcon(a) \/ WriteLauncher(a)
  \/ Spawn(a) \/ SeeReady(a) \/ Proceed(a) \/ GiveUp(a) \/ ChildGone(a) \/ KillTimesOut(a)
  \/ UndoLauncher(a) \/ UndoIcon(a) \/ Failed(a) \/ Restarted(a) \/ Leave(a)
  \/ Acknowledge(a) \/ GoOn(a) \/ Abandon(a)
  \/ (HostStep(a, app[a].ver) /\ UNCHANGED appVars)

Nature(n) == NodeStep(n) /\ UNCHANGED appVars

Next ==
  \/ \E a \in Apps : Open(a) \/ Decline(a) \/ Quit(a) \/ Review(a) \/ Crash(a) \/ AppStep(a)
  \/ \E n \in Nodes : Nature(n) \/ ((Die(n) \/ Reuse(n)) /\ UNCHANGED appVars)

Spec == Init /\ [][Next]_vars

----------------------------------------------------------------------------
(* The variables have their types. *)
TypeOK ==
  /\ HostType
  /\ app \in [Apps ->
       [win : {"closed", "starting", "open", "quitting", "stopping", "icon", "launcher", "spawn",
               "await", "seen", "killing", "undoLauncher", "undoIcon", "failed", "restarting",
               "leaving", "hello", "waiting"},
        ver : {"old", "new"}, stay : BOOLEAN, go : BOOLEAN,
        child : Apps \cup {Nobody}, saved : [launcher : {"old", "new"}, icon : {"old", "new"}]]]
  /\ desktop \in [launcher : {"old", "new"}, icon : {"old", "new"}]
  /\ told \in BOOLEAN /\ orderly \in BOOLEAN

(* "The GUI owns its node.  It never borrows a running server": a node is    *)
(* asked to stop by the app that started it, or by an app that recovers it   *)
(* after its owner has ended, never under an app that still uses it.         *)
StoppedByOwner ==
  [][\A n \in Nodes, a \in Apps :
       Answers(n) /\ node'[n].st = "saving" /\ host[a].proc = n => host'[a] # host[a]]_vars

(* Whatever crashes, times out, is declined or loses its process id: a       *)
(* running node that was recorded and that no app holds is named by the      *)
(* receipt, so that the next start finds it.                                 *)
RecordedNodeFound ==
  \A n \in Nodes : Live(n) /\ node[n].recorded /\ (\A a \in Apps : host[a].proc # n) => receipt = n

(* Only the death of an app's process leaves a running node without an app:  *)
(* a failed start, a quit, an update and a stop that times out never do.     *)
NodeKeepsOwner ==
  [][(\E a \in Apps : Crash(a)) \/
     \A n \in Nodes : Live(n)' /\ (\E a \in Apps : host[a].proc = n)
                        => \E a \in Apps : host'[a].proc = n]_vars

(* The replacement opens no node while the app that started it may still go  *)
(* back to its own.                                                          *)
HandoverExclusive ==
  \A a \in Apps : app[a].child # Nobody /\ ~In(a, "leaving")
                    => app[app[a].child].win \in {"hello", "waiting", "closed"}

(* "failed launch restores launcher and icon": when no update is under way,  *)
(* shortcut and icon are both of the new version if a replacement was told   *)
(* to go on and both of the old one if not.  The condition leaves out an app *)
(* killed in its update, a Restore that fails, and two windows that update   *)
(* at once, of which the later one may take the other's files for its        *)
(* snapshot.                                                                 *)
DesktopAfterUpdate ==
  orderly /\ (\A a \in Apps : ~Updating(a)) =>
    LET ver == IF told THEN "new" ELSE "old" IN desktop = [launcher |-> ver, icon |-> ver]
=============================================================================

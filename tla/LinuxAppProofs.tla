--------------------------- MODULE LinuxAppProofs ---------------------------
(***************************************************************************)
(* Proofs about LinuxApp over NodeHost, for any sets of app and node        *)
(* processes.                                                               *)
(***************************************************************************)
EXTENDS LinuxApp, TLAPS

(* Windows whose host is at rest and has no process. *)
Quiet == {"closed", "icon", "launcher", "spawn", "await", "seen", "killing", "undoLauncher",
          "undoIcon", "failed", "leaving", "hello", "waiting"}

(* The steps of StartAsync that hold the instance lock. *)
Holding == {"recover", "dialog", "recheck", "dismissing", "launch", "record", "wait"}

(* Which steps of its host a window may be waiting for. *)
WindowInv ==
  \A a \in Apps :
    /\ app[a].win \in Quiet => host[a] = Alone
    /\ app[a].win = "open" => host[a].pc = "idle"
    /\ app[a].win \in {"starting", "restarting"}
         => host[a].pc \in Holding \cup {"start", "clearing", "started", "failed"}
    /\ app[a].win \in {"quitting", "stopping"}
         => host[a].pc \in {"stop", "stopping", "stopped", "failed"}

(* The lock is held by whoever has a process or is about to start one; from  *)
(* the dialog to the stop call the receipt names a process, and it is gone   *)
(* when a new node is started.                                               *)
LockInv ==
  \A a \in Apps :
    /\ host[a].proc # Nobody \/ host[a].pc \in Holding => lock = a
    /\ host[a].pc \in (Holding \ {"record", "wait"}) \cup {"start", "stopped"}
         => host[a].proc = Nobody
    /\ host[a].pc \in {"record", "wait"} => host[a].proc # Nobody
    /\ host[a].pc \in {"launch", "record"} => receipt = Nobody
    /\ host[a].pc \in {"dialog", "recheck", "dismissing"} => receipt # Nobody

(* A running node that was recorded is the one the receipt names. *)
ReceiptInv == \A n \in Nodes : Live(n) /\ node[n].recorded => receipt = n

(* An app waits for at most one replacement, which waits for no other app;   *)
(* proceed.json is there only after the previous app has begun to leave.     *)
HandoverInv ==
  /\ \A a \in Apps :
        (app[a].child # Nobody) = (app[a].win \in {"await", "seen", "killing", "leaving"})
  /\ \A a, b \in Apps : app[a].child = app[b].child /\ app[a].child # Nobody => a = b
  /\ \A a \in Apps : app[a].child # a
  /\ \A c \in Apps :
        app[c].go => In(c, "waiting") /\ \A a \in Apps : app[a].child = c => In(a, "leaving")
  /\ HandoverExclusive

(* The version the desktop files had before the update that is under way.    *)
Settled == LET ver == IF told THEN "new" ELSE "old" IN [launcher |-> ver, icon |-> ver]

(* As long as all updates are orderly there is one at a time; what it has    *)
(* written by now is determined by where it is.                              *)
DesktopInv ==
  orderly =>
    /\ \A a, b \in Apps : Updating(a) /\ Updating(b) => a = b
    /\ (\A a \in Apps : ~Updating(a)) => desktop = Settled
    /\ \A a \in Apps : Updating(a) =>
         /\ app[a].saved = Settled
         /\ desktop = CASE app[a].win \in {"stopping", "icon"} -> Settled
                        [] app[a].win \in {"launcher", "undoIcon"} -> [Settled EXCEPT !.icon = "new"]
                        [] OTHER -> [launcher |-> "new", icon |-> "new"]

HostInv == HostType /\ WindowInv /\ LockInv /\ ReceiptInv
IInv == TypeOK /\ HostInv /\ HandoverInv /\ DesktopInv

USE HostAssumption
USE DEF Goto, At, Alone, Ended, Live, Gone

-----------------------------------------------------------------------------
(* The host.                                                               *)

(* No window is open and no node runs.                                     *)
LEMMA InitHostInv == Init => HostInv
BY DEF Init, HostInit, HostInv, HostType, WindowInv, LockInv, ReceiptInv, Closed, Quiet, Holding

(* The states of the node processes. *)
States == {"new", "serving", "saving", "gone", "reused"}
Processes == [st : States, ver : {"old", "new"}, recorded : BOOLEAN]

(* A node process changes its state.                                       *)
LEMMA BecomeType ==
  ASSUME node \in [Nodes -> Processes], NEW n \in Nodes, NEW st \in States, Become(n, st)
  PROVE  node' \in [Nodes -> Processes]
<1>1. Ended(st) \in Processes /\ [node[n] EXCEPT !.st = st] \in Processes
  BY Zenon DEF Processes
<1> QED
  BY <1>1, Zenon DEF Become

(* StopCoreAsync keeps the types. *)
LEMMA StopCoreType ==
  ASSUME HostType, NEW a \in Apps,
         StopCore(a, "clearing", "failed") \/ StopCore(a, "stopping", "stopped")
  PROVE  HostType'
<1>1. node' \in [Nodes -> Processes]
  <2>1. CASE IsRunning(a)
    <3>1. host[a].proc \in Nodes /\ Asked(host[a].proc) \in States
      BY <2>1, Zenon DEF HostType, IsRunning, Asked, States
    <3> QED
      BY <2>1, <3>1, BecomeType DEF StopCore, HostType, Processes, States
  <2>2. CASE ~IsRunning(a)
    BY <2>2, Zenon DEF StopCore, HostType, Processes, States
  <2> QED
    BY <2>1, <2>2, Zenon
<1>2. receipt' \in Nodes \cup {Nobody} /\ lock' \in Apps \cup {Nobody}
  BY Zenon DEF HostType, StopCore, LetGo, Release
<1> QED
  BY <1>1, <1>2 DEF HostType, StopCore, LetGo, Processes, States

(* gui-instance.lock is taken, or the start fails. *)
LEMMA OpenLockStep ==
  ASSUME HostInv, NEW a \in Apps, OpenLock(a), app' = app
  PROVE  HostInv'
<1>1. HostType'
  BY DEF HostInv, HostType, LockInv, OpenLock, Fail, StopCore, LetGo, Release, IsRunning, Become,
         Asked
<1>2. WindowInv'
  BY DEF HostInv, HostType, WindowInv, LockInv, Quiet, Holding, OpenLock, Fail, StopCore, LetGo,
         Release, IsRunning, Become, Asked
<1>3. LockInv'
  BY DEF HostInv, HostType, LockInv, Holding, OpenLock, Fail, StopCore, LetGo, Release, IsRunning,
         Become, Asked
<1>4. ReceiptInv'
  BY Zenon DEF HostInv, HostType, LockInv, ReceiptInv, Holding, OpenLock, Fail, StopCore, LetGo, Release,
         IsRunning, Become, Asked
<1> QED
  BY <1>1, <1>2, <1>3, <1>4, Zenon DEF HostInv

(* RecoverPreviousNodeAsync up to its dialog. *)
LEMMA RecoverStep ==
  ASSUME HostInv, NEW a \in Apps, NEW ver \in {"old", "new"}, Recover(a, ver), app' = app
  PROVE  HostInv'
<1>1. HostType'
  BY DEF HostInv, HostType, LockInv, Recover, Verified, Answers
<1>2. WindowInv'
  BY DEF HostInv, HostType, WindowInv, LockInv, Quiet, Holding, Recover, Verified, Answers
<1>3. LockInv'
  BY DEF HostInv, HostType, LockInv, Holding, Recover, Verified, Answers
<1>4. ReceiptInv'
  BY Zenon DEF HostInv, HostType, LockInv, ReceiptInv, Holding, Recover, Verified, Answers
<1> QED
  BY <1>1, <1>2, <1>3, <1>4, Zenon DEF HostInv

(* The dialog is answered. *)
LEMMA ConfirmStep ==
  ASSUME HostInv, NEW a \in Apps, Confirm(a), app' = app
  PROVE  HostInv'
<1>1. HostType'
  BY DEF HostInv, HostType, LockInv, Confirm
<1>2. WindowInv'
  BY DEF HostInv, HostType, WindowInv, LockInv, Quiet, Holding, Confirm
<1>3. LockInv'
  BY DEF HostInv, HostType, LockInv, Holding, Confirm
<1>4. ReceiptInv'
  BY Zenon DEF HostInv, HostType, LockInv, ReceiptInv, Holding, Confirm
<1> QED
  BY <1>1, <1>2, <1>3, <1>4, Zenon DEF HostInv

(* The stop call to the previous node. *)
LEMMA DismissStep ==
  ASSUME HostInv, NEW a \in Apps, NEW ver \in {"old", "new"}, Dismiss(a, ver), app' = app
  PROVE  HostInv'
<1>1. HostType'
  BY DEF HostInv, HostType, LockInv, Dismiss, Verified, Answers, Become
<1>2. WindowInv'
  BY DEF HostInv, HostType, WindowInv, LockInv, Quiet, Holding, Dismiss, Verified, Answers, Become
<1>3. LockInv'
  BY DEF HostInv, HostType, LockInv, Holding, Dismiss, Verified, Answers, Become
<1>4. ReceiptInv'
  BY Zenon DEF HostInv, HostType, LockInv, ReceiptInv, Holding, Dismiss, Verified, Answers, Become
<1> QED
  BY <1>1, <1>2, <1>3, <1>4, Zenon DEF HostInv

(* The previous node has exited. *)
LEMMA DismissedStep ==
  ASSUME HostInv, NEW a \in Apps, Dismissed(a), app' = app
  PROVE  HostInv'
<1>1. HostType'
  BY DEF HostInv, HostType, LockInv, Dismissed
<1>2. WindowInv'
  BY DEF HostInv, HostType, WindowInv, LockInv, Quiet, Holding, Dismissed
<1>3. LockInv'
  BY DEF HostInv, HostType, LockInv, Holding, Dismissed
<1>4. ReceiptInv'
  BY Zenon DEF HostInv, HostType, LockInv, ReceiptInv, Holding, Dismissed
<1> QED
  BY <1>1, <1>2, <1>3, <1>4, Zenon DEF HostInv

(* Process.Start. *)
LEMMA LaunchStep ==
  ASSUME HostInv, NEW a \in Apps, NEW ver \in {"old", "new"}, Launch(a, ver), app' = app
  PROVE  HostInv'
<1>1. HostType'
  BY DEF HostInv, HostType, LockInv, Launch, Answers
<1>2. WindowInv'
  BY DEF HostInv, HostType, WindowInv, LockInv, Quiet, Holding, Launch, Answers
<1>3. LockInv'
  BY DEF HostInv, HostType, LockInv, Holding, Launch, Answers
<1>4. ReceiptInv'
  BY DEF HostInv, HostType, LockInv, ReceiptInv, Holding, Launch, Answers
<1> QED
  BY <1>1, <1>2, <1>3, <1>4, Zenon DEF HostInv

(* RecordOwnershipAsync. *)
LEMMA RecordStep ==
  ASSUME HostInv, NEW a \in Apps, Record(a), app' = app
  PROVE  HostInv'
<1>1. HostType'
  <2>1. host[a].proc \in Nodes /\ IsRunning(a) \in BOOLEAN
    BY Zenon DEF HostInv, HostType, LockInv, Record, IsRunning
  <2>2. [node[host[a].proc] EXCEPT !.recorded = IsRunning(a)] \in Processes
    BY <2>1 DEF HostInv, HostType, Processes, States
  <2>3. node' \in [Nodes -> Processes]
    BY <2>1, <2>2, Zenon DEF Record, HostInv, HostType, Processes, States
  <2> QED
    BY <2>1, <2>3 DEF Record, HostInv, HostType, Processes, States
<1>2. WindowInv'
  BY DEF HostInv, HostType, WindowInv, LockInv, Quiet, Holding, Record, IsRunning
<1>3. LockInv'
  BY Zenon DEF HostInv, HostType, LockInv, Holding, Record, IsRunning
<1>4. ReceiptInv'
  BY DEF HostInv, HostType, LockInv, ReceiptInv, Holding, Record, IsRunning
<1> QED
  BY <1>1, <1>2, <1>3, <1>4, Zenon DEF HostInv

(* The node answers. *)
LEMMA ReadyStep ==
  ASSUME HostInv, NEW a \in Apps, Ready(a), app' = app
  PROVE  HostInv'
<1>1. HostType'
  BY DEF HostInv, HostType, LockInv, Ready, Answers
<1>2. WindowInv'
  BY DEF HostInv, HostType, WindowInv, LockInv, Quiet, Holding, Ready, Answers
<1>3. LockInv'
  BY DEF HostInv, HostType, LockInv, Holding, Ready, Answers
<1>4. ReceiptInv'
  BY Zenon DEF HostInv, HostType, LockInv, ReceiptInv, Holding, Ready, Answers
<1> QED
  BY <1>1, <1>2, <1>3, <1>4, Zenon DEF HostInv

(* An exception of StartAsync. *)
LEMMA ThrowStep ==
  ASSUME HostInv, NEW a \in Apps, Throw(a), app' = app
  PROVE  HostInv'
<1>1. HostType'
  BY StopCoreType, Zenon DEF HostInv, Throw, Fail
<1>2. WindowInv'
  BY DEF HostInv, HostType, WindowInv, LockInv, Quiet, Holding, Throw, Fail, StopCore, LetGo,
         Release, IsRunning, Become, Asked
<1>3. LockInv'
  BY DEF HostInv, HostType, LockInv, Holding, Throw, Fail, StopCore, LetGo, Release, IsRunning,
         Become, Asked
<1>4. ReceiptInv'
  BY DEF HostInv, HostType, LockInv, ReceiptInv, Holding, Throw, Fail, StopCore, LetGo, Release,
         IsRunning, Become, Asked
<1> QED
  BY <1>1, <1>2, <1>3, <1>4, Zenon DEF HostInv

(* StopCoreAsync. *)
LEMMA StopStep ==
  ASSUME HostInv, NEW a \in Apps, Stop(a), app' = app
  PROVE  HostInv'
<1>1. HostType'
  BY StopCoreType, Zenon DEF HostInv, Stop
<1>2. WindowInv'
  BY DEF HostInv, HostType, WindowInv, LockInv, Quiet, Holding, Stop, StopCore, LetGo, Release,
         IsRunning, Become, Asked
<1>3. LockInv'
  BY DEF HostInv, HostType, LockInv, Holding, Stop, StopCore, LetGo, Release, IsRunning, Become,
         Asked
<1>4. ReceiptInv'
  BY DEF HostInv, HostType, LockInv, ReceiptInv, Holding, Stop, StopCore, LetGo, Release, IsRunning,
         Become, Asked
<1> QED
  BY <1>1, <1>2, <1>3, <1>4, Zenon DEF HostInv

(* The node still saves. *)
LEMMA StopTimesOutStep ==
  ASSUME HostInv, NEW a \in Apps, StopTimesOut(a), app' = app
  PROVE  HostInv'
<1>1. HostType'
  BY DEF HostInv, HostType, LockInv, StopTimesOut, IsRunning
<1>2. WindowInv'
  BY DEF HostInv, HostType, WindowInv, LockInv, Quiet, Holding, StopTimesOut, IsRunning
<1>3. LockInv'
  BY DEF HostInv, HostType, LockInv, Holding, StopTimesOut, IsRunning
<1>4. ReceiptInv'
  BY Zenon DEF HostInv, HostType, LockInv, ReceiptInv, Holding, StopTimesOut, IsRunning
<1> QED
  BY <1>1, <1>2, <1>3, <1>4, Zenon DEF HostInv

(* The node has exited. *)
LEMMA StoppedStep ==
  ASSUME HostInv, NEW a \in Apps, Stopped(a), app' = app
  PROVE  HostInv'
<1>1. HostType'
  BY Zenon DEF HostInv, HostType, LockInv, Stopped, LetGo, Release, IsRunning
<1>2. WindowInv'
  BY DEF HostInv, HostType, WindowInv, LockInv, Quiet, Holding, Stopped, LetGo, Release, IsRunning
<1>3. LockInv'
  BY Zenon DEF HostInv, HostType, LockInv, Holding, Stopped, LetGo, Release, IsRunning
<1>4. ReceiptInv'
  BY Zenon DEF HostInv, HostType, LockInv, ReceiptInv, Holding, Stopped, LetGo, Release, IsRunning
<1> QED
  BY <1>1, <1>2, <1>3, <1>4, Zenon DEF HostInv

(* The node processes themselves, which no app holds back. *)
LEMMA NatureStep ==
  ASSUME HostInv, NEW n \in Nodes, NodeStep(n) \/ Die(n) \/ Reuse(n), app' = app
  PROVE  HostInv'
<1>1. PICK st \in States : Become(n, st) /\ (st \in {"gone", "reused"} \/ Live(n))
  BY Zenon DEF NodeStep, LockDirectories, Exit, Die, Reuse, States
<1>2. UNCHANGED <<receipt, lock, host>>
  BY Zenon DEF NodeStep, LockDirectories, Exit, Die, Reuse
<1>3. HostType'
  BY <1>1, <1>2, BecomeType, Zenon DEF HostInv, HostType, Processes, States
<1>4. WindowInv' /\ LockInv'
  BY <1>2, Zenon DEF HostInv, WindowInv, LockInv
<1>5. ReceiptInv'
  BY <1>1, <1>2, Zenon DEF HostInv, HostType, ReceiptInv, Become
<1> QED
  BY <1>3, <1>4, <1>5, Zenon DEF HostInv

(* Every step of CoreHost, on behalf of one window, keeps its invariant.   *)
LEMMA HostStepKeeps ==
  ASSUME HostInv, TypeOK, NEW a \in Apps, HostStep(a, app[a].ver), app' = app
  PROVE  HostInv'
<1>1. app[a].ver \in {"old", "new"}
  BY Zenon DEF TypeOK
<1> QED
  BY <1>1, OpenLockStep, RecoverStep, ConfirmStep, DismissStep, DismissedStep, LaunchStep,
     RecordStep, ReadyStep, ThrowStep, StopStep, StopTimesOutStep, StoppedStep, Zenon
     DEF HostStep

(* A window that goes on without its host is one whose host is at rest. *)
LEMMA WindowMoves ==
  ASSUME HostInv, UNCHANGED hostVars,
         \A a \in Apps : \/ app'[a].win = app[a].win
                         \/ app[a].win \in Quiet /\ app'[a].win \in Quiet \cup {"open"}
  PROVE  HostInv'
<1>1. HostType' /\ LockInv' /\ ReceiptInv'
  BY Zenon DEF hostVars, HostInv, HostType, LockInv, ReceiptInv
<1>2. WindowInv'
  BY DEF hostVars, HostInv, WindowInv, Quiet
<1> QED
  BY <1>1, <1>2, Zenon DEF HostInv

(* A window calls its host or hears from it; the others stay. *)
LEMMA WindowCalls ==
  ASSUME HostInv, NEW a \in Apps, NEW pc \in {"idle", "start", "stop"}, Call(a, pc),
         \A b \in Apps \ {a} : app'[b].win = app[b].win,
         pc = "start" => host[a].proc = Nobody,
         \/ app'[a].win = "open" /\ pc = "idle"
         \/ app'[a].win \in Quiet /\ pc = "idle" /\ host[a].proc = Nobody
         \/ app'[a].win \in {"starting", "restarting"} /\ pc = "start"
         \/ app'[a].win \in {"quitting", "stopping"} /\ pc = "stop"
  PROVE  HostInv'
<1>1. HostType'
  BY DEF Call, HostInv, HostType
<1>2. LockInv'
  BY DEF Call, HostInv, HostType, LockInv, Holding
<1>3. ReceiptInv'
  BY Zenon DEF Call, HostInv, ReceiptInv
<1>4. WindowInv'
  BY DEF Call, HostInv, HostType, WindowInv, Quiet, Holding
<1> QED
  BY <1>1, <1>2, <1>3, <1>4, Zenon DEF HostInv

(* The host answers and the window is open again. *)
LEMMA HostReturns ==
  ASSUME HostInv, NEW a \in Apps, Call(a, "idle"), app'[a].win = "open",
         \A b \in Apps \ {a} : app'[b].win = app[b].win
  PROVE  HostInv'
BY WindowCalls, Zenon

(* A window without a node asks its host to start one. *)
LEMMA HostStarts ==
  ASSUME HostInv, NEW a \in Apps, Call(a, "start"), host[a].proc = Nobody,
         app'[a].win \in {"starting", "restarting"},
         \A b \in Apps \ {a} : app'[b].win = app[b].win
  PROVE  HostInv'
BY WindowCalls, Zenon

(* A window asks its host to stop the node. *)
LEMMA HostStops ==
  ASSUME HostInv, NEW a \in Apps, Call(a, "stop"), app'[a].win \in {"quitting", "stopping"},
         \A b \in Apps \ {a} : app'[b].win = app[b].win
  PROVE  HostInv'
BY WindowCalls, Zenon

(* The process of an app ends: its node stays, its lock does not. *)
LEMMA CrashStep ==
  ASSUME HostInv, TypeOK, NEW a \in Apps, Crash(a)
  PROVE  HostInv'
<1>1. HostType'
  BY Zenon DEF Crash, Release, HostInv, HostType
<1>2. LockInv'
  BY Zenon DEF Crash, Release, HostInv, HostType, LockInv, Holding
<1>3. ReceiptInv'
  BY Zenon DEF Crash, HostInv, ReceiptInv
<1>4. WindowInv'
  BY DEF Crash, Closed, TypeOK, HostInv, HostType, WindowInv, Quiet, Holding
<1> QED
  BY <1>1, <1>2, <1>3, <1>4, Zenon DEF HostInv

-----------------------------------------------------------------------------
(* The windows.                                                            *)

Names == {"closed", "starting", "open", "quitting", "stopping", "icon", "launcher", "spawn",
          "await", "seen", "killing", "undoLauncher", "undoIcon", "failed", "restarting",
          "leaving", "hello", "waiting"}
Desktops == [launcher : {"old", "new"}, icon : {"old", "new"}]
Windows == [win : Names, ver : {"old", "new"}, stay : BOOLEAN, go : BOOLEAN,
            child : Apps \cup {Nobody}, saved : Desktops]

(* The type invariant, by the record sets named above.                     *)
LEMMA WindowTypes ==
  TypeOK <=> /\ HostType /\ app \in [Apps -> Windows] /\ desktop \in Desktops
             /\ told \in BOOLEAN /\ orderly \in BOOLEAN
BY Zenon DEF TypeOK, Names, Desktops, Windows

(* The record of a window that is not open.                                *)
LEMMA ClosedType == Closed \in Windows /\ Closed.saved \in Desktops
BY Zenon DEF Closed, Windows, Names, Desktops

(* The changes that the windows make to their records. *)
LEMMA RecordTypes ==
  ASSUME NEW r \in Windows, NEW w \in Names, NEW s \in BOOLEAN, NEW d \in Desktops,
         NEW c \in Apps \cup {Nobody}
  PROVE  /\ [r EXCEPT !.win = w] \in Windows
         /\ [r EXCEPT !.go = s] \in Windows
         /\ [r EXCEPT !.win = w, !.saved = d] \in Windows
         /\ [r EXCEPT !.win = w, !.stay = s] \in Windows
         /\ [r EXCEPT !.win = w, !.go = s] \in Windows
         /\ [r EXCEPT !.win = w, !.child = c] \in Windows
         /\ [r EXCEPT !.win = w, !.child = c, !.stay = s] \in Windows
         /\ [r EXCEPT !.win = w, !.stay = s, !.saved = d] \in Windows
BY Zenon DEF Windows

(* One window's record is replaced. *)
LEMMA Replaced ==
  ASSUME TypeOK, NEW a \in Apps, NEW r \in Windows, app' = [app EXCEPT ![a] = r]
  PROVE  app' \in [Apps -> Windows] /\ app'[a] = r /\ \A b \in Apps \ {a} : app'[b] = app[b]
BY WindowTypes, Zenon

(* What a step does to the one window it changes. *)
Effect(a, win, child, go, saved) ==
  /\ app' \in [Apps -> Windows]
  /\ app'[a].win = win /\ app'[a].child = child /\ app'[a].go = go /\ app'[a].saved = saved
  /\ \A b \in Apps \ {a} : app'[b] = app[b]

(* A window goes to another state.                                         *)
LEMMA ShowEffect ==
  ASSUME TypeOK, NEW a \in Apps, NEW w \in Names, Show(a, w)
  PROVE  Effect(a, w, app[a].child, app[a].go, app[a].saved)
<1>1. app \in [Apps -> Windows] /\ [app[a] EXCEPT !.win = w] \in Windows
  BY WindowTypes, Zenon DEF Windows
<1> QED
  BY <1>1, Zenon DEF Show, Effect, Windows

(* A window goes to another state and notes the desktop entries.           *)
LEMMA SavedEffect ==
  ASSUME TypeOK, NEW a \in Apps, NEW w \in Names, NEW d \in Desktops,
         app' = [app EXCEPT ![a].win = w, ![a].saved = d]
  PROVE  Effect(a, w, app[a].child, app[a].go, d)
<1>1. app \in [Apps -> Windows] /\ [app[a] EXCEPT !.win = w, !.saved = d] \in Windows
  BY WindowTypes, Zenon DEF Windows
<1> QED
  BY <1>1, Zenon DEF Effect, Windows

(* A window goes to another state and notes whether it stays open.         *)
LEMMA StayEffect ==
  ASSUME TypeOK, NEW a \in Apps, NEW w \in Names, NEW s \in BOOLEAN,
         app' = [app EXCEPT ![a].win = w, ![a].stay = s]
  PROVE  Effect(a, w, app[a].child, app[a].go, app[a].saved)
<1>1. app \in [Apps -> Windows] /\ [app[a] EXCEPT !.win = w, !.stay = s] \in Windows
  BY WindowTypes, Zenon DEF Windows
<1> QED
  BY <1>1, Zenon DEF Effect, Windows

(* A window whose update failed drops what it noted.                       *)
LEMMA FinishEffect ==
  ASSUME TypeOK, NEW a \in Apps, NEW s \in BOOLEAN, Finish(a, s)
  PROVE  Effect(a, "failed", app[a].child, app[a].go, Closed.saved)
<1>1. app \in [Apps -> Windows]
  BY WindowTypes, Zenon
<1>2. [app[a] EXCEPT !.win = "failed", !.stay = s, !.saved = Closed.saved] \in Windows
  BY <1>1, ClosedType, Zenon DEF Windows, Names
<1> QED
  BY <1>1, <1>2, Zenon DEF Effect, Windows, Finish

(* The type invariant of the next state, part by part.                     *)
LEMMA TypeKept ==
  ASSUME HostInv', app' \in [Apps -> Windows], desktop' \in Desktops,
         told' \in BOOLEAN, orderly' \in BOOLEAN
  PROVE  TypeOK'
BY Zenon DEF HostInv, TypeOK, Names, Desktops, Windows

(* Steps that leave the windows and the desktop alone. *)
LEMMA HostMoves ==
  ASSUME IInv, HostInv', UNCHANGED appVars
  PROVE  IInv'
BY DEF IInv, HostInv, TypeOK, appVars, HandoverInv, HandoverExclusive, DesktopInv, In, Updating,
       Settled

(* Windows that neither wait for a replacement nor are one. *)
Single == {"starting", "open", "quitting", "stopping", "icon", "launcher", "spawn", "undoLauncher",
           "undoIcon", "failed", "restarting"}

(* Such windows disturb no handover.                                       *)
LEMMA SingleMoves ==
  ASSUME IInv, NEW a \in Apps, NEW w \in Single, NEW d, app[a].win \in Single,
         Effect(a, w, app[a].child, app[a].go, d)
  PROVE  HandoverInv'
<1>1. /\ \A b \in Apps : app'[b].child = app[b].child /\ app'[b].go = app[b].go
      /\ \A b \in Apps : \/ app'[b].win = app[b].win
                         \/ b = a /\ app[b].win \in Single /\ app'[b].win \in Single
  BY Zenon DEF Effect
<1>2. /\ (\A b \in Apps : app[b].child \in Apps \cup {Nobody})
  BY WindowTypes, Zenon DEF IInv, Windows
<1>3. HandoverExclusive'
  BY <1>1, <1>2 DEF IInv, HandoverInv, HandoverExclusive, In, Single
<1> QED
  BY <1>1, <1>3, <1>2 DEF IInv, HandoverInv, In, Single

(* The shortcut is opened. *)
LEMMA OpenKeeps ==
  ASSUME IInv, NEW a \in Apps, Open(a)
  PROVE  IInv'
<1>0. /\ app' \in [Apps -> Windows]
      /\ app'[a] = [Closed EXCEPT !.win = "starting", !.ver = desktop.launcher]
      /\ \A b \in Apps \ {a} : app'[b] = app[b]
  <2>1. desktop.launcher \in {"old", "new"}
    BY WindowTypes, Zenon DEF IInv, Desktops
  <2>2. [Closed EXCEPT !.win = "starting", !.ver = desktop.launcher] \in Windows
    BY <2>1, ClosedType, Zenon DEF Windows, Names
  <2> QED
    BY <2>2, Replaced, Zenon DEF IInv, Open
<1>1. HostInv'
  <2>1. HostInv /\ Call(a, "start") /\ app[a].win = "closed"
    BY Zenon DEF IInv, In, Open, Unused
  <2>2. host[a].proc = Nobody
    BY <2>1 DEF HostInv, WindowInv, Quiet
  <2>3. app'[a].win = "starting" /\ \A b \in Apps \ {a} : app'[b].win = app[b].win
    BY <1>0, Zenon DEF Closed
  <2> QED
    BY <2>1, <2>2, <2>3, HostStarts, Zenon
<1>2. TypeOK'
  BY <1>0, <1>1, TypeKept, WindowTypes, Zenon DEF IInv, Effect, Open, Unused, Closed
<1>3. HandoverInv'
  BY DEF IInv, TypeOK, HandoverInv, HandoverExclusive, In, Open, Unused, Closed
<1>4. DesktopInv'
  BY DEF IInv, TypeOK, DesktopInv, Settled, Updating, In, Open, Unused, Closed
<1> QED
  BY <1>1, <1>2, <1>3, <1>4, Zenon DEF IInv

(* The terms are declined. *)
LEMMA DeclineKeeps ==
  ASSUME IInv, NEW a \in Apps, Decline(a)
  PROVE  IInv'
<1>0. app' \in [Apps -> Windows] /\ app'[a] = Closed /\ \A b \in Apps \ {a} : app'[b] = app[b]
  BY Replaced, ClosedType, Zenon DEF IInv, Decline, Return, Closed
<1>1. HostInv'
  BY WindowCalls, Zenon DEF IInv, TypeOK, HostInv, HostType, WindowInv, LockInv, In, Quiet, Holding,
         Decline, Return, Closed
<1>2. TypeOK'
  BY <1>0, <1>1, TypeKept, WindowTypes, Zenon DEF IInv, Effect, Decline, Return, Closed
<1>3. HandoverInv'
  BY DEF IInv, TypeOK, HandoverInv, HandoverExclusive, In, Decline, Return, Closed
<1>4. DesktopInv'
  BY DEF IInv, TypeOK, DesktopInv, Settled, Updating, In, Decline, Return, Closed
<1> QED
  BY <1>1, <1>2, <1>3, <1>4, Zenon DEF IInv

(* Initialize returns. *)
LEMMA InitializedKeeps ==
  ASSUME IInv, NEW a \in Apps, Initialized(a)
  PROVE  IInv'
<1>0. Effect(a, "open", app[a].child, app[a].go, app[a].saved)
  BY ShowEffect, Zenon DEF IInv, Names, Initialized, Return, Show
<1>1. HostInv'
  <2>1. HostInv /\ Call(a, "idle")
    BY Zenon DEF IInv, Initialized, Return
  <2>2. app'[a].win = "open" /\ \A b \in Apps \ {a} : app'[b].win = app[b].win
    BY <1>0, Zenon DEF Effect
  <2> QED
    BY <2>1, <2>2, HostReturns, Zenon
<1>2. TypeOK'
  BY <1>0, <1>1, TypeKept, WindowTypes, Zenon DEF IInv, Effect, Initialized, Return, Show
<1>3. HandoverInv'
  BY <1>0, SingleMoves, SMTT(30) DEF IInv, TypeOK, Single, In, Initialized, Return, Show
<1>4. DesktopInv'
  BY DEF IInv, TypeOK, DesktopInv, Settled, Updating, In, Initialized, Return, Show
<1> QED
  BY <1>1, <1>2, <1>3, <1>4, Zenon DEF IInv

(* The window is closed by hand. *)
LEMMA QuitKeeps ==
  ASSUME IInv, NEW a \in Apps, Quit(a)
  PROVE  IInv'
<1>0. Effect(a, "quitting", app[a].child, app[a].go, app[a].saved)
  BY ShowEffect, Zenon DEF IInv, Names, Quit, Show
<1>1. HostInv'
  <2>1. HostInv /\ Call(a, "stop")
    BY Zenon DEF IInv, Quit
  <2>2. app'[a].win = "quitting" /\ \A b \in Apps \ {a} : app'[b].win = app[b].win
    BY <1>0, Zenon DEF Effect
  <2> QED
    BY <2>1, <2>2, HostStops, Zenon
<1>2. TypeOK'
  BY <1>0, <1>1, TypeKept, WindowTypes, Zenon DEF IInv, Effect, Quit, Show
<1>3. HandoverInv'
  BY <1>0, SingleMoves, SMTT(30) DEF IInv, TypeOK, Single, In, Quit, Show
<1>4. DesktopInv'
  BY DEF IInv, TypeOK, DesktopInv, Settled, Updating, In, Quit, Show
<1> QED
  BY <1>1, <1>2, <1>3, <1>4, Zenon DEF IInv

(* The node has stopped, or not. *)
LEMMA QuittedKeeps ==
  ASSUME IInv, NEW a \in Apps, Quitted(a)
  PROVE  IInv'
<1>1. HostInv'
  <2>0. HostInv
    BY Zenon DEF IInv
  <2>1. ASSUME Return(a, "stopped"), app' = [app EXCEPT ![a] = Closed] PROVE HostInv'
    <3>1. Call(a, "idle") /\ host[a].proc = Nobody
      BY <2>0, <2>1, Zenon DEF Return, HostInv, LockInv
    <3>2. app'[a].win = "closed" /\ \A b \in Apps \ {a} : app'[b].win = app[b].win
      BY <2>1, Replaced, ClosedType, Zenon DEF IInv, Closed
    <3> QED
      BY <2>0, <3>1, <3>2, WindowCalls, Zenon DEF Quiet
  <2>2. ASSUME Return(a, "failed"), Show(a, "open") PROVE HostInv'
    <3>1. Call(a, "idle")
      BY <2>2, Zenon DEF Return
    <3>2. app'[a].win = "open" /\ \A b \in Apps \ {a} : app'[b].win = app[b].win
      BY <2>2, ShowEffect, Zenon DEF IInv, Names, Effect
    <3> QED
      BY <2>0, <3>1, <3>2, HostReturns, Zenon
  <2> QED
    BY <2>1, <2>2, Zenon DEF Quitted
<1>2. CASE app' = [app EXCEPT ![a] = Closed]
  <2>0. app' \in [Apps -> Windows] /\ app'[a] = Closed /\ \A b \in Apps \ {a} : app'[b] = app[b]
    BY <1>2, Replaced, ClosedType, Zenon DEF IInv
  <2>1. TypeOK'
    BY <1>1, <2>0, TypeKept, WindowTypes, Zenon DEF IInv, Effect, Quitted
  <2>2. HandoverInv'
    BY <1>2 DEF IInv, TypeOK, HandoverInv, HandoverExclusive, In, Quitted, Closed
  <2>3. DesktopInv'
    BY <1>2 DEF IInv, TypeOK, DesktopInv, Settled, Updating, In, Quitted, Closed
  <2> QED
    BY <1>1, <2>1, <2>2, <2>3, Zenon DEF IInv
<1>3. CASE Show(a, "open")
  <2>0. Effect(a, "open", app[a].child, app[a].go, app[a].saved)
    BY <1>3, ShowEffect, Zenon DEF IInv, Names
  <2>1. TypeOK'
    BY <1>1, <2>0, TypeKept, WindowTypes, Zenon DEF IInv, Effect, Quitted
  <2>2. HandoverInv'
    BY <2>0, SingleMoves DEF IInv, TypeOK, Single, In, Quitted
  <2>3. DesktopInv'
    BY <1>3 DEF IInv, TypeOK, DesktopInv, Settled, Updating, In, Quitted, Show
  <2> QED
    BY <1>1, <2>1, <2>2, <2>3, Zenon DEF IInv
<1> QED
  BY <1>2, <1>3, Zenon DEF Quitted

(* The process is killed. *)
LEMMA CrashKeeps ==
  ASSUME IInv, NEW a \in Apps, Crash(a)
  PROVE  IInv'
<1>0. app' \in [Apps -> Windows] /\ app'[a] = Closed /\ \A b \in Apps \ {a} : app'[b] = app[b]
  BY Replaced, ClosedType, Zenon DEF IInv, Crash, Closed
<1>1. HostInv'
  BY CrashStep, Zenon DEF IInv, Crash, Closed
<1>2. TypeOK'
  BY <1>0, <1>1, TypeKept, WindowTypes, Zenon DEF IInv, Effect, Crash, Closed
<1>3. HandoverInv'
  BY DEF IInv, TypeOK, HandoverInv, HandoverExclusive, In, Crash, Closed
<1>4. DesktopInv'
  BY DEF IInv, TypeOK, DesktopInv, Settled, Updating, In, Crash, Closed
<1> QED
  BY <1>1, <1>2, <1>3, <1>4, Zenon DEF IInv

(* An update begins. *)
LEMMA ReviewKeeps ==
  ASSUME IInv, NEW a \in Apps, Review(a)
  PROVE  IInv'
<1>0. Effect(a, "stopping", app[a].child, app[a].go, desktop)
  BY SavedEffect, WindowTypes, Zenon DEF IInv, Names, Review
<1>1. HostInv'
  <2>1. HostInv /\ Call(a, "stop")
    BY Zenon DEF IInv, Review
  <2>2. app'[a].win = "stopping" /\ \A b \in Apps \ {a} : app'[b].win = app[b].win
    BY <1>0, Zenon DEF Effect
  <2> QED
    BY <2>1, <2>2, HostStops, Zenon
<1>2. TypeOK'
  BY <1>0, <1>1, TypeKept, WindowTypes, Zenon DEF IInv, Effect, Review
<1>3. HandoverInv'
  <2>1. app[a].win \in Single /\ "stopping" \in Single
    BY Zenon DEF Review, In, Single
  <2> QED
    BY <1>0, <2>1, SingleMoves, Zenon
<1>4. DesktopInv'
  <2> SUFFICES ASSUME orderly' PROVE DesktopInv'
    BY Zenon DEF DesktopInv
  <2>1. orderly /\ \A b \in Apps : ~Updating(b)
    BY Zenon DEF Review
  <2>2. desktop = Settled /\ desktop' = desktop /\ Settled' = Settled
    BY <2>1, Zenon DEF IInv, DesktopInv, Settled, Review
  <2>3. \A b \in Apps \ {a} : ~Updating(b)'
    BY <1>0, <2>1, Zenon DEF Updating, Effect
  <2>4. Updating(a)' /\ app'[a].win = "stopping" /\ app'[a].saved = desktop
    BY <1>0, Zenon DEF Updating, Effect
  <2> QED
    BY <2>2, <2>3, <2>4, Zenon DEF DesktopInv
<1> QED
  BY <1>1, <1>2, <1>3, <1>4, Zenon DEF IInv

(* The update has stopped the node, or not. *)
LEMMA NodeStoppedKeeps ==
  ASSUME IInv, NEW a \in Apps, NodeStopped(a)
  PROVE  IInv'
<1>1. HostInv'
  <2>0. HostInv
    BY Zenon DEF IInv
  <2>1. ASSUME Return(a, "stopped"), Show(a, "icon") PROVE HostInv'
    <3>1. Call(a, "idle") /\ host[a].proc = Nobody
      BY <2>0, <2>1, Zenon DEF Return, HostInv, LockInv
    <3>2. app'[a].win = "icon" /\ \A b \in Apps \ {a} : app'[b].win = app[b].win
      BY <2>1, ShowEffect, Zenon DEF IInv, Names, Effect
    <3> QED
      BY <2>0, <3>1, <3>2, WindowCalls, Zenon DEF Quiet
  <2>2. ASSUME Return(a, "failed"),
               app' = [app EXCEPT ![a].win = "open", ![a].saved = Closed.saved]
        PROVE  HostInv'
    <3>1. Call(a, "idle")
      BY <2>2, Zenon DEF Return
    <3>2. app'[a].win = "open" /\ \A b \in Apps \ {a} : app'[b].win = app[b].win
      <4>1. Effect(a, "open", app[a].child, app[a].go, Closed.saved)
        BY <2>2, SavedEffect, ClosedType, Zenon DEF IInv, Names
      <4> QED
        BY <4>1, Zenon DEF Effect
    <3> QED
      BY <2>0, <3>1, <3>2, HostReturns, Zenon
  <2> QED
    BY <2>1, <2>2, Zenon DEF NodeStopped
<1>2. CASE Show(a, "icon")
  <2>0. Effect(a, "icon", app[a].child, app[a].go, app[a].saved)
    BY <1>2, ShowEffect, Zenon DEF IInv, Names
  <2>1. TypeOK'
    BY <1>1, <2>0, TypeKept, WindowTypes, Zenon DEF IInv, Effect, NodeStopped
  <2>2. HandoverInv'
    BY <2>0, SingleMoves DEF IInv, TypeOK, Single, In, NodeStopped
  <2>3. DesktopInv'
    BY <1>2 DEF IInv, TypeOK, DesktopInv, Settled, Updating, In, NodeStopped, Show
  <2> QED
    BY <1>1, <2>1, <2>2, <2>3, Zenon DEF IInv
<1>3. CASE app' = [app EXCEPT ![a].win = "open", ![a].saved = Closed.saved]
  <2>0. Effect(a, "open", app[a].child, app[a].go, Closed.saved)
    BY <1>3, SavedEffect, ClosedType, Zenon DEF IInv, Names
  <2>1. TypeOK'
    BY <1>1, <2>0, TypeKept, WindowTypes, Zenon DEF IInv, Effect, NodeStopped
  <2>2. HandoverInv'
    BY <2>0, SingleMoves DEF IInv, TypeOK, Single, In, NodeStopped
  <2>3. DesktopInv'
    BY <1>3 DEF IInv, TypeOK, DesktopInv, Settled, Updating, In, NodeStopped
  <2> QED
    BY <1>1, <2>1, <2>2, <2>3, Zenon DEF IInv
<1> QED
  BY <1>2, <1>3, Zenon DEF NodeStopped

(* The icon is written. *)
LEMMA WriteIconKeeps ==
  ASSUME IInv, NEW a \in Apps, WriteIcon(a)
  PROVE  IInv'
<1>1. CASE Show(a, "launcher") /\ desktop' = [desktop EXCEPT !.icon = "new"]
  <2>0. Effect(a, "launcher", app[a].child, app[a].go, app[a].saved)
    BY <1>1, ShowEffect, Zenon DEF IInv, Names
  <2>1. HostInv'
    BY <2>0, WindowMoves, WindowTypes, Zenon DEF IInv, Windows, In, Quiet, Effect, WriteIcon
  <2>2. TypeOK'
    BY <1>1, <2>0, <2>1, TypeKept, WindowTypes, Zenon DEF IInv, Effect, Desktops, Windows, WriteIcon
  <2>3. HandoverInv'
    BY <2>0, SingleMoves, WindowTypes DEF IInv, Windows, Single, In, WriteIcon
  <2>4. DesktopInv'
    BY <1>1, <2>0, WindowTypes DEF IInv, Windows, DesktopInv, Settled, Updating, In, Effect,
           WriteIcon
  <2> QED
    BY <2>1, <2>2, <2>3, <2>4, Zenon DEF IInv
<1>2. CASE Finish(a, FALSE) /\ UNCHANGED desktop
  <2>0. Effect(a, "failed", app[a].child, app[a].go, Closed.saved)
    BY <1>2, FinishEffect, ShowEffect, Zenon DEF IInv, Names
  <2>1. HostInv'
    BY <2>0, WindowMoves, WindowTypes, Zenon DEF IInv, Windows, In, Quiet, Effect, WriteIcon
  <2>2. TypeOK'
    BY <1>2, <2>0, <2>1, TypeKept, WindowTypes, Zenon DEF IInv, Effect, WriteIcon
  <2>3. HandoverInv'
    BY <2>0, SingleMoves, WindowTypes DEF IInv, Windows, Single, In, WriteIcon
  <2>4. DesktopInv'
    BY <1>2, <2>0, WindowTypes DEF IInv, Windows, DesktopInv, Settled, Updating, In, Effect,
           WriteIcon
  <2> QED
    BY <2>1, <2>2, <2>3, <2>4, Zenon DEF IInv
<1> QED
  BY <1>1, <1>2, Zenon DEF WriteIcon

(* The launcher is written. *)
LEMMA WriteLauncherKeeps ==
  ASSUME IInv, NEW a \in Apps, WriteLauncher(a)
  PROVE  IInv'
<1>1. CASE Show(a, "spawn") /\ desktop' = [desktop EXCEPT !.launcher = "new"]
  <2>0. Effect(a, "spawn", app[a].child, app[a].go, app[a].saved)
    BY <1>1, ShowEffect, Zenon DEF IInv, Names
  <2>1. HostInv'
    BY <2>0, WindowMoves, WindowTypes, Zenon DEF IInv, Windows, In, Quiet, Effect, WriteLauncher
  <2>2. TypeOK'
    BY <1>1, <2>0, <2>1, TypeKept, WindowTypes, Zenon DEF IInv, Effect, Desktops, Windows, WriteLauncher
  <2>3. HandoverInv'
    BY <2>0, SingleMoves, WindowTypes DEF IInv, Windows, Single, In, WriteLauncher
  <2>4. DesktopInv'
    BY <1>1, <2>0, WindowTypes DEF IInv, Windows, DesktopInv, Settled, Updating, In, Effect,
           WriteLauncher
  <2> QED
    BY <2>1, <2>2, <2>3, <2>4, Zenon DEF IInv
<1>2. CASE Show(a, "undoIcon") /\ UNCHANGED desktop
  <2>0. Effect(a, "undoIcon", app[a].child, app[a].go, app[a].saved)
    BY <1>2, FinishEffect, ShowEffect, Zenon DEF IInv, Names
  <2>1. HostInv'
    BY <2>0, WindowMoves, WindowTypes, Zenon DEF IInv, Windows, In, Quiet, Effect, WriteLauncher
  <2>2. TypeOK'
    BY <1>2, <2>0, <2>1, TypeKept, WindowTypes, Zenon DEF IInv, Effect, WriteLauncher
  <2>3. HandoverInv'
    BY <2>0, SingleMoves, WindowTypes DEF IInv, Windows, Single, In, WriteLauncher
  <2>4. DesktopInv'
    BY <1>2, <2>0, WindowTypes DEF IInv, Windows, DesktopInv, Settled, Updating, In, Effect,
           WriteLauncher
  <2> QED
    BY <2>1, <2>2, <2>3, <2>4, Zenon DEF IInv
<1> QED
  BY <1>1, <1>2, Zenon DEF WriteLauncher

(* The replacement is started. *)
LEMMA SpawnKeeps ==
  ASSUME IInv, NEW a \in Apps, Spawn(a)
  PROVE  IInv'
<1>1. CASE Show(a, "undoLauncher")
  <2>0. Effect(a, "undoLauncher", app[a].child, app[a].go, app[a].saved)
    BY <1>1, ShowEffect, Zenon DEF IInv, Names
  <2>1. HostInv'
    BY <2>0, WindowMoves, WindowTypes, Zenon DEF IInv, Windows, In, Quiet, Effect, Spawn
  <2>2. TypeOK'
    BY <2>0, <2>1, TypeKept, WindowTypes, Zenon DEF IInv, Effect, Spawn
  <2>3. HandoverInv'
    BY <2>0, SingleMoves, WindowTypes DEF IInv, Windows, Single, In, Spawn
  <2>4. DesktopInv'
    BY <1>1 DEF IInv, TypeOK, DesktopInv, Settled, Updating, In, Spawn, Show
  <2> QED
    BY <2>1, <2>2, <2>3, <2>4, Zenon DEF IInv
<1>2. ASSUME NEW c \in Apps, Unused(c),
             app' = [app EXCEPT ![a].win = "await", ![a].child = c,
                                ![c] = [Closed EXCEPT !.win = "hello", !.ver = "new"]]
      PROVE  IInv'
  <2> DEFINE started == [Closed EXCEPT !.win = "hello", !.ver = "new"]
  <2>0. c # a /\ app[c].win = "closed" /\ \A b \in Apps : app[b].child # c
    BY <1>2, Zenon DEF Unused, In, Spawn
  <2>1. started \in Windows /\ [app[a] EXCEPT !.win = "await", !.child = c] \in Windows
    BY ClosedType, WindowTypes, Zenon DEF IInv, Windows, Names
  <2>2. /\ app' \in [Apps -> Windows] /\ app'[a] = [app[a] EXCEPT !.win = "await", !.child = c]
        /\ app'[c] = started /\ \A b \in Apps \ {a, c} : app'[b] = app[b]
    BY <1>2, <2>0, <2>1, WindowTypes, Zenon DEF IInv
  <2>3. /\ app'[a].win = "await" /\ app'[a].child = c /\ app'[a].go = app[a].go
        /\ app'[a].saved = app[a].saved
        /\ app'[c].win = "hello" /\ app'[c].child = Nobody /\ app'[c].go = FALSE
    BY <2>0, <2>2, WindowTypes DEF IInv, Windows, Closed
  <2>4. \A b \in Apps : b # a /\ b # c => app'[b] = app[b]
    BY <2>2, Zenon
  <2> HIDE DEF started
  <2>5. HostInv'
    BY <2>0, <2>3, <2>4, WindowMoves, Zenon DEF IInv, In, Quiet, Effect, Spawn
  <2>6. TypeOK'
    BY <2>2, <2>5, TypeKept, WindowTypes, Zenon DEF IInv, Effect, Spawn
  <2>7. HandoverInv'
    <3>0. \A b \in Apps : app[b].child \in Apps \cup {Nobody}
      BY WindowTypes, Zenon DEF IInv, Windows
    <3>1. /\ app[a].win = "spawn" /\ app[a].child = Nobody /\ ~app[a].go /\ app[c].child = Nobody
          /\ ~app[c].go
      BY <2>0, Zenon DEF IInv, HandoverInv, In, Spawn
    <3>2. HandoverExclusive'
      BY <2>0, <2>3, <2>4, <3>0, <3>1 DEF IInv, HandoverInv, HandoverExclusive, In
    <3>3. ASSUME NEW d \in Apps, app'[d].go
          PROVE  In(d, "waiting")' /\ \A b \in Apps : app'[b].child = d => In(b, "leaving")'
      <4>1. d # a /\ d # c /\ app[d].go
        BY <2>3, <2>4, <3>1, <3>3, Zenon
      <4> QED
        BY <2>3, <2>4, <4>1 DEF IInv, HandoverInv, In
    <3>4. \A b \in Apps :
            (app'[b].child # Nobody) = (app'[b].win \in {"await", "seen", "killing", "leaving"})
      BY <2>3, <2>4 DEF IInv, HandoverInv
    <3>5. \A b, d \in Apps : app'[b].child = app'[d].child /\ app'[b].child # Nobody => b = d
      BY <2>0, <2>3, <2>4 DEF IInv, HandoverInv
    <3>6. \A b \in Apps : app'[b].child # b
      BY <2>0, <2>3, <2>4, Zenon DEF IInv, HandoverInv
    <3> QED
      BY <3>2, <3>3, <3>4, <3>5, <3>6, Zenon DEF HandoverInv
  <2>8. DesktopInv'
    <3>0. app[a].win = "spawn"
      BY Zenon DEF In, Spawn
    <3>1. \A b \in Apps : Updating(b)' = Updating(b)
      BY <2>0, <2>3, <2>4, <3>0 DEF Updating
    <3>2. \A b \in Apps :
            Updating(b) => app'[b].saved = app[b].saved /\ (b = a \/ app'[b].win = app[b].win)
      BY <2>0, <2>3, <2>4, Zenon DEF Updating
    <3>3. Settled' = Settled /\ desktop' = desktop /\ orderly' = orderly
      BY Zenon DEF Settled, Spawn
    <3> QED
      BY <2>3, <3>1, <3>2, <3>3 DEF IInv, DesktopInv, In, Spawn
  <2> QED
    BY <2>5, <2>6, <2>7, <2>8, Zenon DEF IInv
<1> QED
  BY <1>1, <1>2, Zenon DEF Spawn

(* ready.json is seen. *)
LEMMA SeeReadyKeeps ==
  ASSUME IInv, NEW a \in Apps, SeeReady(a)
  PROVE  IInv'
<1>0. Effect(a, "seen", app[a].child, app[a].go, app[a].saved)
  BY ShowEffect, Zenon DEF IInv, Names, SeeReady, Show
<1>1. HostInv'
  BY WindowMoves DEF IInv, TypeOK, HandoverInv, In, Quiet, SeeReady, Show
<1>2. TypeOK'
  BY <1>0, <1>1, TypeKept, WindowTypes, Zenon DEF IInv, Effect, SeeReady, Show
<1>3. HandoverInv'
  BY DEF IInv, TypeOK, HandoverInv, HandoverExclusive, In, SeeReady, Show
<1>4. DesktopInv'
  BY DEF IInv, TypeOK, DesktopInv, Settled, Updating, In, SeeReady, Show
<1> QED
  BY <1>1, <1>2, <1>3, <1>4, Zenon DEF IInv

(* proceed.json is written. *)
LEMMA ProceedKeeps ==
  ASSUME IInv, NEW a \in Apps, Proceed(a)
  PROVE  IInv'
<1> DEFINE c == app[a].child
<1>0. c \in Apps /\ c # a /\ app[a].win = "seen" /\ app[c].win \in {"hello", "waiting", "closed"}
  BY WindowTypes DEF IInv, Windows, HandoverInv, HandoverExclusive, Proceed, In
<1>1. /\ [app[a] EXCEPT !.win = "leaving"] \in Windows
      /\ [app[c] EXCEPT !.go = In(c, "waiting")] \in Windows
  <2>1. app[a] \in Windows /\ app[c] \in Windows
    BY <1>0, WindowTypes, Zenon DEF IInv
  <2>2. In(c, "waiting") \in BOOLEAN /\ "leaving" \in Names
    BY Zenon DEF In, Names
  <2>3. [app[a] EXCEPT !.win = "leaving"] \in Windows
    BY <2>1, <2>2, Zenon DEF Windows
  <2>4. [app[c] EXCEPT !.go = In(c, "waiting")] \in Windows
    BY <2>1, <2>2, Zenon DEF Windows
  <2> QED
    BY <2>3, <2>4, Zenon
<1>2. /\ app' \in [Apps -> Windows] /\ app'[a] = [app[a] EXCEPT !.win = "leaving"]
      /\ app'[c] = [app[c] EXCEPT !.go = In(c, "waiting")]
      /\ \A b \in Apps \ {a, c} : app'[b] = app[b]
  BY <1>0, <1>1, WindowTypes, Zenon DEF IInv, Proceed
<1> HIDE DEF c
<1>3. /\ app'[a].win = "leaving" /\ app'[a].child = c /\ app'[a].go = app[a].go /\ app[a].child = c
      /\ app'[c].win = app[c].win /\ app'[c].child = app[c].child /\ app'[c].go = In(c, "waiting")
  BY <1>0, <1>2, WindowTypes DEF IInv, Windows, c
<1>4. HostInv'
  BY <1>0, <1>2, <1>3, WindowMoves, Zenon DEF IInv, Quiet, Proceed
<1>5. TypeOK'
  BY <1>2, <1>4, TypeKept, WindowTypes, Zenon DEF IInv, Effect, Proceed
<1>6. HandoverInv'
  <2>1. \A b \in Apps : app'[b].child = app[b].child
    BY <1>2, <1>3, Zenon
  <2>2. \A b \in Apps \ {a} : app'[b].win = app[b].win
    BY <1>2, <1>3, Zenon
  <2>3. \A b \in Apps \ {c} : app'[b].go = app[b].go
    BY <1>2, <1>3, Zenon
  <2>4. \A b \in Apps : app[b].child = c => b = a
    BY <1>0, <1>3, Zenon DEF IInv, HandoverInv
  <2>5. ~app[a].go
    BY <1>0, Zenon DEF IInv, HandoverInv, In
  <2>0. \A b \in Apps : app[b].child \in Apps \cup {Nobody}
    BY WindowTypes, Zenon DEF IInv, Windows
  <2>6. HandoverExclusive'
    BY <1>0, <1>3, <2>0, <2>1, <2>2 DEF IInv, HandoverInv, HandoverExclusive, In
  <2>7. ASSUME NEW d \in Apps, app'[d].go
        PROVE  In(d, "waiting")' /\ \A b \in Apps : app'[b].child = d => In(b, "leaving")'
    <3>1. CASE d = c
      BY <1>0, <1>3, <2>1, <2>4, <2>7, <3>1, Zenon DEF In
    <3>2. CASE d # c
      <4>1. app[d].go /\ d # a
        BY <2>3, <2>5, <2>7, <3>2, Zenon
      <4> QED
        BY <1>3, <2>1, <2>2, <4>1 DEF IInv, HandoverInv, In
    <3> QED
      BY <3>1, <3>2, Zenon
  <2>8. \A b \in Apps :
          (app'[b].child # Nobody) = (app'[b].win \in {"await", "seen", "killing", "leaving"})
    BY <1>0, <1>3, <2>1, <2>2 DEF IInv, HandoverInv
  <2> QED
    BY <2>1, <2>6, <2>7, <2>8 DEF IInv, HandoverInv
<1>7. DesktopInv'
  <2>1. \A b \in Apps \ {a} : Updating(b)' = Updating(b)
    BY <1>2, <1>3, Zenon DEF Updating
  <2>2. Updating(a) /\ ~Updating(a)'
    BY <1>0, <1>3, Zenon DEF Updating
  <2>3. orderly => desktop = [launcher |-> "new", icon |-> "new"]
    BY <1>0, <2>2, Zenon DEF IInv, DesktopInv
  <2> QED
    BY <2>1, <2>2, <2>3, Zenon DEF IInv, DesktopInv, Settled, Proceed
<1> QED
  BY <1>4, <1>5, <1>6, <1>7, Zenon DEF IInv

(* The replacement is given up. *)
LEMMA GiveUpKeeps ==
  ASSUME IInv, NEW a \in Apps, GiveUp(a)
  PROVE  IInv'
<1>0. Effect(a, "killing", app[a].child, app[a].go, app[a].saved)
  BY StayEffect, Zenon DEF IInv, Names, GiveUp
<1>1. HostInv'
  BY WindowMoves DEF IInv, TypeOK, HandoverInv, In, Quiet, Effect, GiveUp
<1>2. TypeOK'
  BY <1>0, <1>1, TypeKept, WindowTypes, Zenon DEF IInv, Effect, GiveUp
<1>3. HandoverInv'
  BY DEF IInv, TypeOK, HandoverInv, HandoverExclusive, In, GiveUp
<1>4. DesktopInv'
  BY DEF IInv, TypeOK, DesktopInv, Settled, Updating, In, GiveUp
<1> QED
  BY <1>1, <1>2, <1>3, <1>4, Zenon DEF IInv

(* The replacement is gone. *)
LEMMA ChildGoneKeeps ==
  ASSUME IInv, NEW a \in Apps, ChildGone(a)
  PROVE  IInv'
<1>0. /\ app' \in [Apps -> Windows]
      /\ app'[a] = [app[a] EXCEPT !.win = "undoLauncher", !.child = Nobody]
      /\ \A b \in Apps \ {a} : app'[b] = app[b]
  <2> DEFINE r == [app[a] EXCEPT !.win = "undoLauncher", !.child = Nobody]
  <2>1. app[a] \in Windows /\ "undoLauncher" \in Names
    BY WindowTypes, Zenon DEF IInv, Names
  <2>2. r \in Windows
    BY <2>1, Zenon DEF Windows
  <2>3. app' = [app EXCEPT ![a] = r]
    BY Zenon DEF ChildGone
  <2> QED
    BY <2>2, <2>3, Replaced, Zenon DEF IInv
<1>1. HostInv'
  BY WindowMoves DEF IInv, TypeOK, HandoverInv, In, Quiet, ChildGone
<1>2. TypeOK'
  BY <1>0, <1>1, TypeKept, WindowTypes, Zenon DEF IInv, Effect, ChildGone
<1>3. HandoverInv'
  BY DEF IInv, TypeOK, HandoverInv, HandoverExclusive, In, ChildGone
<1>4. DesktopInv'
  BY DEF IInv, TypeOK, DesktopInv, Settled, Updating, In, ChildGone
<1> QED
  BY <1>1, <1>2, <1>3, <1>4, Zenon DEF IInv

(* The replacement may still be there. *)
LEMMA KillTimesOutKeeps ==
  ASSUME IInv, NEW a \in Apps, KillTimesOut(a)
  PROVE  IInv'
<1>0. /\ app' \in [Apps -> Windows]
      /\ app'[a] = [app[a] EXCEPT !.win = "undoLauncher", !.child = Nobody, !.stay = TRUE]
      /\ \A b \in Apps \ {a} : app'[b] = app[b]
  <2>1. [app[a] EXCEPT !.win = "undoLauncher", !.child = Nobody, !.stay = TRUE] \in Windows
    BY WindowTypes, ZenonT(30) DEF IInv, Names, Windows
  <2> QED
    BY <2>1, Replaced, WindowTypes, Zenon DEF IInv, KillTimesOut
<1>1. HostInv'
  BY WindowMoves DEF IInv, TypeOK, HandoverInv, In, Quiet, Effect, KillTimesOut
<1>2. TypeOK'
  BY <1>0, <1>1, TypeKept, WindowTypes, Zenon DEF IInv, Effect, KillTimesOut
<1>3. HandoverInv'
  BY DEF IInv, TypeOK, HandoverInv, HandoverExclusive, In, KillTimesOut
<1>4. DesktopInv'
  BY DEF IInv, TypeOK, DesktopInv, Settled, Updating, In, KillTimesOut
<1> QED
  BY <1>1, <1>2, <1>3, <1>4, Zenon DEF IInv

(* The launcher is restored. *)
LEMMA UndoLauncherKeeps ==
  ASSUME IInv, NEW a \in Apps, UndoLauncher(a)
  PROVE  IInv'
<1>1. CASE Show(a, "undoIcon") /\ UNCHANGED orderly
         /\ desktop' = [desktop EXCEPT !.launcher = app[a].saved.launcher]
  <2>0. Effect(a, "undoIcon", app[a].child, app[a].go, app[a].saved)
    BY <1>1, ShowEffect, Zenon DEF IInv, Names
  <2>1. HostInv'
    BY <2>0, WindowMoves, WindowTypes, Zenon DEF IInv, Windows, In, Quiet, Effect, UndoLauncher
  <2>2. TypeOK'
    BY <1>1, <2>0, <2>1, TypeKept, WindowTypes, Zenon DEF IInv, Effect, Desktops, Windows, UndoLauncher
  <2>3. HandoverInv'
    BY <2>0, SingleMoves, WindowTypes DEF IInv, Windows, Single, In, UndoLauncher
  <2>4. DesktopInv'
    BY <1>1, <2>0, WindowTypes DEF IInv, Windows, DesktopInv, Settled, Updating, In, Effect,
           UndoLauncher
  <2> QED
    BY <2>1, <2>2, <2>3, <2>4, Zenon DEF IInv
<1>2. CASE Finish(a, FALSE) /\ orderly' = FALSE /\ UNCHANGED desktop
  <2>0. Effect(a, "failed", app[a].child, app[a].go, Closed.saved)
    BY <1>2, FinishEffect, ShowEffect, Zenon DEF IInv, Names
  <2>1. HostInv'
    BY <2>0, WindowMoves, WindowTypes, Zenon DEF IInv, Windows, In, Quiet, Effect, UndoLauncher
  <2>2. TypeOK'
    BY <1>2, <2>0, <2>1, TypeKept, WindowTypes, Zenon DEF IInv, Effect, UndoLauncher
  <2>3. HandoverInv'
    BY <2>0, SingleMoves, WindowTypes DEF IInv, Windows, Single, In, UndoLauncher
  <2>4. DesktopInv'
    BY <1>2, <2>0, WindowTypes, Zenon DEF IInv, Windows, DesktopInv, Settled, Updating, In, Effect,
           UndoLauncher
  <2> QED
    BY <2>1, <2>2, <2>3, <2>4, Zenon DEF IInv
<1> QED
  BY <1>1, <1>2, Zenon DEF UndoLauncher

(* The icon is restored. *)
LEMMA UndoIconKeeps ==
  ASSUME IInv, NEW a \in Apps, UndoIcon(a)
  PROVE  IInv'
<1>1. CASE /\ Finish(a, app[a].stay) /\ UNCHANGED orderly
           /\ desktop' = [desktop EXCEPT !.icon = app[a].saved.icon]
  <2>0. Effect(a, "failed", app[a].child, app[a].go, Closed.saved)
    BY <1>1, FinishEffect, WindowTypes, Zenon DEF IInv, Windows
  <2>1. HostInv'
    BY <2>0, WindowMoves, WindowTypes, Zenon DEF IInv, Windows, In, Quiet, Effect, UndoIcon
  <2>2. TypeOK'
    BY <1>1, <2>0, <2>1, TypeKept, WindowTypes, Zenon DEF IInv, Effect, Desktops, Windows, UndoIcon
  <2>3. HandoverInv'
    BY <2>0, SingleMoves, WindowTypes DEF IInv, Windows, Single, In, UndoIcon
  <2>4. DesktopInv'
    <3> SUFFICES ASSUME orderly PROVE DesktopInv'
      BY <1>1, Zenon DEF DesktopInv
    <3>1. Updating(a) /\ ~Updating(a)'
      BY <2>0, Zenon DEF Updating, Effect, In, UndoIcon
    <3>2. \A b \in Apps : ~Updating(b)'
      BY <2>0, <3>1, Zenon DEF IInv, DesktopInv, Updating, Effect
    <3>3. Settled' = Settled /\ app[a].saved = Settled /\ desktop = [Settled EXCEPT !.icon = "new"]
      BY <3>1, Zenon DEF IInv, DesktopInv, Settled, In, UndoIcon
    <3>4. desktop' = Settled
      BY <1>1, <3>3, Zenon DEF Settled
    <3> QED
      BY <3>2, <3>3, <3>4, Zenon DEF DesktopInv
  <2> QED
    BY <2>1, <2>2, <2>3, <2>4, Zenon DEF IInv
<1>2. CASE Finish(a, FALSE) /\ orderly' = FALSE /\ UNCHANGED desktop
  <2>0. Effect(a, "failed", app[a].child, app[a].go, Closed.saved)
    BY <1>2, FinishEffect, Zenon DEF IInv
  <2>1. HostInv'
    BY <2>0, WindowMoves, WindowTypes, Zenon DEF IInv, Windows, In, Quiet, Effect, UndoIcon
  <2>2. TypeOK'
    BY <1>2, <2>0, <2>1, TypeKept, WindowTypes, Zenon DEF IInv, Effect, UndoIcon
  <2>3. HandoverInv'
    BY <2>0, SingleMoves, WindowTypes DEF IInv, Windows, Single, In, UndoIcon
  <2>4. DesktopInv'
    BY <1>2, Zenon DEF DesktopInv
  <2> QED
    BY <2>1, <2>2, <2>3, <2>4, Zenon DEF IInv
<1> QED
  BY <1>1, <1>2, Zenon DEF UndoIcon

(* ReviewUpdate's catches. *)
LEMMA FailedKeeps ==
  ASSUME IInv, NEW a \in Apps, Failed(a)
  PROVE  IInv'
<1>1. HostInv'
  <2>1. HostInv /\ app[a].win = "failed"
    BY Zenon DEF IInv, In, Failed
  <2>2. CASE app[a].stay
    BY <2>1, <2>2, WindowMoves DEF IInv, TypeOK, HostInv, WindowInv, Quiet, Failed
  <2>3. CASE ~app[a].stay
    <3>1. Call(a, "start") /\ Show(a, "restarting")
      BY <2>3, Zenon DEF Failed
    <3>2. host[a].proc = Nobody
      BY <2>1 DEF HostInv, WindowInv, Quiet
    <3>3. app'[a].win = "restarting" /\ \A b \in Apps \ {a} : app'[b].win = app[b].win
      BY <3>1, ShowEffect, Zenon DEF IInv, Names, Effect
    <3> QED
      BY <2>1, <3>1, <3>2, <3>3, HostStarts, Zenon
  <2> QED
    BY <2>2, <2>3, Zenon
<1>2. CASE app' = [app EXCEPT ![a].win = "open", ![a].stay = FALSE]
  <2>0. Effect(a, "open", app[a].child, app[a].go, app[a].saved)
    BY <1>2, StayEffect, Zenon DEF IInv, Names
  <2>1. TypeOK'
    BY <1>1, <2>0, TypeKept, WindowTypes, Zenon DEF IInv, Effect, Failed
  <2>2. HandoverInv'
    BY <2>0, SingleMoves, WindowTypes DEF IInv, Windows, Single, In, Failed
  <2>3. DesktopInv'
    BY <1>2 DEF IInv, TypeOK, DesktopInv, Settled, Updating, In, Failed
  <2> QED
    BY <1>1, <2>1, <2>2, <2>3, Zenon DEF IInv
<1>3. CASE Show(a, "restarting")
  <2>0. Effect(a, "restarting", app[a].child, app[a].go, app[a].saved)
    BY <1>3, ShowEffect, Zenon DEF IInv, Names
  <2>1. TypeOK'
    BY <1>1, <2>0, TypeKept, WindowTypes, Zenon DEF IInv, Effect, Failed
  <2>2. HandoverInv'
    BY <2>0, SingleMoves, WindowTypes DEF IInv, Windows, Single, In, Failed
  <2>3. DesktopInv'
    BY <1>3 DEF IInv, TypeOK, DesktopInv, Settled, Updating, In, Failed, Show
  <2> QED
    BY <1>1, <2>1, <2>2, <2>3, Zenon DEF IInv
<1> QED
  BY <1>2, <1>3, Zenon DEF Failed

(* The node runs again, or not. *)
LEMMA RestartedKeeps ==
  ASSUME IInv, NEW a \in Apps, Restarted(a)
  PROVE  IInv'
<1>0. Effect(a, "open", app[a].child, app[a].go, app[a].saved)
  BY ShowEffect, Zenon DEF IInv, Names, Restarted, Return, Show
<1>1. HostInv'
  <2>1. HostInv /\ Call(a, "idle")
    BY Zenon DEF IInv, Restarted, Return
  <2>2. app'[a].win = "open" /\ \A b \in Apps \ {a} : app'[b].win = app[b].win
    BY <1>0, Zenon DEF Effect
  <2> QED
    BY <2>1, <2>2, HostReturns, Zenon
<1>2. TypeOK'
  BY <1>0, <1>1, TypeKept, WindowTypes, Zenon DEF IInv, Effect, Restarted, Return, Show
<1>3. HandoverInv'
  BY <1>0, SingleMoves DEF IInv, TypeOK, Single, In, Restarted, Return, Show
<1>4. DesktopInv'
  BY DEF IInv, TypeOK, DesktopInv, Settled, Updating, In, Restarted, Return, Show
<1> QED
  BY <1>1, <1>2, <1>3, <1>4, Zenon DEF IInv

(* The previous app closes. *)
LEMMA LeaveKeeps ==
  ASSUME IInv, NEW a \in Apps, Leave(a)
  PROVE  IInv'
<1>0. app' \in [Apps -> Windows] /\ app'[a] = Closed /\ \A b \in Apps \ {a} : app'[b] = app[b]
  BY Replaced, ClosedType, Zenon DEF IInv, Leave, Closed
<1>1. HostInv'
  BY WindowMoves, ZenonT(30) DEF IInv, TypeOK, HandoverInv, In, Quiet, Leave, Closed
<1>2. TypeOK'
  BY <1>0, <1>1, TypeKept, WindowTypes, Zenon DEF IInv, Effect, Leave, Closed
<1>3. HandoverInv'
  BY DEF IInv, TypeOK, HandoverInv, HandoverExclusive, In, Leave, Closed
<1>4. DesktopInv'
  BY DEF IInv, TypeOK, DesktopInv, Settled, Updating, In, Leave, Closed
<1> QED
  BY <1>1, <1>2, <1>3, <1>4, Zenon DEF IInv

(* ready.json is written. *)
LEMMA AcknowledgeKeeps ==
  ASSUME IInv, NEW a \in Apps, Acknowledge(a)
  PROVE  IInv'
<1>0. Effect(a, "waiting", app[a].child, app[a].go, app[a].saved)
  BY ShowEffect, Zenon DEF IInv, Names, Acknowledge, Show
<1>1. HostInv'
  BY WindowMoves DEF IInv, TypeOK, HandoverInv, In, Quiet, Acknowledge, Show
<1>2. TypeOK'
  BY <1>0, <1>1, TypeKept, WindowTypes, Zenon DEF IInv, Effect, Acknowledge, Show
<1>3. HandoverInv'
  BY DEF IInv, TypeOK, HandoverInv, HandoverExclusive, In, Acknowledge, Show
<1>4. DesktopInv'
  BY DEF IInv, TypeOK, DesktopInv, Settled, Updating, In, Acknowledge, Show
<1> QED
  BY <1>1, <1>2, <1>3, <1>4, Zenon DEF IInv

(* The replacement goes on. *)
LEMMA GoOnKeeps ==
  ASSUME IInv, NEW a \in Apps, GoOn(a)
  PROVE  IInv'
<1>0. /\ app' \in [Apps -> Windows]
      /\ app'[a] = [app[a] EXCEPT !.win = "starting", !.go = FALSE]
      /\ \A b \in Apps \ {a} : app'[b] = app[b]
  BY Replaced, RecordTypes, WindowTypes, Zenon DEF IInv, Names, GoOn
<1>1. HostInv'
  <2>1. HostInv /\ Call(a, "start") /\ app[a].win = "waiting"
    BY Zenon DEF IInv, In, GoOn
  <2>2. host[a].proc = Nobody
    BY <2>1 DEF HostInv, WindowInv, Quiet
  <2>3. app'[a].win = "starting" /\ \A b \in Apps \ {a} : app'[b].win = app[b].win
    BY <1>0, WindowTypes DEF IInv, Windows
  <2> QED
    BY <2>1, <2>2, <2>3, HostStarts, Zenon
<1>2. TypeOK'
  BY <1>0, <1>1, TypeKept, WindowTypes, Zenon DEF IInv, Effect, GoOn
<1>3. HandoverInv'
  BY DEF IInv, TypeOK, HandoverInv, HandoverExclusive, In, GoOn
<1>4. DesktopInv'
  BY DEF IInv, TypeOK, DesktopInv, Settled, Updating, In, GoOn
<1> QED
  BY <1>1, <1>2, <1>3, <1>4, Zenon DEF IInv

(* The replacement ends. *)
LEMMA AbandonKeeps ==
  ASSUME IInv, NEW a \in Apps, Abandon(a)
  PROVE  IInv'
<1>0. app' \in [Apps -> Windows] /\ app'[a] = Closed /\ \A b \in Apps \ {a} : app'[b] = app[b]
  BY Replaced, ClosedType, Zenon DEF IInv, Abandon, Closed
<1>1. HostInv'
  BY WindowMoves DEF IInv, TypeOK, HandoverInv, In, Quiet, Abandon, Closed
<1>2. TypeOK'
  BY <1>0, <1>1, TypeKept, WindowTypes, Zenon DEF IInv, Effect, Abandon, Closed
<1>3. HandoverInv'
  BY DEF IInv, TypeOK, HandoverInv, HandoverExclusive, In, Abandon, Closed
<1>4. DesktopInv'
  BY DEF IInv, TypeOK, DesktopInv, Settled, Updating, In, Abandon, Closed
<1> QED
  BY <1>1, <1>2, <1>3, <1>4, Zenon DEF IInv

-----------------------------------------------------------------------------
(* Everything holds before the first window opens.                         *)
LEMMA InitIInv == Init => IInv
<1> SUFFICES ASSUME Init PROVE IInv
  BY Zenon
<1>1. HostInv
  BY InitHostInv, Zenon
<1>2. TypeOK
  BY <1>1, WindowTypes, ClosedType, Zenon DEF Init, HostInv, Desktops
<1>3. HandoverInv /\ DesktopInv
  BY DEF Init, HandoverInv, HandoverExclusive, DesktopInv, Settled, Updating, In, Closed
<1> QED
  BY <1>1, <1>2, <1>3, Zenon DEF IInv

(* Every step of the windows, their hosts and nodes, and of the desktop.   *)
LEMMA NextKeepsIInv == IInv /\ [Next]_vars => IInv'
<1> SUFFICES ASSUME IInv, [Next]_vars PROVE IInv'
  BY Zenon
<1>1. ASSUME NEW a \in Apps, HostStep(a, app[a].ver), UNCHANGED appVars PROVE IInv'
  <2>1. HostInv'
    BY <1>1, HostStepKeeps, Zenon DEF IInv, appVars
  <2> QED
    BY <1>1, <2>1, HostMoves, Zenon
<1>2. ASSUME NEW n \in Nodes, NodeStep(n) \/ Die(n) \/ Reuse(n), UNCHANGED appVars PROVE IInv'
  <2>1. HostInv'
    BY <1>2, NatureStep, Zenon DEF IInv, appVars
  <2> QED
    BY <1>2, <2>1, HostMoves, Zenon
<1>3. ASSUME NEW a \in Apps, AppStep(a) PROVE IInv'
  BY <1>1, <1>3, InitializedKeeps, QuittedKeeps, NodeStoppedKeeps, WriteIconKeeps,
     WriteLauncherKeeps, SpawnKeeps, SeeReadyKeeps, ProceedKeeps, GiveUpKeeps, ChildGoneKeeps,
     KillTimesOutKeeps, UndoLauncherKeeps, UndoIconKeeps, FailedKeeps, RestartedKeeps, LeaveKeeps,
     AcknowledgeKeeps, GoOnKeeps, AbandonKeeps, Zenon DEF AppStep
<1>4. ASSUME NEW a \in Apps, Open(a) \/ Decline(a) \/ Quit(a) \/ Review(a) \/ Crash(a) PROVE IInv'
  BY <1>4, OpenKeeps, DeclineKeeps, QuitKeeps, ReviewKeeps, CrashKeeps, Zenon
<1>5. CASE UNCHANGED vars
  <2>1. HostInv'
    BY <1>5, Zenon DEF vars, hostVars, appVars, IInv, HostInv, HostType, WindowInv, LockInv, ReceiptInv
  <2> QED
    BY <1>5, <2>1, HostMoves, Zenon DEF vars
<1> QED
  BY <1>2, <1>3, <1>4, <1>5, Zenon DEF Next, Nature

(* The inductive invariant holds in every reachable state. *)
THEOREM Invariance == Spec => []IInv
BY InitIInv, NextKeepsIInv, PTL DEF Spec

(* Every variable keeps its type. *)
THEOREM TypeCorrect == Spec => []TypeOK
<1>1. IInv => TypeOK
  BY Zenon DEF IInv
<1> QED
  BY <1>1, Invariance, PTL

(* The next start of the app finds a node that was left behind: a running    *)
(* node on record that no app holds is the one gui-node-owner.json names.    *)
THEOREM OrphanFound == Spec => []RecordedNodeFound
<1>1. IInv => RecordedNodeFound
  BY Zenon DEF IInv, HostInv, ReceiptInv, RecordedNodeFound
<1> QED
  BY <1>1, Invariance, PTL

(* A replacement app waits in AcknowledgeAsync until the app that started it *)
(* has written proceed.json and can no longer go back to its own node.       *)
THEOREM ReplacementWaits == Spec => []HandoverExclusive
<1>1. IInv => HandoverExclusive
  BY Zenon DEF IInv, HandoverInv
<1> QED
  BY <1>1, Invariance, PTL

(* Shortcut and icon are of one version, the one that was told to go on,     *)
(* whenever no update is under way and every update was orderly.             *)
THEOREM DesktopSettled == Spec => []DesktopAfterUpdate
<1>1. IInv => DesktopAfterUpdate
  BY Zenon DEF IInv, DesktopInv, DesktopAfterUpdate, Settled
<1> QED
  BY <1>1, Invariance, PTL

-----------------------------------------------------------------------------
(* What a step may never do.                                                *)

(* At most one window owns a node: the one with the lock.                  *)
LEMMA OneOwner ==
  ASSUME IInv, NEW a \in Apps, NEW b \in Apps, host[a].proc # Nobody, host[b].proc # Nobody
  PROVE  a = b
BY Zenon DEF IInv, HostInv, LockInv

(* The windows' own steps ask no node to stop. *)
LEMMA WindowsAskNobody ==
  ASSUME Next, ~\E a \in Apps : HostStep(a, app[a].ver),
         ~\E n \in Nodes : NodeStep(n) \/ Die(n) \/ Reuse(n)
  PROVE  node' = node
BY ZenonT(30) DEF Next, AppStep, Nature, Open, Decline, Quit, Review, Crash, Initialized, Quitted, NodeStopped,
       WriteIcon, WriteLauncher, Spawn, SeeReady, Proceed, GiveUp, ChildGone, KillTimesOut,
       UndoLauncher, UndoIcon, Failed, Restarted, Leave, Acknowledge, GoOn, Abandon, Call, Return,
       hostVars

(* A node that is asked to stop is asked by a step of its owner.           *)
LEMMA StopStepByOwner ==
  ASSUME IInv, [Next]_vars, NEW n \in Nodes, NEW a \in Apps,
         Answers(n), node'[n].st = "saving", host[a].proc = n
  PROVE  host'[a] # host[a]
<1>1. /\ n # Nobody /\ node[n].st = "serving"
      /\ host \in [Apps -> [pc : {"idle", "start", "recover", "dialog", "recheck", "dismissing",
                                  "launch", "record", "wait", "clearing", "stop", "stopping",
                                  "started", "stopped", "failed"},
                            proc : Nodes \cup {Nobody}]]
  BY Zenon DEF Answers, IInv, HostInv, HostType
<1>2. ASSUME NEW b \in Apps, HostStep(b, app[b].ver) PROVE host'[a] # host[a]
  <2>1. ASSUME StopCore(b, "clearing", "failed") \/ StopCore(b, "stopping", "stopped"),
               host[b].pc \notin {"clearing", "stopping"}
        PROVE  host'[a] # host[a]
    <3>1. IsRunning(b)
      BY <1>1, <2>1, Zenon DEF StopCore
    <3>2. /\ host[b].proc \in Nodes /\ Become(host[b].proc, Asked(host[b].proc))
          /\ host'[b].pc # host[b].pc
      BY <1>1, <2>1, <3>1, Zenon DEF StopCore, IsRunning
    <3>3. a = b
      BY <1>1, <3>2, OneOwner, Zenon
    <3> QED
      BY <3>2, <3>3, Zenon
  <2>2. CASE Dismiss(b, app[b].ver)
    <3>1. lock = b /\ host[b].proc = Nobody /\ lock = a
      BY <1>1, <2>2, Zenon DEF Dismiss, IInv, HostInv, LockInv, Holding
    <3> QED
      BY <1>1, <3>1, Zenon
  <2>3. CASE OpenLock(b) \/ Throw(b) \/ Stop(b)
    <3>1. node' # node
      BY <1>1, Zenon
    <3> QED
      BY <2>1, <2>3, <3>1, Zenon DEF OpenLock, Throw, Stop, Fail
  <2>4. ASSUME \/ Recover(b, app[b].ver) \/ Confirm(b) \/ Dismissed(b)
               \/ Ready(b) \/ StopTimesOut(b) \/ Stopped(b)
        PROVE  FALSE
    BY <1>1, <2>4, Zenon DEF Recover, Confirm, Dismissed, Ready, StopTimesOut, Stopped
  <2>5. ASSUME Launch(b, app[b].ver) PROVE FALSE
    BY <1>1, <2>5, Zenon DEF Launch, Answers
  <2>6. ASSUME Record(b) PROVE FALSE
    BY <1>1, <2>6, Zenon DEF Record, IInv, HostInv, HostType
  <2> QED
    BY <1>2, <2>2, <2>3, <2>4, <2>5, <2>6, Zenon DEF HostStep
<1>3. ASSUME NEW m \in Nodes, NodeStep(m) \/ Die(m) \/ Reuse(m) PROVE FALSE
  BY <1>1, <1>3 DEF NodeStep, LockDirectories, Exit, Die, Reuse, Become, IInv, HostInv, HostType
<1>4. ASSUME node' = node PROVE FALSE
  BY <1>1, <1>4, Zenon
<1> QED
  BY <1>2, <1>3, <1>4, WindowsAskNobody, Zenon DEF vars, hostVars

(* A node that answers is asked to stop by the app that started it, or by one *)
(* that recovers it after its owner has ended.                                *)
THEOREM OwnerStops == Spec => StoppedByOwner
<1>1. IInv /\ [Next]_vars
        => [\A n \in Nodes, a \in Apps :
              Answers(n) /\ node'[n].st = "saving" /\ host[a].proc = n => host'[a] # host[a]]_vars
  BY StopStepByOwner, Zenon
<1> QED
  BY <1>1, Invariance, PTL DEF Spec, StoppedByOwner

(* While its node lives a window keeps it, unless the window crashes.      *)
LEMMA OwnerKept ==
  ASSUME IInv, [Next]_vars, ~\E a \in Apps : Crash(a), NEW n \in Nodes, Live(n)',
         NEW a \in Apps, host[a].proc = n
  PROVE  host'[a].proc = n
<1>1. n # Nobody /\ host[a].proc \in Nodes
  BY Zenon
<1>2. ASSUME NEW b \in Apps, NEW pc, Goto(b, pc) PROVE host'[a].proc = n
  BY <1>2, Zenon DEF IInv, HostInv, HostType
<1>3. ASSUME NEW b \in Apps, HostStep(b, app[b].ver) PROVE host'[a].proc = n
  <2>1. ASSUME LetGo(b, "failed") \/ LetGo(b, "stopped"), ~IsRunning(b), UNCHANGED node
        PROVE  host'[a].proc = n
    <3>1. a # b
      BY <1>1, <2>1, Zenon DEF IsRunning
    <3> QED
      BY <2>1, <3>1, Zenon DEF LetGo, IInv, HostInv, HostType
  <2>2. ASSUME StopCore(b, "clearing", "failed") \/ StopCore(b, "stopping", "stopped")
        PROVE  host'[a].proc = n
    BY <2>1, <2>2 DEF StopCore, IInv, HostInv, HostType
  <2>3. CASE Launch(b, app[b].ver)
    <3>1. a # b
      BY <1>1, <2>3, Zenon DEF Launch, IInv, HostInv, LockInv, Holding
    <3> QED
      BY <2>3, <3>1, Zenon DEF Launch, IInv, HostInv, HostType
  <2>4. CASE OpenLock(b) \/ Throw(b) \/ Stop(b)
    BY <2>2, <2>4 DEF OpenLock, Throw, Stop, Fail, IInv, HostInv, HostType
  <2>5. CASE Recover(b, app[b].ver) \/ Confirm(b) \/ Dismiss(b, app[b].ver) \/ Dismissed(b) \/ Record(b)
             \/ Ready(b) \/ StopTimesOut(b)
    <3>1. \E pc : Goto(b, pc)
      BY <2>5, Zenon DEF Recover, Confirm, Dismiss, Dismissed, Record, Ready, StopTimesOut
    <3> QED
      BY <1>2, <3>1, Zenon
  <2>6. CASE Stopped(b)
    BY <2>1, <2>6, Zenon DEF Stopped
  <2> QED
    BY <1>3, <2>3, <2>4, <2>5, <2>6, Zenon DEF HostStep
<1>4. ASSUME NEW m \in Nodes, NodeStep(m) \/ Die(m) \/ Reuse(m) PROVE host' = host
  BY <1>4, Zenon DEF NodeStep, LockDirectories, Exit, Die, Reuse
<1>5. ASSUME NEW b \in Apps,
             \/ Open(b) \/ Decline(b) \/ Quit(b) \/ Review(b) \/ Initialized(b) \/ Quitted(b) \/ NodeStopped(b)
             \/ Failed(b) \/ Restarted(b) \/ GoOn(b)
      PROVE  host'[a].proc = n
  <2>1. host' = host \/ \E pc : Goto(b, pc)
    BY <1>5, Zenon DEF Open, Decline, Quit, Review, Initialized, Quitted, NodeStopped, Failed, Restarted,
           GoOn, Call, Return, hostVars
  <2> QED
    BY <1>2, <2>1, Zenon
<1>6. ASSUME NEW b \in Apps,
             \/ WriteIcon(b) \/ WriteLauncher(b) \/ Spawn(b) \/ SeeReady(b) \/ Proceed(b) \/ GiveUp(b) \/ ChildGone(b)
             \/ KillTimesOut(b) \/ UndoLauncher(b) \/ UndoIcon(b) \/ Leave(b) \/ Acknowledge(b) \/ Abandon(b)
      PROVE  host' = host
  BY <1>6, Zenon DEF WriteIcon, WriteLauncher, Spawn, SeeReady, Proceed, GiveUp, ChildGone, KillTimesOut,
         UndoLauncher, UndoIcon, Leave, Acknowledge, Abandon, hostVars
<1> QED
  BY <1>3, <1>4, <1>5, <1>6, Zenon DEF Next, AppStep, Nature, vars, hostVars

(* Only the death of an app's process leaves a running node without an app.  *)
THEOREM OnlyCrashOrphans == Spec => NodeKeepsOwner
<1>1. IInv /\ [Next]_vars
        => [(\E a \in Apps : Crash(a)) \/
            \A n \in Nodes : Live(n)' /\ (\E a \in Apps : host[a].proc = n)
                               => \E a \in Apps : host'[a].proc = n]_vars
  BY OwnerKept, Zenon
<1> QED
  BY <1>1, Invariance, PTL DEF Spec, NodeKeepsOwner
=============================================================================

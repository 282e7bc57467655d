------------------------------ MODULE NodeHost ------------------------------
(***************************************************************************)
(* The Linux app's node host (LinuxNodeHost.cs, LinuxNodeHost.Recovery.cs): *)
(* StartAsync with the recovery of a node that a crashed app left behind,   *)
(* and StopCoreAsync.  Every app process has a host; the hosts share the    *)
(* data directory, where the instance lock and the ownership receipt are.   *)
(* An element of Nodes is a node process, used again once it is gone and     *)
(* nothing refers to it.  It stands for what the receipt records: process    *)
(* id, start ticks, program hash and arguments.                              *)
(* The windows that call the host are in LinuxApp.                          *)
(***************************************************************************)

CONSTANTS Apps, Nodes, Nobody

ASSUME HostAssumption == Nobody \notin Apps \cup Nodes

VARIABLES
  node,     \* per process: its state, the version of its program, on record or not
  receipt,  \* gui-node-owner.json: a process, or Nobody
  lock,     \* who holds gui-instance.lock
  host      \* per app: control of StartAsync and StopCoreAsync, _process

hostVars == <<node, receipt, lock, host>>

Ended(st) == [st |-> st, ver |-> "old", recorded |-> FALSE]
Alone == [pc |-> "idle", proc |-> Nobody]

HostInit ==
  /\ node = [n \in Nodes |-> Ended("gone")] /\ receipt = Nobody
  /\ lock = Nobody /\ host = [a \in Apps |-> Alone]

(* "reused": the process is gone and another program has its process id. *)
Live(n) == node[n].st \in {"new", "serving", "saving"}
Gone(n) == node[n].st \in {"gone", "reused"}
Become(n, st) ==
  node' = [node EXCEPT ![n] = IF st \in {"gone", "reused"} THEN Ended(st) ELSE [@ EXCEPT !.st = st]]

At(a, pc) == host[a].pc = pc
Goto(a, pc) == host' = [host EXCEPT ![a].pc = pc]
IsRunning(a) == host[a].proc # Nobody /\ Live(host[a].proc)

----------------------------------------------------------------------------
(* The node process (slithyd).                                              *)

(* LockDirectories: a second node on the data directory exits.  The other    *)
(* one goes on until its RPC server answers.                                 *)
LockDirectories(n) ==
  /\ node[n].st = "new"
  /\ Become(n, IF \E m \in Nodes : node[m].st \in {"serving", "saving"}
               THEN "gone" ELSE "serving")
  /\ UNCHANGED <<receipt, lock, host>>

(* The last step of an orderly shutdown, which may take its time. *)
Exit(n) == node[n].st = "saving" /\ Become(n, "gone") /\ UNCHANGED <<receipt, lock, host>>

(* The node ends by itself. *)
Die(n) == Live(n) /\ Become(n, "gone") /\ UNCHANGED <<receipt, lock, host>>

(* The system gives the process id of the receipt to another program, which  *)
(* ends in its turn.                                                         *)
Reuse(n) ==
  /\ receipt = n
  /\ \/ node[n].st = "gone" /\ Become(n, "reused")
     \/ node[n].st = "reused" /\ Become(n, "gone")
  /\ UNCHANGED <<receipt, lock, host>>

(* SIGTERM, or the stop call of a node that serves. *)
Asked(n) == IF node[n].st = "new" THEN "gone" ELSE "saving"

----------------------------------------------------------------------------
(* StopCoreAsync.                                                           *)

Release(a) == lock' = IF lock = a THEN Nobody ELSE lock

(* RemoveOwnReceipt, and the process and the lock are let go. *)
LetGo(a, pc) ==
  /\ receipt' = IF receipt = host[a].proc THEN Nobody ELSE receipt
  /\ host' = [host EXCEPT ![a] = [pc |-> pc, proc |-> Nobody]]
  /\ Release(a)

(* The stop call, and SIGTERM to a process that is still there. *)
StopCore(a, waiting, done) ==
  IF IsRunning(a)
  THEN Become(host[a].proc, Asked(host[a].proc)) /\ Goto(a, waiting) /\ UNCHANGED <<receipt, lock>>
  ELSE LetGo(a, done) /\ UNCHANGED node

Stop(a) == At(a, "stop") /\ StopCore(a, "stopping", "stopped")

(* The catch of StartAsync. *)
Fail(a) == StopCore(a, "clearing", "failed")

(* Fault: a node that is still saving is let go as if it had exited. *)
StopTimesOutLetsGo(a) ==
  /\ host[a].pc \in {"stopping", "clearing"} /\ IsRunning(a)
  /\ LetGo(a, "failed")
  /\ UNCHANGED node

(* 45 seconds pass: "still saving", and process, lock and receipt are kept. *)
StopTimesOut(a) ==
  /\ host[a].pc \in {"stopping", "clearing"} /\ IsRunning(a)
  /\ Goto(a, "failed")
  /\ UNCHANGED <<node, receipt, lock>>

Stopped(a) ==
  /\ host[a].pc \in {"stopping", "clearing"} /\ ~IsRunning(a)
  /\ LetGo(a, IF At(a, "stopping") THEN "stopped" ELSE "failed")
  /\ UNCHANGED node

----------------------------------------------------------------------------
(* StartAsync.                                                              *)

(* Fault: the instance lock is not exclusive. *)
OpenLockShared(a) ==
  /\ At(a, "start")
  /\ lock' = a /\ Goto(a, "recover")
  /\ UNCHANGED <<node, receipt>>

(* gui-instance.lock, opened with FileShare.None. *)
OpenLock(a) ==
  /\ At(a, "start")
  /\ IF lock \in {Nobody, a}
     THEN lock' = a /\ Goto(a, "recover") /\ UNCHANGED <<node, receipt>>
     ELSE Fail(a)

(* VerifyProcessAsync: the process of the receipt exists, is the one that    *)
(* was started, and runs this build's program.  PreviousEndpointAsync: it    *)
(* answers with its cookie.                                                  *)
Verified(n, ver) == Live(n) /\ node[n].ver = ver
Answers(n) == node[n].st = "serving"

(* RecoverPreviousNodeAsync up to the dialog: a receipt without a process is *)
(* deleted.                                                                  *)
Recover(a, ver) ==
  /\ At(a, "recover")
  /\ IF receipt = Nobody \/ node[receipt].st = "gone"
     THEN receipt' = Nobody /\ Goto(a, "launch") /\ UNCHANGED <<node, lock>>
     ELSE /\ Verified(receipt, ver) /\ Answers(receipt)
          /\ Goto(a, "dialog") /\ UNCHANGED <<node, receipt, lock>>

(* ConfirmOrphanRecoveryAsync says yes. *)
Confirm(a) == At(a, "dialog") /\ Goto(a, "recheck") /\ UNCHANGED <<node, receipt, lock>>

(* "Recheck after the dialog", and the stop call to the previous node.  A    *)
(* node that ends between the two fails the call, which needs its cookie.    *)
Dismiss(a, ver) ==
  /\ At(a, "recheck") /\ Verified(receipt, ver) /\ Answers(receipt)
  /\ Become(receipt, "saving") /\ Goto(a, "dismissing")
  /\ UNCHANGED <<receipt, lock>>

(* The previous node has exited. *)
Dismissed(a) ==
  /\ At(a, "dismissing") /\ Gone(receipt)
  /\ receipt' = Nobody /\ Goto(a, "launch")
  /\ UNCHANGED <<node, lock>>

(* EnsurePortAvailable, gui-node.conf, ChoosePeersAsync, Process.Start. *)
Launch(a, ver) ==
  /\ At(a, "launch") /\ ~\E m \in Nodes : Answers(m)
  /\ \E n \in Nodes :
       /\ node[n].st = "gone" /\ receipt # n /\ \A b \in Apps : host[b].proc # n
       /\ node' = [node EXCEPT ![n] = [st |-> "new", ver |-> ver, recorded |-> FALSE]]
       /\ host' = [host EXCEPT ![a] = [pc |-> "record", proc |-> n]]
  /\ UNCHANGED <<receipt, lock>>

(* RecordOwnershipAsync: a temporary file moved onto the receipt. *)
Record(a) ==
  /\ At(a, "record")
  /\ receipt' = host[a].proc /\ Goto(a, "wait")
  /\ node' = [node EXCEPT ![host[a].proc].recorded = IsRunning(a)]
  /\ UNCHANGED lock

(* The loop that asks the node until it answers. *)
Ready(a) ==
  /\ At(a, "wait") /\ Answers(host[a].proc)
  /\ Goto(a, "started") /\ UNCHANGED <<node, receipt, lock>>

(* Fault: the receipt is deleted also when the previous node still saves. *)
ThrowForgets(a) ==
  /\ At(a, "dismissing")
  /\ receipt' = Nobody /\ Goto(a, "failed") /\ Release(a)
  /\ UNCHANGED node

(* Every exception of StartAsync: the receipt's process is not the one that  *)
(* was started, runs another program or does not answer; recovery is         *)
(* declined; the previous node still saves after 45 seconds; the port is     *)
(* taken; a file or the program fails; the node exits or is silent for 90    *)
(* seconds.                                                                  *)
Throw(a) ==
  /\ host[a].pc \in {"recover", "dialog", "recheck", "dismissing",
                     "launch", "record", "wait"}
  /\ Fail(a)

HostStep(a, ver) ==
  \/ OpenLock(a) \/ Recover(a, ver) \/ Confirm(a) \/ Dismiss(a, ver) \/ Dismissed(a)
  \/ Launch(a, ver) \/ Record(a) \/ Ready(a) \/ Throw(a)
  \/ Stop(a) \/ StopTimesOut(a) \/ Stopped(a)

NodeStep(n) == LockDirectories(n) \/ Exit(n)

HostType ==
  /\ node \in [Nodes -> [st : {"new", "serving", "saving", "gone", "reused"},
                          ver : {"old", "new"}, recorded : BOOLEAN]]
  /\ receipt \in Nodes \cup {Nobody} /\ lock \in Apps \cup {Nobody}
  /\ host \in [Apps ->
       [pc : {"idle", "start", "recover", "dialog", "recheck", "dismissing",
              "launch", "record", "wait", "clearing", "stop", "stopping",
              "started", "stopped", "failed"},
        proc : Nodes \cup {Nobody}]]
=============================================================================

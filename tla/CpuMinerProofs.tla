--------------------------- MODULE CpuMinerProofs ---------------------------
(***************************************************************************)
(* Proofs about CpuMiner for any sets of workers, callers and addresses.   *)
(***************************************************************************)
EXTENDS CpuMiner, FiniteSetTheorems, TLAPS

Payee == Addresses \ {Treasury}

\* Who is where: only a caller starts the miner, only Main shuts down.
RolesInv ==
    /\ \A c \in Callers : /\ pc[c] \notin {"http_wait", "freed"}
                          /\ kind[c] # "shutdown"
    /\ pc[Main] \in {"idle", "lock", "swap", "join", "http_wait", "freed"}
    /\ kind[Main] # "start"
    /\ \A a \in Actors : pc[a] \in {"spawn", "spawning", "fail_join"} => kind[a] = "start"
    /\ \A a \in Actors : kind[a] = "start" => req[a].addr \in Payee
    /\ pc[Main] # "idle" => interrupt

\* The two mutexes are held exactly between the steps that lock and unlock.
LockInv ==
    /\ \A a \in Actors :
          pc[a] \in {"swap", "join", "spawn", "spawning", "fail_join"} <=> transition = a
    /\ \A a \in Actors : pc[a] \in {"spawning", "fail_join"} <=> miner_mutex = a

\* A vector that was swapped out belongs to the actor that is joining it, and
\* until that actor is done no thread is in the miner's own vector.
JoinInv ==
    /\ \A a \in Actors : joining[a] # {} => pc[a] = "join"
    /\ \A a \in Actors : pc[a] \in {"join", "spawn"} => miner_threads = {}

\* Every existing thread mines for the current address.
PayInv ==
    /\ \A w \in Workers : wpc[w] # "none" => script[w] = address /\ address \in Payee
    /\ \A a \in Actors : pc[a] \in {"spawning", "fail_join"} => address = req[a].addr

\* What an information request has seen stays true: the address is not cleared.
SeenInv ==
    /\ \A c \in Callers : pc[c] = "info_address" /\ seen[c].active => address # NoAddress
    /\ ActiveReplyNamesAddress

\* After Shutdown's stop a worker can only be on its way out.
DrainInv ==
    pc[Main] \in {"http_wait", "freed"} => \A w \in Workers : wpc[w] \notin {"search", "count"}

IInv ==
    /\ TypeOK /\ RolesInv /\ LockInv /\ JoinInv /\ EveryThreadOwned
    /\ PayInv /\ CountedBlocksPayAddress /\ LiveWorkersExact /\ SeenInv /\ DrainInv

USE ActorsAssumption
USE DEF Goto, rpcVars, lockVars, minerVars, workerVars, chainVars

-----------------------------------------------------------------------------

\* The types of what belongs to an actor.
LEMMA ActorTypes ==
  ASSUME IInv
  PROVE  /\ pc \in [Actors -> Labels] /\ req \in [Actors -> Request]
         /\ kind \in [Actors -> {"none", "start", "stop", "shutdown"}]
         /\ joining \in [Actors -> SUBSET Workers] /\ seen \in [Callers -> Snapshot]
BY Zenon DEF IInv, TypeOK

\* The node starts with the miner off and no thread.
LEMMA InitIInv == Init => IInv
<1> SUFFICES ASSUME Init PROVE IInv
  BY Zenon
<1>1. TypeOK
  BY Zenon DEF Init, TypeOK, Actors, Labels, Request, NoRequest, Snapshot, NothingSeen
<1>2. RolesInv /\ LockInv /\ JoinInv /\ EveryThreadOwned /\ PayInv /\ SeenInv /\ DrainInv
  BY Zenon DEF Init, RolesInv, LockInv, JoinInv, EveryThreadOwned, PayInv, SeenInv, DrainInv,
         ActiveReplyNamesAddress, Actors, NoRequest, NothingSeen
<1>3. CountedBlocksPayAddress
  BY Zenon DEF Init, CountedBlocksPayAddress
<1>4. LiveWorkersExact
  <2>1. {w \in Workers : Alive(w)} = {}
    BY Zenon DEF Init, Alive
  <2> QED
    BY <2>1, FS_EmptySet, Zenon DEF Init, LiveWorkersExact
<1> QED
  BY <1>1, <1>2, <1>3, <1>4, Zenon DEF IInv

-----------------------------------------------------------------------------
(* Steps that leave the workers and the miner's own state alone.           *)

\* The part of the invariant that a step of an actor without effect on the
\* workers keeps.
LEMMA WorkersKept ==
  ASSUME IInv, UNCHANGED <<miner_threads, live_workers, workerVars, address, credited>>,
         UNCHANGED joining
  PROVE  EveryThreadOwned' /\ LiveWorkersExact' /\ CountedBlocksPayAddress'
         /\ (\A w \in Workers : wpc[w] # "none" => script[w] = address /\ address \in Payee)'
BY Zenon DEF IInv, EveryThreadOwned, LiveWorkersExact, Alive, CountedBlocksPayAddress, PayInv

\* startcpumining enters with its arguments.
LEMMA StartRequestStep ==
  ASSUME IInv, NEW c \in Callers, NEW a \in Addresses, NEW n \in 0..Cardinality(Workers) + 1,
         StartRequest(c, a, n)
  PROVE  IInv'
<1>0. PICK slots \in SUBSET Workers : req' = [req EXCEPT ![c] = [addr |-> a, threads |-> slots]]
  BY Zenon DEF StartRequest
<1>1. TypeOK'
  BY <1>0 DEF IInv, TypeOK, StartRequest, Serve, Actors, Labels, Request
<1>2. RolesInv'
  BY <1>0, Zenon DEF IInv, TypeOK, RolesInv, StartRequest, Serve, Actors, Payee
<1>3. LockInv' /\ JoinInv' /\ SeenInv' /\ DrainInv'
  BY Zenon DEF IInv, TypeOK, LockInv, JoinInv, SeenInv, ActiveReplyNamesAddress, DrainInv,
         StartRequest, Serve, Actors
<1>4. PayInv'
  BY <1>0, WorkersKept, Zenon DEF IInv, TypeOK, PayInv, StartRequest, Serve, Actors
<1> QED
  BY <1>1, <1>2, <1>3, <1>4, WorkersKept, Zenon DEF IInv, StartRequest

\* stopcpumining enters.
LEMMA StopRequestStep ==
  ASSUME IInv, NEW c \in Callers, StopRequest(c)
  PROVE  IInv'
<1>1. TypeOK'
  BY DEF IInv, TypeOK, StopRequest, Serve, Actors, Labels
<1>2. RolesInv' /\ LockInv' /\ JoinInv' /\ SeenInv' /\ DrainInv'
  BY Zenon DEF IInv, TypeOK, RolesInv, LockInv, JoinInv, SeenInv, ActiveReplyNamesAddress, DrainInv,
         StopRequest, Serve, Actors
<1>3. PayInv'
  BY WorkersKept, Zenon DEF IInv, TypeOK, PayInv, StopRequest, Serve, Actors
<1> QED
  BY <1>1, <1>2, <1>3, WorkersKept, Zenon DEF IInv, StopRequest

\* StartCpuMining, StopCpuMining or Shutdown takes the transition mutex.
LEMMA LockStep ==
  ASSUME IInv, NEW a \in Actors, Lock(a)
  PROVE  IInv'
<1>1. TypeOK'
  BY Zenon DEF IInv, TypeOK, Lock, Actors, Labels
<1>2. RolesInv' /\ LockInv' /\ JoinInv' /\ SeenInv' /\ DrainInv'
  BY DEF IInv, TypeOK, RolesInv, LockInv, JoinInv, SeenInv, ActiveReplyNamesAddress, DrainInv,
         Lock, Actors
<1>3. PayInv'
  BY WorkersKept, Zenon DEF IInv, TypeOK, PayInv, Lock, Actors
<1> QED
  BY <1>1, <1>2, <1>3, WorkersKept, Zenon DEF IInv, Lock

\* getcpumininginfo reads the two fields and replies.
LEMMA InfoStep ==
  ASSUME IInv, NEW c \in Callers, InfoActive(c) \/ InfoAddress(c) \/ InfoReply(c)
  PROVE  IInv'
<1>1. TypeOK'
  <2>0. TypeOK /\ (live_workers > 0) \in BOOLEAN
    BY DEF IInv
  <2>1. seen' \in [Callers -> Snapshot]
    <3>1. CASE InfoActive(c)
      BY <2>0, <3>1, Zenon DEF TypeOK, InfoActive, Snapshot
    <3>2. CASE InfoAddress(c)
      <4>1. seen[c] \in Snapshot /\ address \in Addresses \cup {NoAddress}
        BY <2>0, Zenon DEF TypeOK
      <4>2. [seen[c] EXCEPT !.address = address] \in Snapshot
        BY <4>1, Zenon DEF Snapshot
      <4> QED
        BY <2>0, <3>2, <4>2, Zenon DEF TypeOK, InfoAddress
    <3>3. CASE InfoReply(c)
      BY <2>0, <3>3, Zenon DEF TypeOK, InfoReply, Snapshot, NothingSeen
    <3> QED
      BY <3>1, <3>2, <3>3, Zenon
  <2>2. pc' \in [Actors -> Labels] /\ requests' \in Nat
    BY <2>0 DEF TypeOK, InfoActive, InfoAddress, InfoReply, Serve, Actors, Labels
  <2> QED
    BY <2>0, <2>1, <2>2, Zenon DEF TypeOK, InfoActive, InfoAddress, InfoReply
<1>2. RolesInv' /\ LockInv' /\ JoinInv' /\ DrainInv'
  BY DEF IInv, TypeOK, RolesInv, LockInv, JoinInv, DrainInv,
         InfoActive, InfoAddress, InfoReply, Serve, Actors
<1>3. live_workers > 0 => address # NoAddress
  <2>1. ASSUME live_workers > 0 PROVE \E w \in Workers : Alive(w)
    <3>1. {w \in Workers : Alive(w)} # {}
      BY <2>1, FS_EmptySet DEF IInv, LiveWorkersExact
    <3> QED
      BY <3>1, Zenon
  <2> QED
    BY <2>1, Zenon DEF IInv, PayInv, Payee, Alive
<1>4. SeenInv'
  <2>1. CASE InfoActive(c)
    BY <1>3, <2>1, Zenon DEF IInv, TypeOK, SeenInv, ActiveReplyNamesAddress, InfoActive, Serve, Actors
  <2>2. CASE InfoAddress(c)
    BY <2>2 DEF IInv, TypeOK, SeenInv, ActiveReplyNamesAddress, InfoAddress, Actors, Snapshot
  <2>3. CASE InfoReply(c)
    BY <2>3, Zenon DEF IInv, TypeOK, SeenInv, ActiveReplyNamesAddress, InfoReply, Actors
  <2> QED
    BY <2>1, <2>2, <2>3, Zenon
<1>5. PayInv'
  BY WorkersKept, SMTT(30) DEF IInv, TypeOK, PayInv, InfoActive, InfoAddress, InfoReply, Serve, Actors
<1> QED
  BY <1>1, <1>2, <1>4, <1>5, WorkersKept, Zenon DEF IInv, InfoActive, InfoAddress, InfoReply

\* startcpumining fails to create a thread, or returns.
LEMMA SpawnEndStep ==
  ASSUME IInv, NEW c \in Callers, SpawnFails(c) \/ Started(c)
  PROVE  IInv'
<1>1. TypeOK'
  <2>1. CASE SpawnFails(c)
    BY <2>1, Zenon DEF IInv, TypeOK, SpawnFails, Actors, Labels
  <2>2. CASE Started(c)
    BY <2>2, Zenon DEF IInv, TypeOK, Started, Unlock, Actors, Labels, Request, NoRequest
  <2> QED
    BY <2>1, <2>2, Zenon
<1>2. RolesInv' /\ LockInv' /\ JoinInv' /\ SeenInv' /\ DrainInv'
  <2>1. CASE SpawnFails(c)
    <3>1. RolesInv' /\ LockInv' /\ JoinInv'
      BY <2>1, ActorTypes, Zenon DEF IInv, RolesInv, LockInv, JoinInv, SpawnFails, Actors
    <3>2. SeenInv' /\ DrainInv'
      BY <2>1, ActorTypes, Zenon DEF IInv, SeenInv, ActiveReplyNamesAddress, DrainInv, SpawnFails, Actors
    <3> QED
      BY <3>1, <3>2, Zenon
  <2>2. CASE Started(c)
    <3>1. RolesInv'
      BY <2>2, ActorTypes, Zenon DEF IInv, RolesInv, Started, Unlock, Actors, NoRequest
    <3>2. LockInv'
      BY <2>2, ActorTypes DEF IInv, LockInv, Started, Unlock, Actors
    <3>3. JoinInv'
      BY <2>2, ActorTypes, Zenon DEF IInv, JoinInv, Started, Unlock, Actors
    <3>4. SeenInv' /\ DrainInv'
      BY <2>2, ActorTypes, Zenon DEF IInv, SeenInv, ActiveReplyNamesAddress, DrainInv, Started, Unlock,
             Actors
    <3> QED
      BY <3>1, <3>2, <3>3, <3>4, Zenon
  <2> QED
    BY <2>1, <2>2, Zenon
<1>3. PayInv'
  BY WorkersKept DEF IInv, TypeOK, PayInv, SpawnFails, Started, Unlock, Actors
<1> QED
  BY <1>1, <1>2, <1>3, WorkersKept, Zenon DEF IInv, SpawnFails, Started

\* The tip changes, or the node begins or ends its shutdown.
LEMMA EnvironmentStep ==
  ASSUME IInv, TipChange \/ RequestShutdown \/ BeginShutdown \/ FreeNode
  PROVE  IInv'
<1>1. TypeOK'
  <2>1. CASE TipChange
    <3>1. chain' \in SUBSET Nat
      BY <2>1, Zenon DEF IInv, TypeOK, TipChange
    <3> QED
      BY <2>1, <3>1 DEF IInv, TypeOK, TipChange
  <2>2. CASE RequestShutdown
    BY <2>2, Zenon DEF IInv, TypeOK, RequestShutdown
  <2>3. CASE BeginShutdown
    BY <2>3, Zenon DEF IInv, TypeOK, BeginShutdown, Actors, Labels
  <2>4. CASE FreeNode
    BY <2>4, Zenon DEF IInv, TypeOK, FreeNode, Actors, Labels
  <2> QED
    BY <2>1, <2>2, <2>3, <2>4, Zenon
<1>2. RolesInv' /\ LockInv' /\ JoinInv' /\ SeenInv' /\ DrainInv'
  <2>1. CASE TipChange \/ RequestShutdown
    <3>1. /\ UNCHANGED <<pc, kind, req, joining, seen, transition, miner_mutex, miner_threads, address, wpc>>
          /\ interrupt => interrupt'
      BY <2>1 DEF TipChange, RequestShutdown
    <3>2. RolesInv' /\ LockInv' /\ JoinInv'
      BY <3>1, Zenon DEF IInv, RolesInv, LockInv, JoinInv
    <3>3. SeenInv' /\ DrainInv'
      BY <3>1, Zenon DEF IInv, SeenInv, ActiveReplyNamesAddress, DrainInv
    <3> QED
      BY <3>2, <3>3, Zenon
  <2>2. CASE BeginShutdown
    BY <2>2, ActorTypes, Zenon DEF IInv, RolesInv, LockInv, JoinInv, SeenInv, ActiveReplyNamesAddress,
           DrainInv, BeginShutdown, Actors
  <2>3. CASE FreeNode
    BY <2>3, ActorTypes, Zenon DEF IInv, RolesInv, LockInv, JoinInv, SeenInv, ActiveReplyNamesAddress,
           DrainInv, FreeNode, Actors
  <2> QED
    BY <2>1, <2>2, <2>3, Zenon
<1>3. PayInv'
  <2>1. CASE TipChange \/ RequestShutdown
    BY <2>1, Zenon DEF IInv, PayInv, TipChange, RequestShutdown
  <2>2. CASE BeginShutdown
    BY <2>2, ActorTypes, Zenon DEF IInv, PayInv, BeginShutdown, Actors
  <2>3. CASE FreeNode
    BY <2>3, ActorTypes, Zenon DEF IInv, PayInv, FreeNode, Actors
  <2> QED
    BY <2>1, <2>2, <2>3, Zenon
<1> QED
  BY <1>1, <1>2, <1>3, WorkersKept, Zenon
     DEF IInv, TipChange, RequestShutdown, BeginShutdown, FreeNode

-----------------------------------------------------------------------------
(* Stopping and starting workers.                                          *)

\* Whoever may swap the vector out finds that nobody else is joining.
LEMMA OnlyHolderJoins ==
  ASSUME IInv, NEW a \in Actors, transition = a, NEW b \in Actors, b # a
  PROVE  joining[b] = {}
BY Zenon DEF IInv, LockInv, JoinInv

\* Where the end of a stop leaves its actor; the others stay where they are.
LEMMA AfterStopMoves ==
  ASSUME IInv, NEW a \in Actors, pc[a] \in {"swap", "join"}, AfterStop(a)
  PROVE  /\ \A b \in Actors : b # a => pc'[b] = pc[b] /\ kind'[b] = kind[b]
         /\ \/ /\ a # Main /\ pc'[a] = "spawn" /\ kind'[a] = "start" /\ kind[a] = "start"
               /\ transition' = transition
            \/ /\ pc'[a] = (IF a = Main THEN "http_wait" ELSE "idle") /\ kind'[a] = "none"
               /\ transition' = Nobody
<1>1. \A b \in Actors : b # a => pc'[b] = pc[b] /\ kind'[b] = kind[b]
  BY ActorTypes, Zenon DEF AfterStop
<1>2. CASE kind[a] = "start"
  BY <1>1, <1>2, ActorTypes, Zenon DEF IInv, RolesInv, AfterStop
<1>3. CASE kind[a] # "start"
  BY <1>1, <1>3, ActorTypes, Zenon DEF AfterStop
<1> QED
  BY <1>2, <1>3, Zenon

\* StopThreads takes the threads out of the vector under miner_mutex.
LEMMA SwapStep ==
  ASSUME IInv, NEW a \in Actors, Swap(a)
  PROVE  IInv'
<1>0. transition = a /\ joining[a] = {} /\ miner_mutex = Nobody
  BY Zenon DEF IInv, LockInv, JoinInv, Swap
<1>1. CASE miner_threads = {}
  <2>0. /\ AfterStop(a)
        /\ UNCHANGED <<stop, miner_threads, joining, interrupt, live_workers, req, seen, requests,
                       miner_mutex, blocks, address, credited, workerVars, chainVars>>
    BY <1>1, Zenon DEF Swap
  <2>1. TypeOK'
    <3>1. pc' \in [Actors -> Labels] /\ kind' \in [Actors -> {"none", "start", "stop", "shutdown"}]
          /\ transition' \in Actors \cup {Nobody}
      BY <1>0, <2>0 DEF IInv, TypeOK, AfterStop, Actors, Labels
    <3> QED
      BY <2>0, <3>1, Zenon DEF IInv, TypeOK
  <2>2. \A w \in Workers : wpc[w] = "none"
    BY <1>0, <1>1, OnlyHolderJoins, Zenon DEF IInv, EveryThreadOwned
  <2>m. /\ \A b \in Actors : b # a => pc'[b] = pc[b] /\ kind'[b] = kind[b]
        /\ \/ /\ a # Main /\ pc'[a] = "spawn" /\ kind'[a] = "start" /\ kind[a] = "start"
              /\ transition' = transition
           \/ /\ pc'[a] = (IF a = Main THEN "http_wait" ELSE "idle") /\ kind'[a] = "none"
              /\ transition' = Nobody
    BY <2>0, AfterStopMoves, Zenon DEF Swap
  <2>3. RolesInv'
    <3>1. RolesInv /\ a \in Actors /\ pc[a] = "swap"
      BY Zenon DEF IInv, Swap
    <3> QED
      BY <2>0, <2>m, <3>1, Zenon DEF RolesInv, Actors
  <2>4. LockInv'
    <3>1. LockInv /\ a \in Actors /\ pc[a] = "swap"
      BY Zenon DEF IInv, Swap
    <3> QED
      BY <1>0, <2>0, <2>m, <3>1 DEF LockInv, Actors
  <2>5. JoinInv' /\ SeenInv' /\ DrainInv'
    <3>1. JoinInv'
      <4>1. \A b \in Actors : joining'[b] = {}
        BY <1>0, <2>0, OnlyHolderJoins, Zenon
      <4> QED
        BY <1>1, <2>0, <4>1, Zenon DEF JoinInv
    <3>2. SeenInv'
      BY <2>0, AfterStopMoves, SMTT(30) DEF IInv, SeenInv, ActiveReplyNamesAddress, Swap, Actors
    <3>3. DrainInv'
      BY <2>0, <2>2, Zenon DEF DrainInv
    <3> QED
      BY <3>1, <3>2, <3>3, Zenon
  <2>6. PayInv'
    BY <1>0, <2>0, AfterStopMoves, Zenon DEF IInv, PayInv, Swap, Actors
  <2> QED
    BY <2>0, <2>1, <2>3, <2>4, <2>5, <2>6, WorkersKept, Zenon DEF IInv
<1>2. CASE miner_threads # {}
  <2>0. /\ stop' = TRUE
        /\ joining' = [joining EXCEPT ![a] = miner_threads]
        /\ miner_threads' = {}
        /\ pc' = [pc EXCEPT ![a] = "join"]
        /\ UNCHANGED <<transition, kind, interrupt, live_workers, req, seen, requests,
                       miner_mutex, blocks, address, credited, workerVars, chainVars>>
    BY <1>2, Zenon DEF Swap
  <2>1. TypeOK'
    BY <2>0, Zenon DEF IInv, TypeOK, Actors, Labels
  <2>2. RolesInv' /\ LockInv' /\ SeenInv' /\ DrainInv' /\ PayInv'
    <3>0. /\ \A b \in Actors : pc'[b] = IF b = a THEN "join" ELSE pc[b]
          /\ pc[a] = "swap" /\ RolesInv /\ LockInv
      BY <2>0, ActorTypes, Zenon DEF IInv, Swap
    <3>1. RolesInv' /\ LockInv'
      <4>1. RolesInv'
        BY <2>0, <3>0 DEF RolesInv, Actors
      <4>2. LockInv'
        BY <1>0, <2>0, <3>0 DEF LockInv, Actors
      <4> QED
        BY <4>1, <4>2, Zenon
    <3>2. SeenInv' /\ DrainInv' /\ PayInv'
      BY <2>0, ActorTypes, Zenon DEF IInv, SeenInv, ActiveReplyNamesAddress, DrainInv, PayInv, Actors
    <3> QED
      BY <3>1, <3>2, Zenon
  <2>3. JoinInv'
    BY <1>0, <2>0, Zenon DEF IInv, TypeOK, JoinInv, LockInv, Actors
  <2>4. EveryThreadOwned'
    BY <1>0, <2>0, Zenon DEF IInv, TypeOK, EveryThreadOwned, Actors
  <2>5. CountedBlocksPayAddress' /\ LiveWorkersExact'
    BY <2>0, Zenon DEF IInv, CountedBlocksPayAddress, LiveWorkersExact, Alive
  <2> QED
    BY <2>1, <2>2, <2>3, <2>4, <2>5, Zenon DEF IInv
<1> QED
  BY <1>1, <1>2, Zenon

\* Reaping workers that are done changes neither who is alive nor, for the
\* workers that remain, what they mine for.
LEMMA ReapKeepsAlive ==
  ASSUME IInv, NEW ws \in SUBSET Workers, \A w \in ws : wpc[w] = "done", Reap(ws)
  PROVE  /\ \A w \in Workers : wpc'[w] = IF w \in ws THEN "none" ELSE wpc[w]
         /\ \A w \in Workers : wpc'[w] # "none" => script'[w] = script[w]
         /\ \A w \in Workers : Alive(w)' <=> Alive(w)
         /\ wpc' \in [Workers -> {"none", "born", "loop", "search", "count", "done"}]
         /\ script' \in [Workers -> Addresses \cup {NoAddress}]
BY Zenon DEF IInv, TypeOK, Reap, Alive

\* StopThreads has joined its threads.
LEMMA JoinStep ==
  ASSUME IInv, NEW a \in Actors, Join(a)
  PROVE  IInv'
<1>0. /\ transition = a /\ miner_threads = {} /\ joining[a] \in SUBSET Workers
      /\ pc[a] = "join" /\ miner_mutex # a
  BY Zenon DEF IInv, TypeOK, LockInv, JoinInv, Join
<1>1. /\ \A w \in Workers : wpc'[w] = IF w \in joining[a] THEN "none" ELSE wpc[w]
      /\ \A w \in Workers : Alive(w)' <=> Alive(w)
      /\ wpc' \in [Workers -> {"none", "born", "loop", "search", "count", "done"}]
      /\ script' \in [Workers -> Addresses \cup {NoAddress}]
  BY <1>0, ReapKeepsAlive, Zenon DEF Join
<1>2. \A w \in Workers : wpc'[w] = "none"
  BY <1>0, <1>1, OnlyHolderJoins DEF IInv, EveryThreadOwned
<1>3. /\ AfterStop(a) /\ joining' = [joining EXCEPT ![a] = {}]
      /\ UNCHANGED <<interrupt, live_workers, req, seen, requests, miner_mutex, stop, miner_threads,
                     blocks, address, credited, parent, found, chainVars>>
  BY Zenon DEF Join
<1>4. TypeOK'
  <2>1. pc' \in [Actors -> Labels] /\ kind' \in [Actors -> {"none", "start", "stop", "shutdown"}]
        /\ transition' \in Actors \cup {Nobody} /\ joining' \in [Actors -> SUBSET Workers]
    BY <1>0, <1>3, Zenon DEF IInv, TypeOK, AfterStop, Actors, Labels
  <2> QED
    BY <1>1, <1>3, <2>1, Zenon DEF IInv, TypeOK
<1>m. /\ \A b \in Actors : b # a => pc'[b] = pc[b] /\ kind'[b] = kind[b]
      /\ \/ /\ a # Main /\ pc'[a] = "spawn" /\ kind'[a] = "start" /\ kind[a] = "start"
            /\ transition' = transition
         \/ /\ pc'[a] = (IF a = Main THEN "http_wait" ELSE "idle") /\ kind'[a] = "none"
            /\ transition' = Nobody
  BY <1>0, <1>3, AfterStopMoves, Zenon
<1>5. RolesInv'
  <2>1. RolesInv
    BY Zenon DEF IInv
  <2> QED
    BY <1>0, <1>3, <1>m, <2>1, Zenon DEF RolesInv, Actors
<1>6. LockInv'
  <2>1. LockInv
    BY Zenon DEF IInv
  <2> QED
    BY <1>0, <1>3, <1>m, <2>1, Zenon DEF LockInv, Actors
<1>7. JoinInv' /\ SeenInv' /\ DrainInv' /\ PayInv'
  <2>1. JoinInv'
    BY <1>0, <1>3, AfterStopMoves, ActorTypes, Zenon DEF IInv, JoinInv
  <2>2. SeenInv'
    BY <1>0, <1>3, AfterStopMoves, Zenon DEF IInv, SeenInv, ActiveReplyNamesAddress, Actors
  <2>3. DrainInv'
    BY <1>2, Zenon DEF DrainInv
  <2>4. PayInv'
    <3>1. \A b \in Actors : pc'[b] \in {"spawning", "fail_join"} => pc[b] = pc'[b]
      BY <1>0, <1>3, AfterStopMoves, Zenon
    <3> QED
      BY <1>2, <1>3, <3>1, Zenon DEF IInv, PayInv
  <2> QED
    BY <2>1, <2>2, <2>3, <2>4, Zenon
<1>8. EveryThreadOwned'
  <2>1. \A b \in Actors : joining'[b] = {}
    BY <1>0, <1>3, OnlyHolderJoins, Zenon DEF IInv, TypeOK
  <2> QED
    BY <1>0, <1>2, <1>3, <2>1, Zenon DEF EveryThreadOwned
<1>9. CountedBlocksPayAddress' /\ LiveWorkersExact'
  <2>1. {w \in Workers : Alive(w)}' = {w \in Workers : Alive(w)}
    BY <1>1, Zenon
  <2> QED
    BY <1>3, <2>1, Zenon DEF IInv, CountedBlocksPayAddress, LiveWorkersExact
<1> QED
  BY <1>4, <1>5, <1>6, <1>7, <1>8, <1>9, Zenon DEF IInv

\* startcpumining stores the new address and resets the counters.
LEMMA BeginSpawnStep ==
  ASSUME IInv, NEW c \in Callers, BeginSpawn(c)
  PROVE  IInv'
<1>0. /\ transition = c /\ miner_threads = {} /\ joining[c] = {} /\ c \in Actors
      /\ req[c].addr \in Payee
  BY Zenon DEF IInv, LockInv, JoinInv, RolesInv, BeginSpawn, Actors
<1>1. \A w \in Workers : wpc[w] = "none"
  BY <1>0, OnlyHolderJoins, Zenon DEF IInv, EveryThreadOwned
<1>2. TypeOK'
  BY <1>0, Zenon DEF IInv, TypeOK, BeginSpawn, Actors, Labels, Payee
<1>3. RolesInv' /\ LockInv' /\ JoinInv' /\ DrainInv'
  BY <1>0, Zenon DEF IInv, TypeOK, RolesInv, LockInv, JoinInv, DrainInv, BeginSpawn, Actors
<1>4. PayInv' /\ SeenInv'
  BY <1>0, <1>1, ZenonT(30) DEF IInv, TypeOK, PayInv, SeenInv, ActiveReplyNamesAddress, LockInv, BeginSpawn,
                    Actors, Payee
<1>5. EveryThreadOwned' /\ CountedBlocksPayAddress' /\ LiveWorkersExact'
  BY Zenon DEF IInv, EveryThreadOwned, CountedBlocksPayAddress, LiveWorkersExact, Alive, BeginSpawn
<1> QED
  BY <1>2, <1>3, <1>4, <1>5, Zenon DEF IInv

\* The set of live workers, as the argument of the cardinality.
Living == {w \in Workers : Alive(w)}

\* Finitely many workers are alive, so that they can be counted.
LEMMA LivingFinite == IsFiniteSet(Living) /\ IsFiniteSet(Living')
BY FS_Subset, Zenon DEF Living

\* startcpumining creates one thread.
LEMMA SpawnStep ==
  ASSUME IInv, NEW c \in Callers, NEW w \in Workers, Spawn(c, w)
  PROVE  IInv'
<1>0. /\ transition = c /\ c \in Actors /\ joining[c] = {} /\ wpc[w] = "none"
      /\ address = req[c].addr /\ address \in Payee
  <2>1. c \in Actors /\ pc[c] = "spawning" /\ wpc[w] = "none"
    BY Zenon DEF Spawn, Actors
  <2>2. transition = c /\ joining[c] = {}
    BY <2>1, Zenon DEF IInv, LockInv, JoinInv
  <2>3. address = req[c].addr /\ address \in Payee
    BY <2>1, Zenon DEF IInv, RolesInv, PayInv
  <2> QED
    BY <2>1, <2>2, <2>3, Zenon
<1>1. TypeOK'
  <2>1. /\ miner_threads' \in SUBSET Workers /\ live_workers' \in Nat
        /\ wpc' \in [Workers -> {"none", "born", "loop", "search", "count", "done"}]
    <3>1. /\ miner_threads \in SUBSET Workers /\ live_workers \in Nat
          /\ wpc \in [Workers -> {"none", "born", "loop", "search", "count", "done"}]
      BY Zenon DEF IInv, TypeOK
    <3>2. /\ miner_threads' = miner_threads \cup {w} /\ live_workers' = live_workers + 1
          /\ wpc' = [wpc EXCEPT ![w] = "born"]
      BY Zenon DEF Spawn
    <3> QED
      BY <3>1, <3>2
  <2>2. script' \in [Workers -> Addresses \cup {NoAddress}]
    BY <1>0, Zenon DEF IInv, TypeOK, Spawn, Payee
  <2> QED
    BY <2>1, <2>2, Zenon DEF IInv, TypeOK, Spawn
<1>2. RolesInv' /\ LockInv' /\ DrainInv' /\ SeenInv'
  BY Zenon DEF IInv, TypeOK, RolesInv, LockInv, DrainInv, SeenInv, ActiveReplyNamesAddress, Spawn
<1>3. JoinInv' /\ EveryThreadOwned' /\ PayInv' /\ CountedBlocksPayAddress'
  <2>0. /\ \A v \in Workers : wpc'[v] = IF v = w THEN "born" ELSE wpc[v]
        /\ \A v \in Workers : script'[v] = IF v = w THEN address ELSE script[v]
        /\ miner_threads' = miner_threads \cup {w}
        /\ UNCHANGED <<pc, joining, req, address, credited>> /\ pc[c] = "spawning"
    BY <1>0, Zenon DEF IInv, TypeOK, Spawn
  <2>1. JoinInv'
    BY <1>0, <2>0, Zenon DEF IInv, JoinInv, LockInv
  <2>2. EveryThreadOwned'
    BY <2>0, Zenon DEF IInv, EveryThreadOwned
  <2>3. PayInv' /\ CountedBlocksPayAddress'
    BY <1>0, <2>0, Zenon DEF IInv, PayInv, CountedBlocksPayAddress
  <2> QED
    BY <2>1, <2>2, <2>3, Zenon
<1>4. LiveWorkersExact'
  <2>1. Living' = Living \cup {w} /\ w \notin Living
    <3>1. \A v \in Workers : wpc'[v] = IF v = w THEN "born" ELSE wpc[v]
      BY Zenon DEF IInv, TypeOK, Spawn
    <3> QED
      BY <1>0, <3>1, Zenon DEF Living, Alive
  <2>2. Cardinality(Living') = Cardinality(Living) + 1
    BY <2>1, LivingFinite, FS_AddElement, Zenon
  <2> QED
    BY <2>2, Zenon DEF IInv, LiveWorkersExact, Living, Spawn
<1> QED
  BY <1>1, <1>2, <1>3, <1>4, Zenon DEF IInv

\* startcpumining stops the threads it had created before one failed.
LEMMA FailJoinStep ==
  ASSUME IInv, NEW c \in Callers, FailJoin(c)
  PROVE  IInv'
<1>0. /\ transition = c /\ miner_mutex = c /\ c \in Actors /\ joining[c] = {}
      /\ miner_threads \in SUBSET Workers
  BY Zenon DEF IInv, TypeOK, LockInv, JoinInv, FailJoin, Actors
<1>1. /\ \A w \in Workers : wpc'[w] = IF w \in miner_threads THEN "none" ELSE wpc[w]
      /\ \A w \in Workers : Alive(w)' <=> Alive(w)
      /\ wpc' \in [Workers -> {"none", "born", "loop", "search", "count", "done"}]
      /\ script' \in [Workers -> Addresses \cup {NoAddress}]
  BY <1>0, ReapKeepsAlive, Zenon DEF FailJoin
<1>2. \A w \in Workers : wpc'[w] = "none"
  BY <1>0, <1>1, OnlyHolderJoins, Zenon DEF IInv, EveryThreadOwned
<1>3. TypeOK'
  BY <1>1, Zenon DEF IInv, TypeOK, FailJoin, Unlock, Actors, Labels, Request, NoRequest
<1>4. RolesInv' /\ LockInv' /\ JoinInv'
  BY <1>0, ZenonT(30) DEF IInv, TypeOK, RolesInv, LockInv, JoinInv, FailJoin, Unlock, Actors, NoRequest
<1>5. PayInv' /\ SeenInv' /\ DrainInv'
  BY <1>0, <1>2, Zenon DEF IInv, TypeOK, PayInv, SeenInv, ActiveReplyNamesAddress, DrainInv, LockInv,
                    FailJoin, Unlock, Actors
<1>6. EveryThreadOwned'
  BY <1>0, <1>2, OnlyHolderJoins, Zenon DEF IInv, EveryThreadOwned, FailJoin
<1>7. CountedBlocksPayAddress' /\ LiveWorkersExact'
  <2>1. {w \in Workers : Alive(w)}' = {w \in Workers : Alive(w)}
    BY <1>1, Zenon
  <2> QED
    BY <2>1, Zenon DEF IInv, CountedBlocksPayAddress, LiveWorkersExact, FailJoin
<1> QED
  BY <1>3, <1>4, <1>5, <1>6, <1>7, Zenon DEF IInv

-----------------------------------------------------------------------------
(* Steps of a worker.                                                      *)

\* A worker moves inside its function.
Moves(w) ==
    \/ Enter(w) \/ NewTemplate(w) \/ Discard(w, FALSE) \/ Discard(w, TRUE) \/ Submit(w)
    \/ Refused(w) \/ Count(w)

\* A worker leaves its function.
Leaves(w) == LoopEnds(w) \/ Throws(w)

\* A worker that goes on to a label, and what its template and the chain become.
MovesTo(w, l) ==
    /\ Alive(w) /\ Become(w, l) /\ WorkerUnchanged /\ UNCHANGED <<live_workers, script>>
    /\ l \in {"search", "count"} => wpc[w] = "search" \/ ~interrupt
    /\ parent' \in [Workers -> Nat] /\ found' \in [Workers -> Nat]
    /\ tip' \in Nat /\ chain' \in SUBSET Nat /\ blocks' \in Nat
    /\ credited' \subseteq credited \cup {script[w]}

\* The types of what a moving worker changes.
LEMMA MinedTypes ==
  ASSUME IInv
  PROVE  /\ parent \in [Workers -> Nat] /\ found \in [Workers -> Nat]
         /\ tip \in Nat /\ chain \in SUBSET Nat /\ blocks \in Nat
BY Zenon DEF IInv, TypeOK

\* What a worker that goes on mining changes.
LEMMA MovesEffect ==
  ASSUME IInv, NEW w \in Workers, Moves(w)
  PROVE  /\ TypeOK'
         /\ Alive(w) /\ \E l \in {"loop", "search", "count"} :
               /\ wpc' = [wpc EXCEPT ![w] = l]
               /\ l \in {"search", "count"} => wpc[w] = "search" \/ ~interrupt
         /\ UNCHANGED <<script, live_workers, interrupt, rpcVars, lockVars, miner_threads, address>>
         /\ credited' \subseteq credited \cup {script[w]}
<1>0. /\ parent \in [Workers -> Nat] /\ found \in [Workers -> Nat]
      /\ tip \in Nat /\ chain \in SUBSET Nat /\ blocks \in Nat
  BY MinedTypes, Zenon
<1>1. \E l \in {"loop", "search", "count"} : MovesTo(w, l)
  <2>1. ASSUME Enter(w) PROVE MovesTo(w, "loop")
    BY <1>0, <2>1, Zenon DEF Enter, MovesTo, Alive, chainVars
  <2>2. ASSUME NewTemplate(w) PROVE MovesTo(w, "search")
    BY <1>0, <2>2, Zenon DEF NewTemplate, MovesTo, Alive, chainVars
  <2>3. ASSUME Discard(w, FALSE) \/ Discard(w, TRUE) \/ Refused(w) PROVE MovesTo(w, "loop")
    <3>1. /\ wpc[w] = "search" /\ LeaveTemplate(w, "loop") /\ WorkerUnchanged
          /\ UNCHANGED <<live_workers, blocks, credited, chainVars>>
      BY <2>3, Zenon DEF Discard, Refused
    <3> QED
      BY <1>0, <3>1, Zenon DEF LeaveTemplate, MovesTo, Alive, chainVars
  <2>4. ASSUME Submit(w) PROVE MovesTo(w, "count")
    <3>1. tip' \in Nat /\ chain' \in SUBSET Nat /\ found' \in [Workers -> Nat]
      <4>1. CASE parent[w] = tip
        <5>1. /\ tip' = tip + 1 /\ chain' = chain \cup {tip + 1}
              /\ found' = [found EXCEPT ![w] = tip + 1]
          BY <2>4, <4>1, Zenon DEF Submit
        <5> QED
          BY <1>0, <5>1
      <4>2. CASE parent[w] # tip
        <5>1. tip' = tip /\ chain' = chain /\ found' = [found EXCEPT ![w] = 0]
          BY <2>4, <4>2, Zenon DEF Submit, chainVars
        <5> QED
          BY <1>0, <5>1, Zenon
      <4> QED
        BY <4>1, <4>2, Zenon
    <3> QED
      BY <1>0, <2>4, <3>1, Zenon DEF Submit, MovesTo, Alive
  <2>5. ASSUME Count(w) PROVE MovesTo(w, "loop")
    <3>1. blocks' \in Nat /\ credited' \subseteq credited \cup {script[w]}
      BY <1>0, <2>5 DEF Count
    <3> QED
      BY <1>0, <2>5, <3>1, Zenon DEF Count, LeaveTemplate, MovesTo, Alive, chainVars
  <2> QED
    BY <2>1, <2>2, <2>3, <2>4, <2>5, Zenon DEF Moves
<1>2. PICK l \in {"loop", "search", "count"} : MovesTo(w, l)
  BY <1>1, Zenon
<1>3. TypeOK'
  <2>1. wpc' \in [Workers -> {"none", "born", "loop", "search", "count", "done"}]
    BY <1>2, Zenon DEF IInv, TypeOK, MovesTo, Become
  <2>2. credited' \in SUBSET (Addresses \cup {NoAddress})
    BY <1>2, Zenon DEF IInv, TypeOK, MovesTo
  <2> QED
    BY <1>2, <2>1, <2>2, Zenon DEF IInv, TypeOK, MovesTo, WorkerUnchanged, rpcVars, lockVars
<1> QED
  BY <1>2, <1>3, Zenon DEF MovesTo, Become, WorkerUnchanged

\* A worker that goes on mining keeps the invariant.
LEMMA MovesStep ==
  ASSUME IInv, NEW w \in Workers, Moves(w)
  PROVE  IInv'
<1>1. PICK l \in {"loop", "search", "count"} :
         /\ wpc' = [wpc EXCEPT ![w] = l]
         /\ l \in {"search", "count"} => wpc[w] = "search" \/ ~interrupt
  BY MovesEffect, Zenon
<1>2. /\ UNCHANGED <<script, live_workers, interrupt, rpcVars, lockVars, miner_threads, address>>
      /\ credited' \subseteq credited \cup {script[w]} /\ Alive(w) /\ TypeOK'
  BY MovesEffect, Zenon
<1>3. RolesInv' /\ LockInv' /\ JoinInv' /\ SeenInv'
  BY <1>2, Zenon DEF IInv, RolesInv, LockInv, JoinInv, SeenInv, ActiveReplyNamesAddress
<1>4. DrainInv'
  BY <1>1, <1>2, ZenonT(30) DEF IInv, TypeOK, DrainInv, RolesInv
<1>5. PayInv' /\ CountedBlocksPayAddress' /\ EveryThreadOwned'
  <2>1. \A v \in Workers : /\ wpc'[v] = "none" <=> wpc[v] = "none"
                           /\ wpc'[v] = "done" <=> wpc[v] = "done"
    BY <1>1, <1>2, Zenon DEF IInv, TypeOK, Alive
  <2>2. PayInv'
    BY <1>2, <2>1, Zenon DEF IInv, PayInv
  <2>3. EveryThreadOwned'
    BY <1>2, <2>1, Zenon DEF IInv, EveryThreadOwned
  <2>4. CountedBlocksPayAddress'
    BY <1>2, <2>1, Zenon DEF IInv, PayInv, CountedBlocksPayAddress, Alive
  <2> QED
    BY <2>2, <2>3, <2>4, Zenon
<1>6. LiveWorkersExact'
  <2>1. Living' = Living
    BY <1>1, <1>2, Zenon DEF IInv, TypeOK, Living, Alive
  <2> QED
    BY <1>2, <2>1, Zenon DEF IInv, LiveWorkersExact, Living
<1> QED
  BY <1>2, <1>3, <1>4, <1>5, <1>6, Zenon DEF IInv

\* A worker that leaves its loop counts itself out.
LEMMA LeavesStep ==
  ASSUME IInv, NEW w \in Workers, Leaves(w)
  PROVE  IInv'
<1>1. /\ Alive(w) /\ wpc' = [wpc EXCEPT ![w] = "done"]
      /\ live_workers' = live_workers - 1
      /\ parent' = [parent EXCEPT ![w] = 0] /\ found' = [found EXCEPT ![w] = 0]
      /\ UNCHANGED <<script, interrupt, rpcVars, lockVars, minerVars, chainVars>>
  BY Zenon DEF Leaves, LoopEnds, LoopEndsOn, Throws, Finish, LeaveTemplate, Become, WorkerUnchanged, Alive
<1>2. LiveWorkersExact' /\ live_workers' \in Nat
  <2>1. w \in Living /\ Living' = Living \ {w}
    BY <1>1, Zenon DEF IInv, TypeOK, Living, Alive
  <2>2. Cardinality(Living') = Cardinality(Living) - 1
    BY <2>1, LivingFinite, FS_RemoveElement, Zenon
  <2>3. Cardinality(Living') \in Nat
    BY LivingFinite, FS_CardinalityType, Zenon
  <2> QED
    BY <1>1, <2>2, <2>3, Zenon DEF IInv, LiveWorkersExact, Living
<1>3. TypeOK'
  BY <1>1, <1>2, Zenon DEF IInv, TypeOK
<1>4. RolesInv' /\ LockInv' /\ JoinInv' /\ SeenInv'
  BY <1>1, Zenon DEF IInv, RolesInv, LockInv, JoinInv, SeenInv, ActiveReplyNamesAddress
<1>5. DrainInv' /\ PayInv' /\ CountedBlocksPayAddress' /\ EveryThreadOwned'
  BY <1>1, Zenon DEF IInv, TypeOK, DrainInv, PayInv, CountedBlocksPayAddress, EveryThreadOwned, Alive
<1> QED
  BY <1>2, <1>3, <1>4, <1>5, Zenon DEF IInv

-----------------------------------------------------------------------------

\* Every step of every handler, worker and of the shutdown keeps it.
LEMMA NextKeepsIInv == IInv /\ [Next]_vars => IInv'
<1> SUFFICES ASSUME IInv, [Next]_vars PROVE IInv'
  BY Zenon
<1>1. ASSUME NEW c \in Callers, CallerStep(c) PROVE IInv'
  BY <1>1, LockStep, SwapStep, JoinStep, BeginSpawnStep, SpawnEndStep, FailJoinStep, SpawnStep,
     InfoStep, Zenon DEF CallerStep, Actors
<1>2. ASSUME NEW c \in Callers, StopRequest(c) \/ InfoActive(c) \/ SpawnFails(c) PROVE IInv'
  BY <1>2, StopRequestStep, InfoStep, SpawnEndStep, Zenon
<1>3. ASSUME NEW w \in Workers, WorkerStep(w) PROVE IInv'
  BY <1>3, MovesStep, LeavesStep, Zenon DEF WorkerStep, WorkerProgress, Moves, Leaves
<1>4. ASSUME MainStep PROVE IInv'
  BY <1>4, LockStep, SwapStep, JoinStep, EnvironmentStep, Zenon DEF MainStep, Actors
<1>5. CASE UNCHANGED vars
  BY ZenonT(60), <1>5 DEF vars, IInv, TypeOK, RolesInv, LockInv, JoinInv, EveryThreadOwned, PayInv,
         SeenInv, CountedBlocksPayAddress, LiveWorkersExact, ActiveReplyNamesAddress, DrainInv,
         Alive
<1> QED
  BY <1>1, <1>2, <1>3, <1>4, <1>5, StartRequestStep, EnvironmentStep, Zenon DEF Next

\* The inductive invariant holds in every reachable state.
THEOREM Invariance == Spec => []IInv
BY InitIInv, NextKeepsIInv, PTL DEF Spec

\* Every variable keeps its type.
THEOREM TypeCorrect == Spec => []TypeOK
<1>1. IInv => TypeOK
  BY Zenon DEF IInv
<1> QED
  BY <1>1, Invariance, PTL

\* getcpumininginfo's thread count is exact for any number of CPUs.
THEOREM LiveCountExact == Spec => []LiveWorkersExact
<1>1. IInv => LiveWorkersExact
  BY Zenon DEF IInv
<1> QED
  BY <1>1, Invariance, PTL

\* The block count belongs to the reported address.
THEOREM BlocksPayAddress == Spec => []CountedBlocksPayAddress
<1>1. IInv => CountedBlocksPayAddress
  BY Zenon DEF IInv
<1> QED
  BY <1>1, Invariance, PTL

\* No thread is lost or joined twice by StopThreads.
THEOREM ThreadsAccountedFor == Spec => []EveryThreadOwned
<1>1. IInv => EveryThreadOwned
  BY Zenon DEF IInv
<1> QED
  BY <1>1, Invariance, PTL

\* Nothing mines once Shutdown has freed the chainstate, however late a
\* startcpumining created its threads.
THEOREM NothingMinedAfterFree == Spec => []NoMiningAfterFree
<1>1. IInv => NoMiningAfterFree
  BY Zenon DEF IInv, DrainInv, NoMiningAfterFree
<1> QED
  BY <1>1, Invariance, PTL

\* A getcpumininginfo reply that says active names an address, though the two
\* fields are read under separate locks.
THEOREM RepliesNameAddress == Spec => []ActiveReplyNamesAddress
<1>1. IInv => ActiveReplyNamesAddress
  BY Zenon DEF IInv, SeenInv
<1> QED
  BY <1>1, Invariance, PTL

-----------------------------------------------------------------------------
(* CpuMiner implements MinerService.                                       *)

Mined == {script[w] : w \in {v \in Workers : Alive(v)}}

\* The addresses mined for: that of the miner while a worker lives.
LEMMA MinedOne == ASSUME IInv PROVE Mined = IF Living = {} THEN {} ELSE {address}
BY Zenon DEF IInv, PayInv, Mined, Living, Alive

\* Every step starts or stops the service, or leaves it as it is.
LEMMA MinedStep == IInv /\ IInv' /\ [Next]_vars => [Service!Start \/ Service!Stop]_Mined
<1> SUFFICES ASSUME IInv, IInv', [Next]_vars
             PROVE  [Service!Start \/ Service!Stop]_Mined
  BY Zenon
<1>1. /\ Mined = IF Living = {} THEN {} ELSE {address}
      /\ Mined' = IF Living' = {} THEN {} ELSE {address'}
  <2>1. Mined' = IF Living' = {} THEN {} ELSE {address'}
    BY Zenon DEF IInv, PayInv, Mined, Living, Alive
  <2> QED
    BY <2>1, MinedOne, Zenon
<1>2. Living' # {} => address' \in Payee
  BY Zenon DEF IInv, PayInv, Living, Alive
<1>3. address' = address \/ Living = {}
  <2>1. ASSUME NEW c \in Callers, BeginSpawn(c) PROVE Living = {}
    <3>1. transition = c /\ miner_threads = {} /\ joining[c] = {} /\ c \in Actors
      BY <2>1, Zenon DEF IInv, LockInv, JoinInv, BeginSpawn, Actors
    <3> QED
      BY <3>1, OnlyHolderJoins, Zenon DEF IInv, EveryThreadOwned, Living, Alive
  <2> QED
    BY <2>1, ZenonT(30) DEF Next, vars, CallerStep, WorkerStep, WorkerProgress, MainStep, StartRequest,
           StopRequest, Lock, Swap, Join, Spawn, SpawnFails, FailJoin, Started, InfoActive,
           InfoAddress, InfoReply, Enter, NewTemplate, LoopEnds, LoopEndsOn, Discard, Submit,
           Refused, Count, Throws, WorkerUnchanged, TipChange, RequestShutdown, BeginShutdown,
           FreeNode
<1> QED
  BY <1>1, <1>2, <1>3, Zenon DEF Service!Start, Service!Stop, Mined, Payee

\* The miner works for at most one address at a time and passes through "off"
\* between two addresses, whatever the interleaving of requests and workers.
THEOREM ImplementsService == Spec => OneAddressAtATime
<1>1. Init => Service!Init
  BY DEF Init, Service!Init, Alive
<1> QED
  BY <1>1, MinedStep, Invariance, PTL DEF Spec, OneAddressAtATime, Service!Spec, Mined
=============================================================================

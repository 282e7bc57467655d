------------------------------ MODULE CpuMiner ------------------------------
(***************************************************************************)
(* The CPU miner inside the node (core/src/rpc/mining.cpp) and the part of *)
(* node shutdown that ends it (core/src/init.cpp).                         *)
(*                                                                         *)
(* HTTP worker threads (Callers) run the startcpumining, stopcpumining and *)
(* getcpumininginfo handlers, the main thread (Main) runs Shutdown, and    *)
(* Workers are the slots of the threads that startcpumining creates.  The  *)
(* blocks of the active chain are numbered in the order in which they      *)
(* became the tip, so a reorganisation drops the highest numbers.          *)
(* Hashing without a hit changes nothing the properties look at and is a   *)
(* stuttering step; elapsed time is the parameter of Discard.              *)
(***************************************************************************)
EXTENDS Naturals, FiniteSets

CONSTANTS
    Workers,      \* thread slots: the logical CPUs the node may mine with
    Callers,      \* HTTP worker threads that execute RPC handlers
    Main,         \* the thread that runs Interrupt() and Shutdown()
    Addresses,    \* valid reward addresses
    Treasury,     \* the address the literacy treasury is paid to
    NoAddress,    \* the empty g_slithy_cpu_miner_address
    Nobody,       \* a mutex nobody holds
    MaxRequests,  \* bound: RPC requests served in one behaviour
    MaxTip        \* bound: tip changes in one behaviour

ASSUME ActorsAssumption ==
    /\ Main \notin Callers
    /\ Nobody \notin Callers \cup {Main}
    /\ NoAddress \notin Addresses
    /\ IsFiniteSet(Workers)
    /\ MaxRequests \in Nat
    /\ MaxTip \in Nat

Actors == Callers \cup {Main}

VARIABLES
    interrupt,      \* chainman.m_interrupt
    stop,           \* g_slithy_cpu_miner_stop
    transition,     \* holder of g_slithy_cpu_transition_mutex
    miner_mutex,    \* holder of g_slithy_cpu_miner_mutex between two steps
    miner_threads,  \* g_slithy_cpu_miner_threads
    live_workers,   \* g_slithy_live_workers
    blocks,         \* g_slithy_cpu_miner_blocks
    address,        \* g_slithy_cpu_miner_address
    pc, kind, req,  \* per actor: control, the operation it runs, its parameters
    joining,        \* per actor: the vector StopSlithyCpuMinerInternal swapped out
    seen,           \* per caller: what getcpumininginfo has read so far
    wpc, script,    \* per worker: control, coinbase_output_script
    parent, found,  \* per worker: block.hashPrevBlock, the block it submitted
    tip, chain,     \* the tip and the blocks of this miner in the active chain
    credited,       \* history: whom the blocks counted in `blocks' pay
    requests        \* RPC requests served so far

rpcVars == <<pc, kind, req, joining, seen, requests>>
lockVars == <<transition, miner_mutex>>
minerVars == <<stop, miner_threads, blocks, address, credited>>
workerVars == <<wpc, script, parent, found>>
chainVars == <<tip, chain>>
vars == <<interrupt, live_workers, rpcVars, lockVars, minerVars, workerVars, chainVars>>

Request == [addr : Addresses \cup {NoAddress}, threads : SUBSET Workers]
NoRequest == [addr |-> NoAddress, threads |-> {}]
Snapshot == [active : BOOLEAN, address : Addresses \cup {NoAddress}]
NothingSeen == [active |-> FALSE, address |-> NoAddress]

Init ==
    /\ interrupt = FALSE /\ stop = FALSE
    /\ transition = Nobody /\ miner_mutex = Nobody
    /\ miner_threads = {} /\ live_workers = 0
    /\ blocks = 0 /\ address = NoAddress /\ credited = {}
    /\ pc = [a \in Actors |-> "idle"]
    /\ kind = [a \in Actors |-> "none"]
    /\ req = [a \in Actors |-> NoRequest]
    /\ joining = [a \in Actors |-> {}]
    /\ seen = [c \in Callers |-> NothingSeen]
    /\ wpc = [w \in Workers |-> "none"]
    /\ script = [w \in Workers |-> NoAddress]
    /\ parent = [w \in Workers |-> 0]
    /\ found = [w \in Workers |-> 0]
    /\ tip = 0 /\ chain = {}
    /\ requests = 0

-----------------------------------------------------------------------------
(* The RPC handlers and StopSlithyCpuMinerInternal.                        *)

\* std::clamp(requested, 1, std::max(1, available))
SlithyCpuMiningThreads(requested, available) ==
    LET most == IF available > 1 THEN available ELSE 1
    IN  IF requested < 1 THEN 1 ELSE IF requested > most THEN most ELSE requested

Goto(a, label) == pc' = [pc EXCEPT ![a] = label]

Serve(c) ==
    /\ pc[c] = "idle" /\ pc[Main] # "freed"
    /\ requests < MaxRequests
    /\ requests' = requests + 1

\* startcpumining up to the transition lock: the shutdown test precedes it.
StartRequest(c, a, n) ==
    /\ Serve(c)
    /\ ~interrupt
    /\ a # Treasury
    /\ \E slots \in SUBSET Workers :
          /\ Cardinality(slots) = SlithyCpuMiningThreads(n, Cardinality(Workers))
          /\ req' = [req EXCEPT ![c] = [addr |-> a, threads |-> slots]]
    /\ kind' = [kind EXCEPT ![c] = "start"]
    /\ Goto(c, "lock")
    /\ UNCHANGED <<interrupt, live_workers, joining, seen, lockVars, minerVars, workerVars, chainVars>>

StopRequest(c) ==
    /\ Serve(c)
    /\ kind' = [kind EXCEPT ![c] = "stop"]
    /\ Goto(c, "lock")
    /\ UNCHANGED <<interrupt, live_workers, req, joining, seen, lockVars, minerVars, workerVars, chainVars>>

\* The recursive transition mutex: startcpumining takes it before it calls
\* StopSlithyCpuMiner, which takes it again.
Lock(a) ==
    /\ pc[a] = "lock" /\ transition = Nobody
    /\ transition' = a
    /\ Goto(a, "swap")
    /\ UNCHANGED <<interrupt, live_workers, kind, req, joining, seen, requests, miner_mutex, minerVars, workerVars, chainVars>>

\* Where StopSlithyCpuMinerInternal returns to, and who keeps the mutex.
AfterStop(a) ==
    \/ kind[a] = "start" /\ Goto(a, "spawn") /\ UNCHANGED <<transition, kind>>
    \/ /\ kind[a] # "start"
       /\ transition' = Nobody
       /\ kind' = [kind EXCEPT ![a] = "none"]
       /\ Goto(a, IF a = Main THEN "http_wait" ELSE "idle")

\* The section under g_slithy_cpu_miner_mutex: an empty vector returns at once
\* and leaves the stop flag alone.
Swap(a) ==
    /\ pc[a] = "swap" /\ miner_mutex = Nobody
    /\ IF miner_threads = {}
       THEN AfterStop(a) /\ UNCHANGED <<stop, miner_threads, joining>>
       ELSE /\ stop' = TRUE
            /\ joining' = [joining EXCEPT ![a] = miner_threads]
            /\ miner_threads' = {}
            /\ Goto(a, "join")
            /\ UNCHANGED <<transition, kind>>
    /\ UNCHANGED <<interrupt, live_workers, req, seen, requests, miner_mutex, blocks, address, credited, workerVars, chainVars>>

\* Fault: the thread objects are never joined.
ReapNothing(ws) == UNCHANGED <<wpc, script>>

\* The thread objects of ws go.
Reap(ws) ==
    /\ wpc' = [w \in Workers |-> IF w \in ws THEN "none" ELSE wpc[w]]
    /\ script' = [w \in Workers |-> IF w \in ws THEN NoAddress ELSE script[w]]

\* Fault: the old workers are detached instead of joined.
JoinDetaches(a) ==
    /\ pc[a] = "join"
    /\ joining' = [joining EXCEPT ![a] = {}]
    /\ AfterStop(a)
    /\ UNCHANGED <<interrupt, live_workers, req, seen, requests, miner_mutex, minerVars, workerVars, chainVars>>

Join(a) ==
    /\ pc[a] = "join"
    /\ \A w \in joining[a] : wpc[w] = "done"
    /\ Reap(joining[a])
    /\ joining' = [joining EXCEPT ![a] = {}]
    /\ AfterStop(a)
    /\ UNCHANGED <<interrupt, live_workers, req, seen, requests, miner_mutex, minerVars, parent, found, chainVars>>

\* Fault: the address is left for a later step.
BeginSpawnNoAddress(c) ==
    /\ pc[c] = "spawn" /\ miner_mutex = Nobody
    /\ miner_mutex' = c
    /\ stop' = FALSE /\ blocks' = 0 /\ credited' = {}
    /\ Goto(c, "spawning")
    /\ UNCHANGED <<interrupt, live_workers, kind, req, joining, seen, requests, transition, miner_threads, address, workerVars, chainVars>>

\* startcpumining takes g_slithy_cpu_miner_mutex and resets the counters.
BeginSpawn(c) ==
    /\ pc[c] = "spawn" /\ miner_mutex = Nobody
    /\ miner_mutex' = c
    /\ stop' = FALSE /\ blocks' = 0 /\ credited' = {}
    /\ address' = req[c].addr
    /\ Goto(c, "spawning")
    /\ UNCHANGED <<interrupt, live_workers, kind, req, joining, seen, requests, transition, miner_threads, workerVars, chainVars>>

Spawn(c, w) ==
    /\ pc[c] = "spawning"
    /\ w \in req[c].threads \ miner_threads /\ wpc[w] = "none"
    /\ live_workers' = live_workers + 1
    /\ miner_threads' = miner_threads \cup {w}
    /\ wpc' = [wpc EXCEPT ![w] = "born"]
    /\ script' = [script EXCEPT ![w] = req[c].addr]
    /\ UNCHANGED <<interrupt, stop, blocks, address, credited, parent, found, rpcVars, lockVars, chainVars>>

\* The thread vector or a thread cannot be allocated.
SpawnFails(c) ==
    /\ pc[c] = "spawning"
    /\ miner_threads # req[c].threads
    /\ \/ stop' = TRUE
       \/ miner_threads = {} /\ stop' = stop    \* reserve() threw
    /\ Goto(c, "fail_join")
    /\ UNCHANGED <<interrupt, live_workers, kind, req, joining, seen, requests, lockVars, miner_threads, blocks, address, credited, workerVars, chainVars>>

Unlock(c) ==
    /\ miner_mutex' = Nobody
    /\ transition' = Nobody
    /\ kind' = [kind EXCEPT ![c] = "none"]
    /\ req' = [req EXCEPT ![c] = NoRequest]
    /\ Goto(c, "idle")

\* The handler joins the workers it did create while it holds both mutexes.
FailJoin(c) ==
    /\ pc[c] = "fail_join"
    /\ \A w \in miner_threads : wpc[w] = "done"
    /\ Reap(miner_threads)
    /\ miner_threads' = {}
    /\ Unlock(c)
    /\ UNCHANGED <<interrupt, live_workers, joining, seen, requests, stop, blocks, address, credited, parent, found, chainVars>>

Started(c) ==
    /\ pc[c] = "spawning"
    /\ miner_threads = req[c].threads
    /\ Unlock(c)
    /\ UNCHANGED <<interrupt, live_workers, joining, seen, requests, minerVars, workerVars, chainVars>>

\* getcpumininginfo takes the miner mutex anew for each field it reports.
InfoActive(c) ==
    /\ Serve(c) /\ miner_mutex = Nobody
    /\ seen' = [seen EXCEPT ![c] = [active |-> live_workers > 0, address |-> NoAddress]]
    /\ Goto(c, "info_address")
    /\ UNCHANGED <<interrupt, live_workers, kind, req, joining, lockVars, minerVars, workerVars, chainVars>>

InfoAddress(c) ==
    /\ pc[c] = "info_address" /\ miner_mutex = Nobody
    /\ seen' = [seen EXCEPT ![c].address = address]
    /\ Goto(c, "info_reply")
    /\ UNCHANGED <<interrupt, live_workers, kind, req, joining, requests, lockVars, minerVars, workerVars, chainVars>>

InfoReply(c) ==
    /\ pc[c] = "info_reply"
    /\ seen' = [seen EXCEPT ![c] = NothingSeen]
    /\ Goto(c, "idle")
    /\ UNCHANGED <<interrupt, live_workers, kind, req, joining, requests, lockVars, minerVars, workerVars, chainVars>>

CallerStep(c) ==
    \/ Lock(c) \/ Swap(c) \/ Join(c) \/ BeginSpawn(c) \/ Started(c) \/ FailJoin(c)
    \/ \E w \in Workers : Spawn(c, w)
    \/ InfoAddress(c) \/ InfoReply(c)

-----------------------------------------------------------------------------
(* SlithyCpuMinerThread.                                                   *)

Alive(w) == wpc[w] \notin {"none", "done"}

Become(w, label) == wpc' = [wpc EXCEPT ![w] = label]

\* The template goes out of scope, and the loop goes on or the function ends.
LeaveTemplate(w, label) ==
    /\ Become(w, label)
    /\ parent' = [parent EXCEPT ![w] = 0]
    /\ found' = [found EXCEPT ![w] = 0]
    /\ UNCHANGED script

\* Faults: the count is dropped twice, or only on a normal return.
FinishTwice(w) == LeaveTemplate(w, "done") /\ live_workers' = live_workers - 2
FinishUncounted(w) == LeaveTemplate(w, "done") /\ UNCHANGED live_workers

\* Every way out of the function runs ~WorkerLifetime.
Finish(w) ==
    /\ LeaveTemplate(w, "done")
    /\ live_workers' = live_workers - 1

WorkerUnchanged == UNCHANGED <<interrupt, rpcVars, lockVars, stop, miner_threads, address>>

\* The thread begins to run and binds node->mining and node->chainman.
Enter(w) ==
    /\ wpc[w] = "born"
    /\ Become(w, "loop")
    /\ UNCHANGED <<live_workers, script, parent, found, blocks, credited, chainVars>>
    /\ WorkerUnchanged

\* Fault: the outer loop does not look at m_interrupt.
NewTemplateNoInterrupt(w) ==
    /\ wpc[w] = "loop" /\ ~stop
    /\ parent' = [parent EXCEPT ![w] = tip]
    /\ Become(w, "search")
    /\ UNCHANGED <<live_workers, script, found, blocks, credited, chainVars>>
    /\ WorkerUnchanged

\* The outer loop test succeeds and createNewBlock builds on the current tip.
NewTemplate(w) ==
    /\ wpc[w] = "loop" /\ ~stop /\ ~interrupt
    /\ parent' = [parent EXCEPT ![w] = tip]
    /\ Become(w, "search")
    /\ UNCHANGED <<live_workers, script, found, blocks, credited, chainVars>>
    /\ WorkerUnchanged

LoopEndsOn(w, flag) ==
    /\ wpc[w] = "loop" /\ flag
    /\ Finish(w)
    /\ UNCHANGED <<blocks, credited, chainVars>>
    /\ WorkerUnchanged

\* Faults: the outer loop looks at one of the two flags only.
LoopEndsOnInterrupt(w) == LoopEndsOn(w, interrupt)
LoopEndsOnStop(w) == LoopEndsOn(w, stop)

\* The outer loop test fails.
LoopEnds(w) == LoopEndsOn(w, stop \/ interrupt)

\* Fault: the tip is not compared.
WorkExpiredByAge(work, current, aged) == aged

SlithyCpuWorkExpired(work, current, aged) == work # current \/ aged

\* The inner loop ends without a block: stop or interrupt was seen, a look at
\* the tip, at most 250 ms apart, found expired work, or with aged the template
\* is five seconds old or out of nonces.
Discard(w, aged) ==
    /\ wpc[w] = "search"
    /\ stop \/ interrupt \/ SlithyCpuWorkExpired(parent[w], tip, aged)
    /\ LeaveTemplate(w, "loop")
    /\ UNCHANGED <<live_workers, blocks, credited, chainVars>>
    /\ WorkerUnchanged

\* A hash meets the target and ProcessNewBlock takes the block: on the tip it
\* extends the active chain, on an older parent it stays on a side branch.
Submit(w) ==
    /\ wpc[w] = "search"
    /\ IF parent[w] = tip
       THEN /\ tip < MaxTip
            /\ tip' = tip + 1
            /\ chain' = chain \cup {tip + 1}
            /\ found' = [found EXCEPT ![w] = tip + 1]
       ELSE found' = [found EXCEPT ![w] = 0] /\ UNCHANGED chainVars
    /\ Become(w, "count")
    /\ UNCHANGED <<live_workers, script, parent, blocks, credited>>
    /\ WorkerUnchanged

\* ProcessNewBlock refuses the block, or it was not new.
Refused(w) ==
    /\ wpc[w] = "search"
    /\ LeaveTemplate(w, "loop")
    /\ UNCHANGED <<live_workers, blocks, credited, chainVars>>
    /\ WorkerUnchanged

\* In a later cs_main section the block counts if it is in the active chain.
Count(w) ==
    /\ wpc[w] = "count"
    /\ IF found[w] \in chain
       THEN blocks' = blocks + 1 /\ credited' = credited \cup {script[w]}
       ELSE UNCHANGED <<blocks, credited>>
    /\ LeaveTemplate(w, "loop")
    /\ UNCHANGED <<live_workers, chainVars>>
    /\ WorkerUnchanged

\* Building a template, hashing or submitting a block throws.
Throws(w) ==
    /\ wpc[w] = "search" \/ (wpc[w] = "loop" /\ ~stop /\ ~interrupt)
    /\ Finish(w)
    /\ UNCHANGED <<blocks, credited, chainVars>>
    /\ WorkerUnchanged

\* What a worker does whatever its luck and the age of its template: it runs,
\* looks at the tip, and leaves its loops when told to.
WorkerProgress(w) == Enter(w) \/ LoopEnds(w) \/ Discard(w, FALSE) \/ Count(w)

WorkerStep(w) ==
    \/ WorkerProgress(w) \/ Discard(w, TRUE) \/ NewTemplate(w) \/ Submit(w) \/ Refused(w)
    \/ Throws(w)

-----------------------------------------------------------------------------
(* The chain as other miners move it, and node shutdown.                   *)

\* A block arrives; its branch keeps the first k of the known blocks.
TipChange ==
    /\ tip < MaxTip /\ pc[Main] # "freed"
    /\ \E k \in 0..tip : chain' = {b \in chain : b <= k}
    /\ tip' = tip + 1
    /\ UNCHANGED <<interrupt, live_workers, rpcVars, lockVars, minerVars, workerVars>>

\* The shutdown signal, which m_interrupt refers to.
RequestShutdown ==
    /\ ~interrupt
    /\ interrupt' = TRUE
    /\ UNCHANGED <<live_workers, rpcVars, lockVars, minerVars, workerVars, chainVars>>

\* main(): Interrupt(), then Shutdown() as far as StopSlithyCpuMiner.  Requests
\* that the HTTP thread pool has already accepted still run.
BeginShutdown ==
    /\ pc[Main] = "idle" /\ interrupt
    /\ kind' = [kind EXCEPT ![Main] = "shutdown"]
    /\ Goto(Main, "lock")
    /\ UNCHANGED <<interrupt, live_workers, req, joining, seen, requests, lockVars, minerVars, workerVars, chainVars>>

\* StopHTTPServer returns once the pool is idle; later the chainstate goes.
FreeNode ==
    /\ pc[Main] = "http_wait"
    /\ \A c \in Callers : pc[c] = "idle"
    /\ Goto(Main, "freed")
    /\ UNCHANGED <<interrupt, live_workers, kind, req, joining, seen, requests, lockVars, minerVars, workerVars, chainVars>>

MainStep == BeginShutdown \/ Lock(Main) \/ Swap(Main) \/ Join(Main) \/ FreeNode

Next ==
    \/ \E c \in Callers :
          \/ \E a \in Addresses, n \in 0..Cardinality(Workers) + 1 : StartRequest(c, a, n)
          \/ StopRequest(c) \/ InfoActive(c) \/ CallerStep(c) \/ SpawnFails(c)
    \/ \E w \in Workers : WorkerStep(w)
    \/ TipChange \/ RequestShutdown \/ MainStep

Spec == Init /\ [][Next]_vars

\* Threads that can run are run: the handlers, the workers and main().  Nothing
\* makes a request, a template, a block or a failure happen, or a template old.
FairSpec ==
    /\ Spec
    /\ \A c \in Callers : WF_vars(CallerStep(c))
    /\ \A w \in Workers : WF_vars(WorkerProgress(w))
    /\ WF_vars(MainStep)

-----------------------------------------------------------------------------
(* Properties.                                                             *)

Labels == {"idle", "lock", "swap", "join", "spawn", "spawning", "fail_join",
           "info_address", "info_reply", "http_wait", "freed"}

TypeOK ==
    /\ interrupt \in BOOLEAN /\ stop \in BOOLEAN
    /\ transition \in Actors \cup {Nobody}
    /\ miner_mutex \in Callers \cup {Nobody}
    /\ miner_threads \in SUBSET Workers
    /\ live_workers \in Nat /\ blocks \in Nat
    /\ address \in Addresses \cup {NoAddress}
    /\ credited \in SUBSET (Addresses \cup {NoAddress})
    /\ pc \in [Actors -> Labels]
    /\ kind \in [Actors -> {"none", "start", "stop", "shutdown"}]
    /\ req \in [Actors -> Request]
    /\ joining \in [Actors -> SUBSET Workers]
    /\ seen \in [Callers -> Snapshot]
    /\ wpc \in [Workers -> {"none", "born", "loop", "search", "count", "done"}]
    /\ script \in [Workers -> Addresses \cup {NoAddress}]
    /\ parent \in [Workers -> Nat] /\ found \in [Workers -> Nat]
    /\ tip \in Nat /\ chain \in SUBSET Nat
    /\ requests \in Nat

\* g_slithy_live_workers, which getcpumininginfo reports as the number of
\* active threads, is exactly the number of worker functions that have been
\* started and have not returned, through stops, failed starts and exceptions.
LiveWorkersExact == live_workers = Cardinality({w \in Workers : Alive(w)})

\* Every block counted since the last start pays the address that
\* getcpumininginfo reports beside the count: no worker of an earlier start
\* is left to add to the counter that startcpumining reset.
CountedBlocksPayAddress == credited \subseteq {address}

\* A getcpumininginfo reply that says mining is active names an address, even
\* though the two fields are read under separate locks while other handlers
\* start and stop the miner.
ActiveReplyNamesAddress ==
    \A c \in Callers :
        pc[c] = "info_reply" /\ seen[c].active => seen[c].address # NoAddress

\* After the chainstate is freed no worker builds, hashes or submits a block,
\* not even one whose startcpumining passed the shutdown test before the
\* signal and created its threads after Shutdown had stopped the miner.
NoMiningAfterFree ==
    pc[Main] = "freed" => \A w \in Workers : wpc[w] \notin {"search", "count"}

\* init.cpp: "CPU workers must finish before chainstate or mining interfaces
\* are freed."
WorkersFinishBeforeFree ==
    pc[Main] = "freed" => \A w \in Workers : ~Alive(w)

\* A worker keeps its thread object until somebody joins it: a thread that
\* exists is in the miner's vector or in the one the holder of the
\* transition mutex is joining, so none is detached or joined twice.
EveryThreadOwned ==
    \A w \in Workers :
        wpc[w] # "none" <=> \/ w \in miner_threads
                           \/ \E a \in Actors : w \in joining[a]

\* A stop request, a start request and Shutdown's own stop all return: no
\* handler waits for ever for a mutex or for a worker it joins.
RequestsReturn ==
    /\ \A c \in Callers : pc[c] # "idle" ~> pc[c] = "idle"
    /\ interrupt ~> pc[Main] = "freed"

\* Work on a parent that is no longer the tip is given up because of the tip:
\* the next look at it ends the search, and no template has to grow old.
StaleWorkDropped ==
    \A w \in Workers :
        wpc[w] = "search" /\ parent[w] # tip ~> wpc[w] # "search"

\* Once shutdown is requested every worker function returns.
WorkersEnd == \A w \in Workers : interrupt ~> ~Alive(w)

\* What the miner promises (MinerService): it mines for at most one address,
\* and changes the address only by stopping first.
Service == INSTANCE MinerService WITH
    mining <- {script[w] : w \in {v \in Workers : Alive(v)}},
    Payees <- Addresses \ {Treasury}
OneAddressAtATime == Service!Spec
=============================================================================

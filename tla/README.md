# Slithy Tove: TLA+ models, checks and proofs

Slithy Tove is a Bitcoin Core v31 fork (yespower proof of work, ten per cent of
every subsidy to a treasury) with desktop wallets for Windows and Linux, bash
tools for servers and a public status service. This directory models the parts
that the project wrote itself and that run concurrently, survive crashes or do
arithmetic at the edge of a word. TLC checks the models on small instances, and
TLAPS proves the most important properties for every value of the constants.

`PROJECT.json` holds the details this text does not repeat: the source lines each
definition stands for, a mutant for every property, every hazard with its line.

## 1. The system

| Part | Source | State | Interacts with |
|---|---|---|---|
| CPU miner | `core/src/rpc/mining.cpp`, `init.cpp` | worker vector, stop flag, live count, address, block counter, two mutexes | RPC threads, chain tip, node shutdown |
| Block reward and treasury | `core/src/validation.cpp`, `node/miner.cpp`, `rpc/mining.cpp` | chain height, coins issued, the template `getblocktemplate` keeps | miner, pools, peers |
| Difficulty | `core/src/pow.cpp`, `arith_uint256.cpp` | header chain | validation and headers sync |
| Linux wallet: payments | `Desktop/Slithy.Linux/MainWindow*.cs` | one record file per wallet, the copy in memory | local node over RPC, user, crashes |
| Windows wallet: payments | `Desktop/Slithy Tove/.../Form1.cs`, `AppSettings.cs` | one record in `settings.json` and its older generation | local node, inactivity timer, user |
| Wallet RPC client | `.../WalletRpcClient.cs` | none of its own | shared by both wallets |
| Linux tools updater | `site/install/linux/slithy-update.sh` | `bin`, `VERSION`, a lock, staging and backup directories | systemd unit, signed feed, other runs |
| Status collector | `services/slithy-node-status-server.py` | treasury index, explorer list, published snapshots | node over its CLI, HTTP readers |
| Linux node host | `LinuxNodeHost*.cs` | child process, instance lock, ownership receipt | window, other windows, a node left by a crash |
| Linux self update | `LinuxGuiUpdateInstaller.cs`, `MainWindow.Updates.cs` | shortcut and icon, hand-over files | node host, the replacement app |
| Windows self update | `UpdateInstaller.cs`, `Form1.cs` | installation, backups, pending update, health marker | window, helper process |
| Desktop installer | `DesktopInstallService.cs` | application directory | user |
| HTTP handler, snapshot exporters | `services/` | request slots, files | readers |
| Upstream node, web site, build tools | `core/`, `site/`, `tools` | upstream or static | all of the above |

The behaviours that make this code hard are RPC threads that start and stop the
same worker vector; answers of the node that arrive late or never; crashes
between a durable write and the call it protects; a Windows form that stays
clickable while a handler waits; a shell script that can be cut between any two
commands; a chain that changes under a scan made of many calls; and fixed-width
arithmetic on targets up to `2^256 - 1`.

## 2. Modules

| Module | Models | Lines of TLA+ |
|---|---|---|
| `CpuMiner` | the three mining RPCs, the workers, `Shutdown` as far as it meets them | 504 |
| `MinerService` | abstract: off, or mining for one address | 16 |
| `PendingPayment` | the Linux wallet's send, retry and recovery, wallet switches | 339 |
| `WindowsPayment` | the Windows wallet's send, open and lock handlers, settings file | 396 |
| `PaymentPromise` | abstract: no second transaction while the first is unsettled | 27 |
| `Reward` | subsidy, treasury share, coinbase rules, `getblocktemplate` | 215 |
| `Difficulty` | compact targets, retargeting, headers-sync check | 170 |
| `ToolsUpdate` | `slithy-update.sh` with its EXIT trap, several runs at once | 388 |
| `StatusCollector` | the collector thread, treasury index, explorer list | 375 |
| `NodeHost` | the Linux app's node host: start, recovery, stop | 209 |
| `LinuxApp` | the Linux app's windows and self update, over `NodeHost` | 303 |
| `WindowsUpdate` | the Windows app's update and rollback | 260 |
| `CpuMinerProofs`, `PendingPaymentProofs`, `RewardProofs`, `DifficultyProofs`, `ToolsUpdateProofs`, `StatusCollectorProofs`, `LinuxAppProofs` (with `NodeHost`), `WindowsProofs` (`WindowsPayment` and `WindowsUpdate`) | TLAPS proofs about the module of that name | |
| `MC*` | values of the constants for TLC | |

### CpuMiner

An actor is an RPC thread (`Callers`) or `main()`. `pc` is the actor's place
between two lock operations; `transition` and `miner_mutex` are the two mutexes.
`Lock`, `Swap` and `Join` are `StopSlithyCpuMiner`; `BeginSpawn`, `Spawn`,
`SpawnFails` and `FailJoin` the rest of `startcpumining`; `InfoActive`,
`InfoAddress` and `InfoReply` the separate reads of `getcpumininginfo`. A worker
goes through `Enter`, `NewTemplate`, `Discard`, `Submit`, `Count` and leaves by
`LoopEnds` or `Throws`. `Discard(w, aged)` drops work whose tip has changed or
that has aged: the first is what `StaleWorkDropped` is about, and the liveness run
never counts on the second. Of a `getcpumininginfo` reply the flag and the address
are kept; its thread count, speed and block counter may be of different moments,
which nothing in the code excludes. Blocks are numbers, and a branch change keeps a prefix of
the active chain. Hashes and nonces are left out: a search finds a block or not.

### PendingPayment and WindowsPayment

Each await is a value of `pc` (in `WindowsPayment`, of the activation's own `pc`,
since several handlers can wait at once). The node is external: a
`sendrawtransaction` call is in `transit` until `Accept` or `Refuse`, which may
come after the app gave up, and the node's wallet hears of the transaction later
still (`WalletLearns`). A transaction is the n-th one its wallet signed; amounts,
fees and coin selection are left out.

The Linux wallet disables its window while an action runs (`Run`), so one `pc`
is enough. The Windows form leaves buttons enabled during some waits; the
constant `Patient` says whether the user presses Send or Wallet only when neither
handler is at work. Locks come from a button or the inactivity timer and overlap
the other handlers in either case. `Save` writes `settings.json` and keeps the
previous generation, `Load` falls back to it. Power loss inside `File.Replace` is
not modelled.

### Reward and Difficulty

`Reward` follows one chain from genesis with coinbases built by the node, by a
pool from `getblocktemplate`, or by a peer that may choose any outputs. A coinbase
is the sequence of its outputs, so that a treasury output of zero and none are
different things. `getblocktemplate` holds `cs_main` from the tip to the reply,
except in a long poll: `LongPoll` reads the tip and waits, `Polled` reads it again
and goes on. `UpdateTemplate` keeps or replaces the static template, `Served` is
the `CHECK_NONFATAL` on its treasury output, and `PoolCoinbases` are the coinbases
its reply allows. A shift by the width of a `CAmount` or more is undefined in
C++; `RightShift` takes the count modulo the width, as processors do, so that the
guard of `GetBlockSubsidy` matters.
`Difficulty` keeps `arith_uint256` modulo `Base^Digits`, so that a small base
shows the same roundings and wrap-arounds as 256 and `2^256`. The two-hour rule
for future timestamps and the branches of the other test networks are left out.

### ToolsUpdate

One action per command of the script that changes state, and one per command of
the trap. A command may fail (`Fail`, or the failing disjunct of its action), a
signal may arrive between two commands (`Signal`), the process may be killed
(`Kill`); each has a budget in `left`. Releases are numbers, and a directory is
the sequence of releases in it, because `mv` onto an existing directory moves
*into* it. Digest and signature checks are the success or failure of their step.

### StatusCollector

Each call to the node's CLI is a step, and the node may adopt another branch of a
constant block tree between any two. The index is compared with `HoldingsOf`,
which computes the treasury's coins from the set of transactions a branch has
mined, without order, loop or index. `TransactionsAssumption` is what consensus
guarantees of each branch: no transaction identifier twice, no output spent twice
or before it exists, and a genesis block that pays the treasury nothing.

### NodeHost and LinuxApp

Each app process has a window (`app[a].win`) and a host (`host[a].pc`, the step of
`StartAsync` or `StopCoreAsync`); the hosts share the lock, the receipt and the
node processes. `OpenLock`, `Recover`, `Confirm`, `Dismiss`, `Dismissed`, `Launch`,
`Record` and `Ready` are `StartAsync` in order, `Throw` each of its exceptions,
`Stop`, `StopTimesOut` and `Stopped` are `StopCoreAsync`. A window calls its host
and goes on when the host returns (`Call`, `Return`). `Review` to `Leave` are
`ReviewUpdate` with `ActivateAndLaunchAsync` and `LaunchAsync`; `Acknowledge`,
`GoOn` and `Abandon` are the replacement app's side. Processes are slots that are
used again, so opening, crashing, updating and starting are unbounded.

- The checks of a receipt (start ticks, user, program hash, arguments) are one
  condition, `Verified`: the process is the one that was recorded and has this
  build's program. The two releases have different node programs.
- A check and the stop call after it are one step (`Dismiss`): the call carries
  the cookie of the node that was checked, so another process cannot obey it.
  A process id is used again only while the receipt names it (`Reuse`). Until that
  other process ends, every start fails, which the model shows as `Throw`.
- An app that dies between `Process.Start` and the receipt leaves a node that no
  record names. `RecordedNodeFound` is about recorded nodes.
- A hand-over that runs into its deadline is a cancellation to `ReviewUpdate`
  (`MainWindow.Updates.cs:223`), which then does not start the node again; the
  field `stay` is this case and that of a replacement that may still be there.
- `_ready`, which drives the timer and the controls, the payment checks before an
  update, downloads and staging are left out: they write nothing shared. The early
  return of `StartAsync` for a node that runs is not reached: a start follows a
  stop or is the first.

### WindowsUpdate

One window at a time (the mutex of `Program.cs`), and a helper per attempt with
the step of `Apply` it is at. `disk` is the installation, the backup of each
attempt, `pending-update.json`, the `.ready` file and the health marker. A directory is
a set of files, each with its name and its release: the program, which both
releases have, and a file that only one of them has. Copying is an overlay
(`SafeDirectoryCopy`): it replaces files of the same name, removes nothing, and may
stop after any file. The installer's `[Files]` section does the same. So a
successful update leaves the old release's dropped files in place (`Updated`),
while `RestoreBackup`, which moves the directory away first, brings back exactly
the old ones. Windows
refuses to write a running program or to move its directory, so `Copied` and
`RestoreBackup` succeed only without a window; both may also fail.

## 3. Runs

Passing runs (distinct states in parentheses):

| Run | What it shows |
|---|---|
| `miner_safety` (347,346) | Two RPC threads, two workers, two payee addresses, three requests, two blocks: `LiveWorkersExact`, `CountedBlocksPayAddress`, `ActiveReplyNamesAddress`, `EveryThreadOwned`, `NoMiningAfterFree`, and the refinement `OneAddressAtATime` |
| `miner_liveness` (31,930) | Under fairness `RequestsReturn`, `StaleWorkDropped`, `WorkersEnd` |
| `payment_record` (196,779) | Two wallets with two payments each, crashes, damaged records, late answers: `UnsettledOnRecord`, `MemoryMatchesRecord`, `OnlyApprovedOffered`, `RecordKeptUntilAccepted`, and the refinement `NoSecondPayment` |
| `windows_payment` (1,453,902) | Two wallets, a patient user, locks at any time, one failed write, one damaged file: `OnlyApprovedOffered`; until the failure or the damage also `RecordSurvivesRestart` and `NoSecondPayment` (every step is one `PaymentPromise` allows) |
| `reward` (77,910) | All halvings with late shares rounded to zero, long polls across them, templates kept or replaced: `SupplyWithinLimit`, `TemplatesAccepted`, `PoolsServed` |
| `difficulty` (172,266) | Every start target, times that run backwards or far ahead: `ScaleTargetExact`, `PresyncAccepts`, `NextTargetDerivable` |
| `tools_update` (310,173) | Two runs, two failing commands, a signal and a kill: `SwapWhileStopped`, `ReleasesKept`; after at most one failing command and no interruption also `WholeInstallation` and `ServiceAsFound` |
| `status` (224,307) | Two reorganisations, one leading back, a failed call or a restart: `IndexMatchesBranch`, `FiguresOfOneBranch`; while there was at most one reorganisation also `FiguresOfTip` and `ListingIsChain`; under fairness `CatchesUp` |
| `desktop` (1,018,299) | Linux, two app and two node processes: `StoppedByOwner`, `RecordedNodeFound`, `NodeKeepsOwner`, `HandoverExclusive`, `DesktopAfterUpdate`. Windows, two updates: `InstallWhole`, `ReplacedAfterExit` |

`MCDesktop` holds both desktop apps: its variable `os` chooses one, and the other
one's variables do not move, so the run is the union of two separate systems.

`TypeOK` (`UpdateTypeOK` in `WindowsUpdate`) states the types of a module's
variables. `miner_safety` lists it as an invariant of the run. It is proved for
every module, as part of the inductive invariant, or of what follows from it.

Runs in which TLC refutes what a comment, message or test of the repository says:

| Run | Statement | What happens |
|---|---|---|
| `miner_shutdown_race` | `init.cpp:308`: workers finish before the chainstate is freed | `startcpumining` tests the interrupt before it locks; its workers can be created after `Shutdown`'s only stop. `NoMiningAfterFree` still holds: such a worker never mines |
| `windows_payment_twice` | `Form1.cs:844`: a lost response survives restart; `Form1.cs:1989`: the user cannot start two operations at once | Two clicks ask about one payment; the later answer clears the record of a newer one |
| `tools_update_race` | `slithy-update.sh:205`: refusing a downgrade | The version is compared before the lock is taken and not again |

### Conditions in the properties

Some properties hold only under a condition that is written into them. The
condition is there because the code does not keep the property without it; TLC
shows so when the condition is removed.

- `RecordSurvivesRestart` and `NoSecondPayment` of `WindowsPayment` need `Intact`.
  When `Save` throws in `sendButton_Click` (`Form1.cs:849`), the record stays in
  memory, and the next click relays it without saving it; a crash then loses it.
  When `settings.json` is unreadable, `Load` (`AppSettings.cs:325`) takes the
  generation from before the payment. They are also stated for a `Patient` user:
  `windows_payment_twice` shows what two overlapping clicks do.
- `WholeInstallation` needs a run without a signal or kill: one that is handled between
  `mv bin` and `BIN_REPLACED=1` (`slithy-update.sh:344-345`) leaves no `bin`. The
  release is still in the backup directory (`ReleasesKept`).
- `FiguresOfTip` and `ListingIsChain` need at most one reorganisation. When the
  chain leaves a branch during a scan and is back before the closing test
  (`slithy-node-status-server.py:270`), the test sees no difference and the other
  branch's data is published under the first branch's hash.
  `FiguresOfOneBranch` holds even then.
- `DesktopAfterUpdate` needs `orderly`: no app killed in its update, no `Restore`
  that fails, no two windows that update at once. Of two overlapping updates the
  later one may take the other's new icon or shortcut for its snapshot
  (`LinuxGuiUpdateInstaller.cs:174-175`); when both fail, it stays, although no
  replacement went on (`LinuxGuiUpdateSelfTest.cs:139` tests one update alone). The instance lock does not exclude
  this: a window whose start was refused stays open and can update.
- `InstallWhole` calls an updated installation whole when the new release lies
  over the old one: the files the new release dropped are still there, because
  nothing in `ApplyPackage` removes them. After a rollback they are exactly the old
  ones.
- `InstallWhole` needs `undisturbed`: no window opened by hand while a helper is at
  work, no helper killed in the middle, no rollback that fails. A window opened
  between two copied files keeps the rest of them, and the directory, locked; the
  copy and then the rollback fail, and the installation stays a mixture.
- A lock that overlaps a send in the Windows wallet can close the wallet under the
  confirmation. The payment is then recorded with an empty wallet name
  (`Form1.cs:846`) and not relayed. No property excludes this.

### Bounds

Two of each actor are enough for the interleavings: the properties relate a pair
(an old and a new start, two updaters, two payments of one wallet), and a second
wallet shows that records do not mix. The miner's three requests allow
start, stop, start. Every budget (`MaxTip`, `MaxRequests`, `MaxFaults`,
`MaxSignals`, `MaxKills`, `MaxSaveFailures`, `MaxDamage`, `MaxReorgs`,
`MaxAttempts`) is a conjunct of the action it limits. In `StatusCollector`
`MaxFaults` counts failed calls and restarts together. One is enough for both: a
restart forgets all the collector knows, so that what follows it is a behaviour
from the start on a chain which `NewTip` reaches as well.
`NodeHost` and `LinuxApp` have no budgets; two app processes give an owner and a
rival, or an app and its replacement, and two nodes an orphan and its successor.
Both sets are symmetric, and the run has no liveness property. A second update on
Windows meets the marker, the `.ready` file and the backup of the first.
`Reward` uses a halving every second block and a width of five bits, so that
subsidy and share pass through every rounding down to zero and the shift count
reaches the width. `Difficulty` uses base 4 with
five digits and a limit that the compact form cannot state exactly. The block
tree of `StatusCollector` has a shorter branch with more work, a payment mined on
both branches and one that returns more to the treasury than it takes.

Deadlock is not checked where the model may really stop: after shutdown or once
the bounds are used up (miner, reward, difficulty), and when a damaged settings
file keeps the Windows app from starting.

### Fairness

`CpuMiner!FairSpec` is weakly fair to each handler, to `main()` and to what a
worker does without luck: a runnable thread is run, and the search loop looks at
the tip and the stop flags every few hashes. Nothing makes a request, a block, a
template or a failure happen, or work grow old: a worker on an old tip has to drop
it because of the tip. `StatusCollector!FairSpec` is weakly fair
to the collector's next call or its exception, since the loop catches everything
and each call has a timeout; reorganisations and failures are bounded and need
no fairness. The safety properties of that run hold with or without it. The other specifications claim no liveness.

## 4. Proofs

Every safety invariant and action property that a passing run checks is also
proved, for every value of the constants. `Spec` is `UpdateSpec` in `WindowsUpdate`.

| Module | Theorem | Statement |
|---|---|---|
| `CpuMinerProofs` | `TypeCorrect` | `Spec => []TypeOK` |
| | `LiveCountExact` | `Spec => []LiveWorkersExact` |
| | `BlocksPayAddress` | `Spec => []CountedBlocksPayAddress` |
| | `ThreadsAccountedFor` | `Spec => []EveryThreadOwned` |
| | `NothingMinedAfterFree` | `Spec => []NoMiningAfterFree` |
| | `RepliesNameAddress` | `Spec => []ActiveReplyNamesAddress` |
| | `ImplementsService` | `Spec => OneAddressAtATime`, a refinement |
| `PendingPaymentProofs` | `TypeCorrect` | `Spec => []TypeOK` |
| | `StaysOnRecord` | `Spec => []UnsettledOnRecord` |
| | `CopyIsCurrent` | `Spec => []MemoryMatchesRecord` |
| | `ApprovedOnly` | `Spec => []OnlyApprovedOffered` |
| | `RecordsKeptUntilAccepted` | `Spec => RecordKeptUntilAccepted`, an action property |
| | `ImplementsPromise` | `Spec => NoSecondPayment`, a refinement |
| `WindowsProofs` | `TypeCorrect` | `Spec => []TypeOK` |
| | `ApprovedOnly` | `Spec => []OnlyApprovedOffered`, patient user or not |
| | `RestartRemembers` | from `Patient`, `Spec => []RecordSurvivesRestart` |
| | `ImplementsPromise` | from `Patient`, `Spec => NoSecondPayment` |
| `RewardProofs` | `SupplyBound` | `Spec => []SupplyWithinLimit` |
| | `TemplatesPass` | `Spec => []TemplatesAccepted` |
| | `TypeCorrect` | `Spec => []TypeOK` |
| | `PoolsAreServed` | `Spec => []PoolsServed` |
| `DifficultyProofs` | `ScaleTargetCorrect` | `ScaleTarget` is exact for every width, limit and pair of times |
| | `TypeCorrect` | `Spec => []TypeOK`, the assertion of `GetCompact` |
| | `RetargetExact` | `Spec => []ScaleTargetExact` |
| | `HeadersSyncAccepts` | `Spec => []PresyncAccepts` |
| | `NextDerivable` | `Spec => []NextTargetDerivable` |
| `ToolsUpdateProofs` | `TypeCorrect` | `Spec => []TypeOK` |
| | `InstallationWhole` | `Spec => []WholeInstallation` |
| | `ServiceUndisturbed` | `Spec => []ServiceAsFound` |
| | `NothingLost` | `Spec => []ReleasesKept` |
| | `ReplacedWhileStopped` | `Spec => SwapWhileStopped`, an action property |
| `LinuxAppProofs` | `TypeCorrect` | `Spec => []TypeOK` |
| | `OrphanFound` | `Spec => []RecordedNodeFound` |
| | `ReplacementWaits` | `Spec => []HandoverExclusive` |
| | `DesktopSettled` | `Spec => []DesktopAfterUpdate` |
| | `OwnerStops` | `Spec => StoppedByOwner`, an action property |
| | `OnlyCrashOrphans` | `Spec => NodeKeepsOwner`, an action property |
| `WindowsProofs` | `UpdateTypeCorrect` | `Spec => []UpdateTypeOK` |
| | `WholeAfterUpdate` | `Spec => []InstallWhole` |
| | `ParentExitsFirst` | `Spec => ReplacedAfterExit`, an action property |
| `StatusCollectorProofs` | `TypeCorrect` | `Spec => []TypeOK` |
| | `IndexIsOfOneBranch` | `Spec => []IndexMatchesBranch` |
| | `FiguresAreOfOneBranch` | `Spec => []FiguresOfOneBranch` |
| | `FiguresAreOfTip` | `Spec => []FiguresOfTip` |
| | `ListingsAreChains` | `Spec => []ListingIsChain` |

Almost none of the properties is inductive. Each module has an invariant `IInv`
(`UpdateIInv` for `WindowsUpdate`) that is, with `Init => IInv` and one lemma per action for `IInv /\ Next => IInv'`;
the properties follow from `IInv`, or for a step from `IInv` and the action.

**CpuMiner** (from `ActorsAssumption`).
`IInv` adds who may be where (`RolesInv`), that a mutex is held exactly between
the steps that lock and unlock it (`LockInv`), that a swapped-out vector belongs
to the actor joining it and the miner's own vector is empty meanwhile
(`JoinInv`), that every existing thread mines for the current address (`PayInv`),
that what an information request has read stays true (`SeenInv`) and that after
`Shutdown`'s stop a worker can only be on its way out (`DrainInv`). `JoinInv` and
`PayInv` are the heart of it: a new address is set only when no thread exists.
The live count needs cardinality facts about one worker joining or leaving.

**PendingPayment** (from `PaymentAssumption`). `IInv` adds what each await knows
(`AwaitInv`), that records and the transaction in memory were approved and belong
to the wallet they are kept for (`OriginInv`), that the node has only what it was
offered (`NodeInv`), and that a wallet has at most one unsettled transaction,
the one in memory if there is one (`OneUnsettled`). The refinement follows from
`OneUnsettled` and `UnsettledOnRecord`.

**WindowsPayment** (from `WindowsAssumption` and `FileAssumption`: the marks for a
missing and a damaged file are no payment records). Approval travels with every
copy of the record (`ApprovedInv`), whatever the user does. The rest is proved
from `Patient`: only one activation other than a lock is at work, and what it
asks about, relays or replaces is the record in memory (`WorkInv`); while
`Intact` holds the file agrees with memory and names the one transaction that may
be without a result (`RecordInv`). `windows_payment_twice` shows that `WorkInv`,
and with it the two theorems, fails without `Patient`.

**Reward** (from `RewardAssumption`, which contains `MAX_MONEY = 2 * Interval *
Initial`, true of the mainnet parameters, and the law of exponents that the
backends lack). The invariant bounds the coins issued plus `Room(height)`, what
may still be minted: the rest of this era and at most one more era's worth.
`Kept` says of the template that it was built on the block its `pindexPrev` names,
and that its fees exist while that block is the tip (`issued` can fall, because a
coinbase may claim less than its fees). The acceptance of templates and of pools'
coinbases then rests on `RewardInRange`, the bound on the next reward, and on
`AcceptsOne` and `AcceptsTwo`, the rules for coinbases of one and two outputs. The
count of a shift below the width is used as it is (`ShiftBelow`).

**Difficulty** (from `DifficultyAssumption`, and `PowersAssumption`, the laws of
exponents up to the width of a target, which the backends lack and TLC evaluates
for the constants of the run). In `ScaleTarget` the quotient is bounded before it
is multiplied and the remainder's product is below the width, so no operation
wraps. Storing a target rounds it down to a multiple of a power of the base
(`RoundValue`), which keeps the leading digit (`RoundLeading`), so a positive
target stays positive, and the order of targets (`RoundMonotone`: a target with
more digits keeps its leading one, and of two with equally many the larger has
the larger mantissa).
Scaling keeps the order too (`ScaledMonotone`). Hence the demanded target lies
between the two that headers sync compares it with. The invariant is that every
header stores the compact form of a target between one and the limit.

**ToolsUpdate** (from `UpdateAssumption`). `LockInv` ties the script's flags to its
position and to the lock; `UnitInv` says from where to where the service is down,
`PlaceInv` where the directories are, and `KeptInv` that from the moment the old
directory is moved aside until the commit everything that must be kept is in a
backup. `WholeInv` and `ServiceInv` hold under `OneFailure`: they say at each
command of whoever holds the lock which of `bin` and the backup is whole, and
that a rollback means that the one failure has happened, so nothing fails in it.

**LinuxApp** with **NodeHost** (from `HostAssumption`). A window waits for
certain steps of its host only (`WindowInv`); the lock is held by whoever has a
process or is about to start one, and the receipt is empty when a node is started
(`LockInv`); a recorded running node is the one the receipt names (`ReceiptInv`).
`HandoverInv` pairs each app with at most one replacement and says that
`proceed.json` means that the other app leaves. `DesktopInv` gives, while updates
are orderly, the two desktop files as a function of the step of the one update.

**WindowsUpdate** (from `AttemptsAssumption`). `HelperInv`: a parent has at most
one helper and has exited before files are replaced. `PhaseInv`: while nothing
disturbs the updates one helper is active, only a new window may run while it
works, and the files of the installation and of the backup follow from its step:
the old ones, a part of the new ones over them, or `Updated`.

**StatusCollector** (from `CollectorAssumption`, a tree in which a block has more
work than its parent, and `TransactionsAssumption`). The proof has three parts.

- Data. `branch` exists and is the one chain of parents that ends in a block
  (`BranchChain`, `ChainUnique`). A sum over a finite set exists and does not depend
  on the order in which it is taken (`SumsExist`, `SumsAgree`), so adding a coin adds
  its value. Applying one transaction to what the transactions before it left gives
  what they leave together with it (`ApplyTxAdds`); by the transactions of a block
  and the blocks of a branch, `ApplyBlock` takes `Holdings` of the parent to
  `Holdings` of the block (`IndexStep`). This is where consensus is needed: with a
  repeated identifier or a second spend the incremental index and the set differ.
- The node. Tips gain work. Hence a block that the node has left, and that is no
  heavier than the tip at that time, can only return by a second change of branch
  (`Extends`, `AncestorWork`).
- The collector. `IndexInv`: the index is empty or that of one branch. `StatusInv`
  and `ListInv` say what the payload under construction is at each call: before the
  closing test it agrees with the block it names, or that block has left the chain
  and one reorganisation is used up (`Beside`, `Follows`), so that the test fails or
  the condition `reorgs <= 1` does. `Published` is the three properties of the
  snapshots.

The proofs about recursive functions and sums (here and in `DifficultyProofs`) use no induction rule: the library's take an operator as a
parameter, which the backends cannot instantiate. They take a least number, a
lightest block or a smallest set for which the claim would fail (`LeastNumber`,
`LeastWork`, `MinimalSet`) and show that a smaller one fails too.

Only model-checked:

- all liveness (`RequestsReturn`, `StaleWorkDropped`, `WorkersEnd`, `CatchesUp`):
  TLAPS 1.4.5 has no rule for fairness and `ENABLED`. That the figures `CatchesUp` waits
  for are those of the published block is `FiguresAreOfTip`.

## 5. Not modelled

- Upstream validation, mempool, P2P and wallet: unchanged, and external where the
  apps use them. The proof-of-work hash is a fixed function whose value no
  property depends on.
- The Windows node manager, desktop installer, HTTP handler, snapshot exporters,
  wallet creation and import: planned, see below.
- Update checks, downloads and staging: they write to new directories only, and
  the digest and signature checks on them are pure computation.
- Coin control, key derivation, terms, layout, web site, build tools: pure
  computation on data, presentation, or commands run by hand.
- The translation catalogues under `core/src/qt/locale` (`*.ts`, Qt Linguist XML):
  upstream data. They are most of the repository's lines and have no behaviour.

## 6. Plan

1. `LocalNodeManager.cs` over the actions of `NodeHost`, with the job object that
   ends the node with the app.
2. One abstract specification of an installation (the old release or the new one,
   and where copying is an overlay the new one over the old) for `LinuxApp`, `WindowsUpdate` and `ToolsUpdate`.
3. HTTP slots of the status service with the exporters as its readers; wallet
   creation from recovery words with rescan and abort; desktop installation.

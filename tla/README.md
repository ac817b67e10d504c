# Verification of the Cryptix miner

TLA+ models of the concurrent and stateful parts of this miner, TLC
configurations that check them on small instances, and TLAPS proofs that hold
for every value of the constants.  Paths below are relative to the repository.

## 1. Inventory

The miner is one process.  `main.rs` reconnects for ever to a node (gRPC) or a
pool (stratum).  For every connection there is one *client* and one
*MinerManager*; the manager owns the worker threads, hands them commands over a
home-made *watch channel*, and gets blocks back over a bounded channel that a
task of the client forwards to the network.  Plugins (CUDA, OpenCL) build GPU
workers; a CUDA worker can own an *autotuner* thread.

| Component | State | Operations | Interacts with |
|---|---|---|---|
| watch channel, `src/watch.rs` | value behind an RwLock, atomic `id`, mutex and condition variable, receiver count, sender flag; per receiver the last id observed | `send`, `get_changed`, `wait_for_change`, `clone`, the two drops | manager (sender), workers (receivers), shared memory |
| miner manager and workers, `src/miner.rs` | `is_synced`, thread handles with a kill switch each; per worker its job, its nonce, its fallback spec | `process_block`, `Drop` with the freeze handlers, the CPU loop, the GPU loop with launch, sync, output, fallback | client (calls), watch channel, block channel of capacity 1, plugins, signals |
| stratum client, `src/client/stratum.rs` | static `SHARE_STATS` with `shares_pending`, the shared template counter, per connection ids, payee, settings | `register`, `listen`, `handle_message`, the forwarding task, `log_shares` | pool (messages), manager, other tasks through the mutex |
| gRPC client, `src/client/grpc.rs` | template counter, devfund ticks, channel to the node | `register`, `listen`, `client_get_block_template`, `handle_message`, submit task | node (messages), manager |
| main loop, `src/main.rs` | plugin manager, the template counter | `client_main`, the reconnect loop, choice of client | all of the above |
| CUDA autotuner, `plugins/cuda/src/autotune.rs` | limit, best score, direction, errors in a row, shutdown channel | `run_autotune_loop`, `spawn_autotuner`, `Drop` | NVML, the CUDA worker that owns it |
| CUDA and OpenCL plugins | options per GPU, driver objects | build workers, launch, sync, copy output | driver; `miner.rs` through the `Worker` trait |
| GPU plan, `plan_gpu_specs` in `src/miner.rs` | none (pure) | pairs an OpenCL device with its CUDA fallback | plugins |
| numeric helpers: `target.rs`, `set_difficulty`, `set_extranonce`, `hex32_to_u64x4`, `parse_devfund_percent`, `xoshiro256starstar.rs` | none (pure) | arithmetic at fixed widths | clients, workers |
| proof of work, `src/pow*` | none (pure) | hashing | workers |
| GPU kernels, `heavy_hash` in `cryptix-cuda.cu` and `cryptix-opencl.cl` | per group a local copy of the matrix; one cell for a nonce | one work item per nonce: early return, copy, barrier, hash, store | each other, through the copy and the cell; the host, through the cell |
| command line, plugin manager, codec, protobuf | options, loaded libraries | start-up and conversions | — |

**What is hard here.**  Readers and a writer meet in the watch channel through
two locks and three atomics.  A worker may be stuck in a full channel, in a
device, or asleep, when the manager is dropped and joins it.  Shutdown sends
`SIGUSR1` to threads and panics in the signal handler.  A GPU run fails in five
ways with different ways out.  Tasks of the stratum client take a mutex with
`try_lock().unwrap()`, and a static map outlives its connection while its ids
start over.  The autotuner is a feedback loop with two reversals in one cycle.
The items of a GPU kernel return early, share what they were
to fill, and race for one cell.  Arithmetic is done at widths that targets, difficulties and nonces from the
network fill to the edge.  `PROJECT.json` lists each of these hazards at its line.

**What makes each part correct.**

* Watch channel: no lost wakeup, no skipped version, no refusal while somebody
  listens, no call left inside when the sender goes.
* Manager and workers: the sync flag tells what workers were told; the channel
  outlives the threads; every error uses up the fallback before a thread ends;
  dropping terminates; workers get to the newest template.
* GPU kernels and the host's side of a launch: a nonce that is reported solves the job at
  hand, and a nonce that was found is reported.
* Stratum client: each answer finds its own share; templates go to whoever's
  turn it is; nobody panics on a mutex or a missing entry.
* gRPC client: the same turns; a block is mined only while the node is synced, or the option asks for it;
  a template is asked for as often as the node says there is a new one.
* Autotuner: it knows the limit in force, stays in its bounds, does not hold up
  its worker, and finds the efficient limit.
* Plugins and GPU plan: what is counted is built; every selected device is mined on once, its
  fallback is itself; its kernel and power ceiling are its own.
* Numeric helpers: agreement with a reference definition at every input width.

## 2. Plan

Done in order; a later module relies on the ones before it.

| # | Module | About | State |
|---|---|---|---|
| 1 | `WatchAbs` | what the watch channel promises | done |
| 2 | `Watch`, `MCWatch`, `Watch_proofs` | the channel itself, refines `WatchAbs` | done, proved |
| 3 | `MinerPool`, `MCMinerPool`, `MinerPool_proofs` | manager, workers, shutdown; composed with `WatchAbs` by INSTANCE | done, proved |
| 4 | `Stratum`, `MCStratum`, `Stratum_proofs` | the stratum client over several connections | done, proved |
| 5 | `Autotune`, `MCAutotune`, `Autotune_proofs` | the autotuner over several workers | done, proved |
| 6 | `Grpc`, `MCGrpc`, `Grpc_proofs` | template loop, sync decisions, devfund counter against the documented share | done, proved |
| 7 | `Devices`, `MCDevices`, `Devices_proofs` | plugins, options, specs, the GPU plan, fallbacks and kernels | done, proved |
| 8 | `Shares`, `MCShares`, `Shares_proofs` | difficulty, extranonce and compact target in words, nonces and shares | done, proved |
| 9 | `PayeeSchedule` | whose turn it is, across connections: the specification of both clients | done; `Stratum` implements it (proved), `Grpc` but for one template (finding, the rest proved) |
| 10 | `GpuKernel`, `MCGpuKernel`, `GpuKernel_proofs` | a GPU thread, its launches and the items of its kernel | done, proved |

Abstract specifications: `WatchAbs` for the channel (refinement checked and,
for its safety part, proved) and `PayeeSchedule` for the clients (checked and proved of `Stratum`,
and of `Grpc` up to the fourth finding).
The long jump of the nonce generator was planned on a scaled generator and is given up: section 8
says why.  Every safety property a passing run checks is proved, and of nearly every liveness
property its safety core: section 6 says what that is and what is left of each.

## 3. The modules

### WatchAbs and Watch: the watch channel

`WatchAbs` is the contract the rest relies on: there is a newest version, a
receiver that asks is given the newest one, told honestly that it is nothing new
(`get_changed`), or refused once the channel is closed.  A `wait` is owed an
answer only when its receiver does not hold the newest version or the channel is
closed.  It may be handed a version it already holds.  The code does that in two
ways.  A reader loads the id (line 125) before it takes the read lock (line 58), so a send
in between gives it the new value under the old id, although `watch.rs:44-45` says that "a
reader can't observe a new value with an old ID"; its next call hands it the same value again.
And a late `notify_all` wakes a receiver which has picked the version up with `get_changed`
(`wait_for_change` does not look at the id again).  A worker that has just solved a full block
and waits then mines the old one once more.  The harmful direction, a version ticked off and
never handed out, is excluded by `NeverBehind`.

`Watch` has one action per atomic operation, lock or condition variable
operation.  The payload is a version number.

| Code | Actions |
|---|---|
| `Sender::send` | `Send`, `WriteValue`, `IncrementId`, then `LockToNotify`, `NotifyAll` (`wake_up_threads`) |
| `Drop for Sender` | `DropSender`, then `LockToNotify`, `NotifyAll` |
| `get_changed`, `wait_for_change` | `Call`, `CheckAlive`, `ObserveNewId` or `NothingNew`, `CloneValue`; waiting adds `WantLock`, `Lock`, a second look, `LookedTwice`, `Park`, and on waking `Lock`, `CheckAlive`, `Reload`, `CloneValue` |
| `Clone`, `Drop for Receiver` | `CloneReceiver`, `DropReceiver` |

The write lock is the state `spc = "increment"`: only `CloneValue` wants the read
lock.  `wait_for_change` is the mutex, `parked` the queue of the condition
variable, `woken` the queue of the mutex.

### MinerPool: the manager, its workers and their end

The channel is `WatchAbs`; `cmds[v]` is the command behind version `v`.  A
template is a full block (gRPC) or a partial one (stratum), which decides whether
a worker drops its job after a solution and whether `process_block` can fail.

| Code | Actions |
|---|---|
| `MinerManager::process_block` | `ProcessJob`, `ProcessBadJob` (no header), `ProcessUnsynced` (None) |
| `client_main` when `listen` returns | `ListenReturns` |
| `Drop for MinerManager`, `trigger_freeze_handler`, `register_freeze_handler` | `SendClose`, `PopHandle`, `Join`, `DropFields`; `FreezerWakes`, `FreezerSignals` |
| `launch_cpu_miner` | `StartWait`, `Poll`, `Answered`, `CpuHash`, `SendBlock` |
| `launch_gpu_miner`, `build_worker_safe` | `GpuBuild`, `StartWait`, `GpuRun`, `GpuFault`, `SendBlock`, `Poll`, `Answered` |
| `create_block_channel` (either client) | `Forward`, `LinkDown` |

Hashing is a choice: a nonce solves the block or does not.  A freeze handler
sleeps, reads its kill switch, and only then signals; the two are two steps.
What a panic in the signal handler does depends on the toolchain (unwinding out
of an `extern "C"` function), so it is a choice of three outcomes: the thread
ends, the process aborts, or the `catch_unwind` around a GPU launch stops it and
the fallback takes over.

A CPU worker looks at the channel after every batch of nonces (`CpuCatchesUp`).  A GPU worker
does so only after a launch that found nothing: one that found a share, or whose run was
ignored, goes straight on.  `GpuCatchesUp` therefore has a hypothesis, that empty launches
keep coming.

### PayeeSchedule: whose turn it is

Templates are numbered through a cycle, and those with a number below `Share` are the devfund's.
`NextTemplate` counts one and gives the next job to whoever is due, or to nobody when it is lost
on the way; `GiveUp` ends the job.  Both clients are held to it with the percentage for `Share` and
the counter for `turn`, over all their connections, since the counter outlives them.
`Stratum` implements it (`stratum.rs:182` compares with `<`).  `Grpc` does not (`grpc.rs:132`
compares with `<=`): that is the fourth finding, and `OnlyTheEdgeIsOff` says that the template
with the number `Percent` is the only one it gets wrong, and that no turn is skipped or used twice.

### Stratum: the stratum client

`listen` alternates between `CheckTurn` (whose turn is it?) and one message:
`Notify`, `Settings`, an answer (`ReadReply`, then `Credited`, `Fatal` or
`UnwrapNone`), or `StreamFails`.  The forwarding task is `DrawId`,
`InsertAndSend`; the log task `LogStarts`, `LogEnds`.  `Connect` is the reconnect
loop, with `register` for its two requests.  Holding the mutex of `shares_pending` is state, so that
`try_lock` can fail.  `pending` outlives a connection, as the static does, and
remembers which connection an entry is from.  The pool is external: it may answer
each request once, in any order, or never.

### Grpc: the gRPC client

One task reads the stream and handles a message to its end; it waits only where
the code awaits a send.  So the state of `listen` is `lpc`: reading, or waiting for
room to send a registration or a request.

| Code | Actions |
|---|---|
| `connect`, `Drop`, the reconnect loop | `Connect`, `Lost`, `Hangup` |
| `client_get_block_template` | `GetBlockTemplate` up to the await, `SendRequest` after it |
| `handle_message`: `GetInfoResponse` | `ReadInfo`, `SendRegister` (and on to the request) |
| notifications | `ReadNotification` |
| `GetBlockTemplateResponse` | `ReadTemplate` with `Wanted`, `JobFor`, `StopMining`; `ReadFails` |
| `create_block_channel`'s task | `Submit` |

`to_node` is the bounded channel of two, shared by requests and submitted blocks.
The node (`Serve`, `NewBlock`, `SyncChanges`) is external: it answers in order, may
answer without a block or with an error, may refuse the registration, and finds blocks
and gains or loses sync at any moment.  Replies that the client only logs change
nothing and are not sent.

### Autotune: the power-limit autotuner

Actions are the worker's `Spawn`, `DropHandle`, `Join`, and the thread's `Open`,
`Wake`, then one of `Skip`, `Overheat`, `Pinned`, `Climb`, `ClimbFails`.
`Heading` is the reversal on a score that is no better; `Pinned` holds the second
one, at a bound.  The device is external.  A *calm* behaviour is one in which
nothing fails and the score depends on the limit alone, by one of `Curves`; in all
others it is any number at any cycle.

### Devices: from the command line to the GPU threads

| Code | Actions and operators |
|---|---|
| `load_plugins`, `load_single_plugin`, `declare_plugin!` | `LoadPlugin`, plugin by plugin, in any order of the directory |
| `PluginManager::process_options` | `ParseCommandLine`, then one of the next two rows per plugin |
| `CudaPlugin::process_option` | `CudaOptions`, `CudaOptionsFail`, `CudaDisabled`; `Pick`, `Ceiling`, `SetLimits`, `CudaSpecs` |
| `OpenCLPlugin::process_option` | `OpenCLOptions`, `OpenCLOff`; `Platform`, `OpenCLSpecs` |
| `main` before its loop | `CheckWorkers` |
| `PluginManager::build`, `plan_gpu_specs`, `launch_gpu_threads` | `Built`, `Plan` (`Others`, `Paired`, `Leftover`), `Connect` |
| `CudaGPUWorker::new` | `KernelRules`, `Kernel`, `Buildable` |
| `launch_gpu_miner`, as far as workers are built | `Builds`, `FallsBack`, `Ends` |
| the reconnect loop | `Hangup` |

A spec's `id()` is a slot and a name, for a slot is the index on the command line with CUDA, and the
position among the chosen devices with OpenCL.  Which plugin is right about a
GPU is therefore a matter of the machine and the options, and the properties say for
which: names that differ (`NamesDiffer`), or both plugins using the same GPUs in
the same order (`SameUse`).  Otherwise a GPU can fall back on its twin, or get a thread
of each plugin: with `--opencl-device 1`, OpenCL's GPU 1 is its `#0`, CUDA's is `#1`, and
the comment above `miner.rs:267`, "where OpenCL is unavailable", is not what
the loop below it goes by.

The kernels are a chain of rules that a capability of 8.8, say, falls through until one that takes
any minor number of an older generation.  `KernelFits` therefore asks for the GPU's own kernel only
where there is one, and otherwise that the kernel is not newer than the GPU.

### Shares: targets, nonces and shares in numbers

`TargetAsAsked` compares words with integers, `MeetsTarget`
and `InPartition` follow a number from the pool's or node's message through the job to
the share, and `EveryNonceTried` is about the worker's arithmetic.

| Code | Actions and operators |
|---|---|
| `set_difficulty` | `SetDifficulty`, `RefuseDifficulty`; `Start`, `Remainder`, `Top`, `TooBig` |
| `set_extranonce`, `set_extranonce_eth` | `SetExtranonce`, `SetExtranonceInferred`, `RefuseExtranonce`; `FixedPart`, `Partition` |
| `u256_from_compact_target`, `Uint256` | `FromCompact`, `Shl`, `Leq` |
| `State::new`, `process_block` | `Process`, by `Notify` or `Template` |
| `check_pow`, `generate_block_if_pow` | `Solves`, `Submits` |
| `launch_cpu_miner` | `CpuWait`, `CpuTurn`; `Masked`, `Advance` |
| `launch_gpu_miner` | `GpuWait`, `GpuFinds`, `GpuFindsNothing` |

A word has `WordBytes` bytes of `ByteBits` bits, and there are four of them in a
target; a nonce is one word.  The hash is an arbitrary function `Pow`.  A worker's turn is
one action: what happens between its steps is in `MinerPool`.  `asked` in a job, and
`said`, remember what the properties compare with; no action reads them but for
the bounds.  Two behaviours of the code are in the model and outside the
properties.  The CPU worker renews its mask only in `CpuWait`, so a partition that the pool
moves under a job does not reach it (`said.moved`).  And a shift by a whole word, at
difficulties beyond 2^56, is taken modulo the width as in a release build.

### GpuKernel: a GPU thread and its kernel

The host thread launches, waits, reads one cell and checks what is in it; the work items of
the launch interleave in between, in groups of the driver's making.

| Code | Actions and operators |
|---|---|
| `launch_gpu_miner` | `WaitForJob`, `ReadNonce`, `RunIgnored`, `Confirmed`, `NotConfirmed`, `NothingFound` |
| `load_to_gpu`, `pow_gpu`, each plugin's `load_block_constants`, `calculate_hash` | `LoadAndLaunch`: `CudaLaunch`, `OpenCLLaunch` |
| `CudaGPUWorker::new`, `set_workload`, `OpenCLGPUWorker::new` | `CudaWorkload`, `GridSize`, `OpenCLWorkload`, `Packed` |
| `heavy_hash`, `cryptix-cuda.cu` | `CudaEnter`, `PassBarrier`, `HashNonce`, `CudaStore` (`atomicCAS`) |
| `heavy_hash`, `cryptix-opencl.cl` | `OpenCLEnter`, `PassBarrier`, `HashNonce`, `OpenCLTest`, `OpenCLWrite` |

A CUDA item that is past the end of the workload, or finds the cell taken, returns before it has
copied its stride of the matrix; the barrier does not wait for it.  So an item may hash with an
incomplete matrix, and then `Verdicts` lets the comparison say anything.  `Sound` setups are those
in which every item is inside the workload and the matrix comes with one entry to a byte.  For
them `ReportedSolves` holds because an item leaves early only when the cell is
taken, and `atomicCAS` never replaces what is in it.  The other setups are in the run too, and
outside the property: a last block that is not whole (the second finding), and the packed
matrix of `--experimental-amd`, which the kernel in the source tree does not unpack.

The OpenCL kernel has no early return.  There the first item clears the cell when it
starts (the host has cleared it already), which may be after another group has stored
its nonce, and the store is a look followed by a write.  `FoundIsReported` is what
is left: a nonce found in the first item's group is never lost.  A nonce 0 cannot be
reported at all, for 0 stands for none.

## 4. The runs

| Run | Configuration | Properties | Shows |
|---|---|---|---|
| `watch` | two receivers, three versions | `TypeOK NoLostWakeup NeverBehind RefusedMeansNobody ImplementsWatch AnswersOwed` | the channel keeps its contract |
| `pool` | one CPU and one GPU worker, poll every second nonce, two commands and Close | `TypeOK SyncFlagHonest ChannelOutlivesWorkers FallbackFirst ShutdownCompletes CpuCatchesUp GpuCatchesUp` | workers, fallback, shutdown |
| `stratum` | two connections, three shares each, a cycle of three templates, one for the devfund | `TypeOK PendingIsAwaited ImplementsSchedule` | shares and payees across reconnects |
| `stratum_trylock` | same | `ForwardMeetsNobody` (violated) | the forwarding task can die of a taken mutex |
| `grpc` | two connections, blocks 1 to 3, a channel of two, a cycle of three templates, one for the devfund | `TypeOK NothingMissed WorkersObey NewsArrives OnlyTheEdgeIsOff` | templates, sync, the workers' orders and payees |
| `grpc_devfund` | same | `ImplementsSchedule` (violated) | one template per cycle too many is the devfund's |
| `shares` | words of four bits, seven difficulties, four extranonces, eight compact targets, two jobs | `TypeOK MeetsTarget TargetAsAsked InPartition EveryNonceTried` | numbers from the announcement to the share |
| `devices` | six GPUs in 24 machines, 31 command lines | `TypeOK CountIsBuilt FallsBackOnSameGpu NoneForgotten NoGpuTwice CeilingKept KernelFits` | start-up, plan and fallbacks |
| `autotune` | hardware 1..8, bounds 2..7, step 2, three errors, single-peaked curves | `TypeOK KnowsTheLimit BoundsRespected DropReturns Converges` | the feedback loop |
| `autotune_bound` | same | `NotStuckAtBound` (violated) | the loop is stuck at a bound |
| `kernel` | eight setups of three or four items, two jobs, two launches | `ReportedSolves FoundIsReported` | races among work items, and what the host reads |
| `kernel_tail` | the two setups whose last block is not whole | `NothingWrong` (violated) | a wrong nonce ends a GPU thread |

**Why these bounds are enough.**

* `watch`: a wakeup is lost between one sender and one receiver; the second
  receiver contends for the mutex and is the clone.  With versions 1 to 3 there
  are two sends, so a send can complete while a receiver is anywhere in a call
  that an earlier send began, and the notification of one version can come after
  the next one.  An id is a `usize` and does not wrap.
* `pool`: two workers are needed to fill a channel of one place and to have one
  joined while the other still runs.  A CPU worker differs from a GPU worker in
  every branch that matters, so there is one of each.  With `PollEvery = 2` a
  nonce may or may not be the one that completes a batch (128 in the code).  Two
  commands before the Close allow a job then None, None then a job, and a job
  replaced by another.
* `stratum`: the second connection meets what the first left behind; with ids 2 to 4 it
  has three shares in which an id can be reused, answered and out of order.  A
  cycle of three templates, one of them the devfund's, has both edges of the
  turn and the wrap.
* `grpc`: one block can come before the registration and one after it, or both
  while a request is under way.  A channel of two, the code's own size, is filled by two
  submits while `listen` waits.  The second connection starts with a counter in the
  middle of its cycle.  The cycle of three has the devfund's edge and the wrap.
* `shares`: difficulties lie on word boundaries, to both sides of them, in the top word
  and past it.  Extranonces are absent, leave three, two or no bytes to the miner, or do not fit
  a word.  Compact targets are negative, below one byte, across a word and shifted out in part or
  whole.  Two jobs and two extranonces let a partition move under a job.  A CPU worker starts at
  either of two nonces and comes from there to all sixteen; `EveryNonceTried` asks about two that
  solve most targets.
* `devices`: machines have no, one or two GPUs per API, of one model or two, in equal or
  different order, without the brand in a name, with an AMD platform or an empty one,
  or no OpenCL.  One GPU has each compute capability there is a rule for, and
  some there is none for.  Command lines select none, one, both or the same GPU
  twice, and give fewer and as many values as GPUs.
* `autotune`: bounds inside those of the hardware, with an odd distance from a
  step of two, so that the climb is clamped at either end, and starts outside
  the bounds exist.  Curves: every peak from 1 to 8, with equal slopes and with
  either side three times as steep.

* `kernel`: two groups of two items: an early return is met by an item of its own group that
  passed, and a store by an item of the other group.  OpenCL also has one group of four and three of one.
  Each job has a solution that is none of the other job's, so that a stale nonce or a stale
  job on the device shows, and one has the solution 0.  The second launch meets what the first
  left in the cell, after a find, after nothing, and after an ignored run.

`CHECK_DEADLOCK FALSE` is set everywhere: channels are closed, managers dropped, connections
used up and tuners ended, and then these systems stop.

**Fairness.**

* `Watch`: a thread inside a call of the channel is scheduled (weak fairness).
  Nobody has to make a call.  A mutex needs no strong fairness here because a
  waiter's turn is only contended for by finitely many calls.
* `MinerPool`: a drop that has begun goes on, freeze handlers and CPU threads are
  scheduled, and so is a GPU thread on the host's side (waiting, polling, sending).  A worker that has asked the channel is owed only what `WatchAbs` owes
  it.  Nothing is assumed of the client, the network or the
  devices: a launch may never return, and a full channel may stay full, because
  `Forward` has no fairness.  Those are the cases the freeze handlers are for.
  `GpuCatchesUp` brings its own hypothesis: launches that find nothing come again and again (strong).
* `Grpc`: the node serves what it receives and the task of `listen` is polled (weak
  fairness).  Sends have strong fairness: tokio's channel hands out its permits in
  the order they were asked for, so submits cannot overtake a waiting `listen`
  for ever.  Connections need not come back.
* `Autotune`: the autotuner's thread runs, and `join` returns when it has ended.
* `Shares`: the CPU worker's thread runs (weak fairness); nothing is assumed of the pool.
* `Stratum`, `Devices`, `GpuKernel`: only safety is claimed.

## 5. Findings

Each is a run whose property TLC violates.

1. `stratum.rs:254` takes the mutex with `try_lock().unwrap()`; when `listen` or
   the log task is in there, the forwarding task ends and the connection submits
   no share any more.
2. `miner.rs:398` calls a nonce the host cannot confirm "Something is wrong in GPU
   results!" and ends the thread.  With a CUDA workload that is no multiple of the block size
   it happens on healthy hardware: the grid is rounded up (`worker.rs:67-69`), the threads past the
   end return at `cryptix-cuda.cu:682` without filling their part of the shared matrix, and the
   rest of their block hashes with it.
3. `autotune.rs:240` flips the direction at a bound "so we don't get stuck there
   forever".  Because the score of an unchanged limit is no better than itself, the
   next cycle flips it back: the autotuner stays at the bound.
4. `grpc.rs:132` compares the template counter, 0 to 9999, with `<=`.  The option is "the percentage of
   blocks to send to the devfund" (`cli.rs:18`), "out of 10_000" (`cli.rs:62`), but the devfund gets one
   template of each cycle more: twice its share at 0.01, and everything at 99.99.

Two more are in the models without a run of their own.  `stratum.rs:370` unwraps the entry of
`shares_pending` an error reply refers to; the error reply to `mining.authorize`, which lines 391-394 mean to
report, has none, and `listen` panics.  That is the action `UnwrapNone`, which run `stratum` takes; that no
reply to a share gets there follows from its property `PendingIsAwaited` (`SharesAreKnown`).  The other is a new
value under an old id, in the section on `Watch`.

## 6. The proofs

Each `*_proofs` module has an inductive invariant `IInv`, a lemma per fact about
an operator, one step per action, and theorems of the specification.

* `Watch_proofs`, for any finite set of receivers and any number of versions.
  `NoLostWakeup` is not inductive: it needs that a receiver about to park holds
  the mutex and saw the current id with the sender alive, which needs that
  `wait_for_change` is owned by exactly the thread whose program counter says so,
  and that ids never fall behind what was observed.  `NeverBehind` needs that
  `value` is `id`, or one more while the write lock is held.  `RefusedMeansNobody`
  needs that `receivers_count` is the number of live receivers.  `Refinement`
  proves that the initial states and every step map to those of `WatchAbs`.
  `DeadlockFree`: whoever holds the mutex or the write lock can go on, and when everyone inside a
  call is parked, one of them would sleep through news, which `NoLostWakeup` excludes.  `CallsEnd`
  counts the steps left in a call (eleven at most for a receiver, four for the sender).
* `MinerPool_proofs`, for any sets of CPU and GPU workers, any number of commands and
  any polling interval.  `SyncFlagHonest` and `FallbackFirst` are inductive with the
  types.  `ChannelOutlivesWorkers` is not: it needs that a thread has ended, is still in
  the manager's list, or is being joined (`Awaited`), and so that the channel is
  closed only once all have ended (`ClosedLast`).
  The progress theorems share a second invariant, `JInv`: in which order a Drop sends, pops, joins and
  drops (`DropOrder`); that a thread being joined has ended or has a freeze handler on its way, unless a GPU thread
  survived its signal (`JoinIsCutShort`); what workers hold while they ask and mine (`AsksInAnswer`,
  `MinesItsJob`); and that Close is the last command and ends who takes it in (`CloseIsLast`,
  `CloseIsObeyed`).  From it `DropIsNeverStuck`, `CloseEndsWorkers` and `NoOtherWait` follow.
  `DropEnds` and `CpuNearer` are measures: the threads still to be popped and joined, and the nonces
  before a CPU worker's next look at the channel.
* `Grpc_proofs`, for any capacity, cycle, percentage, number of blocks and of
  connections.  `NothingMissed` needs that a registration on its way is followed by
  a request (`RequestFollows`), so that the node registers the client before
  it makes the first template, and that templates arrive in the order of blocks
  (`InOrder`), so that reading an old one does not use up a newer one.
  `WorkersObey` needs that a cleared flag means idle workers (`FlagTold`): then the
  None that `process_block` suppresses was not needed.  `Offline` says that
  nothing of one connection is left for the next.  `OneTemplateTooMany` follows every
  step in `PayeeSchedule` but the one that counts the template numbered `Percent`.  `NewsIsNearer` weighs what is on the way
  by the steps it leads to: an info reply is followed by a registration, a request and a
  template, and so on.  A sum over a queue would need induction, so the weight of a queue is the size of a set of
  pairs (`Units`), for which appending and taking off the head are facts about cardinality.
  `NeverStuck` needs that `listen` has a case for everything on the stream (`Readable`): if it
  reads, it can go on, and if it waits for room, the full channel has something for the node.
* `Stratum_proofs`, for any number of connections and ids, any cycle and
  percentage.  `PendingIsAwaited` needs that entries are not from the future
  (`EntriesAreOld`), that what is awaited has been drawn (`IdsAreDrawn`) and that
  an id about to be entered is not awaited (`InsertIsFresh`).  `ScheduleIsKept`, the
  refinement of `PayeeSchedule`, needs that between the check of the turn and the
  message nothing moves the counter (`TurnHolds`).  `LockNeverLeaks` goes over every way a task can
  end.  `SharesAreKnown` and `CountedOnce` follow from `PendingIsAwaited` and from the id that
  `insert` enters being one of this connection; they confine the unwrap of line 370 to answers to the login.
* `Autotune_proofs`, for any bounds, step and efficiencies.  The invariant says
  that a thread that tunes has valid bounds, errors left, and the limit in force.
  `ClosesIn` adds where a calm climb is (`ClimbState`): at its first limit, or at most a step off a limit whose score
  it remembers and heading away from it (`OnTheWay`), or held against a bound around the best limit (`Held`,
  the third finding).  By cases on where the peak lies, a cycle ends in `Around` the best limit or a full `Step` nearer.
  `NeverTwo` and `DropEnds` are about handle, channel and thread.
* `Devices_proofs`, for any machines, GPUs, names and command lines; a machine lists a CUDA device
  once, and no limit is above `NoLimit`.  All its properties are proved, from a base and what
  each of them needs beyond it:
  `FallsBackOnSameGpu` needs that a plugin's specs are nothing or what its options say
  (`SpecsMade`), so that a spec's name is its GPU's and its slot, when all GPUs are used, the GPU's
  position; and that a thread with a fallback was planned from an OpenCL spec and a CUDA one with
  the same key (`ThreadsMade`), which reconnecting does not change.  `CountIsBuilt` needs that
  plugins are in the list once and read their options once (`Lists`), and that one that has not, or
  is disabled, offers nothing (`Counted`).  `NoneForgotten` needs a thread for every pair of the plan
  (`Mined`): of specs with a key the first is kept (`FirstIsKept`), and one that is dropped has a
  pair with the same key, so the same GPU.  `NoGpuTwice` needs that threads are the plan's, one
  each (`OnePerPair`), and that pairs of the plan with one GPU are one (`PairsApart`).
  `CeilingKept` needs that limits are set by position (`LimitsAreCeilings`), and are none before
  the plugin has read its options (`PowerInv`).  `KernelFits` is a lemma about the rules
  (`KernelOfGpu`) and that what runs could be built (`ThreadsRun`).
* `Shares_proofs`, for any widths of a byte and of a word (three bytes or more), difficulties, extranonces,
  bits and hashes.  Powers of two are counted: `2 ^ n` is the number of subsets of
  `1..n` and `PowAdd` a bijection, which stands for the induction the provers lack.
  Quotients and remainders (`DivMod`, `ModScale`) then show that a word shifted by less than its width is two
  neighbouring words (`TwoWords`, `Place`), and so what a difficulty (`DifficultyTarget`) and compact bits
  (`CompactTarget`, with a shift past the top word) become; `LeqIsValue` that words compared from the
  top one down are numbers compared; and `MaskedIsAnnounced` that a nonce with mask and
  fixed part applied carries the extranonce (`Parts`).  The invariant says of each job, in the channel or with
  a worker, that it was made from what it was asked for (`Made`), and of the CPU worker, which renews
  its mask only when it waits, that until the pool moves the partition its mask is that of every
  job (`CpuPartition`).  `CoversItsPartition` is the converse of `MaskedIsAnnounced`: the partition
  of a worker is one of equal stretches into which the nonces divide (`Stretch`), so every announced nonce is its own
  when masked.  `NoneLeftOut` counts the nonces `Ahead` of the worker in that stretch: adding one and masking goes
  round it (`Successor`), with the wrap at its end (`Gap`).
* `GpuKernel_proofs`, for any devices and options, grid and group sizes, jobs, nonces and launches.
  `ReportedSolves` needs an invariant over the items: whoever left early on a sound setup saw the cell
  taken, the cell stays taken while the launch lasts, so an item with an incomplete matrix loses at
  the `atomicCAS`; every nonce in the cell, or about to be stored, solves the job on the device; and
  that job is the host's until the host has judged the nonce.  `FoundIsReported` needs that
  nobody past the barrier of the first group can meet a clear, because the first item
  has started by then.  `BarrierOpens` needs that an item past the barrier has nobody of its group
  before it (`BarrierHolds`): then either an item of the group can move on its own, or all that
  are left stand at the barrier, which opens.  With `LaunchEnds`, at most five steps for each item, a launch ends.

Assumptions on constants are the named `ASSUME`s of each module, which TLC
evaluates in every run.

**Only model-checked** is liveness itself, which is beyond the proof system, as is ENABLED: the
theorems below that say "can take a step" have the guards of the actions written out.

| Liveness | Proved of it | Left to TLC |
|---|---|---|
| `AnswersOwed`, liveness half of `ImplementsWatch` | `DeadlockFree`, `CallsEnd`, `LostWakeupFree` | that threads which can step do |
| `ShutdownCompletes` | `DropIsNeverStuck`, `DropEnds`, `CloseEndsWorkers` | that freeze handlers fire and workers poll |
| `CpuCatchesUp` | `CpuNearer`, `NoOtherWait` | that the CPU thread runs |
| `GpuCatchesUp` | `NoOtherWait` | all that hangs on the run of empty launches it supposes |
| `EveryNonceTried` | `NoneLeftOut`, `CoversItsPartition` | that the CPU thread runs |
| `NewsArrives` | `NeverStuck`, `NewsIsNearer` | that a send of `listen` gets its permit among the submits (strong fairness) |
| `DropReturns` | `DropEnds` of `Autotune_proofs` | that the autotuner's thread runs |
| `Converges` | `ClosesIn` | that a calm device is compared with in every cycle |

That these measures add up to the liveness property, given the fairness of section 4, is not proved:
it takes an induction over the measure.  TLC checks it on the instances of the runs.

## 7. What the models take for granted

* Atomics interleave: each load that is relied on is an Acquire of a Release store.
* The mutex and condition variable are parking_lot's: no spurious wakeups.
* The freeze handlers exist only on Linux and Windows (the macOS condition names an
  operating system `mac_os`, which does not exist); the models are of these systems.
* A signal to a thread that has ended in the meantime has no effect.
* The 100 ms before a reconnect suffice for an aborted task to end its poll.
* A node answers the requests of one stream in the order it received them.
* Nonce partitions leave the seven lowest bits of a nonce free, so a CPU worker
  does poll after every 128 of them.
* Device and platform indices on the command line exist (others panic at start); CUDA and NVML
  number GPUs alike, the "overclock" feature is built, and every GPU is autotuned.
* The difficulty is positive and its reciprocal a normal float.
* What the host copies to a device has arrived before the kernel starts.  For CUDA the code
  relies on the driver here: the copies are ordinary ones, the stream is `NON_BLOCKING`.
* A workload is a rational number, where the code has an `f32`.
* Nobody else sets the power limit of a GPU; NVML applies what it accepts.

## 8. Not modelled

* Hash functions, those of the kernels included, generated and vendored code: straight-line
  computation over fixed data, for known-answer tests.
* Dynamic linking, option tables, address schemes, scripts and build files: sequential start-up.
* Workloads and clock limits per GPU, which are picked like the power limits.
* `xoshiro256starstar.rs`.  `long_jump` stores its accumulators inside the outer loop
  (line 55), so it is not the published jump of 2^192 steps, but the product of four linear maps, each
  from 64 bits of the constants.  How far apart its streams are depends on all 256 bits, and a
  scaled-down generator with other constants says nothing of them.
* `parse_devfund_percent`, which reads the digits after the dot as a number (`1.5` is 1.05 percent),
  and the stratum codec's JSON shapes: conversions of text.  A line the codec rejects is `StreamFails`.
* Hashrate counters and log lines: nothing depends on them.

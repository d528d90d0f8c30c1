# Verification of the DOCA offload programs

The repository is a collection of C and C++ programs that hand work (erasure
coding, hashing, compression, DMA) to the accelerators of a BlueField DPU
through NVIDIA DOCA, and of scripts and Python programs that measure them,
alone and under Ceph.  This directory models their own control logic in TLA+,
checks it with TLC, and proves with TLAPS that its invariants hold for every
value of the constants.

There are two kinds of program here.

* *Offload programs* share one protocol: prepare tasks, submit them, call
  `doca_pe_progress()` until a flag is cleared by a callback, look at the
  results.  A counter, `num_remaining_tasks`, and a flag, `run_pe_progress`,
  connect the submitting code and the callbacks, and every program uses them a
  little differently: counting before, after or without the submit; with one
  thread or three; keeping or freeing the finished task; clearing the flag or
  stopping the context; with or without a time limit.  Those differences are
  what their modules are about.
* *Experiment programs* drive a Ceph cluster through commands that take long,
  fail, and take effect late, keep their progress in files and pools, and are
  interrupted and started again.  Their modules ask whether a number in the
  final table was measured on what its label says.

## 1. Inventory

| component | source | state | operations | what is hard |
|---|---|---|---|---|
| EC decode, pipelined | `ec_decode/doca_ec.c` | count, flag, tasks, context, app buffer | two submit threads; poll; callbacks; join | unsynchronised count and flag, submit before count, errors |
| EC decode, one thread | `ec_decode/doca_ec.c` | the same | Naive, Batch_Copy, Batch_NoCopy | refused and failed tasks stay counted |
| DPUProxy | `ec_encode/dpuProxy.cc` | count (`size_t`), flag, tasks, destination memory | batch encode, one encode, hash | count before / after / without submit; shared destination; reuse |
| Compress callbacks, one-task calls | `compress/compress_common.c` | count (`size_t`), flag, status per task | three submit-and-wait functions, six callbacks | leak of the count, zero status = success, stop or clear |
| Compress batch loops | `compress/compress_deflate_main.c` | the same, tasks reused | `test3`, `compressFileDOCA`, `traverseDir` | early returns, failed tasks resubmitted |
| Local decompressor | `attach/test/doca_local_decompress.c` | one task, resource ladder | frames, destroy | the task is freed by callback and by destroy |
| EC comparison | `ec_decode/ec_compare.c` | `task_wait`, five memory regions, verdicts | initial create, five loss cases, clean-up | time-outs with late callbacks, shared memory |
| RADOS read benchmark | `attach/test/ceph_doca_read_bench.c` | objects and manifest per prefix | `write`, `write-raw`, `bench` | interrupted and repeated writes, writes under a reader |
| Pool ablation | `ceph_custom_deploy/*.sh, *.py` | result files per dataset and case, pool, settings of monitors and OSDs, counters | describe, load, measure twice, judge, report, restore; snapshot; figure | kills and failures anywhere, resuming, half-loaded pools, crashing OSDs |
| Compressed-pool read benchmark | `attach/cephBuild/compress_read_bench.py` | two pools, open context, object list, results | create pool, write files, read rounds | deletions that come late, files that change, colliding object names |
| Recovery benchmark and monitor | `attach/cephBuild/recoverBenchEC.sh`, `ceph_compress_test/recover_time.py` | OSD map and PG reports, result variables, table | out, wait, in, clean up; poll | reports behind the map, early returns, stale results |
| DOCA common objects | `*/doca_common.cc` | device, mmaps, inventory, pe, ctx | create, stop, destroy | a stop that never ends |
| SHA programs | `sha/` | as DPUProxy's hash path | chunk, submit, wait | chunk boundaries |
| DMA copy | `dma/` | descriptor and buffer hand-over | export, import, chunked copy | remainder of the file |
| SNAP / NVMe-oF baseline | `SNAP/` | driver bindings, pidfile, target | prepare, start, stop, restore | failure between two steps |
| CPU references, generators, plots, vendored files, logs | | | | not modelled |

The components of an offload program interact by calls and callbacks inside
one process; the exception are the three threads of the pipelined decode,
which share memory.  The experiment programs interact through what they leave
behind: objects, manifests, pools, settings, result files.

What makes each modelled component correct is stated with its run below.  The
hazards, each at its line and with the properties that would catch it, are
listed in `PROJECT.json`.

## 2. Modules

| module | models | properties |
|---|---|---|
| `DocaContext` | the library, as the code uses it (external) | |
| `BatchOffload` | *abstract*: what the caller of a batch is promised | |
| `DecodePipeline` | `Batch_Copy_Pipeline` | 3.1 |
| `DecodeBatch` | the three single-threaded modes; refines `BatchOffload` | 3.2 |
| `DpuProxy` | the three paths of `DPUProxy`; its hash path refines `BatchOffload` | 3.3 |
| `CompressCallbacks` | the callbacks of `compress_common.c` | |
| `CompressTask` | their users one task at a time: the two one-task functions and the local decompressor | 3.4 |
| `CompressBatch` | their users in batches | 3.5 |
| `EcCompare` | `ec_compare.c` | 3.6 |
| `RadosDataset` | the objects and manifests of `ceph_doca_read_bench.c` | 3.7 |
| `PoolAblation`, `MCPoolAblation` | the ablation driver and the three Python programs that snapshot, report and plot; its instances | 3.8 |
| `PoolReadBench` | `compress_read_bench.py` | 3.9 |
| `RecoveryBench` | `recoverBenchEC.sh` with `recover_time.py` beside it, on one cluster | 3.10 |
| `DecodePipelineProofs`, `DecodeBatchProofs`, `DpuProxyProofs`, `EcCompareProofs`, `PoolAblationProofs`, `RecoveryBenchProofs` | theorems about the module of that name | 5 |
| `CompressProofs` | theorems about `CompressBatch` and `CompressTask` | 5 |
| `ReadBenchProofs` | theorems about `RadosDataset` and `PoolReadBench` | 5 |

`DocaContext` is extended by every module that talks to the accelerator.  A
task is `ready`, `inflight`, `ok` or `failed` (finished, callback still to
come), `reaped` (callback has run) or `freed`; the context is `RUNNING`,
`STOPPING` or `IDLE`.  The engine finishes tasks in any order.  A callback runs
only inside a `doca_pe_progress()` of the program, one per call; a stopping
context becomes idle in such a call once it holds no task.  Everything the
modules say about DOCA is in that one file (and, for what recover and create
compute, at the end of `EcCompare`).  What they say of Ceph is in the module
that needs it: a pool is found by name and used by id (`PoolReadBench`), PG
reports follow the OSD map late and in order (`RecoveryBench`).

Names follow the code: `num` is `num_remaining_tasks`, `run` is
`run_pe_progress`, actions are named for the step of the function they
translate, and `PROJECT.json` ("map") gives the lines of every definition.
Variables marked "(history)" are not in the program; they record what really
happened, for the properties, and no guard reads them.  Operators with a suffix
and the comment "mutant" are deliberate bugs, kept to show that each property
can fail; no specification uses them.

In single-threaded offload programs a step is a piece of code between two
points at which the engine's progress could make a difference.  In
`DecodePipeline`, where three threads share unsynchronised fields, every load
and every store of `num` and `run` is a step, and the callback's test for zero
may read either the stored value or the field again: both are what a compiler
may produce.  In the experiment programs a step is a command, or a part of one
where an interruption between the parts leaves something different behind: a
JSON file is created by the shell's redirection and written afterwards, and a
load or a write makes object after object.

## 3. Runs

Twelve runs: ten that hold, two that show the code doing something its own
comment or message says it does not.  Batches of 4 are the smallest with which
two threads have two tasks each, so that one task of a thread can complete
while another is being submitted; and the smallest with which failures first,
last and in the middle differ.  `Faults = TRUE` lets any task fail and any
submit be refused at any time; `MaxFaults` bounds how often something goes
wrong in the experiment programs.

### 3.1 `decode_pipeline` (611 000 states)
* `NeverOvercounts`: the races lose updates but never invent one, so `num` is
  at most (increments - decrements).  *Depends on* the atomic add on one
  side and a single decrementing thread on the other.
* `CountReleasesLoop`: so the count alone cannot hold the poller.
* `SubmittedOnce`: the threads' ranges are disjoint.
* `FinishedIsDelivered`: while the main thread polls, what the engine
  finished reaches the application buffer.
* `StopReachesIdle`: a stop asked for in the error callback completes.

`decode_pipeline_waits` refutes the comment at `doca_ec.c:1273`: the loop can
end between a submit and its `__sync_fetch_and_add`.

### 3.2 `decode_batch` (6 372 states)
* `LedgerExact`: `num` is the tasks to come plus those refused or failed; the
  loop is never left with a task still in the engine.
* `ImplementsOffload`: the mapping sends `appDst` to `delivered`, tasks the
  engine completed to `computed`, `lost > 0` to `broken`.

### 3.3 `dpu_proxy` (2 613 states)
Any number of calls, of every size on the hash path.  A region of the
destination memory holds the number of the task that wrote it in this call.
* `LedgerExact`: the count is exact while the caller waits, although one path
  sets it after the submits and the other before them.  The one-task path,
  which does not count its task (section 6), is not covered.
* `ResultIsReal`: results are read only when no task of the call has failed or
  is still with the engine.  On the hash path region *i* then holds the output of
  task *i* of this call, also after a longer segment.  On the batch path all
  tasks write the first region, which holds the output of one of them; of the
  other regions, which `getECTaskResultBatch` reads, nothing is claimed: nobody
  has written them.
* `ImplementsOffload`: the hash path implements `BatchOffload`.  `delivered` is
  read off the destination memory: the tasks whose region holds their own
  output.  The two EC paths do not keep that promise and map to no call at all.

### 3.4 `compress_task` (1 148 states)
One-task calls of deflate and LZ4, and the frames of the local decompressor.
`NumTasks = 3` slots, so that a task of an earlier call may remain while two
later calls are made.  Success is never reported on the strength of a
zero-initialised status (`SuccessIsReal`); a call whose count is right returns
(`CallReturns`; after a refused submit the count is one too high and the next
call does not return, the hypothesis excludes exactly that); the
decompressor's last free finds the task freed only where the engine has failed
the last frame, not after a refused submit or an object that fails its
verification (`DestroyFreesOnce`).

### 3.5 `compress_batch` (4 148 states)
The same tasks for block after block and file after file.  `CountExact`, and
`WaitEnds` whichever tasks fail, in any order.  A task that was freed by its
error callback and is submitted again, or one submitted while in flight, ends
the model (`misuse`): nothing is known of the library after that.

### 3.6 `ec_compare` (10 096 states)
All five loss cases with two iterations each (the second is the first in which
an output of the case itself is already in memory).  A block of memory is the
number of the chunk it holds, or `Bad`; the engine computes the right chunk
only from the right input.  Survivors, holes and consumed outputs are given by
their rank (how many come before): the code goes through the chunks in
ascending order with a running index, and that index is the rank.  `OwnCompletion` (while nothing was given up, a run
returns on its own task's callback), `OverallPassIsReal` (even after a
time-out, when the late callback of another task ends a run, PASS is not
printed on it), `HealthyCasesPass` (the input, matrix and output handling of
each loss class), `VerdictReached` (also if the engine never answers).

### 3.7 `rados_dataset` (2.6 million states)
Two prefixes, two versions of up to 3 units with 2 units per object: sizes that
fill the last object and sizes that do not, and versions with equal object
counts and different sizes.  Writers stop anywhere and start again while the
benchmark reads.  `ManifestCovered` (what a manifest counts exists),
`RawPassIsComplete`, `SummaryIsFair` (when nothing was written meanwhile, both
methods read the same amount, each from one version).  One measured round,
after one warm-up of each method; a second one repeats the same passes in the
other order.

### 3.8 `pool_ablation` (68 406 states)
Three datasets as in the script; the second has one object more than its
neighbours, so that half of it can be taken for the first, or the first and the
third for each other.  The settings are changed one by one (the two whose
batch-1 value is not their default) and the OSDs restarted one by one.  Up to
two faults: any command fails (the EXIT trap), a command of `restore_defaults`
fails and is ignored (`|| true`), the restart script stops at any OSD, the driver
is killed (no trap), a load comes out short, a DPU task fails, an OSD crashes and
loses its counters.  The operator starts the driver again whenever it is not
running, and the figure program whenever the report has all rows.
* `RowsAreMeasured`: a row of the report or of the figure was measured on the
  whole of its own dataset with the batch-1 settings in effect, provided that
  neighbouring datasets differ in their number of objects.
* `VerdictHonest`: the assertions on the counters do not pass over a failed
  task, unless an OSD crashed between the snapshots.
* `ExitRestores`: every end but a kill goes through `restore_defaults`, and what
  of it succeeds has its effect: only a setting whose own command failed there is
  still stored, and every OSD runs with what is stored unless the restart script
  failed.  It does *not* say that the defaults are back after every exit; where a
  command of the trap fails they are not (section 6).
* `Completes`: started again and again the driver completes, unless it was
  killed, or a command failed, between creating and writing a JSON file that is
  never rewritten before a report reads it.

`pool_ablation_reuse` gives the second and third dataset the same number of
objects (the proviso above) and refutes the message "reusing complete $name
dataset" (`run_batch1_pool_ablation.sh:178`).

### 3.9 `pool_read_bench` (4.6 million states)
Two files of 0 to 3 units with 2 units per object, the same or different name
prefixes, two runs of the program one after the other with every combination of
`--read-only` and `--skip-raw`, two rounds each, up to two faults: a command
fails, a pool outlives the two minutes of waiting and goes away later, the
placement groups of a new pool are not active+clean when `wait_pool_ready` gives
up (its caller does not look, and goes on), a file changes.  An operation on a
pool that is not ready may succeed or raise ObjectNotFound.  An entry of
`oid_list` is a *place*, a file and a chunk of it (two places may have one object
name); a round reads the places it has left in ascending order.
* `ReadsEveryFile`: a result obtained undisturbed counts every unit of every
  file once, also over an earlier run's pool, and also over a pool that was used
  before it was ready, where nothing was refused.
* `RaisesForAReason`: an exception leaves the program only for a reason outside
  it: a pool that could not be created or went away late, a file that changed, a
  read-only run without a whole pool, or a pool used before it was ready
  (`late`).  Where none of these happened, the list of names it reads, computed
  from the file sizes, contains no object the write has not made, and a new pool
  is not used before its placement groups are.

### 3.10 `recovery_bench` (57 775 states)
Two configurations, so that what the first leaves behind (changes of the map on
their way, an OSD that is still out, a stale result) meets the second.  PG
reports show at most `Backlog = 4` changes late, and no step of the script waits
for them.  Up to two faults: a command goes unanswered (and reads as a clean
cluster; an unanswered `ceph osd ls` ends the script in a division by zero), an
`osd in` or `osd out` fails, another OSD comes or goes, the script is killed; a
time-out may happen in every wait.
* `DurationCovers`: a measurement that *began* with the reports up to date and
  every PG clean, and in which nothing timed out, went unanswered or disturbed
  the cluster, ends when the loss has been reported and recovered from, however
  late that report is.  Both halves of the condition are necessary: with either
  one dropped TLC finds a duration that covers something else (section 6).
* `OsdsBackIn`: between configurations the OSD is in, unless `osd in` failed or
  the script was ended.
* `ReportsAreRecoveries`: the monitor, which polls, reports no more recoveries
  than there were, whatever it misses.  A recovery is what the monitor's own list
  of states calls one.

## 4. Bounds and fairness

| bound | value | why it is enough |
|---|---|---|
| `BatchSize` | 4 | see 3 |
| `Modulus` | 6, 8 | stands for 2^64: exceeds every count a loop sets, so only a count taken below zero wraps |
| `NumTasks` | 3 | see 3.4 |
| `Iterations`; `Rounds`, `ReadRounds` | 2; 1, 2 | the second sees what the first left (`ReadRounds = 0` is covered by the theorem) |
| `MaxUnits`, `MaxSize`; `ObjectUnits`, `ChunkUnits` | 3; 2 | empty, partial, full and two objects |
| `N`, `Expected` | 3, <<1, 2, 1>>; <<1, 2, 2>> for the reuse run | see 3.8 |
| `Osds` | 2; 1 for the reuse run | one whose counters are looked at and one that may be forgotten |
| `MaxRuns`, `Configs`, `Files` | 2 | one that leaves something behind, one that finds it |
| `MaxFaults` | 2; 1 for the reuse run | a failure, and a second one while recovering from it |
| `Backlog` | 4 | all changes of a configuration on their way when the next one begins (pool, out, in), and the pool of the next or a disturbance |

In `CompressTask` a caller whose refused submits have used up all counts below
`Modulus` stops (`OneRefused`).  In `RecoveryBench` a step that would change
the map waits while `Backlog` changes are pending.  These and `MaxFaults`,
`MaxRuns` are the bounds that cut behaviours off.

Fairness in the offload programs is weak fairness of the program's threads (the
scheduler runs them; a polling loop calls `doca_pe_progress()` again and again,
and a call reports a finished task if there is one) and of the engine for each
task it was given.  Which of several finished tasks a call reports is left open;
there are finitely many, so each is reported.  `EcCompare` assumes nothing of
the engine; there the clock advances, so a loop that polls for ever sees its
deadline pass (strong fairness of `TimedOut`, because the deadline is looked at
again and again, in between polls).  `PoolAblation` assumes that commands end
(weak fairness of `Driver`) and that the operator starts the driver again until
it has completed, which is what a resumable driver is for.  `RadosDataset`,
`PoolReadBench` and `RecoveryBench` have no liveness property and no fairness:
their waits all depend on a cluster of which the code assumes nothing.

Terminal states are explicit self-loops; deadlock is checked in every run.

## 5. Proofs

Thirty-five theorems in eight modules, each for every value of the constants.
Together they state every invariant the runs check, one action property
(`SubmittedOnce`) and the safety half of the two refinements.  Each follows from
an inductive invariant with a proof step per action; the conjuncts are named for
what they say.

* `DecodePipelineProofs`: `TypeCorrect`, `CountIsBounded` (`NeverOvercounts`),
  `CountReleases` (`CountReleasesLoop`), `NoDoubleSubmit` (`SubmittedOnce`).
  `NeverOvercounts` is not inductive: it needs that the register of a callback
  between its load and its store also respects the bound with the running task
  not yet counted off (increments may come in between, which only helps), that
  the running task is not in `uncounted`, and which tasks are counted, by
  thread and loop index.
* `DecodeBatchProofs`: `TypeCorrect`, `LedgerIsExact`, and `Refinement`, which is
  `Spec => Offload!SafetySpec`.  The invariant adds which tasks may still be
  `ready` at each value of the loop variable; for the types, that tasks to come
  and lost tasks are different tasks of the batch (`Budget`), so that neither
  number can exceed it.
* `DpuProxyProofs`: `TypeCorrect`, `LedgerIsExact`, `ResultsAreReal`,
  `Refinement` (of the hash path).  The invariant says for each place in a call
  which tasks are busy: none between calls, those before `j` while it submits,
  tasks of the call while it waits.  From that a count set after the submits is
  as right as one set before.  `Outputs` adds whose output the regions of
  finished tasks hold, which is what `delivered` is mapped from.
* `CompressProofs`, the batch loops: `TypeCorrect` (the `size_t` count never
  wraps), `CountIsExact`.  What makes it inductive: the loop does not poll, so a
  task it has passed has not had its callback (`Passed`).
  The one-task calls: `SuccessesAreReal` (`SuccessIsReal`), `DestroyIsSafe`
  (`DestroyFreesOnce`), `NothingLeftBehind`.  All three come from `OneAtATime`:
  at most the current task is with the engine, and only while the call waits.
  A count that is one too high after a refused submit keeps the next call
  from returning; it never ends one before its own callback.
* `EcCompareProofs`: `CompletionsAreOwn` (`OwnCompletion`), `PassIsReal`
  (`OverallPassIsReal`), `TypeCorrect`, `HealthyClassesPass`
  (`HealthyCasesPass`).  For the first two: as long as no run was given up the
  engine holds at most the task of the current run (`Own`); once one was, its
  failure is on its way through `ok` and `all_ok` to the verdict (`Spoilt`).
  The last rests on what ranks say of each loss class: the input the code
  prepares is the one the engine expects of those holes (`InputIsExpected`), the data holes come first and in the order in which the
  outputs are consumed (`DataHoles`), so a recover fills the output with the
  missing data (`RecoveryRestores`).  `Healthy` then says which of the five
  memory regions are right at each place in the flow of a class, and that
  nothing else is read from what the previous class has left.
* `ReadBenchProofs`, `RadosDataset`: `TypeCorrect`, `ManifestsAreCovered`,
  `RawPassesAreComplete`, `SummariesAreFair`.  From the writer (the objects it
  has passed are those of its version) to the manifest (so are those it counts,
  until the next write) to the reader (what a pass has read is a prefix of
  that).  The arithmetic of rounding up to whole objects is proved as lemmas.
  The bounds of `TypeOK` need that a pass never reads more than as many full
  objects as it has passed (`Bounded`).
  `PoolReadBench`: `PoolTypeCorrect`, `EveryFileIsRead` (`ReadsEveryFile`),
  `ExceptionsHaveReasons` (`RaisesForAReason`).  While there is nothing to
  blame: a write has put an object at every place it has passed, with the piece
  of that place in it where no two files share a prefix (`Copied`); so a pool
  that was written to the end is whole, and stays so until a command or a file
  changes (`Kept`); each command of `create_pool` leaves what the next one needs
  (`Prepared`), and the pool it goes on with is ready unless the wait for it was
  given up (`PoolReady`); and the bytes of a round are those of the places it no longer
  has left (`Counted`).  That the pieces of all places are the bytes of all
  files (`PlacesCover`) is shown by counting units, as `ReadsEveryFile` does:
  with a sum by recursion it would be an induction over data.
* `PoolAblationProofs`: `TypeCorrect`, `DefaultsRestored`, `RowsMeasured`,
  `VerdictsAreHonest`.  `DefaultsRestored` (`ExitRestores`) follows what is
  stored through the restart: while the restart script of `restore_defaults` runs
  nothing changes the stored settings, so an OSD that is no longer pending runs
  with them (`RestoreInv`).  `RowsMeasured` says what the pool may hold when the
  driver is at dataset `d` and a load log says "complete": at the first dataset,
  anything of the right size, but then its cases are done or its own load was
  the last; later, the predecessor, just loaded or reused with another count.
  This is where `DistinctCounts` is used.  `VerdictsAreHonest` follows an error
  from the OSD that counted it to the sum (`Carried`): the OSDs have just been
  restarted, so the snapshot before the reads is zero; unless one crashed, a
  failed task (`Guilty`) shows in the one after, and nothing is there to cancel
  it.  The sum is written as a number of units
  (`Rise`), not as a fold.
* `RecoveryBenchProofs`: `TypeCorrect`, `Covers` (`DurationCovers`), `BackIn`
  (`OsdsBackIn`), `NoFalseReport` (`ReportsAreRecoveries`).  For `Covers`
  (`HonestInv`): from an honest start on, the one change that may be unreported
  is the loss of the OSD, so the PGs that the first wait sees unclean are unclean
  because of it.

Assumptions: only the named `ASSUME`s of the modules (positive sizes and iterations,
Boolean `Faults`, `Modulus > BatchSize`, version 0 is "none", a finite set of
OSDs).

Only model-checked: liveness (`FinishedIsDelivered`, `StopReachesIdle`,
`CallReturns`, `WaitEnds`, `VerdictReached`, `Completes` and the liveness half of
`ImplementsOffload`), since the prover does not reason about fairness and
`ENABLED`.  The two runs that expect a violation show a behaviour, which needs
no proof.

## 6. What was seen in the code besides the findings

Consequences of the code that no run states as a violation, because no comment
says otherwise or because they are plain in the text.  The models behave the
same way, and the properties' hypotheses name these cases.

* `doca_ec.c`, pipelined: a submit thread may set `run_pe_progress` after the
  last callback cleared it, and the main thread then polls for ever; `num` may
  become negative; with an odd batch the last task is never submitted; a task
  that fails leaves the count up.
* `doca_ec.c`, one thread: after an error the stop of the context ends the loop,
  and every segment is copied (895, 1186), computed or not.
* `dpuProxy.cc`: `initECBatch` gives every task the same destination address
  (581-585), the start of `ec_dst`, so the parities of a batch overwrite each other;
  `getECTaskResultBatch` (668) reads task *i*'s at `block_size * m * i`, where for
  every *i* but 0 nothing was written; the one-task encode submits
  without counting (508), its callback (119) takes `0` below zero and the wait
  (365) does not end; a failed task leaves the caller waiting (empty callback,
  104).  `dpuEncodeBatch` passes an address behind its input buffer (`main.cc`
  138); `initHash` configures `log2` of the batch, rounded down.
* `compress_common.c`: a refused submit leaks one count (701-706), and the next
  call waits for a callback that will not come; completed deflate tasks are
  never freed (884, 928 are commented out), so after `NumTasks` calls the
  allocation fails; the LZ4 callback stops the context, so one context serves
  one call.
* `compress_deflate_main.c`: tasks freed by the error callback are submitted
  again for the next block; `compressFileDOCA` checks a `task_result` no
  callback writes (308-309); a `read()` that returns -1 does not end the loop (403).
* `doca_local_decompress.c`: after a frame the engine fails, the callback has
  freed the task and destroy frees it again (147).
* `ec_compare.c`: `warmups + iterations` is unsigned and may wrap to 0 (555); the
  clean-up has no deadline.
* `ceph_doca_read_bench.c`: the compressed pass never compares what it read with
  `total_raw_size`, so a summary over objects rewritten meanwhile mixes sizes
  (the hypothesis `clean` of `SummaryIsFair`).
* `run_batch1_pool_ablation.sh`: a case that failed its assertions has written
  `perf_delta.json` and `read.log` before, so a later run skips it (114) and the
  report gives it a row; a kill between creating and writing `perf_delta.json`
  (139) makes every later report raise, until somebody deletes the file; with
  datasets of different sizes, the reuse branch only ever helps the first one,
  because by then the pool holds what the one before has loaded.  The commands of
  `restore_defaults` end in `|| true` (25-28), and the restart script gives up on a
  cluster that is not clean after 240 s: the driver may exit, without being
  killed, with settings stored or OSDs running as for the ablation (`missed`).
* `compress_read_bench.py`: two files whose names differ in `/` and `.` only get
  the same object names (130), and the later one overwrites the earlier one.  What `wait_pool_ready`
  returns is not looked at (101): after 180 s the writes go to a pool that is not
  ready, and may raise the ObjectNotFound the wait is there to avoid.
* `recoverBenchEC.sh`: `main` ignores what `run_single_config` returned, and a
  skipped configuration gets a row with the result of the one before it
  (523-533; `rows` and `result` in the model).  The waits for a clean cluster
  after creating the pool, after the writes and after `osd in` (343, 377, 424)
  return at once on reports that are behind; where the report of the pool
  creation or of the last `osd in` is still due at `osd out`, it is taken for the
  start of the recovery and its end for the end (`honest` excepts this).  When
  `ceph osd ls` gets no answer (385), `num_osds` is 0 and the division at 400 ends
  `main`, with the pool still there.

## 7. Not modelled

* *DPUProxy's* `init...` and `clear...`, *compress's* `allocate_...` and
  `destroy_compress_resources`, *DOCA common objects*: sequences of library
  calls without a state of their own; they are initial and final states.
* `bench-raw` of the RADOS benchmark: one pass of `bench` without the comparison.
* Of the pool ablation: of the counters only one kind (errors) is kept; the third
  setting, whose ablation value is its default, is left out.
* Placement groups that are active+clean are taken to stay so in
  `compress_read_bench.py`'s cluster (OSDs do not fail under that benchmark).
* The Replicate and Mixed variants of the recovery benchmark (the same
  measurement with other pools), `createOsdGlobal.sh`.
* *SHA programs*: the submit-all, poll-until-zero loop of DPUProxy's hash path;
  the chunking before it is arithmetic on bytes.
* *DMA copy*: the descriptor is handed over by the operator as two files, there
  is no protocol between the two programs; that the remainder of a file is not
  copied (`dma_copy_dpu_sample.c:295`) is plain in the text.
* *CPU references, the object generator, the utilisation sampler and the plots*:
  straight-line programs that keep no state between steps.
* *SNAP and NVMe-oF*: operational scripts on kernel drivers and SPDK; the start,
  stop and restore order of the target would be the next module to write.
* *Vendored packages*.  `attach/cephBuild/local-cluster/pydeps` holds unpacked
  wheels (webob, mako, prettytable, wcwidth, ...) which a start script puts on
  the path of the Ceph manager; no program of the repository calls them.  They
  are by far the larger part of its Python (about 38 000 of 39 500 lines), so
  the share of all Python lines that the map covers is small by construction;
  of the roughly 1 400 lines of Python that are the repository's own, the map
  covers the programs named in section 1, and what is left are generators and
  plots.  The C, C++ and shell code, where most of the logic is, is mapped
  line by line as well.
* Logs, crash dumps, binaries, test data and recorded results.

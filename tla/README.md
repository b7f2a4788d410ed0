# champsim-infra: a TLA+ model

This directory specifies, model-checks and proves parts of champsim-infra: the
tools that record instruction traces for the ChampSim simulator, and the
scripts that run simulations of those traces on a Slurm cluster. All paths are
relative to `src/`.

## The system

| Component | Code | State | Operations | Talks to |
|---|---|---|---|---|
| QEMU plugin: recorder | `tracer/rpoint-cs/plugin/champsim_tracer.c` | per vCPU: the pending instruction, input buffer, chunk file, manifest, sampling phase, counters | `insn_exec_cb`, `mem_cb`, `plugin_atexit` | QEMU (callbacks), file system |
| QEMU plugin: trigger | same file, 361-380 and 710-725 | the trigger file, `tracing_enabled`, a plain shared poll counter | install, poll, enable, unlink | all vCPU threads, the user's `touch` |
| QEMU plugin: profile pass | same file | two counters | count, report at exit | - |
| Trace filter | `.../plugin/trace_filter.c` | idle buffer, HLT state machine | per record | file in, file out |
| Pin tracer (v3, v2) | `tracer/pintool/pin/*.cpp` | per thread: phase, sample, buffers; global: ROI, done counters | markers, ROI watch, record, thread start/fini | Pin (callbacks on several threads) |
| raw2champsim, decoders | `tracer/rpoint-cs/converter` | one record of look-ahead, counters, writer buffer | convert, finalize | file in, file out |
| trace cutter, sanity check | `tools/` | carried bytes, open chunk; counters, indirect targets | one pass | file in, file out |
| Trace cache | `scripts/fetch_trace.py` | per node: one cached file per trace, a lock file, temporary files | `fetch` | all jobs of a node (flock), file system, S3 |
| Job wrapper | `scripts/run_champsim.py` | signal disposition, child process | `main`, `on_term` | Slurm (`scontrol`), the cache, ChampSim |
| Jobfile generator | `scripts/create_jobfile.py` | binary copy, jobs queued | snapshot, smoke run, `sbatch` | Slurm |
| Cluster run: submit | `scripts/cluster_run.py` | `submit.lock`, placeholder ledger, remote tree, run directory | `cmd_submit` | other submits, SSH, rsync |
| Cluster run: ledger | same file | `runs/<batch>.json` | `status`, `rollup`, `combine` | each other, Slurm |
| Rollup, regression, list converter | `scripts/rollup.py`, `regression/`, `scripts/tsv_to_tlist.py` | none that lasts | sequential text processing | - |
| Workload drivers, shell recipes, QEMU patches | `tracer/rpoint-cs/workloads`, `scripts`, `patches` | - | load to be traced | - |

A trace is captured once (plugin or Pin tool), filtered, converted and cut, and
then simulated many times: `cluster_run.py submit` synchronises and builds the
simulator on the cluster and queues one job per trace and experiment; each job
is a `run_champsim.py` that fetches its trace through the cache of its node and
runs ChampSim; `status`, `rollup` and `combine` collect the results.

What is hard, and what makes each part correct:

- **Recorder.** A one-instruction delay (operands arrive after the
  instruction), a buffer, and chunk boundaries made by `rotate=`, by windows
  with gaps, by `limit=`, by a trigger and by the end of the guest; any of them
  can coincide, a file may fail to open, the disk may fill, QEMU may be killed.
  Correct: each slice is the intended part of the execution without holes,
  every operand belongs to its instruction, the manifest vouches for what is
  in closed files.
- **Trigger.** Several vCPU threads race on an unprotected counter, a file and
  a flag. Correct: no start from a stale file, no lost `touch`.
- **Trace cache.** Sixteen or more jobs start in the same second; copies fail,
  jobs are killed, nodes reclaimed. Correct: a job simulates the whole trace it
  asked for, one copy per node, nobody waits for a dead process.
- **Wrapper.** A reclaim signals wrapper and simulator in any order; Slurm may
  not answer. Correct: a reclaimed job comes back once, a cancelled one does
  not, the status is the simulator's.
- **Submit.** A job reads its files hours later, when other submits have
  rebuilt the tree; a submit may die, lose its connection or be half refused.
  Correct: no queued job without a ledger, no shared run directory, jobs that
  see what their submit built.
- **Ledger.** Commands read, age and rewrite a JSON file without a lock.
  Correct: what it concludes is true of the jobs.
- **Pin tracer.** Threads start, stop, and enter and leave the region of
  interest while others do, through a code cache that was instrumented for an
  earlier moment. Correct: samples of the right length and in the right place
  without holes, a count of tracing threads that does not drift, and an exit
  when all threads are done and not before.
- **Trace filter.** Decides on an instruction long after it has read it, in
  one pass over a file that may break off anywhere. Correct: exactly the idle
  iterations disappear, nothing is reordered, the counters add up.
- **Converter.** Knows a branch's direction only from the next record, has six
  source and two destination slots for all registers, and meets broken input.
  Correct: types and directions are those of the execution, and what is missing
  is accounted for.
- **Cutter and sanity check.** Read a compressed stream in pieces that know
  nothing of records, and must not take damage for the end. Correct: the chunks
  are the trace, and a certified trace is whole.

`PROJECT.json` lists the single hazards with their lines.

## Modules

| Module | What it is |
|---|---|
| `ChampSimTracer` | The recorder. The C functions on a `VcpuState` are operators from state to state (`open_chunk`, `close_chunk`, `finalize_pending_insn`, ...); a callback is one action, split by the branch it takes (`SkipInsn`, `CaptureInsn`, `EndWindowInsn`, ...). vCPUs own their state in the code, so a callback is atomic here; the one thing they share is the trigger. A record is the position of its instruction in the execution of its vCPU, so that order and completeness can be judged; addresses, registers and bytes are left out. |
| `SliceSchedule` | What `rotate=`/`sample_len=` promise: which instructions go into which slice. No buffer, delay, file or manifest. |
| `ChampSimTracerProps` | Judges the chunk files against the guest's history, and the refinement mapping to `SliceSchedule`. |
| `ChampSimTracer_proofs` | Theorems about the recorder, its chunk files and its manifest, and that it implements `SliceSchedule`. |
| `Trigger`, `Trigger_proofs` | The dormant phase at the grain of single loads, stores and system calls. `ChampSimTracer` takes its outcome as one step (`DormantInsn`). |
| `AtomicCache` | What the cache promises: an entry that appears whole, jobs told of it only when it suits them. |
| `TraceCache`, `TraceCache_proofs` | `fetch()` by several jobs, one action per statement that another job, a kill or a crash could be observed between. Implements `AtomicCache`. |
| `RunChampsim`, `RunChampsim_proofs` | The wrapper: `main` and `on_term` with the signals, Slurm and the simulator around them. Python runs a handler between two statements of `main`: a pending signal stops `main` and `on_term` never returns to it. |
| `SubmitBatch`, `SubmitBatch_proofs` | `cmd_submit` of several submits, and rsync, build and `create_jobfile` as processes of their own that the end of the submit or of its connection need not stop. |
| `BatchLedger`, `BatchLedger_proofs` | The ledger of one batch and the commands that share it. Opening the file truncates it and closing writes it: these are two actions, and a reader in between finds it empty. |
| `PinTracer`, `PinTracer_proofs` | The Pin tool, version 3. A callback is a local step on the `ThreadState` of its thread and a queue of its operations on shared state (`todo`: the atomics, the two loads of `maybe_exit_on_done`, the flush), each an action of its own, so that callbacks of several threads interleave where the code lets them. |
| `TraceFiles` | The files the tools pass on: a raw trace (its format, its records, how its bytes end) and a ChampSim trace (its records, how its frame ends). |
| `TraceFilter` | The idle-loop filter: one action per branch of its loop. A buffered or written record is its position in the input. |
| `Decode` | `decode_x86` and `decode_aarch64`: from the operands that the disassembler reports to register slots, branch type and instruction type; and ChampSim's own guess of the type. |
| `Raw2Champsim` | The converter's loop with its record of look-ahead (`prev_record`), its error paths and its buffered writer. |
| `TraceCutter` | The cutter: `carry`, the open chunk, the list of counts. A byte is its position in the stream. |
| `TraceCheck` | The sanity check: `run_v2` as one pass over the records, the six acceptance checks, the report on indirect branches, the exit status. |
| `TracePipeline`, `TracePipeline_proofs` | Composes the five: a guest that executes a program and takes interrupts, a capture that ends anywhere, filter (or not), converter, and then cutter or sanity check, each on what the one before left on the disk. |
| `MC*` | The command lines, checksums and starting places that the runs consider, and their `.cfg` files. |

Definitions marked `Mutant` are plausible slips in the definition that follows
them. No specification uses them; each shows that a property notices the slip.

Abstractions worth knowing:

- A chunk file is a sequence of records. Compression and the record format are
  left out; a full disk makes writes vanish without notice, as the code does
  not look at their results.
- The trace cache is one key; different keys share nothing but the directory.
- In `SubmitBatch` the remote tree is who synced it and whose source its binary
  was built from; input files, YAML and path rewriting are left out, and
  `--no-snapshot-exe`, which gives up self-containment on purpose, is not
  modelled. A batch id is a member of a small set, which stands for the
  second and the label; two submits may pick the same one.
- In `BatchLedger` a Slurm state is pending, running or ended. A job that
  Slurm has called ended stays so. Commands on several batches treat them one
  after the other and no two batches share a file.
- In `PinTracer` the code cache is the set of ways (`Modes`) in which code in
  it is instrumented. A thread that enters a stretch of code takes one that is
  there or compiles one from the flags of the moment, and finishes it even if
  the cache is flushed meanwhile. A record is the position of its instruction
  in the thread. Operand capture and the fields of a record are left out;
  `-t 0`, which means 2^64 instructions, is not modelled.
- In the tools a sequential pass has one action per record where later steps
  can fail, and is a fold where nothing can come between (`ReadTrace`). An
  instruction is what the disassembler says of it (mnemonic and operands); an
  operand register is a kind and a number. Memory values and texts of reports
  are left out. ChampSim traces are compressed (`.zst`), as the pipeline keeps
  them.
- In `TracePipeline` a raw trace is deleted when the next tool has finished
  with it. `FilterExact` is about what the filter hands to its writer; of that
  a full disk may keep any first part, which the converter then meets like any
  other trace that breaks off.
- All processes of a run are on machines whose clocks do not matter.

## Runs

Run with `tlc -config X.cfg M`. Deadlock checking is off in all of them: guests
exit, jobs end and batches are collected, and the models stop with them.

| Run | Configuration | What it shows |
|---|---|---|
| `tracer` | one vCPU, seven instructions, buffer of two, files that may not open, with `rotate=` 0-3 and `limit=` 0, 2, 4, and all of `sample_len` 1-2, `sample_gap` 0-2, `sample_count` 0, 1, 3, both clocks, `limit=` 0 or 3; two vCPUs behind a trigger, three instructions with an access each, a disk that may fill | the slices are those of `SliceSchedule` (windows, gaps and limits included); rows are sound and complete; operands belong to their instruction; chunks have no holes even on a full disk; closed chunks stay |
| `tracer_exit_in_gap` | one plan with a gap | *violated*: a second manifest row for one chunk |
| `trigger` | two threads, poll interval 3, counter mod 6, two touches, stale file | no stale start, no swallowed touch, a trigger is found |
| `cache` | three jobs, two traces, both kinds of source; jobs with one checksum, none, or different ones; kills, failing copies, a node crash | `AtomicCache` is implemented; one fetch per node; all jobs end |
| `cache_unsynced` | two jobs, S3, a crash | *violated*: a torn entry is used |
| `wrapper` | reclaim and cancellation, up to three signals, `scontrol` that may fail | one requeue at most; reclaimed jobs come back; no false success; the wrapper ends |
| `wrapper_reclaim` | reclaim only, `scontrol` that works | *violated*: the simulator is hit first and the job is not requeued |
| `submit` | two submits, one or two checkouts, two ids, two jobs each, kills and lost connections | no orphans, own run directories, self-contained jobs, every submit ends |
| `ledger` | two clients, two jobs, three commands | what the ledger concludes is true; recorded jobs stay |
| `pin` | two threads, blocks of one and two instructions, up to seven instructions each, files that may not open; markers, orchestrator with registered workers, skips, `-offsets` with adjacent regions, one traced thread with unlimited samples | the active count is exact; samples have no holes, the right length and never begin early; no exit is missed |
| `pipeline` | programs of 15 (x86-64) and 12 (AArch64) instructions with jumps, calls, returns, `jmp .+0`, gathers, an idle loop and an interrupt handler; captures of up to five instructions from any address with an interrupt between any two, seven in the idle loop; raw files that end in each of the ways the readers tell apart; a disk that fills up under the filter; `-n` 0 or 2 in converter and cutter, writer buffers of two records, pieces of one and five bytes of two-byte records | only idle iterations disappear; directions and types are those of the execution; losses are accounted for; ChampSim's guess agrees; chunks are the trace; what is certified is whole; the report on indirect branches misses nothing; a finished trace passes the checks |
| `pin_exit` | three threads, one an orchestrator, its workers traced | *violated*: the program is ended while a worker still traces |

Why the bounds are enough: seven instructions make three windows of one and two
gaps, or three rotations and a limit that falls on and off a boundary; a buffer
of two is full in the middle and at the end of a chunk. Two pollers already lose
increments, and six values let a stale store throw the counter past the
interval and back. Three jobs are one that holds the lock, one that waits and
one that comes later. Two submits and two clients are the interleavings the
code has; three commands let a stale copy be written over a result that a later
command reads. Two threads of a traced program are one that joins, leaves or
ends while the other flushes, traces or compares the counters; seven
instructions are a skip, two samples and what lies between. An exit that comes
too early needs a third thread, the orchestrator. Five instructions are a
branch with its look-ahead, an interrupt and the instruction behind it, or two
indirect branches in a row; seven in the idle loop are two discarded runs and
an undecided rest. Records of two bytes in pieces of one and five straddle
pieces on both sides. Where a statement should not depend on such numbers it is proved
(below).

`shared`, `forced`, `overlap`, `orphaned`, `armed`, `published`, `crashed` and
`hasty` are history variables: they only say in which runs a property makes its claim.
The properties are weaker for them on purpose, where the code promises no more:
`RolledUpStays` claims nothing for two commands that have the batch at once
(the lost update is real), `SelfContained` nothing for checkouts that submit at
the same time (`docs/cluster-run.md` forbids it) or after an rsync or a remote
command has outlived its submit or its connection (the lock is gone, the build
is not), `NoHoles` nothing
for a thread that joined while code that does not record was still in the code
cache: the first thread raises the count before it flushes, so the one that
comes second does not flush and runs on through stale code
(champsim_tracer_mt_roi_v3.cpp:1197-1209; the comment at 1204-1206 denies it).

`DirectionsTrue` excuses a conditional branch with an interrupt or a filtered
idle loop behind it, because the next record is then no evidence, and
`LossAccounted` asks for an exit status only where a record was lost.
`FallbackAgrees` speaks of near branches whose target is not read through `RIP`
or `RSP` (`OperandsAssumption`): for `call *x(%rip)` and `jmp *(%rsp)` the guess
that the comment at decode_x86.c:388-401 describes differs from the type that
is stated, whatever the slots hold, and the guest has none.

Violated properties state what a comment or document says; `PROJECT.json`
quotes it under `findings`. What the models have and no run reports:

- Of the last instruction of a file, and so of every chunk of a rotated
  capture, two documents disagree. `plugin/README.md:248-254` (and the rotation
  design, `tracer/rpoint-cs/docs/superpowers/specs/2026-07-06-online-raw-trace-rotation-design.md:315-320`
  and 334) says that `raw2champsim` writes it with `branch_taken=0` and so
  mismarks a taken branch. `converter/README.md:93-100` says that an
  unconditional transfer is written taken and that a conditional branch is
  dropped, and that is what the code does (raw2champsim.c:831-849).
  `DirectionsTrue` and `LossAccounted` hold of the code and refute the former:
  no branch in the output, the last one included, is marked not taken unless it
  was not taken or another instruction was put behind a conditional. The mutant
  `FinalRecord_kept` is the behaviour that the plugin's README describes.
- A fetch that SIGTERM interrupts leaves its temporary file in the cache for
  good: `except Exception` (fetch_trace.py:151) does not catch `SystemExit`.
- After `rollup --force` the ledger of a running batch says `rolledup`, and
  `combine` takes it without `--force` (cluster_run.py:1027).
- In the Pin tool a thread that starts after `roi_begin` traces at once, also
  when it is not registered and `-trace_only_registered_workers` is set
  (:1933-1936), against the knob's text (:362-366); the knob works for threads
  that wait.
- After `roi_end` new code is not instrumented at all (:1808), so the other
  threads do not notice the end and never become DONE: `-exit_on_done` waits
  for ever, and their last sample is closed by `ThreadFini` or `Fini`.
- A sample file that does not open is silently empty, and counts (:780-787).
- A thread that skips does not count the instructions it executes in code
  instrumented for recording (another thread traces): its regions come late,
  never early.

- The 8-bit registers (decode_x86.c:48) are a range of Zydis register numbers;
  if the order of Zydis' enumeration is the documented one, `AH` and what
  follows are mapped to their neighbours. The model takes the mapping of the
  range as intended.
- The filter does not look at the results of `fwrite` (trace_filter.c:268, 290):
  on a disk that fills up it leaves a trace that is cut and ends with exit
  status 0.
- A raw trace cut inside a record header ends the conversion with exit status 0
  (raw2champsim.c:565), as does a failed finalize (:858); one cut elsewhere
  ends it with 1.
- The cutter takes a truncated frame for the end of the trace
  (trace_cutter.cpp:351), so that the chunks of a damaged trace are whole
  frames that the sanity check certifies; an uncompressed trace cut between two
  records looks whole to it, too.
- The totals of the report on indirect branches include an execution that has
  no record behind it if its address had a target before, although the note at
  trace_sanity_check.cpp:652 says it is excluded.

### Fairness

- `Trigger`: a callback that has begun ends, and as long as QEMU runs *some*
  vCPU retires instructions. No vCPU in particular has to.
- `TraceCache`, `SubmitBatch`: weak fairness of each process. The kernel hands
  a free flock to a waiter; for `Lock` weak fairness suffices in these models
  because a process submits or fetches once, so the lock is not taken away
  infinitely often.
- `RunChampsim`: the wrapper is scheduled, a simulation ends, and both calls of
  `scontrol` have timeouts (run_champsim.py:69 and 93).
- `SubmitBatch` does not need SSH to be reliable: a remote command that runs
  makes progress until it ends.
- `ChampSimTracer`, `BatchLedger`, `PinTracer` and the tools state safety only.

## Theorems

Proved with TLAPS for all values of the constants under the named assumptions
of each module. Most of them (`KnobsAssumption`, `TriggerAssumption`,
`CacheAssumption`, ...) say that bounds are numbers, that sets of processes are
finite, that flags are flags and that `rotate=` excludes `sample_len=` (the
plugin refuses both together). Two say that model values are what they stand
for: a file that is missing, empty or garbled is not one with a ledger's text in
it (`SubmitAssumption`, `ParseAssumption`).

An invariant that a run checks is seldom inductive. What it rests on is named
`...Inv` in the proof modules, with the reason beside it:

| Theorem | Argument |
|---|---|
| **`ChampSimTracer`** | |
| `TypeCorrect` (`[]TypeOK`) | each C function maps a `VcpuState` to a `VcpuState`; the actions compose them |
| `ManifestIsSound` | A row is written from `chunk_insn_count`, so that the count must be that of the file. `RecorderInv` says so at every moment: for an open chunk, records in the file plus those in the buffer are the count; a closed recorder has nothing buffered, and its count, if not reset, is still that of the file it closed last. The third part is what an exit in a gap and a failed open depend on. |
| `MemOpsAreOwn` | `mem_cb` asks only whether *a* record is pending. `OpsInv`: a pending record is that of the current instruction, unless the limit is reached (and then `mem_cb` returns first); every record that is buffered or written has the operands of its own instruction. |
| `ChunksAreContiguous`, `RowsAreUnique`, `ManifestIsComplete`, `ClosedChunksStay` | `BookInv` ties what the recorder holds to where the guest is. Of a vCPU that goes on: files are in use up to `chunk_index` and no further, all but an open last one are closed (`Layout`); the open file, the buffer and the pending record are one piece of the execution in its order (`Slice`), which starts where `chunk_start_insn` says and ends at the guest's position (`Front`); closed chunks have their row, once, with their start (`RowsOnce`, `Covered`). An order that the chunk files have to keep must hold of the buffer and the pending record too, as each moves into the next; and `Front` is needed because the next record is appended by the guest's position and the start of the next chunk is computed from the counters. A chunk of which the disk refused something is a first part of its piece, and no row is claimed for it. `ClosedChunksStay` follows from `Layout`: the index that is opened has no file yet. |
| `PlanIsKept`, `TracerImplementsSchedule` | The mapping takes a vCPU to the positions of its records, chunk by chunk. `PlanInv` says where in its schedule a vCPU is between two callbacks: with a file open, `chunk_insn_count` and the pending record are the length of the newest slice, and `sample_windows_done` the number of slices before it (`Filling`); in a gap, the last slice is full and `sample_phase_insns` is the number of clock ticks since its last instruction (`Waiting`); and all slices together hold as many instructions as `insn_count` and the pending record, no instruction twice, so that `limit=` means what the schedule means by it (`Sliced`). Then each of the paths through `insn_exec_cb` is one of `Extend`, `Open`, `Fail` and `Skip`, with the window that ends and the one that begins in the same callback as one step (`Moves`), and flushing, closing, listing, memory accesses, exit and kill are stutters. Gaps and limits of any size: the ticks are counted by their set, to which an instruction adds at most itself. |
| **`Trigger`** | |
| `NoStale`, `NotSwallowed` | `PollInv`: what a thread between `access` and `unlink` knows about the file and the flag |
| **`TraceCache`** | |
| `CacheInvariant`, `AgreeingJobsGetIt`, `PathIsNeverTorn`, `PublishedAtMostOnce` | `CacheInv`: one job at a time is between lock and unlock; what it has learned there about the entry and about its own temporary file is still so, since nobody else changes either (`Knows`); an entry is whole or a crash has torn an S3 download (`Whole`); and if the jobs agree, the entry suits all of them and, once published, is not evicted (`Kept`) |
| `FetchImplementsAtomicCache` | From `CacheInv`, each step is a step of `AtomicCache` or a stutter: the rename is its publication, which is atomic because the temporary file has been checked and only its owner writes it. |
| **`RunChampsim`** | |
| `WrapperInvariant`, `RequeuedAtMostOnce` | `WrapperInv`: before `on_term` has passed its requeue nothing is requeued, and it is entered once because SIGTERM is ignored from its first statement on and only `main`, which makes no more step, restores it |
| `CancelledJobsStay`, `ReclaimedJobsComeBack` | `AnswerInv`: what `scontrol show` has answered was true of the job, and stays a reason for what `on_term` does, because nobody takes a reclaim or a cancellation back |
| `StatusIsPassedOn` | `StatusInv`: `main` knows the end of its child from the wait on |
| **`SubmitBatch`** | |
| `SubmitInvariant`, `NoJobIsForgotten`, `RunDirsAreOwned` | `SubmitInv`: which submit a ledger and a run directory belong to follows from where the submits are; the claim of the ledger excludes submits of the same checkout, `mkdir` without `-p` those of another; and at each step the ledger says what the submit has done so far |
| `BatchesAreSelfContained` | `TreeInv`: one submit at a time works on the live tree, and from the sync to the snapshot the tree and the binary are its own. This needs that checkouts take turns and that no rsync or remote command outlives its submit or its connection, which is just what `SelfContained` claims it for. |
| **`BatchLedger`** | |
| `LedgerInvariant`, `CompleteBatchesAreComplete`, `RecordsAreKept` | `LedgerInv`: every text of the ledger, in the file or in the hands of any number of clients, is true of the jobs, and stays so because jobs only go forward; hence it does not matter how old the copy is that somebody writes back |
| `ResultsStay` | `KeptInv`: while commands do not overlap, the one client that has the batch has found the result when it read the file, so that its copy carries it; a file that is open for writing is empty |
| **`PinTracer`** | |
| `TypeCorrect`, `ActiveIsCounted` | `PinInv` ties the queue of a callback to the phase of its thread: which operations may be waiting in which phase, at most one of each kind that counts. Then every action changes `active` and the set of counted threads alike, for any number of threads and any command line. |
| `SamplesAreExact`, `SamplesAreInPlace`, `SamplesHaveNoHoles` | `SampleInv`: the samples so far, the quota left and the skip left add up to the place of the thread in its execution, and the next sample begins where the command line says or later. `Clean` is the part that other threads could break: a thread that traces through code that records stays in code that records, whatever is compiled or flushed meanwhile, because the modes that are compiled while a thread traces all record. |
| `ExitIsNotMissed` | `ExitInv`: when all who traced are done and nobody has seen it, somebody still has the comparison before him, with the first counter not loaded yet or loaded at its final value |
| **`TracePipeline`** (`TraceFilter`, `Raw2Champsim`, `TraceCutter`, `TraceCheck`) | |
| `FilterTypes`, `FilterIsExact`, `CapturesAreFilteredExactly` | `OnePass` says what the filter has understood at every moment: what it has not decided on is the end of what it has read (`Undecided`: in the buffer, from its HLT on, no user mode since), about the rest it has decided as the whole trace would have it (`Decided`: kept exactly if no HLT so far closes an idle iteration around it), and the counters are those of the lists (`Tallied`). A later HLT can only make an idle iteration of the undecided part, because user mode lies between it and everything before. At the end of the input nothing undecided can become idle, so it is flushed. |
| `DirectionsAreTrue` | `ConvInv`: the record in hand is the one made of the last raw record read (`Behind`), those written are right, and there are as many as raw records before it (`AllRight`). It rests on two lemmas about the decoders, that the type is the one of the mnemonic whatever the operands do to the registers (`X86Type`, `A64Type`), and on `Honest`: what a guest retires is such a branch and goes where `took` and `to` say. The filter only selects from that (`Drawn`). |
| `LossIsAccounted` | `ConvInv` for the records: at the end of the loop the converter has read what it was asked for, and `Behind` leaves one record at most. For the operands `SlotsFilled`: the loop over the operands of an instruction of any length fills the slots with the first ones and counts the rest. |
| `FallbackIsRight` | `Holds`: the source slots have all registers read so far and the destination slots all written so far, each once. It is kept as long as all registers of the instruction fit (`AddRegHolds`), through the loop over any number of operands (`OperandsSlotted`) and the registers added behind it (`BranchSlotted`); from what the disassembler lists of each type of branch follows that they fit, four sources at most and two destinations, and that the cascade of `Inferred` comes to its type. `GuestInput`: the converter reads nothing but what the guest retired. |
| `ConvertedTracesPass` | `ReportInv`: the report of the converter is what is written plus the record in hand; the trace that is left therefore agrees with the report, unless the last record is missing, also if a flush fails. `PassTallies`: the pass of the check over any trace whose records fit counts the same positions. |
| `CertifiedTracesAreWhole` | `Checked`: the pass has counted each record of the trace, and the status it was given is that of the stream. |
| `ChunksAreTheTrace` | `CutInv`: the bytes of the chunks, in their order, and the bytes carried are the stream read so far; after `m` records the chunks are those the cutter would have of a trace of `m` records (`CutAt`), whatever the pieces were. A piece may complete any number of records and more than one chunk: the lemmas take it one record at a time, and a record moves the chunker from `CutAt` to the next. Sizes of records, chunks and pieces are any numbers. |
| `IndirectTargetsAreTrue` | `Resolved` says what the maps hold after `k` records: the executions of each address so far, and the targets of all but the last record, whose target is the next one. `PassResolves` shows it of the pass over a trace of any length, and by `MapsInv` the report is made from that pass over the whole trace. The totals of the report are sums over the map, which are shown to be the sizes of the classes they stand for; what is called polymorphic has two addresses in the map, each with an execution of its own. |

The loops of the two tools are recursive functions, and that such a function is
what its definition says, for every length, is an induction. Instead of
induction the proofs take the least length for which it would not be so
(`LeastNat`, from the well-foundedness of the numbers), which is the same
argument in a form the provers can instantiate. `SlotlessIn`, by which
`LossAccounted` counts operands, `after_records`, and `emitted`, the records
that a piece of the stream completes, are proved that way; so are
`after_operands` and the sums over the maps of the report.

`ProgramAssumption` says of the guest that an instruction is the branch its
mnemonic says, and that the program is closed: each instruction goes on at
another. `MemOpsAssumption`, `CountArgsAssumption` and `CutterAssumption` are
types. `OperandsAssumption`, which only `FallbackIsRight` uses, says what Zydis
lists of a near x86 branch: `RIP`, the stack pointer of a call or a return, `RCX`
and the flags of a conditional, and one or two registers for an indirect target;
it leaves number, order and repetition of the operands open. The comment at
decode_x86.c:388 and converter/tests/decode_x86_test.c take it to be so.

The type invariants and the inductive invariants are proved and are not among
the properties of the runs.

Only model-checked is liveness (`TriggerFires`, `EveryJobEnds`, `WrapperEnds`,
`EverySubmitEnds`): fairness and `ENABLED` are out of the prover's reach. Every
other property of a run that passes is also a theorem.

## Not modelled, and the plan

Modelled first was what runs concurrently or must survive a failure, then the
tools between capture and simulation. Left, in this order:

1. The records of the Pin tool: the capture of operands, values and flags in
   `champsim_tracer_mt_roi_v3.cpp` (classification, `RecordMem*`, `RecordReg*`),
   against the instruction they belong to.
2. Composition of `RunChampsim` with `TraceCache` (a signal inside `fetch`) and
   of `SubmitBatch` with `BatchLedger`.
3. In the tools: chunks of the cutter that cannot be created or written, the
   statistics of v1 and cloudsuite traces, `--stats-only` of the converter.

Not planned: the profile pass (two counters shared by the vCPU threads, which
may lose counts, printed at exit), the trace inspector (prints a trace), the
superseded `champsim_tracer.c.bak` and Pin tracer v2, Zydis and Capstone
themselves, YAML expansion and path rewriting, `rollup.py`, `compare_runs.py`
and `run_regression.py` (sequential text processing), workload drivers, shell
recipes and QEMU patches. A job whose final state `status` has seen is not
asked for again (cluster_run.py:813); a requeue that follows is not modelled,
because a job that has ended stays so in `BatchLedger`.

# TLA+ models of the mpmc_queues helper scripts

The repository's C++ queues come with two Python tools under `src/scripts/`.
This directory holds TLA+ models of both tools, with the TLC configurations
that check them.

- `sysinfo.py` reads the Linux sysfs topology. It has these parts:
  - CPUs: `get_cpu_info`, `_get_cpus_logical_ids`, `_get_cache_info` and
    `_get_node_of_cpu`.
  - NUMA nodes: `get_nodes_info`.
  - Cache optimiser: `optimize_cache_nodes`.
  - Cluster builder: `get_clusters`.
  - From the clusters it derives a CPU pinning order with
    `cluster_first_pinning` or `ping_pong_pinning`, and writes it to a file
    with `save_pinning_to_file`.
  - `save_cluster_info` writes the clusters as `core[c][n][k]=cpus` lines.
    `main` never calls it; it is a library entry point.
  - `main` selects one of four modes: `--cpu`, `--cluster`, `--pin_cluster`
    and `--pin_ping_pong`.
  - It runs sequentially and exits.
- `memoryMonitor.py` starts a command and samples `/proc/<pid>/statm`
  every `granularity` seconds, up to `max_rows` times.
  - It writes the rows to a CSV file in batches of `batch_size`.
  - Then it converts the units through a `.tmp` file.
  - Its hard part is concurrency. The command runs alongside the monitor and
    may end at any moment. SIGINT and SIGTERM run a handler that terminates
    the command and calls `sys.exit(0)` from the middle of whatever the
    monitor was doing.

## Modules

| Module | Models | State and actions |
|---|---|---|
| `Topology` | the attribute readers, CPU and node builders, cache optimiser, cluster builder | Pure operators over a sysfs tree value (see below). Python exceptions are `Fail("IOError")` / `Fail("ValueError")` results, so each `try`/`except` of the code becomes a test of `kind`. |
| `Pinning` | `CPUPinningGenerator` | Two operators follow the code's loops: `ClusterFirstPinning`, and `PingPongSlot` (a RECURSIVE round loop with one cursor per cluster). A small state machine calls one generator on one input. `ClusterFirstRef` and `PingPongRef` define the orders from the design text as a sort of the SMT slots. They are the abstract specification the loops are checked against. |
| `SysInfo` | `main` of sysinfo.py | `Init` picks a tree and a command line. Each of `MainCpu`, `MainCluster`, `MainPinPingPong` and `MainPinCluster` runs a whole branch: its reads, the generator, the file write and the exit status. `SaveClusterInfo` is the library call `save_cluster_info(filename, cache_level)`, chosen by an argument record of mode `save_cluster_info`: `written` is its return value, and `clusterFile` the core lines (`CoreLines`) it writes. The module instantiates `Pinning` (as `P`) and extends `Topology`. |
| `MemoryMonitor` | `__init__`, `monitor`, `_monitor_process`, `_signal_handler`, `convert_units`, `main` of memoryMonitor.py | See the MemoryMonitor section below. |
| `Sampler` | what the monitor promises about its CSV | The abstract specification of the sampler: `Open`, `Sample` (the next step number, at most `MaxRows`), `Save` (a longer prefix reaches the file), `Close`, and the liveness that an opened file is closed. `MemoryMonitor` implements it (`SamplerRefined`). |

Helpers that translate code also have their own `map` entries in
`PROJECT.json`. Examples are `Dedup` (the `seen` loop), `ClosestMem` (the
strict-`<` nearest-anchor scan) and `StableSortBy` (Python's stable
`list.sort`).

### The sysfs tree in Topology

A tree is a record:

- the node and cpu directories that exist;
- `has_memory`;
- per node, `cpulist` and `distance`;
- per CPU, the sibling list, `core_id`, `physical_package_id`, the cache
  `id` files and the `node<N>` link.

A list file is a sequence of items: `Num(n)`, `RangeOf(a, b)` (the text
`a-b`) and `JunkItem`. A missing file is the model value `Missing`.

### MemoryMonitor

The variables:

- `pc` is the monitor's position. Each position is one interleaving point
  of `_monitor_process`, and the module header lists the lines each one
  covers.
- `child` is `none` (before `Popen`), `running`, `exited` (a zombie) or
  `reaped`; `process` records that `self.process` has been stored.
- `termSent`, `killed` and `ignoresTerm` record the command's signals.
- `signals` counts the SIGINT/SIGTERMs delivered to the monitor, at most
  the constant `MaxSignals`.
- `batch` and `csv` hold the samples. A sample is `[step, live]`, where
  `live` is false when statm was read from a zombie.
- `resume` is the exception the `finally` block passes on: none, the
  handler's `SystemExit` (`fin_poll` or `exit`, where it goes), or `raise`
  for an OSError.
- `batchSize` is `batch_size`, chosen in `Init` from the constant
  `BatchSizes`.
- `tmpFile` records the `.tmp` file, and `exitStatus` the process's exit
  status.

The actions:

- Monitor actions, one per code segment between interleaving points:
  - `Construct`: `MemoryMonitor(...)` with `_validate_parameters`, which may
    raise ValueError (status 1)
  - `Popen`: the command is forked (position `spawned`), or Popen fails
    (RuntimeError, status 1)
  - `StoreProcess`: Popen returns and `self.process` is set (`process`);
    then the CSV is opened, or opening it raises (the `finally` block
    cleans up, status 1)
  - `Poll`
  - `ReadSample`: the read, the append, the flush, the `max_rows` test and
    the sleep
  - `ReadSampleWriteFails`: as `ReadSample`, but the flush of the full batch
    raises
  - `WriteRest`, and `WriteRestFails` (the remainder write raises)
  - `FinallyPoll`
  - `FinallyWaitReturns` and `FinallyWaitTimeout`
  - `LastWait`
  - `ConvertReplace`, and `ConvertFails` (an exception: the `.tmp` file is
    unlinked, status 1)
- The signal handler: `Signal`, `HandlerWaitReturns` and
  `HandlerWaitTimeout`, and `SignalBeforeStart` (the handler finds
  `self.process` still `None` and exits 0). A `Signal` while the handler
  waits runs it again inside itself; the inner `SystemExit` unwinds the
  outer handler and goes where the outer one would have gone.
- `DefaultSignal`: a signal while the default dispositions apply (while
  `MemoryMonitor(...)` is built, and during `convert_units`). SIGINT raises
  KeyboardInterrupt and `main` returns 130; SIGTERM kills the process
  (status 143). Neither removes the `.tmp` file.
- `ChildExits`, the command's own step.

`GetMemoryInfo` (`_get_memory_info`) and `WriteBatch` (`_write_batch`) are
the helpers the sampling and write steps use. `FailedWrite` is a write
that raises part way: some rows before the failing one reach the file, and
the model's `batch` keeps the rest (the real `memory_batch` is never read
again). An exception re-raised by `except Exception: raise` runs the
`finally` cleanup and makes `main` return 1, unless a signal during that
cleanup replaces it by `sys.exit(0)`.

The refinement mapping to `Sampler`: `log` is the sequence of step numbers
of the samples taken (those in `csv` followed by those in `batch`), `saved`
is `Len(csv)`, and the file is open while the monitor is inside the `try`
of `_monitor_process` (or in the handler's wait, when its `SystemExit` will
go through that `finally`). Because a failing flush happens in the step
that takes a sample, `Sampler`'s `Close` may take one last sample as it
closes the file.

The MC modules:

- `MCPinning` builds cluster lists from node shapes.
- `MCSysInfo` builds three families of trees:
  - geometry trees: three nodes, with every `has_memory` set and every
    distance vector over {10, 20} of length 1 to 3;
  - machine trees: two nodes, four CPUs, three SMT layouts, each core on
    either node, and index1 ids 0, 1, absent (no index1) or unreadable
    (index0's `id` missing, so the cache list is cut short). They are rendered the way
    Linux writes the files, with ranges for consecutive ids.
  - an empty tree, with neither `cpu` nor `node` directories.

  With the geometry trees, `GeoArgs` runs `--cluster` and adds three `save_cluster_info` calls: unoptimised, at cache
  level 1 (which the geometry CPUs lack), and to an unwritable file.
- The MemoryMonitor runs need no MC module: their constants are plain
  numbers.

## Runs

| run | cfg | expect | what it shows |
|---|---|---|---|
| pinning | MCPinning.cfg | pass | Both generators list every SMT thread once, in the design's order. Inputs: ≤2 clusters of ≤3 nodes, cores of 1 or 2 threads, `nodes_per_round` 0..3. |
| pinning_empty | MCPinningEmpty.cfg | violation | `ping_pong_pinning` raises ValueError (from `max()`) when nodes have no cores. |
| clusters | MCSysInfoClusters.cfg | pass | `--cluster`: each compute node joins its nearest memory node, the earliest one on a tie, and each cluster is sorted by distance. Covers short distance vectors. The run covers nodes whose position differs from their id, and runs the `save_cluster_info` calls on the same trees. |
| pin_machines | MCSysInfoPin.cfg | pass | All modes on kernel-formatted machines end with a consistent status, and a written pinning file never repeats a CPU. `--cluster --cache 1` (`OptimizedNodesGroupedByCache`) prints of each node exactly the cores that have an L2 id, ordered by that id: a core whose cache list is cut short is dropped, not misgrouped. |
| empty_topology | MCSysInfoEmpty.cfg | violation | `--cpu` and `--cluster` exit 0 on a machine with no CPUs and no nodes; design section 6 asks for a non-zero status. |
| pin_cover | MCSysInfoCover.cfg | violation | `--pin_cluster` writes an empty file with status 0 when the first anchor is a memory-only node. |
| has_memory | MCSysInfoHasMemory.cfg | violation | A `has_memory` of `0-1` makes `--cluster` fail with "Unexpected error". |
| monitor | MCMonitor.cfg | pass | With no signal, batch sizes 1, 2 and 4, and whatever fails in setup, Popen, the CSV open, a batch write or the conversion, the monitor implements `Sampler`; exit 0 means the CSV holds every sample; the monitor always ends. |
| monitor_signal | MCMonitorSignal.cfg | pass | Up to two signals at any step, before `Popen` and inside the handler and during the cleanup of a failed write included, keeps the monitor an implementation of `Sampler` (the CSV an ordered prefix of the samples). A command stored in `self.process` never outlives the monitor (`SupervisedChildNeverOutlivesMonitor`), and the monitor ends. |
| zero_sample | MCMonitorZero.cfg | violation | A command that exits between `poll()` and the statm read is recorded as a sample of zeros. |
| lost_batch | MCMonitorLostBatch.cfg | violation | A signal loses the unflushed samples, yet the exit status is 0. |
| tmp_left | MCMonitorTmp.cfg | violation | Ctrl-C during the conversion leaves the `.tmp` file behind. |

Each violation is recorded as a finding in `PROJECT.json`. Each property of
a passing run has a mutant there: a plausible bug in the code it is about,
which the run then catches. Examples are `<=` in the nearest-anchor scan, a
flush test of `>` instead of `>=`, and a timeout that does not `kill()`.

## Bounds

- **Pinning:** two clusters of up to three nodes already have unequal
  cluster lengths, which exercises the ping-pong rounds. Rounds of 1 and 2
  nodes split a cluster, and 3 does not.
- **Cluster geometry:** three nodes give every pattern of "compute node,
  two anchors, a tie or none".
- **Machine trees:** four CPUs on two nodes cover:
  - SMT siblings that are adjacent (`0-1`) or apart (`0,2`);
  - cores of one node spread over both;
  - nodes without CPUs;
  - every index1 grouping.
- **MemoryMonitor:** `max_rows = 3` with `batch_size` 1, 2 and 4 in the
  passing runs: a flush after every sample, one flush of a full batch and a
  remainder of one, and (like the default of 1000) no flush at all, only
  the remainder. The violation runs use 2. The command can end before, between
  or after any sample. `MaxSignals = 2` in `monitor_signal` lets a second
  signal interrupt the handler, or the `finally` block the first one
  started; 1 is enough for the violation runs.

## Fairness

The sysinfo models are single invocations that end. They need no fairness,
and they set `CHECK_DEADLOCK FALSE` because the process exits.

`MemoryMonitor` assumes:

- weak fairness of the monitor's steps. It is one thread, and `sleep` and
  the waits with a timeout always return.
- weak fairness of `ChildDies`. A command sent SIGKILL dies, and so does a
  command sent SIGTERM that does not ignore it.

It does not assume that the command finishes on its own, or that a signal
ever arrives. One timing assumption is made: once SIGKILL has been sent, the
command dies before a 5-second wait times out.

## Not modelled

- Argument parsing, `--json` and the text printers. They format data.
- The comment lines of the `save_cluster_info` file, and a property of
  the file. The design's round trip (section 8) asks that the core lines
  alone rebuild the structure; they cannot for a node left without cores,
  which gets no line, and what the lines do carry only restates
  `CoreLines`. The disagreement is not recorded as a run.
- Which parameters `_validate_parameters` rejects, and the `getconf` page
  size: validation is a nondeterministic ValueError.
- The per-row arithmetic of `convert_units`.
- An OSError raised only when the `with` block closes the CSV and flushes
  Python's buffer. Its effect (a prefix of the rows on disk, status 1) is
  the one `FailedWrite` already produces at the last write.
- CPU hotplug between reads. The tree is constant for an invocation.
- The command blocking on its unread stdout/stderr pipes, as a state of
  its own. The model already lets the command never end on its own, which
  is all the monitor can observe of a blocked command.

## Disagreements seen but not recorded as runs

- A SIGINT/SIGTERM after Popen has forked the command but before
  `self.process` is stored (Popen still waits on its exec pipe) finds
  `self.process` None; the handler exits 0 and the command keeps running.
  Checking `pc = "exit" => child # "running" \/ killed` on the
  `monitor_signal` model fails in four steps (Construct, Popen,
  SignalBeforeStart at `spawned`). The run checks
  `SupervisedChildNeverOutlivesMonitor`, which is the same statement for a
  command stored in `self.process`.

## Plan for later work

- A property that every CPU of a readable node is pinned.
- Modelling the malformed-row path of `convert_units`.

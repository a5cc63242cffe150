# IronMonitor: specifications and proofs

IronMonitor (Rust, `src/`) monitors one machine: hardware readers, a background
collector, an HTTP server, a store for fleets of machines, an import of AI
agents' sessions, a loop that tunes settings, and an agent that calls tools and reads a
log of observations. This directory models the parts of it whose correctness rests
on what several threads, tasks or processes do in turn, checks the models with
TLC, and proves the main properties with TLAPS for every value of the constants.

Notation: `file.rs:n` is a line of `src/src/...`.

## 1. The system

### Components with state shared between actors

| Component | State | Operations | Interacts with |
|---|---|---|---|
| HTTP sampler, `http_server/sampler.rs` | per segment a sample and its stamp, when it was last wanted; `started`; one mutex and one condition variable | `sample_for` (requests), `ensure_thread`, `run` (one thread) | v1 routes call it; a pass takes `READER_PASS` |
| Background collector, `pipeline/mod.rs` | one published snapshot, generation counter, three cached tables, monitors, stop flag | warm-up, `collect_once`, publish, hook, sleep, `request_stop`, `Drop` | publishes to every reader of a `SnapshotHandle`, rings hooks, takes `READER_PASS` |
| Resolver pass, `ontology/resolve.rs` | the process-wide `READER_PASS` | `sample_segment` | run by the sampler |
| Fleet store sink, `fleet_store/` | doorbell (one permit), last stored generation, two counters, the table | `publish_hook`, `run`, `append_latest`, `append` | rung by the collector's hook, reads its snapshot |
| Agents import, `agents/ironobs.rs`, `agents/cache.rs` | lock file, cache file with watermarks, temporary file, each window's copy of the cache | load, save, lock, cycle, import per producer | several windows (processes) share the directory; runs `ironobs` |
| Time-series database, `tsdb/mod.rs` | header, ring of records | record, rotate, close | a recorder and viewers open one file |
| Profile apply and tuning loop, `profile/apply.rs`, `tuning/` | settings, ledger, the cycle that was applied | plan, apply, verify, revert a setting, revert a cycle | writes devices that others write too |
| Agent tool runtime, `agent/tool_runtime.rs` | per run its round, budgets and deadline; per worker a short queue and the job in hand | rounds with a model, tool calls, cancel, time out, worker loop | calls providers that may stall |
| Observation service, `ai_api/observation_tools.rs`, `observability/events.rs` | the latest snapshot, when its tables were read, the event log | refresh and ingest (poller and tool calls), page with a cursor, name a connection's process | takes the collector's published snapshot |

The remaining components, which keep no state that actors share or are input and
output only, are in `PROJECT.json` with the reason: hardware readers, detection
and prediction (floating-point arithmetic), clients of model servers, daemon and
configuration, ontology, and the graphical, terminal and command-line
interfaces.

### What is hard about them, and what makes each one right

* **Sampler.** A request may come between the thread's look for work and its
  wait, a sample between a client's look and its wait; the mutex is free while a
  pass runs; spawning may fail, a reader may panic. Right when no wake-up is
  lost, every request is answered within its bound, samples are spaced and never
  look fresher than they are, no segment is passed over again and again for those of
  busier clients, and an idle server does no work.
* **Collector.** Three stages run every n-th tick and may fail or find no
  monitor; what they did not read must stay published and must not be claimed as
  read. A stop request may come at any point. It contends for `READER_PASS` with
  the sampler, and a panicking holder poisons that lock.
* **Sink.** Rings coalesce, the snapshot read is not the one that rang, appends
  are slow and fail. Right when each generation is stored at most once, in order,
  when the counters account for the table exactly, and when the last snapshot of
  a burst is stored though nothing rings again.
* **Import.** Windows crash, a lock may be stale or released as it is looked at,
  the lock file cannot be removed or looked at, imports are killed half-way, sessions are written while they are imported, the
  cache is lost, torn, or overwritten by a window that lags. Right when imports
  exclude each other and no session is skipped by a watermark.
* **Database.** The recorder may end between any two writes; keeping a record in
  a rotation may rotate again; a viewer that closes puts back the header it opened
  with. Right when the header always describes whole records, rotations remove the
  oldest records only, and every record ends.
* **Tuning.** A setting is read again between the plan and the write and after it,
  others write in between, measurements are noisy or fail, a revert fails, the loop
  starts again without its ledger. Right when a verdict is true of the machine, when
  what could not be taken back is reported, and when the loop stops trying.
* **Tool runtime.** A caller gives up while its job is queued or running, and the
  answer comes late; a stalled provider holds the one worker and its queue of two.
  Right when a late answer is never taken for another call's, when dead jobs are not
  started, and when every run ends within its budgets.
* **Observation service.** Several threads take snapshots and ingest them in another
  order; a pass may not have read the table it carries; the log overflows under a
  client that pages; a PID changes hands between two tables of one pass, and clocks
  are read in whole seconds. Right when no event is
  missed unannounced, no table is dated later than it was read, and a process called
  verified is the connection's.

`PROJECT.json` lists each such hazard at its line with the properties that cover
it, or why none does.

## 2. The modules

| Module | Models | Uses |
|---|---|---|
| `Sampler` | `sampler.rs` and its callers in `v1.rs` | |
| `SamplerOrder` | the order in which segments are served, as history beside `Sampler` | extends `Sampler` |
| `Collector` | `collector_loop`, `collect_once` | |
| `Readers` | both in one process | extends `Sampler`, instantiates `Collector` |
| `GapCountedTable` | what a fleet sink promises (abstract) | |
| `FleetSink` | the sink, open to whoever publishes and rings | instantiates `GapCountedTable` |
| `Fleet` | the sink beside the collector whose hook rings it | extends `FleetSink`, instantiates `Collector` |
| `Importer` | windows that import and share the directory | |
| `Tsdb` | a recorder's and viewers' database file | |
| `Tuning` | cycles of the tuning loop, with the writes of `apply.rs`, beside other writers | |
| `ToolRuntime` | conversations that call tools, on shared workers | |
| `Observations` | the observation service and its event log beside a collector | |
| `MCFleet`, `MCReaders`, `MCImporter`, `MCTuning`, `MCToolRuntime` | constants of the runs | |
| `Sampler_proofs`, `Readers_proofs`, `Fleet_proofs` (with those about the sink alone), `Importer_proofs`, `Tsdb_proofs`, `Tuning_proofs`, `ToolRuntime_proofs`, `Observations_proofs` | theorems | |

Definitions under a comment "A slip" are not part of any specification. Each is
a variant of a definition with a plausible mistake, named in `PROJECT.json` to
show that the property it is paired with notices that mistake.

**Sampler.** Every critical section of the state mutex is one action. A client
goes through `called` (deadline fixed, lock not yet held), `waiting` (on the
condition variable) and `woken` (wait over, lock not yet held) to `idle`
(answered); `Mark` and `Recheck` are one turn of the wait loop of `sample_for`
each. The thread goes through `new`, `pass` (waits for `READER_PASS`), `reading`
(holds it), `publish` (waits for the mutex), then, in the critical section
that publishes, the loop turns and it starts the next pass or parks. `notify_all`
wakes the parked thread and every waiting client; waits end spuriously at any
time. `now` is the monotonic clock; `Decide` is the choice of `run` with its
order (never sampled first, oldest first, then the name). What a reader reads is
not modelled; a sample is its stamp, and a history variable holds when its
reading really began. `SamplerOrder` adds one history to it, of how often each
other segment was begun while one waited.

**Collector.** `pc` follows `collector_loop`: `acquire` and `collect` are
`collect_once`, then `store`, `hook`, and after the warm-up `build`, then `loop`
and `sleep`. A table is represented by the generation that read it, 0 when empty,
which is all that staleness and blanking need. Each stage hands back a reading,
an empty table or nothing, as its branch of `collect_once` allows
(`StageResults`). The length of the sleep, histories, timings and the stages that
run every tick are left out.

**Readers.** The two composed through `readerPass`.

**FleetSink, GapCountedTable, Fleet.** The sink's steps are `Wake` (takes the
permit), `Read` (the checks of `append_latest`), `Commit` or `Fail` (the store's
append) and `Count`. The surroundings may publish any newer snapshot and ring at
any time, which is weaker than what the collector does; `Fleet` puts the real
collector there. `GapCountedTable` is the promise: a table that grows in order,
once per generation, with two counts that are exact at every step; a row that is
committed and not yet counted is hidden by the refinement mapping (`CountedRows`).

**Importer.** Every file-system call is a step: exclusive creation of the lock,
the look at its age, removal, the second attempt, the removal when the lock is
dropped; and of a save: open-and-truncate, write, rename, each of which may fail.
A removal of the lock file that fails leaves it, without a word, and metadata that
cannot be read make a lock free; `faults` counts both, and with the windows that end
they make up the mishaps, which `MaxMishaps` bounds.
An open handle follows its file when another window renames it. A session is the
time of its last write and whether that write is imported. `waived` marks what
ironobs reported it could not read, and what is older than the first import's
window: the code leaves both for good.

**Tsdb.** The data is a sequence of cells, so that a record can be half written or
partly overwritten; `ReadBack` is `read_all_system_snapshots` on them. `todo` is the
recursion of `write_record`, `rotate` and `record_system` unrolled: the records a
rotation keeps go before the record it was for, which is then not checked again
(`rotated`). Two history variables say whose header the file and the recorder go
by, the recorder's own or one a viewer put back; a third (`lost`) says that a
rotation was cut short, or that a recorder started from such a header.

**Tuning.** A caller that runs cycle after cycle with one ledger. `BeginCycle` makes
the plan; then the settings follow in the inspector's order, each of those that are
not withheld through `baseline` (measure), `check` (read the previous value), `write`,
`settle` (measure again and compare) and `undo`, of which an unverified write has only
the second and third. The plan reads all settings in one step; after it every reading
and every write is a step of its own and may fail, and between any two of them another writer, a change of what the machine is used for, a
restart or a ledger that is deleted may come (`disturbed` bounds how often). A metric
is a number per value with noise around it; the choice of a policy's value is data
(`Target`). `prior`, `clean` and `undone` are history: what the loop found, whether it
alone has written, whether verification put it back.

**ToolRuntime.** A run is the record of the locals of
`query_with_tools_and_history`; its `pc` names what it does or waits for: a model
(`model`), the metadata of one (`meta`), a tool, or, for a command-line backend, a
snapshot and a text. A worker takes jobs off its queue (`queue`, one thread each). A
caller that gives up leaves its job where it is; the worker drops it when its turn
comes, and what a job already in hand answers later is not for anybody. Tasks may
stall for good. A tool's result is its size, and whether it is evidence; a message is
the calls it asks for.

**Observations.** A pass of the collector is here three steps, one per decimated
stage and one that publishes, because the identity of a process hangs on when in the
pass each table was read. A stage of the connections that fails half-way still
replaces the table and counts as a reading, one of the processes leaves it. A process
has the second it was born in and a start time that may be a second less, because the
kernel's is the sum of two that are rounded down. `Take` reads the slot outside the
store's lock and `Ingest` happens under it, with an event for each reading that came,
went or rose; each is a step, per thread. A table is the process that had the PID when it was
read; the log is a sequence, and the client is one that passes on the cursor it was
given.

## 3. What the runs show

| Run | Bounds | Shows |
|---|---|---|
| `sampler` | 2 request threads, 2 segments, 3 requests at times 0 and 1, clock to 5, idle window 3, resample 2 | no lost wake-up (`ParkedThreadMissesNothing`, `WaitingClientLacksASample`), honest stamps, spacing, every request answered, an idle server ends quiet; a segment that is due is overtaken at most once by the other (`OvertakenOnceByEach`) |
| `readers` | 1 request thread, 2 segments, a collector of 2 generations | passes never overlap, also after a panic |
| `fleet` | 4 generations, processes every 2nd tick, connections every tick but without a monitor, disks on the warm-up | counters account for the table; the composition implements the open sink (`RunsTheOpenSink`) and the abstract promise (`KeepsPromise`); tables do not go back; the newest snapshot is stored; a stop ends the thread |
| `importer` | 2 windows, 1 producer, clock to 2, 1 mishap (a crash, or a failing call on the lock file), 1 save after a scan, deadline and stale age 1 | imports exclude each other until that happens (`ExclusiveUntilAFault`); no session is skipped, also when imports then overlap; only overlapping saves tear the cache |
| `tsdb` | 8 records of 1 or 7 cells, room for 6, 1 crash, 1 viewer | the header describes whole records (`HeaderDescribesRecords`); what goes is the oldest (`OnlyTheOldestGo`); every record ends (`RecordingEnds`) |
| `tuning` | 3 settings of 2 values, one of them measured, 2 uses, noise 1, ceilings below and above the unattended one, 2 disturbances | a reverted cycle leaves nothing unsaid but an undo that failed (`OnlyFailedUndosAreSilent`); a verdict is true of the machine (`VerdictsAreEarned`); left alone, the loop settles (`LoopSettles`) |
| `toolruntime` | a cancellable run over Ollama or a remote model, one over a command line; 3 rounds, 3 calls, output of 2 units, a queue of 1, clock to 2 | evidence is of the run's own calls (`EvidenceIsReal`); dead jobs are not started (`AbandonedWorkNotStarted`); every run ends though its task stalls and the queues are full (`EveryRunEnds`) |
| `observations` | poller and 1 caller, 2 readings, 3 generations, tables every 2nd, log of 3, pages of 1, 2 owners of the PID, clock to 2 | every event is seen or announced as lost (`EveryEventSeenOrAnnounced`); tables are not dated fresher than they are (`StampsNotFresher`); the log is in order (`TypeOK`) |
| `sampler_panic` | 1 client, 1 segment | finding 1 below |
| `import_lock` | 3 windows, no mishap | finding 2 |
| `tuning_way_back` | as `tuning` | finding 3 |
| `observations_identity` | poller and 1 caller, 4 generations, 2 owners of the PID, clock to 3 | finding 4 |

Why the bounds are enough for the questions asked. *Sampler*: two segments make
the choice of the most overdue and the timer for the later one; two clients and
three requests let one be waiting, one be marking, and one return for a segment
that was sampled; the clock passes the end of every idle window (1 + 3) and a
resample after it. A pass that lasts a
resample interval makes its own segment due again before the other has had its turn,
which is when a wrong order shows.
*Fleet*: generation 1 is the warm-up, 2 and 4 run the process
stage, 3 does not; four generations make holes of one and two between stored
ones. *Importer*: the clock passes deadline and stale age once, one abandoned
lock is found and replaced, one import is killed and repeated. Sessions are
written at time 0 in the run, that is before, during or after an import that
begins at 0, and before one that begins at 1. One failing call is all it takes for two
windows to hold the lock, and one more cycle follows it. A crash and a failing call in
one behaviour are not in the run; `NoSessionSkipped` is proved for any number of both.
*Tsdb*: six records of one cell fill the file, the seventh keeps three of them
and adds a record of seven cells, the eighth keeps that one beside one of one cell,
which do not fit together: a rotation inside a rotation, and a record larger than
the maximum. The one crash may fall anywhere, and a viewer may open before a
rotation and close after it or after a restart.
*Tuning*: three settings let one be kept, one refused and one undone in a cycle; two
disturbances let a value be written by another between the loop's reading and its
write, and a use change afterwards. *ToolRuntime*: a queue of one is full with one job behind
the one in hand; three calls are one more than the output allows, and a round more than
the model needs to repeat itself. *Observations*: generation 1 is
the warm-up, 2 runs the stages, 3 carries the tables over, so a thread may hold the older
while another ingests the later one; two readings that change make two events in one
ingest, and four of them overflow a log of three under a reader that pages one by one.
For the identity a clock of three seconds has one between the start time, the birth and
the reading, and the pass may go on through all of them.
Deadlock is checked in `tuning`, whose loop never stops; in the other runs all bounded
clocks, calls and generations do.

**Fairness.** Weak fairness stands for what the scheduler and the clock do: a
thread that can take a step does, timed waits end, readers return. Nothing
obliges a client to ask, a panic, a spurious wake-up or a stop to happen. Taking
`READER_PASS` is weakly fair in the sampler: alone, it has the lock for the asking.
`Readers` checks safety only. Beside the collector nothing in the code makes the mutex
fair, so that the sampler gets it at all is not claimed; see the limits. The
collector's own `Acquire` is strongly fair in `Collector`, and in `Fleet`, where nobody
else holds the lock, weak fairness suffices. In `Fleet` an append is taken
to end (with or without success). In `Tsdb` a recorder that has begun to write goes on.
In `Tuning` the loop's own steps are fair: it is one thread that calls and is called back.
In `ToolRuntime` the clock and every run's own thread are; the workers get no fairness,
since what they call may stall, and neither does anybody who might cancel. `Observations`
checks safety only.

### Findings

1. `sampler_panic`. "A panicking reader must not wedge every later request"
   (`sampler.rs:122`): a poisoned mutex is taken over, but the reader panics on
   the sampler thread itself, which ends with `started` still true. No later
   request starts another thread, and segments without a sample are never sampled.
2. `import_lock`. "Single instance: a cycle holds `.import.lock`"
   (`ironobs.rs:23`): a window that saw a lock, finds it released when it looks at
   its age, and then removes whatever has that name, may remove a third window's
   new lock; two cycles run. No crash and no stale lock is needed. Nor is a third
   window if one call on the lock file fails, since the errors of both removals are
   ignored (`:340`, `:358`) and one of `metadata` means a free lock (`:309`): a lock
   "Released when dropped" (`:332`) can outlive its cycle and grow stale.
3. `tuning_way_back`. Writes that cannot be reverted "are reported as un-revertible rather
   than skipped silently" (`serve.rs:111`): a regression whose undo failed is skipped all
   the same, as one that "verification has put back" (`:127`). It is the only kind
   (`OnlyFailedUndosAreSilent`).
4. `observations_identity`. "A table from the same second could precede process creation,
   so it cannot establish identity" (`observation_tools.rs:951`): the start time may be a
   second early (`process_monitor.rs:1714`) and the connections' time is that of the
   pass's end, so one from the same second, or read before it, can pass the test.

Where else the code does not do what is written beside it, seen in the code while
modelling it and without a run of its own:

* "Never-sampled segments sort first, in the order they were first wanted"
  (`sampler.rs:271`): the key is `wanted_at` (`:294`), which every request sets anew. Nobody
  is starved thereby (`OvertakenOnceByEach`).
* `READER_PASS` is "the one lock every pass over the hardware readers takes, in this
  process" (`pipeline/mod.rs:715`): `collect_cpu_metrics` (`observability/api.rs:1074`)
  reads the processor counters without it.
* "The first tick always collects everything" (`pipeline/mod.rs:760`): the tick exempted
  (`:763`) is the warm-up, which has no process or connection monitor. With a stage of
  every third tick or less its first table is late; no configuration in the product has that.
* "A reader sees the old file or the new one, never half" (`cache.rs:202`): all windows
  save through one temporary file, without the import lock, and two saves that overlap
  tear the cache. Nothing else does (`TornByOverlapOnly`).
* A lost cache "costs time, never correctness" (`cache.rs:182`): it costs the start of the
  first import's window, which "is kept, so a killed first run retries it"
  (`ironobs.rs:883`). The next first window begins later, and sessions of the earlier
  one are never selected.
* "Maximum database size in bytes" (`tsdb/mod.rs:190`): a rotation keeps half of the
  records, not half of the bytes (`:497`), and the record that caused it is written without
  a second comparison (`:415`). `SizeStaysNearTheLimit` bounds the excess.
* "Apply a setting, but only if the change can be undone" (`apply.rs:134`): the value is
  read once to decide and again for the outcome (`:274`), and the second reading may fail.
  A revert reports such a write as one it cannot undo.

## 4. What is proved

All for arbitrary constants under the named assumptions, which state no more than
the types of the constants.

* **Sampler** (`SamplerAssumption`). `SamplerInvariant` is the inductive
  invariant: types, that a thread exists once `started`, that the stamp of the
  running pass is no later than its reading, and the two wake-up invariants. The
  parked thread's invariant is inductive only with the first: a request that
  marks a segment notifies, and that reaches the thread only if it exists.
  From it: `SamplerTypes`, `ThreadMissesNothing`, `ClientsLackASample`,
  `SamplesAreNotFresher`. `SamplesAreSpaced` needs one more invariant, that the
  running pass was due when it began and no sample of its segment has come since.
  `NobodyOvertakesTwice` (`SamplerOrder`, for a resample interval above 0): a segment
  that has overtaken another was sampled while that one waited, so it is served behind
  it from then on.
* **Readers**. `ReaderPassExcludes`: each side holds the lock exactly while inside
  (one conjunct of each type invariant), so two sides never are. `ReadersTypes`. The sampler's
  proofs carry over to the composition (`ThreadMissesNothingBeside`): the
  collector changes nothing of the sampler's but the lock.
* **FleetSink**, for any surroundings that publish growing generations.
  `SinkInvariant` adds to the types that the last stored generation is the
  greatest of the counted rows, that what is held is newer, and that the counters
  are exact. That a new row adds its gap to the holes is a lemma on finite sets
  (`Holes` of a set and a new greatest element). `AccountingIsExact`,
  `SinkKeepsPromise` (step simulation of `GapCountedTable`).
* **Fleet** (`FleetAssumption`). `FleetRunsTheOpenSink`: the collector is such a
  surrounding; the invariant behind it is that the generation being collected is
  newer than the one published, and that draft and cache lie between them. Then
  the sink's theorems hold of the composition (`FleetAccounting`,
  `FleetKeepsPromise`), and `FleetTypes`, `FleetSampledProcesses`,
  `FleetProcessTable` (for every cadence and any set of monitors) and
  `FleetRowsWerePublished` follow.

* **Importer** (`ImporterAssumption`, `ContentAssumption`). `ImporterTypes` needs that
  a window inside an import has a producer. `SessionsSelected` (`NoSessionSkipped`) holds
  for any number of windows and also when imports overlap; its invariant is that every
  cache, in memory, on disk or in the temporary file, selects every write that is
  owed, and that a write still owed after ironobs has read is later than the import's
  start, which is what the new watermark is taken from. `SavesAreWhole`: without an overlap one window has the temporary file, and
  renames it whole. `TwoWindowsExclude` (`ExclusiveUntilAFault`, for exactly two
  windows, until a window ends or a call on the lock file fails; finding 2 is what
  happens then): the age of a live cycle's lock is bounded by the deadlines of the imports
  so far, hence by `NP * Deadline <= Stale`; and who is about to remove a lock has seen the
  other window end its cycle, which puts that window's next one at least `Gap`
  ahead.
* **Tuning** (`TuningAssumption`, `NoneAssumption`). `TuningInvariant` adds what each place in a cycle
  implies of the machine: the write in hand, the outcomes and the ledger's entries of
  settings that nobody else has written. From it `TuningTypes`, `VerdictsEarned`
  (for every noise, effect size and ceiling), `SilentOfFailedUndosOnly`: of what
  finding 3 is about there is no second case. And
  `LoopWritesAreNumbered`: for each setting a number of at most four, made of the
  ledger's verdict and of the place in the cycle, falls with every change the loop makes
  to it and rises only when somebody else has written, because a verdict is final.
* **ToolRuntime** (`ToolRuntimeAssumption`, `NoneAssumption`). `RuntimeInvariant`: what
  each place of a run implies of its budgets; that a job belongs to its run's past or is
  the one it waits for; that no two places hold the same job; that who has a reply
  waits for it. Evidence needs all of them: a late answer could be taken for a later
  call's only if two jobs had one caller and one number. `RuntimeTypes`,
  `EvidenceReal`, `AbandonedNotStarted`. And `RunsAreShort`: a run's rounds, the calls of
  the message at hand and its place give a number (`StepsLeft`) that each of its own steps
  lowers and no other step touches, and no wait of a run that has started is beyond its
  deadline, nor that further away than `Budget`. It needs that a message has no more
  calls than are left to the run, which bounds the steps of a round.
* **Tsdb** (`TsdbAssumption`). Reading the file is a recursive function, to the prover a
  `CHOOSE` that says nothing; `Tsdb_proofs` derives from the well-foundedness of the
  naturals an induction over sets of numbers (`Induction`), and with it that the reading
  exists, returns records, and no more than there is room for (`ReadBackTypes`).
  `LaidIsRead` is the fact the rest hangs on: cells in which records are laid out one behind the
  other up to the header's size are read as these records. `DatabaseTypes` needs it for
  what a rotation keeps. The inductive invariant has four parts. `RotationInv`: what
  is to be written ends with the record the outermost rotation is for, and a record that
  is checked is none of those. `HeaderInv`: whose header the file has. `LayoutInv`: while
  it runs, the recorder's own header describes whole records, and behind them is
  as much of the next one as its place in `write_record` says. From these
  `HeadersDescribeRecords`. `ChainInv`: the records in the file and those still to be
  written are consecutive and end with the last one accepted, from which
  `RotationsRemoveTheOldest`. `SizedBy(u, n)`: the number of rotations under way when an
  item is written (`Depths`) is at most u, because each has halved the records in front
  of the one it is for (`Halved`); of records that were written without a second check
  there are as many since the file was last truncated (`Excess`). From it
  `SizeStaysNearTheLimit` (`SizeNearLimit`, in the proof module), for every u and n: with
  n the largest record, if maximum and u records of it are fewer than 2^u cells, the
  excess is at most these u records. It bounds by how much the documented maximum is
  exceeded; on an instance small enough for TLC the bound is hardly ever reached,
  so no run lists it. An earlier form of it, one
  record's size or twice the largest, had passed on the run and would not be proved: with
  a maximum of 10, records of 1 and 11 and twelve of them TLC finds 23 cells, where
  nested rotations each write a record of 11 behind one of 1. Last,
  `RotationsComeToAnEnd`: a rotation writes again what is behind the removed half, and
  any of these records may rotate in its turn; but what is to be written weighs less
  after each of them (`Efforts`, from `Halved`), so that every write of an append lowers
  a natural number (`Rest`).
* **Observations** (`ObservationsAssumption`). `ObservationTypes` includes that the log
  is gapless, bounded and never back to an earlier generation, whatever number of events
  an ingest makes (`PushedInOrder`); `EventsSeenOrAnnounced`; `TablesNotFresher`, whose
  invariant is that a published table is of the latest pass that sampled it; and
  `VerifiedProcessWasBorn`: a start time is at most a second early, and no table is
  stamped later than the end of the pass that read it. No run lists `VerifiedWasBorn`:
  two passes that read the tables, a clock and a second owner are what it needs to be
  broken, beside the events of `observations` more than TLC searches in minutes.

Only model-checked: everything under fairness (`EveryRequestAnswered`,
`IdleServerIsQuiet`, `NewestIsStored`,
`StopEndsTheThread`, `LoopSettles`, `EveryRunEnds`, `RecordingEnds`): that a step is taken
at all rests on ENABLED, which the prover cannot reason about. Of the last three the
other half is proved, that only so many steps can be taken (`LoopWritesAreNumbered`,
`RunsAreShort`, `RotationsComeToAnEnd`). 

## 5. Limits

* *Sampler.* Time passes in whole units, and not while a request that was made by
  `LastCall` waits for the mutex. `status` is not modelled; it only reads.
  That the sampler gets `READER_PASS` beside a collector is not shown: a mutex of the
  standard library promises no fairness, so a collector that is always back before the
  sampler wakes could keep it; the collector sleeps for at least as long as its passes
  take (`max_duty_cycle`), which makes that unlikely and no more.
* *Collector.* A panic of the whole pass ends the thread in the code; only panics
  of stages, which the code catches, are modelled. The HTTP server's own
  collection loop, which comes and goes with demand, is left out.
* *Sink.* A commit fails or not; one whose answer is lost is not modelled. The
  task ends on a failure either way. `append_latest` is called by `run` only.
* *Importer.* Taking the lock and saving take no time (`Prompt`): a window that is
  suspended inside a cycle for longer than the stale age is not modelled, and
  would break exclusion. `ExclusiveUntilAFault` therefore holds for two
  windows of ordinary speed while every call on the lock file does what it is asked;
  for three windows, and after one failing call, exclusion is false (finding 2).
  `NoSessionSkipped` waives what is older than the first window in use, and after a lost
  cache that is a later one. The saved time of
  the next cycle is a choice. An idle window that saves rolls watermarks back:
  sessions are then read again, never skipped.
* *Tsdb.* One recorder at a time, and the same maximum at every start. A cell is
  the unit of overlap: a header put back that ends inside a record's first five
  bytes is not modelled. Deleting the file (`record clear`) is left out. Two things
  the model shows that no property states: a recorder that ends between a
  rotation's truncation and its header leaves a file that no start opens again, and
  one that ends later in a rotation has lost records newer than some it kept.
  The maximum is exceeded, by no more than `SizeStaysNearTheLimit` says. A header that a viewer has put back may describe records
  that a rotation has replaced, until the recorder's next write.

* *Tuning.* The registry of metrics is empty today (`metric_for`), so verdicts other
  than `Unverifiable` are reached by the model and not yet by the product. Finding 3
  is of the code as it stands, for any metric. The ledger skips a setting
  whatever value is proposed. The scratch ledger of `cycle_verified` and
  reverting older cycles are left out. One policy names a setting no handler has
  (`power_dpm_force_performance_level` in `tuning/mod.rs`, where the handler's is
  `perf_level`): it is planned by nobody.
* *ToolRuntime.* Decoding, normalising and validating messages, the history of a
  conversation and the ranking of memory users are data. The legacy tools' worker is the
  same code as the other two and no tool of the instance uses it. That two identical requests are
  followed by a request to answer holds of local backends and from the next round on.
* *Observations.* What a verified name does establish is `VerifiedWasBorn`; that the
  connections are the process's own is false (finding 4). One PID stands for all.
  Generations that no thread took make a table's date older than it is, or withheld.
  Left out: the metric history, a clock that cannot be read, a change of session, filters
  of events, the source of the snapshot, and the poller's end.
* *Not modelled.* Of the repository's 213000 lines the larger part draws, formats, parses
  or reads a device: the graphical and terminal interfaces, the command line, the
  ontology's catalogue, the hardware readers. They keep no state that actors share, and what could go
  wrong in them is outside what these models can tell. Detection, prediction and health
  are arithmetic on floating-point series.

## 6. Plan

Done are Sampler, Collector, FleetSink, Fleet, Readers, Importer, Tsdb, Tuning,
ToolRuntime and Observations with the runs and theorems above. Left, in the order of
importance:

1. The HTTP server's own collection loop (`http_server.rs`), a `Collector` that comes and
   goes with the demand.
2. The metric history of the observation service, whose eviction counts by the second.
3. `EventManager`'s subscriptions, `AlertChecker`, `StreamManager` and the rate limiter, once
   the product calls them.

Reading and drawing the hardware, floating-point detection and prediction, and
network clients stay outside: they keep no state that actors share.

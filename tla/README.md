# loggerj: a formal model

loggerj is a logging library for Go. Goroutines that log put entries into a
bounded channel; one worker goroutine takes them out in batches, formats them
and writes them to a file. `Flush` and `Close` talk to that worker. Before an
entry gets to the channel it passes a level filter, a sampler and a lock-free
rate limit. A second mode (`SyncMode`) has no worker and writes on the caller's
goroutine.

This directory holds TLA+ modules translated from the Go source, TLC
configurations that check them on small instances, and proofs that TLAPS checks
for every value of the constants. Paths and line numbers are those of the
source tree; `PROJECT.json` maps every definition to the lines it models.

## 1. Inventory

| Component | Source | State | Operations | Talks to |
|---|---|---|---|---|
| Async pipeline, worker lifecycle | `worker.go`, `core.go` (`dispatch`, `log`, `logTyped`), `format.go` (`formatBatch`) | `logCh`, `flushCh`, `running`, `workerCancel`, `workerStopped`, `closed`, the worker's `buf`, `bufio.Writer`, the file | `Log*`, `Start`, `StartBackground`, `Flush`, `Close`, cancellation of the context | callers (channel), file, timers |
| Gates | `ratelimit.go`, `core.go` (`checkGatesAfterLevel`), `sublogger.go` (`passGates`) | `sampleCount`, `rlState` of a profile | one call of a logging method | monotonic clock |
| Profile registry, `Sub` handles | `logger.go`, `profile.go`, `sublogger.go` | `registry` (copy on write), `registerMu` | `RegisterSub`, `Sub`, `getProfile` | gates, formatting |
| File rotation | `rotate.go` | `currentFile`, `currentWriter`, `currentSize`, the files on disk, `rotationErrors` | `rotateIfNeeded`, called by the worker after a write | worker, `Close` (`rotationMu`) |
| Sync mode | `core.go` (`syncWrite`, `syncFlush`), `worker.go` (`Close`) | `syncBw`, `syncWriteCount`, `syncLastFlushMs`, `syncWriteErrors` | `Log*`, `Flush`, `Close` | the file, fsync |
| Drop accounting | `core.go` (`dispatch`), `api.go` | `drops`, `dropsByLevel`, `onDrop` | drop, `Drops`, `ResetDrops`, `Stats`, `SetOnDrop` | callers, callback |
| Entry pool | `entry.go`, `core.go`, `format.go` | `sync.Pool` | `Get`, `Reset`, `Put` | callers, worker |
| Formatting | `format.go`, `field.go` | none | text and JSON lines, durations, escaping | worker, sync mode |
| slog adapter | `loggerj_slog.go` | attributes and group prefix of a handler | `Handle`, `WithAttrs`, `WithGroup` | `logTyped` |
| Public methods, level, context fields, `AsWriter` | `api.go`, `loggerj.go` | `currentLevel` | wrappers | `log`, `logTyped` |
| Configuration | `config.go`, `logger.go` (`NewLogger`) | `Config` | clamps of zero and small values | all |
| Benchmark gate | `tools/benchgate` | none | a tool of the build | nothing |

What makes each of them correct, and what is hard about it:

* **Pipeline.** Nothing that `dispatch` accepted is lost, written twice or
  overtaken, across batches that end early, `Flush` sweeps, a worker that exits
  and is started again, and shutdown; what is not accepted is counted once. At
  most one worker. A confirmed `Flush` and a `Close` that waited cover all that
  was accepted before them. The hard part is the interleaving of start,
  cancellation, `Flush` timeouts and `Close`, and requests that outlive their
  callers.
* **Gates.** One atomic word holds the window and the counter. No interleaving
  and no old clock reading may admit more than the limit for a window or move
  the window back, and neither part of the word may run into the other.
* **Registry.** Concurrent registrations keep each other's profiles; the list
  and the map agree; a handle keeps its profile. `Sub` checks and then acts.
* **Rotation.** No failure of a rename, open or close, and no crash between
  two of them, truncates the live log or drops a backup that should be kept;
  the worker goes on with a writer over an open file.
* **Sync mode.** Each tier keeps what its documentation says through a process
  crash and an OS crash; a failed fsync is counted; `Close` loses nothing that
  was logged before it, and should leave nothing in the buffer.
* **Drop accounting.** Nobody takes a lock: `Stats`, `ResetDrops` and the callback
  see the counters between the steps of other goroutines. A snapshot must not
  contradict itself, and the callback must not stay behind the total for good.
* **Pool.** An entry has one owner at any time and carries nothing over into the
  line of another call, and so has a field buffer of slog.
* **Formatting.** Whatever a message or a value holds, a line stays one line and
  says what was logged, at every boundary of the escapers and of a duration.
* **slog.** A handler has the attributes bound to it and to those it was derived
  from, whatever was derived from the same ones besides.
* **Configuration.** Sequential clamps before anything runs.

## 2. Modules

| Module | Models |
|---|---|
| `LogPipe` | What the pipeline promises: accepted entries wait in one queue, and a writer takes them from the front. |
| `AsyncLogger` | The asynchronous mode: producers, the worker's runs, `Flush`, `Close`, the file. Shown to implement `LogPipe`. |
| `MCAsyncLogger` | Instances of `AsyncLogger` for TLC. |
| `AsyncLoggerProofs` | Theorems about `AsyncLogger`. |
| `ProfileGates` | Sampling and rate limit of one profile. |
| `MCProfileGates` | An instance of it for TLC. |
| `ProfileGatesProofs` | Theorems about `ProfileGates`. |
| `Rotation` | The worker's writes, size-based rotation, failures of the file system, crash and restart. |
| `MCRotation` | Instances of it for TLC. |
| `RotationProofs` | Theorems about `Rotation`. |
| `SyncTiers` | Sync mode: the four durability tiers, `Flush` and `Close`. |
| `MCSyncTiers` | An instance of it for TLC. |
| `SyncTiersProofs` | Theorems about `SyncTiers`. |
| `Registry` | The profile registry: `RegisterSub`, `getProfile`, `Sub`. |
| `MCRegistry` | Instances of it for TLC. |
| `RegistryProofs` | Theorems about `Registry`. |
| `EntryPool` | Who holds an Entry or a field buffer: caller, channel, worker or pool. |
| `MCEntryPool` | An instance of it for TLC. |
| `EntryProofs` | Theorems about what an Entry carries: `EntryPool`, the slog handlers, and the escapers. |
| `DropStats` | The counters of drops, the callback, `ResetDrops` and `Stats`. |
| `MCDropStats` | An instance of it for TLC. |
| `DropStatsProofs` | Theorems about `DropStats`. |
| `FoldLemmas` | Not the code: sums over a finite set, for the proofs about counters; sequences of sequences put together, and folds from the left, for those about fields and texts. |
| `Durations` | A duration as text and as a number of a unit. |
| `LineFormat` | Fields, escaping, text and JSON lines. |
| `LineReader` | Not the code: a JSON decoder and `time.ParseDuration`, with which the properties of `SlogAdapter` read lines. |
| `SlogHandlers` | slog handlers: levels, derivation, attributes flattened to fields. |
| `SlogAdapter` | The calls of a logger, through `SlogHandlers` and through the typed, string, context and `io.Writer` methods, down to the bytes of a line. |
| `MCSlogAdapter` | An instance of both for TLC. |

`AsyncLogger` and `Rotation` are two views of one worker. `AsyncLogger` follows
entries through the channel and the buffer up to `writeOut` and needs nothing
of the file but whether a write reached it. `Rotation` starts at `writeOut`:
what reaches it is any next part of the sequence of entries, in the order that
`NothingLost` guarantees, and it follows the files. `Rotation`'s `WriteOut`,
`EndRun` and `Start` stand for `AsyncLogger`'s `HandOver`, `Exit` and
`StartCall`; `CloseFile` is the same step in both. `Registry` hands a profile to
`ProfileGates`, whose state belongs to one profile. `SyncTiers` replaces channel
and worker altogether. `EntryPool` is the same pipeline seen from the objects it
passes: its `Send`, `Receive` and `Discard` are `AsyncLogger`'s `Log`, `BatchMore` and
`Drop`. `DropStats` begins where `AsyncLogger`'s `Drop` and `CountLevel` add to the
counters. `SlogAdapter` is what happens before `dispatch` and after `formatBatch`;
that the entry in between arrives as it was sent is `WrittenAsLogged`.

### AsyncLogger

Goroutines are producers (`Producers`), calls of `Start`/`StartBackground`
(`Runs`: each has its own derived context and `stopped` channel), calls of
`Flush` (`Flushes`: each its own `done` channel) and calls of `Close`
(`Closes`). An action is what a goroutine does between two points where another
one can see a difference; a program counter per goroutine (`ppc`, `wpc`, `fpc`,
`cpc`) says where it is.

| Code | In the model |
|---|---|
| `dispatch`: try-send, wait for ERROR, two counters | `Log`, `BlockedSend`, `BlockTimeout`, `Drop`, `CountLevel` |
| `runWorker` up to the CompareAndSwap | `StartCall`, `Register`, `RefuseStart`; `CancelCtx` is the caller's cancel |
| the worker's `select` | `SelectCtxDone`, `SelectLog`, `Tick`, `SelectFlush` |
| `formatBatch` | `StartBatch`, `BatchMore`, `BatchEnd`: an entry per step, since producers run meanwhile |
| the sweep of a request and of `drainAndFlush` | `SweepMore`, `SweepEmpty`; `mode` says which of the two it is |
| `writeOut` | `HandOver` in `WriteOut` and `LastWrite` |
| `close(done)` | `Confirm` |
| deferred function: `running.Store(false)`, then `close(stopped)` | `Exit`, `CloseStopped`: a new run can register in between |
| `Flush` | `FlushCall`, `FlushLock`, `FlushSend`, `FlushDone`, `FlushTimeout` |
| `Close`, `stopWorker` | `CloseCall`, `StopWorker`, `CloseAwait`, `CloseTimeout`, `CloseFile` |

History variables: `accepted` (what the channel took, in order), `taken` (what
was handed to `writeOut`), `mark` and `closeMark` (how much was accepted when a
`Flush` or the `Close` was called), and `served`, which says whether the run that
Close stops could still find entries when `stopWorker` cancelled it.

What is abstracted:

* An entry is its producer and a counter. `len(buf)` counts entries, so
  `FlushThreshold` is a number of entries.
* Time. A timer may fire at any moment after it was started, so the results do
  not depend on 1 s, 5 s or 50 ms.
* A failed write leaves any proper prefix of the buffer in the file and makes
  the `bufio.Writer` refuse everything later, which is what it does.
* If `Close` did not wait for a run, its `Flush` of `currentWriter` races with
  that run's write on one `bufio.Writer` without a lock. That is a data race; any
  part of the run's buffer may reach the file from either side (`CloseFile`).
* The logger has an `OutputFile` and no `MaxFileSize`, so `rotateIfNeeded`
  returns its argument (rotation is `Rotation`'s). A writer of the caller's behaves like the file, but
  `Close` does not close it.
* The level filter and the gates come before `dispatch`: a producer that was
  filtered takes no step. `onDrop`, the pool and the caller's file and line have
  no effect on this state.
* `started` and `workerDone` are closed through a `sync.Once` and nothing in the
  library waits for them.

### ProfileGates

`clock` is `monoMillis`; between `ReadClock`, `Load` and `SwapState` (the
CompareAndSwap) anything may run and time may pass. The 64-bit word has
`CountSpan` values for the counter and `WindowSpan` for the window, 2^24 and
2^40 in the code. `Pack` is the shift and the or, cut to the width of the word;
`state + 1` may carry, as in the code. The constants `Limit` and `WindowMs` are the arguments of
`WithRateLimit`, which clamps them. `RegisterSub`'s fallback for a profile with
a limit but no window cannot be reached through the public options, and
`Gosched` is only a hint to the scheduler.

### Rotation

`pc` is where the worker is: in its loop (`run`), in `rotateIfNeeded` after a
threshold or ticker write (`check`), in one of the steps of `rotateLogFile`, between
two runs (`idle`), or gone with the process (`down`).

| Code | In the model |
|---|---|
| `writeOut`, from the threshold and ticker cases, or from a Flush sweep and the drain, which do not check the size | `WriteOut` with `checks` |
| `rotateLogFile` before the lock | `CheckSize` |
| flush and close of the old file | `ReleaseOld` |
| step 1, and the reopening after it failed | `MoveAside`, `Reopen` |
| step 2, one rename at a time | `ShiftBackup`, `ShiftDone` |
| steps 3 and 4 | `MoveToFirst`, `Create` |
| `rotateIfNeeded`'s result | `Refreshed` |
| `Start` and its argument, looked up before `runWorker` | `TakeWriter`, `BeginRun`, `RefuseStart` |
| `Close` after it gave up waiting; `rotationMu` keeps it out of a rotation | `CloseFile` |
| the process ends; `NewLogger` | `Crash`, `Restart` |

An entry is a number and a file the sequence of its entries, so sizes count
entries; one that a failing write tore counts as not written. Each operation
may fail within `MaxFailures`; a failed `Stat` after a successful `OpenFile` is
one outcome of `NotOpened`. A worker that was started with the caller's own
writer (`bw = "custom"`) adds to `currentSize` and rotates as in the code. A
`NewLogger` that cannot open its file turns file output off and is left out.
`rotated`, `missed`, `cutOff` and `failedOps` are histories; `rotationErrors` is kept over a
restart, so that it can be compared with them. A file name stands for one file:
somebody else who moves or removes the files is not modelled.

### SyncTiers

The tier is chosen in `Init`, so one run covers all four. The critical section
of `syncMu` is split at every operation on the file (`Lock`, `Buffer`, `Flush`,
`Fsync`, `Unlock`), since the file is closed, and written by others, without that
lock (`Write`, `CloseFile`). `Buffer` and `FlushBuffer` are what `bufio.Writer`
does: it writes a full buffer out before it takes more, with the first part of the
new entry behind the others, keeps the rest after a
short write, and then refuses everything with the same error. An entry that is
longer than the whole buffer is not modelled. `Lost` has the entries that will
never be in the file although their call has returned: those that were refused or
torn, and those stranded in the buffer of a writer with an error or of a closed file. `due` is whether
10 ms have passed since `syncLastFlushMs`; `TimePasses` may set it at any time.
An entry is in the file when its last byte is. `synced` counts the entries that a
successful fsync covered. There is no crash action: nothing is persisted but the
file, so a crash in any state leaves `written`, or `written` up to `synced`, and
the invariants speak about these in every state. A second `Close` returns at
once and does nothing. The fallback to stderr is left out.

### Registry

A snapshot is the list of log types and profiles and, above
`profileLookupThreshold`, the map. `RegisterSub` is `RegisterCall`, `Lock`, `Load`
and `Store`; readers do not take the lock and may run at any point. `Sub` is
`SubCall` or, with options, `RegisterCall`, then the registration, if any, and
`Lookup`. A profile is told apart by the call that created it, and by whether it
has a limit.

### EntryPool

`entry` and `buffer` are the contents of the objects, `inPool`, `logCh`, `mine`, `held`
and `bp` who has them. `Got` is `pool.Get`: an object that was put back, as it is,
or a new one, since a `sync.Pool` may miss or be emptied at any time. `Fill` sets
`head`, which stands for level, type, message, caller and profile, and one of
`Fields` (`log`) and `FieldsV` (`logTyped`); `Rendering` is the preference of the
formatter for `FieldsV`. `Handle`, `HandleLogs`, `HandleRefused` and `ReturnBuffer` are
`SlogHandler.Handle` around `logTyped`. The history `meant` is what the sender of an
Entry was asked to log, `line` what the worker wrote for it. Capacities of slices,
and the release of large ones, are left out.

### DropStats

Every atomic operation is a step: `Drop`, `CountLevel`, `LoadOnDrop` and `Report` of
`dispatch`, `ResetDrops` and `ResetLevel`, and one `Read` per counter of `Stats`. A
caller whose level has no counter (`LevelOf`) still adds to `drops`. `told` is the
largest number the callback got, `unheard` counts the drops that found none, and
`overlap` says whether `ResetDrops` was between two of its stores while a drop was
between its two adds or a `Stats` was reading: then the counters contradict each other
for good, which the code accepts. A callback that logs itself while the channel
is full calls itself again; it is not modelled.

### Durations, LineFormat, SlogHandlers, SlogAdapter

A text is a sequence of symbols: one for each byte or rune that a writer treats
in its own way (`"`, `\`, the line breaks, the tab, `ctl` for other control
characters, `bad` for a byte that is no UTF-8), one for a name or a number that
all writers copy. `Escaped` is the loop of both escapers, with its copying of
runs. The units of a duration, the radix and the width of an int64 are constants;
a fraction has three digits, so a second is the cube of the radix in
milliseconds, as it is in the code.

| Code | In the model |
|---|---|
| the constructors of `field.go` | `FieldOf` |
| `appendDuration`, `appendDurationAbs`, `appendDurationNumber` | the same names |
| `appendTextBytes`, `appendJSONStringBytes` | `appendTextString`, `appendJSONString` |
| `appendTypedFieldsJSONUnit`, `appendFieldsJSON` and their text forms | the same names |
| `formatText`, `formatJSON` | the same names, with the prefix that `RegisterSub` baked |
| `appendAttr`, `appendSlogValue`, `WithAttrs`, `WithGroup`, `Enabled` | the same names; `arrays` are the backing arrays of the `attrs` slices |
| `Handle` | `HandleRecord` up to the call of `logTyped`, `SlogLog` with the line that it makes |
| `appendCtxFields`, `appendCtxFieldsTyped` | the same names |
| `InfoCtx` and the string methods | `LogCtx` |
| the methods of the typed API | `LogFields` |
| `StdLogWriter.Write` | `WriterWrite` |

`bound` is the history of what was bound to a handler, in slog's terms, and `logged`
has the line of the last call in both formats, its entry, and what was asked for.
A call changes nothing but that history, so none follows another, and the calls
that have nothing to do with handlers are made only before any is derived;
handlers are derived only at the first level, which they do not depend on. What
`strconv`, `utf8.DecodeRune` and the layout of a timestamp do is taken as promised,
and the quotient of two floats is left as a quotient. Keys and log types are not
escaped in a text line; the code calls keys trusted, and `LinesReadBack` requires
a single line only for keys without line breaks.

`Depth` gives each value that an attribute may have the depth to which groups nest
in it: a group is a finite tree, as every `slog.Value` that is not a `LogValuer` for
ever is. `appendSlogValue` and `Scalars` are recursive functions on these values.

## 3. Runs

| Run | Instance | Shows |
|---|---|---|
| `lifecycle` | 2 producers with 1 entry each (levels INFO and 4), 2 runs, 1 Flush, 1 Close, channel of 1, threshold 2, batches of 2, failing writes | `TypeOK`, `NothingLost`, `DropsAccounted`, `LevelDropsAccounted`, `ImplementsPipe`, `SingleWorker`, `FlushWrites`, `ChannelsClosedOnce`, `FileIsComplete`, `CloseDrains` |
| `live` | 1 producer with 2 entries, 1 run, 2 Flushes, `FairSpec` | `AcceptedIsTaken`, `CancelledRunStops`, `FlushReturnsWhileServed` |
| `gates` | 3 callers with 3 calls each, 1 in 2 sampled, limit 4 capped to 2, window indices 0 and 1, clock to the third window, `FairSpec` | `TypeOK`, `PerWindowCap`, `OutputCap`, `RefusedOnlyWhenFull`, `WindowNeverBack`, `SampledExactly`, `CallsReturn` |
| `rotation` | 6 entries in buffers of up to 2, a size of 2, 2 backups, 2 failures, 1 crash, 1 further Start | `TypeOK`, `LiveKept`, `OneLossPerFault`, `BackupIsNth`, `SizeAccounts`, `LossBounded`, `AllEntriesKept` |
| `sync` | 2 goroutines with 3 calls each, fsync after 3, a buffer of 2, 1 failure, every tier | `InOrder`, `LossesCounted`, `TierKept`, `FlushCovers` |
| `registry` | 2 goroutines with 2 calls each, 3 log types, a map from 2 on | `LatestWins`, `HandleOfItsType` |
| `pool` | 2 callers with 2 calls each, one of which may wait, 4 entries, 2 buffers, channel of 1 | `WrittenAsLogged`, `OneOwner` |
| `stats` | 3 callers with 1 drop each, at the two levels with a counter and at one without, 1 reset | `StatsOrdered`, `DropsReported` |
| `slog` | up to 4 handlers; integers of 9 bits, radix 2, every duration; two or three configurations, origins and contexts | `AttrsAsBound`, `LinesReadBack`, `EnabledAgrees` |
| `close_strands_entries` | 2 goroutines with one call each, fsync after 3, a buffer of 2, no failures, every tier | finds `CloseLeavesNothing` violated |
| `flush_never_returns` | 1 run, 2 Flushes, `FairSpec` | finds `FlushReturns` violated |
| `sub_resets_limit` | 2 goroutines with one call each, 1 log type | finds `SubNeverResets` violated |

**Bounds, and why they are enough to meet the hard cases.** `MaxPerProducer`
bounds the entries of a producer. In `lifecycle` there are two entries for a channel
of one: the channel is seen empty and full, an entry is dropped, and an ERROR
entry waits and then gets space or not. A batch ends because it is complete or
because the channel is empty, and a buffer below the threshold outlives a batch.
Longer queues, and thresholds larger than a batch, are what the theorems
`QueueKept`, `DropsAdd`, `LevelDropsAdd` and `Implementation` add to this run: they
hold for any number of entries and any sizes. Two runs make a restart, a refused start, a run that
registers after `stopWorker` looked, and a stale request that a later run
answers. Two Flushes are what a full `flushCh` needs. One Close suffices: every
later one loses the CompareAndSwap. In `gates` three callers let one act on a
word that two others changed; two window indices and a clock that goes on to a
third reach the clamp, and a limit above the counter's range reaches the cap.
`MaxCalls` and `MaxClock` bound the counters. In `rotation` six entries and a size
of 2 give three rotations, which fill both backups and push one out; two failures
let a leftover of one rotation meet a failure of the next; the crash may come
before, between or after them, and the failed operation may be any of them. In `sync`
six entries or calls pass the N of `FsyncEveryN` and overfill the buffer before
N is reached; one failure is enough to break the writer for good. Four
registrations of three log types in `registry` cross the threshold, replace and
add on both sides of it, and race. In `pool` four entries are as many as two
callers, the channel and the worker can hold, so a pool that is empty, one that
serves and one that misses all happen, and two calls let an entry be used again
by the same and by the other caller. In `stats` three callers are enough for a
drop before, between and after two reads of a snapshot, and one reset to clear the
counters before, between and after the adds of each. In `slog` four handlers are the smallest number
that has two derived from one that is itself derived (`MaxHandlers`). Nine bits
give durations with every unit and the smallest int64. Deadlock checking is off: with a
bounded number of calls the system comes to rest, and a blocked `Flush` is
reported by `FlushReturns` instead.

`AllEntriesKept` exempts a worker that was cut off: by a write that failed half
way, a log that could not be opened, `Close`, or a run with a writer that is not
the current one. What it may lose then is what `LossBounded` bounds.
`LossesCounted` says which losses of sync mode are not counted: with a buffer, up
to `BufferSize` entries that a failed flush, or a file closed since, left in it.
While no error was counted and the file is open there are none.

**Fairness.** The Go scheduler runs every goroutine that can go on (weak fairness
of each goroutine's steps). A `select` picks among its ready cases at random, so
a case that is ready again and again is taken (strong fairness of the four cases
of the worker's select); timers fire. `sync.Mutex` hands over to a waiter that
starves (strong fairness of `FlushLock`). Nobody has to log, start, cancel, call
`Flush` or call `Close`.

**What the violated runs say.** Each of these states something the source or the
README says, and TLC shows a behaviour of the code that does otherwise.

* `FlushReturns` (`worker.go:239-241`, `271-272`). A `Flush` that times out
  leaves its `done` channel in `flushCh`. The next `Flush` blocks in
  `l.flushCh <- done`, before it has a timer. If the worker's `select` takes
  `ctx.Done` rather than the request, the worker exits and the send waits for
  ever, holding `flushMu`. While the worker goes on serving, the
  stale request is taken and the send succeeds (`FlushReturnsWhileServed`).
* `SubNeverResets` (`sublogger.go:28-30`). `Sub` without options looks for a profile
  and registers an empty one in two steps. A `RegisterSub` with a limit that comes
  in between is replaced, and the log type has no limit. `HandleOfItsType` is what
  holds.
* `CloseLeavesNothing` (`worker.go:326-327`). In sync mode `Close` flushes under
  `syncMu` and then closes the file without it (`worker.go:328-330`), and logging
  does not look at `closed`. A goroutine that waits for `syncMu` during the flush
  gets it afterwards and copies its entry to the buffer; its call returns, and the
  entry stays in process memory with `SyncWriteErrors` at 0. `FlushCovers` is what
  holds: entries whose call had returned when `Close` was called are in the file.

**Also seen while modelling.** These are behaviours of the model that a reader of
the source may not expect. No run checks them.

* `running` stays true while a cancelled worker drains; a start in that time is
  refused because "it is already running" (`worker.go:92-103`), and afterwards no
  worker runs.
* In sync mode, entries logged after `Close` in a tier with a buffer go to that
  buffer without an error until it is full (`core.go:251`, `280`) or a flush finds
  the file closed; only then is one error counted for all of them.
* A worker that `Close` gave up on can still rotate. It opens a fresh log, which
  nobody closes (`rotate.go:163-171`).
* `README.md:22` says that `Close` drains the queue. It does so through a live
  worker; if that has exited because its context was cancelled, entries accepted
  since stay in the channel, neither written nor counted in `Drops`
  (`worker.go:297`).
* `rotate.go:46-48` says that errors are counted in `RotationErrors`. The failure to
  open the fresh log in step 4 is only printed (`rotate.go:163-171`); `failedOps` and
  `rotationErrors` of `Rotation` differ there. What the worker writes until the
  next rotation is missing (`LossBounded`).
* An attribute without a key that is a group is inlined without the prefix that
  `WithGroup` opened (`loggerj_slog.go:158`), and a scalar without a key in a named
  group takes the name of the group (`:192-193`).
* If a string method gets a key without a value and the context has an
  identifier, the name of the identifier becomes that value (`api.go:215-229`).
* `Enabled` says yes to INFO records when the logger's level is above ERROR, where
  `Handle` drops them, and no to slog levels below Debug, which `Handle` would log
  at level Debug: `EnabledAgrees` holds between these.

## 4. Proofs

Each proof module treats one component, for every value of its constants that
satisfies the assumptions named below. The pattern is the same everywhere: an
inductive invariant, which is the property together with what it needs from the
rest of the state; a lemma that `Init` establishes it; one step per action for
`[Next]_vars`; and the theorem. TLC finds every strengthening true on the
instances of section 3 (those of `Rotation` on parts of its state space, for 0 to 3
backups). Frame lemmas (`TypeFrame`, `WorkerFrame`, `FilesStay`, ...) deal with the
actions that leave the relevant variables alone.

**`AsyncLoggerProofs`**: any finite set of producers, any runs, Flush and Close
calls, any positive sizes (`SizesAssumption`, `NamesAssumption`,
`ProducersAssumption`; a program has finitely many goroutines, and the sums are
over them).

| Theorem | States | Argument |
|---|---|---|
| `TypeCorrect` | `Spec => []TypeOK` | inductive; in particular both channels keep to their capacity |
| `OneWorker` | `[]SingleWorker` | `WorkerInv` adds that a run about to exit has an empty buffer: without it, an exit could strand entries in a run that is no longer the worker |
| `QueueKept` | `[]NothingLost` | inductive given `WorkerInv`: a receive moves the head of the channel to the end of the one buffer, a write moves the whole buffer |
| `ClosedOnce` | `[]ChannelsClosedOnce` | `OnceInv`: the request in `flushCh`, the one being served and the confirmed ones are different; `ModeInv` says that a run in a request's sweep has one |
| `FlushDelivers` | `[]FlushWrites` | `FlushInv`: when a sweep has seen the channel empty, written and buffered entries are all that was accepted, which is at least the mark of the request, whoever's it is |
| `CloseDelivers` | `[]CloseDrains` | `DrainInv`: the run that Close stopped has either still to see the channel empty, or everything accepted before the call is written or in its buffer; `CloserInv` says that only one Close gets past its CompareAndSwap |
| `CompleteFile` | `[]FileIsComplete` | inductive given `CloserInv`: a write that finds the file closed is one of a run that Close did not wait for |
| `DropsAdd` | `[]DropsAccounted` | `DropSum`: the entries logged less those accepted are the drops plus the callers inside `dispatch`; each step of a producer changes one summand on each side |
| `LevelDropsAdd` | `[]LevelDropsAccounted` | `LevelSum`: the same for each level, with the callers between the two counters |
| `Implementation` | `Spec => ImplementsPipe` | a send is an `Accept`, a non-empty write a `Deliver` of the whole buffer, a receive a stutter |

**`ProfileGatesProofs`**: any callers, sample rate, limit and window (negative
and zero ones included, which the options clamp), any clock, and any split of the word
with at least two counter values (`GatesAssumption`).

| Theorem | States | Argument |
|---|---|---|
| `TypeCorrect` | `[]TypeOK` | the cap keeps the counter below `CountSpan - 1` before each `state + 1`, and the clamp the window below `WindowSpan`: the two lemmas about the word say that then packing and unpacking are inverse |
| `CapKept` | `[]PerWindowCap` | `WordCounts`: the counter in the word is what was charged to its window, and nothing was charged to a later one; `MaySwap`: what `Load` tested still holds of the word a successful swap finds |
| `WindowForward` | `WindowNeverBack` | `SwapResult`: a swap opens a later window or keeps the one it has |
| `RefusalsJustified` | `[]RefusedOnlyWhenFull` | charges are never taken back, and a refusal has just seen a full counter of its window or of a newer one |
| `SamplingExact` | `[]SampledExactly` | the number of multiples of the rate grows by one exactly when the counter reaches one (`QuotientStep`) |
| `OutputCapped` | `[]OutputCap` | `UpToNow`: no window that the clock has not reached was charged, so the sum has `Window(clock) + 1` summands of at most `Limit` |

**`RotationProofs`**: any positive `MaxFileSize`, any `MaxBackupFiles` (0
included) and any number of entries, failures, crashes and starts
(`RotationAssumption`).

| Theorem | States | Argument |
|---|---|---|
| `TypeCorrect` | `[]TypeOK` | inductive; a shift writes to `.i+1` only for an `i` below the last backup |
| `LogKept` | `LiveKept` | `LiveInv`: from the move of step 1 to the opening of step 4 there is no live log, so what step 4 truncates is empty; step 4 is reached in no other way |
| `SizesAccounted` | `[]SizeAccounts` | `SizeInv` adds that no file is open while files are moved: otherwise a move would change the log under the sum |
| `LossIsBounded` | `LossBounded` | `SizeInv` says that what the log missed is part of `currentSize`, and a check returns either below `MaxFileSize` or after an opening |
| `EntriesKept` | `[]AllEntriesKept` | `KeptInv`: a worker that was not cut off has the current writer, without an error, and its file is open wherever it may write, so a write appends all of its entries; `LiveInv` says that step 4 truncates nothing. Moving a log aside puts it behind the generations before it (`FlattenAppend`) |
| `BackupsInOrder` | `[]BackupIsNth` | `ChainInv` extends the claim into the loop of step 2: behind the place of the loop `.i` holds the i-th newest log, before it what belongs to `.i+1`, and `.rotating` the newest |
| `FaultsCostOne` | `[]OneLossPerFault` | `AgeInv`: no two rotated logs are equal, because each has an entry newer than all before it; `FilesInv`: the log in `.i` has at least i - 1 newer ones behind it in the chain, so what the last rename replaces is not lost early; `CountInv`: the backups lost early, plus one for a leftover in `.rotating` and one for a backup that the loop could not move and will replace, are at most the counted failures and the crashes |

**`SyncTiersProofs`**: each tier, any callers, calls and failures, any positive
`FsyncEveryNCount` and buffer (`SyncAssumption`). `BaseInv` adds to `TypeOK` who holds
`syncMu` and what each place in the code says of tier and method.

| Theorem | States | Argument |
|---|---|---|
| `TypeCorrect` | `[]TypeOK` | `CountBound`: the counter stays at N only while the caller that reached it flushes and syncs |
| `EntriesInOrder` | `[]InOrder` | `OrderInv`: file and buffer together are one stream, and what is in it comes from calls that have taken their turn. A step moves its front part to the file, or appends the entry of one caller, or leaves it (`Takes`) |
| `NoSilentLoss` | `[]LossesCounted` | `LossInv` counts from the attempt, not from the return: each entry tried and not in the stream has its error, and in a buffered tier the writer is then broken for good. What else is lost is in the buffer (`LostIs`), at most `BufferSize` entries, and none of it while the file is open and the writer has no error, which `BrokenInv` ties to the count |
| `CrashTakesNoMore` | `[]TierKept` | `EveryWriteInv`: what is past its fsync but not synced, or was tried and is not in the file, is paid for by errors. `EveryNInv`: while there is no error the entries behind `synced` are at most the counter, and when that is N the last of them belongs to the caller who is about to flush and sync and has not returned |
| `FlushesCover` | `[]FlushCovers` | `CoverInv`: from the flush on, what had returned at the call is in the file, from the fsync on it is synced; `DoneInv` says that an entry that returned is an earlier one of its caller |

**`RegistryProofs`**: any goroutines, log types, calls and threshold
(`RegistryAssumption`, and `DefaultAssumption`, by which the profile of unknown types is not
one that a call made).

| Theorem | States | Argument |
|---|---|---|
| `SnapshotsWhole` | `[]TypeOK` | a snapshot, published or being copied, has each log type once, and its map says what its list says (`WithKeeps`, on both sides of the threshold) |
| `LatestProfileWins` | `[]LatestWins` | `MuHeld` and `CopyIsCurrent`: between load and store nobody else stores, so the copy is still what is published |
| `HandlesKeepTheirType` | `[]HandleOfItsType` | `FoundAgain`: a type that `Sub` looks up has been stored, and types are never removed |

**`EntryProofs`**: any callers, entries, buffers and channel size
(`PoolAssumption`); any symbols, values, attributes, groups and levels of `log/slog`
and any number of handlers (`SlogAssumption`: groups are finite trees, and
`WithAttrs` and `WithGroup` return the handler itself for an empty list and an empty
name).

| Theorem | States | Argument |
|---|---|---|
| `LinesAreFaithful` | `[]WrittenAsLogged` | `Intact`: what lies in the pool is blank, and what a caller, the channel or the worker has renders as its call meant, which survives the steps of others because of `Apart` and `BuffersApart` |
| `EntriesHaveOneOwner` | `[]OneOwner` | `Apart`: the five places are disjoint, the channel without repetition |
| `AdapterHandles` | `AdapterSpec => HandlersSpec` | each call of the logger is a call of a handler or leaves the handlers alone |
| `AttributesAsBound` | `AdapterSpec => []AttrsAsBound` | `HandlersInv`: every handler, not only the one that logs, has in its slice what was bound to it, and as its prefix the groups open for it. `WithAttrs` makes a new array, so the slices of the others stay; `WithGroup` shares the slice and prolongs the prefix |
| `EnabledMatchesHandle` | `AdapterSpec => []EnabledAgrees` | by the ranges of levels between two names |
| `EscapedSymbolwise` | `Escaped(s, E)` is `s` written symbol by symbol, for any text and any table of escapes | `Copied`: after each symbol, what is written and the run that is not yet copied are together what the symbols so far are written as (`EscapeStepKeeps`) |
| `StringsReadBack` | `ReadJSON` behind `appendJSONString(s)` has read `s`, behind any line that ends where a key or a value may be | `ReadInString`, by the shortest text that is read as another one: one symbol more, written as itself or as an escape, is read as that symbol |
| `StringsStayOnLine` | `appendTextString(s)` and `appendJSONString(s)` hold no line break and no control symbol | `EscapedSymbols`: no symbol with an escape is left |

`AttributesAsBound` compares two ways to say what a record has. The code flattens
one attribute at a time, with the names on the way joined to a dotted key
(`appendSlogValue`); the property collects the scalars first, each with its path
(`Scalars`), and joins the names last (`Dots`). That both agree for every tree of
groups is `ValueFields`, by the least deep value for which they do not; that a
recursive function on such trees is what its definition says is `TreeExists`. The
rest is that both are lists put together, and that putting together commutes with
what is done to the members (`Homomorphism` of `FoldLemmas`).

**`DropStatsProofs`**: any callers, any number of levels (`StatsAssumption`).

| Theorem | States | Argument |
|---|---|---|
| `StatsInOrder` | `[]StatsOrdered` | `LevelsBehind`: a drop is in the total before it is in a level; `ReadBehind`: the levels already read can only have grown when the total is read |
| `DropsAreReported` | `[]DropsReported` | inductive, with `FewAtWork`: only finitely many callers are in `dispatch`, so the callers on their way can be counted |

**`FoldLemmas`** has the facts about `MapThenSumSet` that counters need, those about
`FlattenSeq` that fields need, and those about a fold from the left over indices
that the escapers need. Each of the library's operators is a recursive function;
that it exists and what it computes is shown without an induction rule, by taking
a set of the smallest size, or the shortest sequence, for which the claim fails.

**Only model-checked.**

* Liveness under fairness (`CallsReturn`, `AcceptedIsTaken`, `CancelledRunStops`,
  `FlushReturnsWhileServed`), which the proof system does not do.
* `LinesReadBack` of `SlogAdapter`. Its strings are what `StringsReadBack` and
  `StringsStayOnLine` prove; but numbers are written with `ToString`, of which the
  provers know nothing, not even that it writes no quote, and `ReadDuration` reads
  them back by searching all numerals. A whole line is therefore read back on the
  instance only.
* The three violated runs, which are counterexamples.

The type invariants of `SyncTiers` and `Registry`, and the strengthenings named
above, are not part of a run.

## 5. The plan, and what is not modelled

What is left, in this order:

1. An abstract `LogFiles` (a log of entries split into generations, of which the
   oldest may go) that a `Rotation` without faults implements, with the step
   simulation as a theorem: `ChainInv` is most of its mapping.
2. `EntryPool` as an implementation of a channel of requests, so that
   `AsyncLogger` can speak of requests where it speaks of entries.

Not modelled:

* The clamps of `NewLogger` and `DefaultConfig`: assignments that do not depend on
  each other, made before anything runs. What they establish is assumed of the
  constants.
* The number of stack frames that `captureCaller` skips, which depends on what the
  compiler inlines; a caller is a file and a line.
* The fallback of sync mode to stderr, and a `NewLogger` that cannot open its file.
* The methods of the handle returned by `Sub`: they are `log` and `logTyped` with a
  profile that was looked up before, which `Registry` covers.
* `tools/benchgate`, a command-line tool that compares benchmark output and
  shares no state with the logger.

# A formal model of webiny/data-transfer

This directory holds TLA+ specifications of the data-transfer tool, the TLC
configurations that check them, and machine-checked proofs. All paths below are
relative to the repository's parent, so the implementation is under `src/src/`
and its guides under `src/docs/`.

Run from this directory: `tlc -config MCPipelineRunner.cfg MCPipelineRunner` (and
likewise for each `.cfg`), `tlapm PipelineRunner_proofs.tla` (and the other `_proofs`).

## 1. The system

`transfer` moves a Webiny installation (DynamoDB tables, S3 files, OpenSearch
data) from a source to a target. One **orchestrator** process loads a preset,
checks its access, runs before hooks, starts **one worker process per segment**,
waits for all of them, sums their statistics, runs after hooks and exits. A
**worker** scans one segment of a source table row by row, gives each row to the
first **pipeline** that accepts it, lets the pipeline's transformers fill a bag of
**commands**, and lets **processors** drain the commands to the target every
`flushEvery` rows. A second command, `fix-live`, repairs one field of entries in
place while the system may be running.

The processes share no memory. They meet in the target (DynamoDB, S3, an
OpenSearch cluster whose indexes several workers touch) and in files under
`.transfer/<runId>/`: the workers' `<segment>-indexes.json`, `stats/` and logs.

| component (`src/src/...`) | state | operations | hard behaviour | what makes it correct |
|---|---|---|---|---|
| `features/PipelineRunner` | shard buffer, counters, logs, `unclaimedWarned` | `run`, `runShard`, `runRecord`, `flushShard` | flush boundaries, empty or dropped tails, a throw in the middle of a flush | no command lost between flushes, one disposition per row |
| `domain/transform/commands` | buckets, claimed keys, seen dedup keys | `add`, `get`, `unclaimedKeys` | what nobody claims | unclaimed commands are reported |
| `domain/pipeline` | filters, transformers, processors, blackhole flag | `accepts`, builder | several pipelines accept one row | the first claims it |
| `DdbProcessor`, `S3Processor`, `AuditLogProcessor`, `DdbExecutor` | none | `onEnd`, `execute`, `checkAccess` | dry run, missing target, partial batches | everything drained is performed before `execute` returns |
| `OsProcessor`, `TouchedIndexes` | memory of disabled indexes | `ensureIndex`, `afterShard` | workers racing for one index, retries, death before the memory is saved | originals are not mixed up or lost |
| `services/OpenSearchClient` (`EnableRefreshHook`) | the workers' files | `execute` | unreadable files, failing requests, several files for one index | every touched index refreshes again |
| `commands/transfer`, `commands/processSegment` | run phases, exit codes, statistics files | `handler`, `spawnWorker`, `logRunTotal` | failed workers, interrupts, re-runs with `--segments` | nothing reported as moved is missing, hooks bracket workers |
| `AccessChecker`, transfer lifecycle hooks | none | `run`, `execute` | a check that throws, a hook that throws | a refused access stops the run before it touches anything |
| `DroppedRecordLog`, `TransferredRecordLog` | line buffers | `add`, `flush` | one file per segment | they agree with the counters |
| `services/DynamoDbClient`, `services/S3Client` | none | `batchPut`, `updateAttribute`, `scan`, `batchCopy` | timeouts that do not cancel, retries, unprocessed items, fail-fast windows | success means everything was written |
| `features/FixLive`, `commands/fixLive` | statistics, report, state file | `decide`, conditional writes | a live system underneath, segments and writes in parallel | a write never overwrites a newer revision |
| `features/SnapshotWriter` | a queue and a stream per path | `write`, `close` | a shard that fails, a worker that is killed | the snapshots tell what a worker took up, also when it failed |
| `TenantLocales`, `ModelProvider`, `ModelPreloaderHook` | locales and models, read once per worker | `preload`, lookups | queries that fail or return one page of several | a worker that knows less says so |
| `presets`, `domain/transform/filters.ts` | none | registration | pipelines that overlap | each record goes to the pipeline meant for it |
| `transformers`, `tools/Cache` | a cache per worker | rewrites of one record | an entry that changes while its records are read; keys that an earlier transformer moved | records of one entry agree; nothing is left unconverted in silence; keys do not collide |
| `PresetLoader`, `PipelineBuilderFactory`, `PipelineCustomizer` | registrations | `load`, `create`, `build`, `register` | names, order of customizers, what is not registered | what is loaded is what was asked for, and a customizer that fits nothing is reported |
| `MigrationConfig`, CLI, menu, scaffolding, MCP server, tools | configuration, text | parsing, I/O | none to speak of | out of scope |

`PROJECT.json` lists every component with its status and every hazard with the
line where it bites.

## 2. The modules

```
ShardTransfer          what one shard promises
    ^ implemented by
PipelineRunner         runShard and its processors       (PipelineRunner_proofs)
IndexRefresh           several workers, one cluster, the after hook  (IndexRefresh_proofs)
Transfer               orchestrator, workers, operator over runs     (Transfer_proofs)
FixLive                fix-live on one table of a system in use      (FixLive_proofs)

Delivery               what executing the commands of a flush promises
    ^ implemented by
Execution              the clients under DdbProcessor and S3Processor (Execution_proofs)
    extends BatchPut   DynamoDbClient.batchPut under DdbExecutor
    extends BatchCopy  S3Client.batchCopy
        both extend Retry   which errors are tried again

Segment                workers from a preset's name to the target's rows
                       (Segment_proofs: the scan; SegmentRows_proofs: its rows;
                        Conversion_proofs: the operators that rows go through)
    extends Models     default locales and models, read before the scan
    extends Conversion one row through its pipeline, and what processors do with commands
        extends Assembly   preset, customizers, builder, registration, routing
    Models and Assembly extend Presets   the five built-in presets and their filters
        extends Stores     files, settings and audit logs, which move to other stores
            extends Rewriting  the transformers of keys and attributes
                extends Values     the transformers that walk an entry's values
```

`Transfer` treats a worker's shard as one step, `ShardDone`; `PipelineRunner` is the
detail of that step, and `IndexRefresh` the detail of what the workers and one after
hook do to the cluster between them. `Execution` is the detail of `Perform` and
`ExecuteReturns` of `PipelineRunner` for the two processors that write to DynamoDB and
S3. `Segment` has what these leave open: the data. Where `PipelineRunner` takes the accepting
pipeline and the bag of a row as inputs, `Segment` computes them from the row, the preset
and what the other rows left in the worker's cache. `FixLive` stands alone: the command
shares only the clients with a transfer.

### PipelineRunner (and ShardTransfer)

A row is its position in the scan. `TransferRow(p, K)`, `BlackholeRow(p, K)` and
`UnmatchedRow` are the three outcomes of one iteration of the `for await` loop,
including its tail (`recordCount++` and the flush test); the accepting pipeline `p`
and the bag `K` are inputs, because filters and transformers are the user's code.
The loop of `flushShard` is `Perform(c)` (one command takes effect),
`ExecuteReturns` (the processor at hand is done) and `PeriodicFlushDone` or
`FinalFlushDone` (`warnUnclaimedKeys`, fresh buffer). `ScanEnds` decides on the
last flush. `AfterShard`, `FlushDroppedLog` and `FlushTransferredLog` are the end of
`runShard`. `Throw` may happen anywhere, also between two commands of one flush.

Abstractions: a command is `<<row, key>>`, so several commands of one key by one row
are one, and a command that `Commands.add` drops for its `dedupKey` counts with the
one that stays. No two processors claim one key, or both would drain it, which is
how the code behaves and how no preset is written. `DroppedRecordLog.flush` writes its
two files in one step. `asked`, `executed` and `hooked` are history variables. What
`AuditLogProcessor` does without a table (`putAuditLog` adds nothing, `execute` returns
before it claims its key) is in `OnEndKeys` and `Skips`.

`ShardTransfer` says the same without buffer, flush or processors: rows are kept or
dropped, kept rows owe commands, success needs every command performed or its key
warned about. The refinement maps `recordCount` to the rows taken and the two logs
to the rows dropped.

### IndexRefresh

`cluster[i]` is the `refresh_interval` of an index, or that it has none, or that
there is no index. Each request of `OsProcessor.ensureIndex` is a step of its own, so
that another worker's requests come in between: `EnsureIndex`, `IndexExists`,
`ReadSettings`, `DisableRefresh` (a failure is swallowed), `CreateIndex` (already
exists is no error), `Retry` (starts over, the request having had its effect or not).
`AfterShard` saves the memory, `Fail` is a fatal error or a kill at any point.
`LoadTouchedIndexes` reads the files in any order and may fail to read some;
`RestoreRefresh(i)` restores one index or fails to.

Abstractions: index creation and settings carry only the refresh interval; index
configuration, compression and the writes themselves are elsewhere. A request that
fails has had its effect before the client gives it up, or has none.

### Transfer

`phase` is the handler's place. `ResolveSegments`, `LoadPreset`, `CheckAccess`,
`BeforeHook`, `BeforeHooksDone`, `SpawnWorkers`, `AwaitWorkers`, `LogRunTotal`, `AfterHook`
and `AfterHooksDone` follow `handler` line by line; `SetupFails` is its two `catch`
blocks. A worker is `LoadSegment`, `ShardDone`, `WriteStats`, and `WorkerDies` wherever it
is, with a statistics file absent, truncated or whole. Around them is the operator:
`Start` a run with or without `--dry-run` and `--segments`, `ReadReport`, and
`Interrupt`. `owed` is what an operator has to re-run who trusts the reports: exit
code 0 clears the run's segments, a report of failed segments clears the others,
anything else clears nothing. `moved` is a history variable.

Abstractions: `Interrupt` reaches the whole process group, as a terminal's does;
an orchestrator killed alone, which would leave its workers running, is not
modelled. What a preset's lifecycle hooks do is part of loading it.

### FixLive

One table, its entries and their rows `L`, `P` and `REV#`. `decide`, `decidePublished`,
`decideUnpublished` and `reconcile` are operators (`SkipReason`, `Targets`, `ExpectedLive`,
`Changes`) on the rows a segment has read. A segment is `StartSegment` (the lanes of
`runConcurrently`), `ScanRow`, `QueryRow` once per row of the entry, so that editors come
in between, `Decide`, and one `UpdateAnswered`, `UpdateRetried` or `UpdateFails` per request
of an update. An unanswered request has arrived, is lost, or is in `late` and arrives at
any later time (`LateArrival`), which is what `withTimeout`'s race without cancelling leaves
behind. A failure rejects the run at once, but `cli.ts` only sets `process.exitCode`, so
the other segments go on scanning and writing until they are done; `Working` is the
life of the process. `Kill` ends it anywhere. `Start(m)` is admitted by `selectMode` and
`RunEnds` records a dry run in the state file. `Edit` is the running v6 system.

Abstractions: editors change one row at a time, with a new `_md`, and may put anything
of `Content` into it. An entry has at most three rows to update, fewer than the eight
write lanes, so that all are under way at once. Updates left over from a process that
is gone are dropped when the next run starts. A `"garbled"` row stands for data that
cannot be decompressed. The reason of a change is wording, and the statistics are
left out. Every row has an `_md`: one without would be given an empty condition, which
fails and is reported. A run goes over one table: the second one starts after the first
and shares nothing with it but the outcome. The guard that asks for a v6 system and
the prompts only refuse runs.

### Execution (and Delivery, BatchPut, BatchCopy, Retry)

A put is its position in the flush, a copy likewise. `DdbExecutor` groups the puts by
table (`FirstPut` is a table's place in its `Map`), `SendBatch` is one iteration of
`batchPut`'s loop. What a response leaves unprocessed is put by a `batchPut` within the
attempt, with retries and a timeout of its own, so the attempts under way are a
`stack`: `PutAnswered` ends all of them or adds one, `PutRetried` goes back to the
innermost attempt that may be repeated, with the whole of its batch, `PutFails` passes
an error through all of them, and `PutTimesOut(i)` rejects `batchPut` at once while what
attempt `i` awaits goes on. A request without an answer has put some of its batch, and
the rest is in `late`, from where it arrives at any time, also in a later run. S3's
copies are `StartWindow` and then each copy by itself; the first that fails rejects
`batchCopy` while the others go on. `Exit` is `process.exit(1)` of the worker or its
death, `Rerun` the segment run again. `Retry` has the classification of errors by what
it looks at: the name or else the code, the status, the two marks of throttling.

Abstractions: the waits between attempts, and so the longer one for an exhausted token
bucket, are left out, as is the client's log. A record is its row: two puts of one row
differ in their position only. `get` and `getObject` only read. Which errors occur is up
to AWS, so an attempt may fail in either way at any time.

`Delivery` says the same without requests: items are delivered, or skipped if they may
be, and success needs all of them. The refinement counts what was delivered in the
current run.

### Segment (and Models, Conversion, Assembly, Presets, Stores, Rewriting, Values)

`setup` is what a run is given: the name it asks for, the presets of the user, what is
registered, customizers, configuration, the rows of the source and one edit of them. A
worker is `LoadPreset` (`Assembles`, `Assembled`: `resolvePresetPath`, `create`, `build`,
`register`), `Preload` (`ModelPreloaderHook`, and the guards of `runInternal`), the scan
(`ReadPage`, `ScanFails`), one of `SkipRow` (OsScanner), `DropRow`, `ConvertRow` and
`RowThrows` per row, the flushes (`Execute` per processor, `ExecuteFails`, `FlushDone`),
`EndScan` and `Close`. Around the workers are `Publish`, the editor's change, `Die` and
`Rerun`. A row's position is its place in the scan; `SegmentOf` its segment, so that an
edit may add a row before or behind a worker's `cursor`.

`Presets` has the pipelines of the presets in their order of registration, the filters by
name, and `Transform`, which names each transformer. Transformers are operators on a
context `[record, original, commands, cache, warned]` and what it can ask (`env`): the
source table, the preloaded models, the readable objects. A record's keys are taken
apart into their parts, so that `removeLocale` is an assignment and a collision of keys
is an equality. `Values` has an entry's values as a set of nodes with the keys that lead
to them, so that `visitFields`, which finds a value only under the key its model declares,
is a selection, and moving a value to another key changes its path and that of all below
(`FixedPath`). `transformRichText` leaves a text without a root as it is, in silence, and one
that cannot be rendered with a warning (`RenderTexts`), and skips what it does not visit; a
value that cannot be decompressed makes the row throw (`RowThrows`).

Abstractions: keys are never text, so that the regular expressions of `removeLocale`
(`src/src/transformers/global/removeLocale.ts:34`) and `updateModelIds` are not executed: a
key whose text confuses them is out of the model, and of the keys only `GSI1_PK` names a
model. The two internal models are compared as they are written, not in lower case, and a
file has an id, so that `createMetadata` never falls back to the `entryId`; no property
depends on these. Text is a format (`lexical`, `unrenderable`, `rootless`, `text`, ...) and the host its URLs name; hashes,
timestamps and image headers are left out or stand for what they were read from; a list
stands for one of its items. `Over` is how a function is updated in places it need not
have. A query that fails, at most one per worker, is warned of and skipped. A flush that
fails has done the batches before and some of the batch at hand; how it comes to that is
`Execution`. `afterShard` and the statistics, which come between `EndScan` and `Close`, are
in `IndexRefresh` and `Transfer`. Snapshot lines are `<<file, row>>`: a worker awaits every
`write`, so that the queue per path, which is there for writers that do not, never has
more than one line.

## 3. The runs

| run | states | question and answer |
|---|---|---|
| `pipeline_runner` | 787,005 | Does `runShard` lose, repeat, misplace or miscount anything? No. |
| `index_refresh` | 324,152 | Do racing workers corrupt or lose the originals, and does the hook always run, after them? No, and yes. |
| `transfer` | 78,983 | Can an operator who trusts the reports forget a segment? Do the hooks bracket the workers? Does every run end? No, yes, yes. |
| `fix_live` | 1,807,647 | Does a run overwrite an edit, leave an entry behind in silence, write what it was not certain about, or report what is not so? No. |
| `fix_live_os` | 241,791 | The same in the OpenSearch table, where a row is rewritten whole, in two segments; does every run end? Yes. |
| `execution` | 62,845 | Does a success of the clients mean that everything was delivered, and in order? Does each flush end? Yes, yes. |
| `segment` | 21,066 | Is each row of a table read once, routed, converted, written and recorded as it should be, with every built-in preset? Yes. |
| `dry_run` | violation | `AuditLogProcessor.execute` writes in a dry run. |
| `index_first_writer` | violation | The "first writer" of the hook's merge can be the one that read `-1`. |
| `fix_live_skips` | violation | An entry reported as skipped may have been written in part. |
| `execution_sockets` | violation | A socket error is not tried again. |
| `segment_rich_texts` | violation | A rich text that is moved to its correct key stays in the old format, and no one is told. |

The properties of the passing runs (`transfer` also checks its type invariant, which is
where a segment out of range would show; those of the other modules are proved):

- `NoSilentLoss`: past the last flush, every command of every kept row is performed
  or its key was warned about. `BufferBounded`: the buffer holds the commands of the
  current flush window only. `RowsAccounted`: counters, logs and scan agree.
  `DroppedRowsWriteNothing`, `EveryProcessorExecutes` (also in an empty shard),
  `HooksComeLast`, and `RefinesShardTransfer`.
- `MemoryIsSound`: whatever the interleaving, only an index's own original or the
  default is remembered or put back for it. `OriginalInSomeFile`: when all workers end
  well, some file has the right value. `SoleWriterRestored`: an index only one worker
  touched gets its value back. `DisabledForAReason`: the exhaustive list of ways an index
  stays disabled; that it was so before counts only if no worker touched it. `NoDisablingBehindTheHook`, `HookRuns`.
- `NoSegmentForgotten`: over runs, failures, dry runs and interrupts, what is not owed
  has been moved. `HooksBracketWorkers`. `TotalsAreHonest`: the totals hold no shard that
  failed before it was moved and miss none that succeeded. `AfterHooksGetTheirTurn`,
  `EveryRunEnds`.
- `NoFresherRowOverwritten`: no update, be it late or repeated, changes a row that was
  edited since it was read, or anything but its live field. `SettledOrReported`: after a
  run that ended well each entry nobody edited is in sync with what v6 maintains, or the
  report says why not. `WrittenWhenCertain`: a skip by decision means that no row of the
  entry was written. `ReportIsAuditTrail`: report and table agree, whichever attempt of an
  update took effect. `NothingWrittenUnadmitted`: no write without an earlier completed dry
  run, whatever was killed or failed. `RunsEnd`.
- `LastPutWins`: after a success a row is what the last of its puts made it, over batches,
  retries and what earlier runs have left behind, unless a request with a put of that row
  went without an answer: such a request may arrive after the last put, and no condition
  protects it. `LastWindowWins`: the same for objects, but within a window there is no
  order. `RefinesDelivery`, `ExecutionEnds`.
- `ScanIsExact`: no row is taken twice, or by another segment's worker, and a worker that
  succeeds took every row that was there when it began, wherever pages are cut and
  whatever the editor does. `SiblingsAgree`: the records of one entry say the same of
  what is published, although the entry may be published between them.
  `KeysStayApart`: rows that go to one place of the target are one row in several
  locales. It speaks of the built-in presets, with customizers that append nothing that
  makes another record, and of tables without the kinds of keys that v6 has for what is
  moved, with the settings of a tenant once (`KeepsKeys`). `EveryRowArrives`: what a successful worker counts as transferred is in the
  tables its pipeline's processors write, and what is there is of this run.
  `ConvertedOrWarned`: each rich text with a root of a transferred entry whose model is known
  is still there, at its place and then in the new format or warned of, or where
  `fixBrokenStorageKeys` has moved it; any other model was warned of. It starts from the texts
  of the row as it was read, so that none can vanish on the way, and excuses exactly those that
  were moved, which the run `segment_rich_texts` is about. It speaks of the built-in
  pipelines of entries, with customizers that append nothing that moves values or makes
  another record, and not of the models of files, whose entries have a pipeline of their own
  and are not warned of. `ClaimedByItsOwn`: of
  fifteen overlapping pipelines the one meant for a record takes it.
  `MetadataHasItsObject`: metadata that a successful worker wrote names an object that
  was copied, if the source had it. It speaks of the preset that makes metadata, with
  customizers that neither make metadata nor change ids, and of tables in which no tenant
  is called `global` and the rows of one file, which may be in several locales, name one
  object (`KeepsFiles`). `SnapshotTellsTheRun`: failures lose no snapshot.

### Bounds

- `pipeline_runner`: `MaxRows = 4`, `FlushEvery = 2`: shards of 0 to 4 rows have no
  flush, one or two, with and without a tail, and a tail of dropped rows. Three keys,
  one of which nobody drains; two processors, one with and one without the dry-run
  gate, an optional target, an `afterShard`; three pipelines, one a blackhole.
- `index_refresh`: two workers and two indexes, so that workers collide on one index
  and one of them is alone on the other; any initial cluster; one retry. Three
  intervals' roles (default, other, disabled) and the two absences.
- `transfer`: two segments, two processors, one before hook, two after hooks, three
  runs: a failure, a re-run, and a failure of the re-run. Presets with no, one or two
  merge groups.

- `fix_live`: one entry of two revisions, in 48 states that between them lead to every
  skip and every kind of change; two edits, one retry, two runs (a dry run must come
  before the live one). Entries are independent of each other except for the lanes.
- `fix_live_os`: two entries in two segments and two lanes, one entry of an internal
  model, rows that cannot be decompressed; one edit, one retry, two runs.
- `fix_live_skips`: as `fix_live`, with no retry and one edit.
- `execution`: batches and windows of two, one retry, two runs. The three flushes have two
  tables, a row that is put twice in one batch (which DynamoDB refuses) and in two
  batches, and an object that is copied twice in two windows. A batch of two leaves one
  put unprocessed, so that attempts nest to a depth of two, where the multiplication of
  attempts shows. Within a window each copy has its own retries, which do not depend on
  those of the others.
- `execution_sockets`: the same with one run.
- `segment`: pages, queries and batches of two, a flush every three rows, tables of up to
  six rows, so that scans have empty last pages, queries more than one page and flushes a
  tail and two batches. Its setups: an entry published while it is scanned; two tenants
  with models of one id, any of whose queries may fail; two workers with an entry in two
  locales; a table for each group of pipelines (search records and audit logs, files and
  settings, security and folders, OpenSearch rows, one of them corrupt); the three copying
  presets; and a user's presets and customizers, with every way an assembly fails. All but
  the last two are run twice, so that a transfer starts over what an earlier one left. Values
  have rich texts in objects and lists, one that cannot be rendered, and others, at the top and
  in an object, under keys their model has wrong.
- `segment_rich_texts`: one entry whose only value is a rich text under a wrong key.

In `segment`, `ClaimedByItsOwn` says nothing of the pipeline of the corrupt row: by the
project's notes no pipeline should see it, and in the code the one of the entries does.

### Fairness

`PipelineRunner` and `Segment` state none, as their properties are safety (that a worker of
`Segment` can always go on until it has ended is what the check for deadlocks shows). `FixLive` has one condition
per segment, over the disjunction of its steps, and one for the end of the run. In
`IndexRefresh` and `Transfer` the orchestrator's next step and each worker's next step are weakly fair
(one condition per process, over the disjunction of its steps, never per outcome):
they are operating system processes, the code awaits nothing but requests, each
of which is bounded by a timeout (`requestTimeoutMs`) and a retry schedule, and child
processes, and a scan is as long as its table. `Execution` has one condition per step of
the flush, with the outcomes of the request under way in one disjunction: each request
is answered, fails, or is given up by its timeout, and which of them is nobody's choice. Nothing obliges the operator to start or
interrupt a run, nor a failure to happen.

## 4. What is proved

`PipelineRunner_proofs` proves, for every number of rows, flush period, set of keys,
pipelines and processors that meets `RunnerAssumption`: `TypeCorrect`, `NothingLost`,
`RowsAreAccounted`, `DroppedRowsAreInert`, `AllProcessorsExecute`, `HooksAreLast`,
`BufferIsBounded` and `Refinement`.

The argument is one inductive invariant, `Inv`. `NoSilentLoss` speaks of the end of
the shard and is not inductive: it holds at the end because at every earlier point a
command that was asked for is performed, warned about or still in the buffer
(`Owed`). That survives the replacement of the buffer because every key of the buffer
is by then warned about or claimed, and claimed keys are performed (`Claimed`), which
in turn needs that a scan begins with nothing claimed. `Executed` carries, through
the loop over the processors, that those already passed have executed; `Ordered` that
hooks and logs come after the scan; `Logged` that the log files are written once. The
refinement uses `Inv` at one place: `ShardTransfer`'s `Finish` needs every command
settled, and the log step that reaches `done` has it from `NoSilentLoss`.

`BufferIsBounded` needs that a row after which no flush is due is in the window of the
row before (`SameWindow`, about quotients by `FlushEvery`), and that a flush which is due
leaves the buffer empty.

Each action has a lemma `<Action>Inv`; `InvNext` puts them together.

`IndexRefresh_proofs` proves, for every finite set of segments and every set of indexes
and intervals that meets `RefreshAssumption`: `TypeCorrect`, `MemoryStaysSound`,
`OriginalIsSaved`, `SoleWriterGetsItBack`, `NothingElseStaysDisabled` and
`HookIsNotUndone`. No property of the memory is inductive alone, because what one
worker reads depends on what others have written. The strengthening is `Original`:
an index that no longer has its original either has it remembered by some worker,
or the default is right for it anyhow, which holds because the step that changes an
index is the step that records it. `Values` bounds what the cluster can hold, `Saved`
ties the files to the memories, `Blamed` names who may have disabled an index and
`Restoring` says what the hook has merged. `FirstExists` (of finitely many files one
is first) is what makes the hook's choice well defined, and is why the set of
segments has to be finite.

`Transfer_proofs` proves, for every number of segments, processors, hooks and runs:
`TypeCorrect`, `NothingForgotten`, `WorkersAreBracketed` and `TotalsCount`.
`NoSegmentForgotten` is about what an operator concludes from an exit code, which
needs to be followed from the workers on: a worker that exits with 0 has moved its
segment (`Honest`), none outlives the wait of its run (`Bracketed`), none starts
before its before hooks and an access that was not refused (`Admitted`), and code 0
is given only if each of them exited so (`Reported`).

`FixLive_proofs` proves, for both tables and every number of entries, revisions,
segments, lanes, retries, edits and runs: `TypeCorrect`, `Unadmitted`,
`NothingFresherOverwritten`, `ReportIsTrue`, `OnlyCertainWrites` and
`NoEntryLeftBehind`, that is, every safety property its runs check. The invariants
build on one another:

- `Typed` adds to the types what a segment has in hand (`InHand`): an update that is
  pending is of a row that was read, with a live field the reconciler may decide on.
- `Gate`: what is written, pending or late belongs to a run that was admitted.
- `Fresh` and `Same`: a row in the table that has the `_md` of a row that was read is
  that row but for its live field, unless it was edited after; an edit has an `_md`
  greater than all before it. So the condition on `_md` detects each stale read, also
  for an update that arrives after the client gave it up, and also in the OpenSearch
  table, where a row is written back as it was read.
- `Trail` and `Accounted`: each write, and each late update that may still write, has a
  line, is pending, or belongs to a run that did not end well.
- `Once`: an entry is found in one segment and once, so that the report and the writes
  have nothing about it before the decision, which is what `Certain` needs.
- `Settling`, for runs in which nothing has failed: what the query has passed is what
  is there unless edited (`ReadAsIs`), what is not right of the entry being written is
  pending (`InWork`), what is late is still right (`LateIsRight`) and the entries that
  are behind are correct or spoken of (`Through`). Updates arrive while the group is
  held, so `Alike` says what the decision looks at and the updates leave alone.
  `CorrectIsInSync` ties the reconciler's own notion to `InSync`.

`Execution_proofs` proves, for every flush, every assignment of rows to tables, every size
of batches and windows and every number of retries and runs: `TypeCorrect`,
`LastPutStays`, `LastWindowStays` and `Refinement`. Attempts nest without bound, so the invariant is about
the stack. `Nested`: an attempt within another puts what that one has not put yet, so
when the innermost returns the whole batch is put, and `Owed` follows: nothing is
lost between what is to be sent, what is under way and what is put. For the order of
puts, `Ordered` says that batches take the puts of a row in their order, which is a
counting argument about the first `BatchSize` puts of a table, `Following` that what was
put before the batch under way precedes it, and `Accepted` that of a batch with two puts
of one row nothing is ever put. So a put that arrives is never older than one of its row
that is already there, unless it is late, and `Newest` is preserved. For copies, `Windows` says that those that
wait are the windows from some `k` on and those under way the window before: the first
`Concurrency` copies that wait are one window (`FirstWindow`, which counts an interval).
So a copy that arrives is of a window no earlier than any copy that is done, or is one of
the lost, and `Latest` is preserved.

`Segment_proofs` proves, for every table, placement of rows in segments, setup, preset and
page size: `TypeCorrect`, `ScansAreExact` and `SnapshotsTell`. `Position` is the invariant of
a scan: nothing is taken before it begins (`Early`), what a page holds has been passed by
the cursor and not been taken (`Held`), no row was taken twice (`Once`), and what the cursor
has passed of the rows that were there at the beginning is on the page or taken
(`Passed`). That a page ends where `CursorAfter` says it does needs that a finite set of
positions has a last one, hence the assumption that `Pos` is finite; that an edit does not
remove rows is what `Over` gives. `Told` says of the open and the closed lines together
what `SnapshotTellsTheRun` says of the files at the end. What transformers do to a row is
opaque to both, which is why they hold for any preset.

`SegmentRows_proofs` proves, for every table, setup, preset, customizer, model, edit and
number of workers and runs: `SiblingsAlwaysAgree`, `RowsArrive`, `EntriesAreConverted`,
`KeysAlwaysApart` and `MetadataAlwaysHasItsObject`. The first two rest on one invariant,
`Rows`, of four parts:

- `Shapes`: buffers are bags of commands, pages hold rows of v5, and a worker that goes on
  has the pipelines its setup gives.
- `Cached`: the `live` field of each transferred record is what the cache has for its
  entry. `SiblingsAgree` compares two records that were read at different times and is not
  inductive; that the cache is only added to (`Agrees`) makes this one so.
- `Puts`: what is to be put are records of this run or metadata, so that whatever a flush
  replaces, it replaces by rows of this run, also where an earlier run or another worker
  has put something.
- `Delivers`: a transferred row has landed, or its put waits in the buffer for a processor
  that has still its turn in this flush. `EveryRowArrives` speaks of workers that ended
  well, which leave the scan with an empty buffer. It needs that each processor of each
  pipeline is in the order of the flush (`OrderHas`), that a bag is folded into the
  shard's without loss (`FoldedHas`), and that of several puts of one row the last stays
  (`PutResult`).

A row is converted once, because it is taken once (`Position`), so logging a row forgets
no other. `Entries` is the invariant behind `EntriesAreConverted`: each entry of the log is
settled by the models and warnings its worker has now; models are read before the first
row is logged, and warnings are only added to. `Places` is the invariant behind
`KeysStayApart`, which compares rows of any two workers: each transferred row is where
its pipeline puts it (`Placed`). Most rows keep the key that tells them, but for the
locale; groups keep theirs as roles, a kind that v5 does not have; the keys of audit logs
and of settings, kinds of their own as well, tell the row by the id made for it and by the
tenant (`PlacesApart`).

`Files` is the invariant behind `MetadataHasItsObject`, of which nothing is inductive alone:
the metadata of a file go through the table, which other rows, other workers and earlier
runs write too, and its object through the bucket, by another processor of the same flush.

- `FilesDue`: the metadata of each transferred file are in the table and its object is in the
  bucket if the source had it, or the put and the copy each wait for a processor that has
  still its turn, also while one of the two is done and the other is not.
- `Describing` and `DescriptionsStored`: what waits under a key of metadata, and what the
  table has there, whoever has put it and in whichever run, are the metadata of a file of
  the source (`IsDescription`). That no row is written there itself is a consequence of
  `Places`: only settings go to keys of that kind, and to those of their tenant.
- `KnowsFiles`: the file that a row has become is still that file, so that its metadata and
  those that are stored, which have one id, name one object.

What a row becomes is proved in `Conversion_proofs`, for any record, any models and any
list of transformers. Each transformer has a lemma about what it leaves alone (`Kept...`,
`...Context`), `TransformStep` puts them together, and `ConvertedRow` is what a pipeline
and its processors make of any row. For entries, `EntryIsSettled` follows the values:
`FixedValues` (a value that moves takes along all that is below it, so values stay a tree),
that before `transformRichText` each text of the row is at its place or where it was moved
(`Comes`), `RichTexts` (in a tree, a value at a declared path is reached by `visitFields`, whose
way leads over the nodes above it, and so is rendered or warned of), and that nothing behind
`transformRichText` brings back the old format or takes a warning back (`TextsKeptStay`). Of a text that
was moved it says only where it is. `AssembledEntries` is the other half: customizers append only (`ExtendedWith`),
so that the pipelines of entries of the two presets keep the form that `EntryIsSettled`
asks for. `RowIsPlaced` follows the key: most transformers leave it, or take the locale out
of it (`Stays`), and for each of those that make another record a lemma says where that one
goes (`AuditPlaced`, `SettingsPlaced`). `FileIsDescribed` follows a file through its
pipeline: no other transformer of it changes what its metadata are made of (`FileStays`),
none but `createMetadata` puts a record (`TransformPuts`), and the put and the copy that
this one makes name one object (`DescribesStep`). Which of them a pipeline has, and in which order,
is again a matter of the presets' forms (`PresetForms`, `AssembledForms`, `AssembledFiles`).
Pipelines, processors and customizers are sequences that the code goes through
in loops, and the model folds over them. The library defines folds by recursion; the
lemmas `FoldExists` and `...Steps` show that a fold runs through states `c[0]`, `c[1]`, ...
each made of the one before, and induction over a set of numbers (`SetInduction`) does
the rest.

These theorems assume `SetupAssumption`, which the runs check of every setup: a v5 row has
no `live` field (it is new in v6), its values are a tree (they are JSON, seen as nodes with
the keys that lead to them), and a row of the OpenSearch table has its attributes in its
`data` envelope; the pipelines and customizers of a user are what their types say. They
also assume `FreshAssumption`: `mdbid` makes no id twice, for which the code gives no proof
but the size of the ids.

Only model-checked:

- `ClaimedByItsOwn`: which pipeline is meant for a record is given with a setup's rows,
  since the code says it in comments only.
- the liveness properties `HookRuns`, `AfterHooksGetTheirTurn`, `EveryRunEnds`, `RunsEnd` and
  `ExecutionEnds` (out of TLAPS's reach).

The other safety properties that the passing runs check are proved.

## 5. Findings

1. A dry run writes audit logs. `src/src/features/AuditLogProcessor/AuditLogProcessor.ts:72`
   has no dry-run gate, against `src/docs/guides/commands.md:36` (run `dry_run`).
2. The merge of the restore hook takes the first file in directory order
   (`src/src/services/OpenSearchClient/hooks/EnableRefreshHook.ts:76`), which may hold the
   default recorded by a worker that came second, against the comment at line 74
   (run `index_first_writer`).
3. An entry whose records are partly written is reported as skipped with
   `changed-during-run` (`src/src/features/FixLive/BaseLiveFieldRunner.ts:176`), against
   `src/docs/guides/commands.md:129`, "A skip means the whole entry was left untouched"
   (run `fix_live_skips`).
4. Socket errors are not tried again. `isRetryableAwsError`
   (`src/src/base/isRetryableAwsError.ts:88`) looks at `name ?? code`, and an error of
   Node's sockets has the name `Error` and the reason in its code, against the comment
   at line 64, "node-level socket errors". The unit test
   (`src/__tests__/base/isRetryableAwsError.test.ts:31`) tries objects without a name
   (run `execution_sockets`).
5. Rich texts that `fixBrokenStorageKeys` moves to their correct key
   (`src/src/transformers/cms/fixBrokenStorageKeys.ts:86`) are no longer where the model declares
   them; `transformRichText`, which follows, does not find them, leaves them in the format of
   v5 and says nothing, against `src/docs/mcp/transformers/transformRichText.md:13`, "For every
   `rich-text` field" (run `segment_rich_texts`).

Further observations, which no run is about:

- The memory of disabled indexes is saved only at the end of a shard
  (`src/src/features/OsProcessor/OsProcessor.ts:173`): an index disabled by a worker that then
  fails is not restored. `DisabledForAReason` has it among its reasons;
  `src/docs/guides/config-reference.md:77` promises a restore "after the transfer completes"
  and does not say what holds of one that fails.
- A row of the OpenSearch table that cannot be decompressed is transferred with empty data
  (`Unpacked`, after `src/src/features/OsScanner/OsScanner.ts:50`);
  `src/docs/hard-won-decisions.md:28` says that it is skipped.
- `transformRichText` decompresses outside its `try`
  (`src/src/transformers/cms/transformRichText.ts:69`), so that one corrupt value fails its
  segment, where other errors of the same value are warned of.
- `replaceFileUrls` does not find what `fixBrokenStorageKeys` has moved either. The pipeline of
  the models passes a corrupt storage id on as it is. `replaceFileUrls` also follows
  `updateModelIds`, and does not find a model that is registered under its old id.
- Rows of two locales have one key in the target. In two batches the later one replaces
  the earlier; in one batch DynamoDB refuses the request and the segment fails
  (`Admissible`). `isDefaultLocaleRecord`, which would choose, is not called.
- Audit logs get a new id in each run, so a segment that is run again duplicates them; one
  without a creator is counted as transferred and not written.
- Models are kept by id for all tenants; the first tenant's model is used for all.
  `query` sends one request and reads what it returns
  (`src/src/features/ModelProvider/ModelProvider.ts:45`).
- A customizer's filter that refuses a file lets it fall through to the entries' pipeline.
- A preset without pipelines ends every worker successfully, with nothing done.
- Presets are listed by the names they export and loaded by the names of their files.

## 6. Plan

Done, in this order: (1) `ShardTransfer`, `PipelineRunner`; (2) `IndexRefresh`; (3) `Transfer`;
(4) `Execution` with `BatchPut`, `BatchCopy`, `Retry` and `Delivery`; (5) `FixLive`, each with
its proofs; (6) `Segment` with the modules it extends, whose scan, snapshots, rows, entries,
keys and files are proved. Next would be a reference definition of the reconciler's decision
to check `FixLive`'s against.

### Not modelled

- The runner's mode without a segment (`runMergeGroup`) and with it the hooks of a
  pipeline (`beforeExecuteCommands`, `afterExecuteCommands`): the tool's commands always
  run a segment. `isDefaultLocaleRecord`, `removeTenant` and `dedupKey` have no user either.
- Access checks, beyond the report they end in: one request each, whose answer is an
  input of `Transfer`.
- The prompts of the menu and the wizard, command-line parsing, configuration schemas,
  scaffolding, the MCP server, and thin wrappers of I/O: they hold no state that several
  steps share, and what they yield are constants or inputs of the modules.

---------------------------------- MODULE Segment ----------------------------------
(***************************************************************************)
(* The workers of one transfer, a segment each, from loading the preset to *)
(* closing the snapshots (processSegment/handler.ts over PipelineRunner,   *)
(* the scanners, DynamoDbClient.scan, ModelPreloaderHook, the processors   *)
(* and SnapshotWriter), on rows as v5 has them.                            *)
(*                                                                         *)
(* Two things happen around them: an editor of the source publishes an     *)
(* entry while it is scanned, and a worker dies.  What was not transferred *)
(* then is transferred by another run.  How a flush meets a failing table  *)
(* or bucket in detail is in Execution; here a flush fails with some of    *)
(* its commands done.                                                      *)
(***************************************************************************)
EXTENDS Models, Conversion

CONSTANTS
  Segment,      \* the workers, numbered from 1
  Pos,          \* the places of rows in the source table, in the order of the scan
  SegmentOf,    \* SegmentOf[p]: the segment a place belongs to
  Setups,       \* what a run may be given; its runs is the bound of the model
  PageLimit,    \* the rows of a page of the scan, at most
  BatchSize,    \* BATCH_SIZE of DynamoDbClient
  FlushEvery,   \* tuning.flushEvery
  Fresh(_, _)   \* Fresh(run, p): the id mdbid() makes for the row at p

ASSUME SegmentAssumption ==
  /\ Segment \subseteq Nat \ {0}
  /\ Pos \subseteq Nat \ {0} /\ IsFiniteSet(Pos)
  /\ SegmentOf \in [Pos -> Segment]
  /\ {PageLimit, BatchSize, FlushEvery} \subseteq Nat \ {0}
  /\ \A setup \in Setups : DOMAIN setup.rows \subseteq Pos /\ DOMAIN setup.edit \subseteq Pos

\* A row as v5 writes it: the live field is new in v6, and the attributes of a row of the
\* OpenSearch table are in its envelope.
IsV5Row(r) ==
  /\ IsRecord(r) /\ IsKey(r.pk) /\ "live" \notin Attrs(r)
  /\ "values" \in Attrs(r) => IsValues(r.attrs.values)
  /\ r.index # NoIndex => r.in = "data"

\* What a run is given is of the right form: its rows, and what a user may add.
ASSUME SetupAssumption ==
  \A setup \in Setups :
    /\ \A p \in DOMAIN setup.rows : IsV5Row(setup.rows[p])
    /\ \A p \in DOMAIN setup.edit : IsV5Row(setup.edit[p])
    /\ \A n \in DOMAIN setup.user : setup.user[n].pipelines \in Seq(PipelineType)
    /\ \A n \in DOMAIN setup.files : setup.files[n].pipelines \in Seq(PipelineType)
    /\ setup.customizers \in Seq(CustomizerType)
    /\ setup.config.auditTable \in BOOLEAN
    /\ setup.runs \in Nat \ {0}

\* mdbid() makes no id twice.
ASSUME FreshAssumption ==
  \A setup \in Setups : \A run \in 1..setup.runs : \A p, q \in Pos :
    Fresh(run, p) = Fresh(run, q) => p = q

VARIABLES
  setup,      \* what this run is given
  source,     \* the rows of the source table by their places
  published,  \* whether the editor has made the change setup.edit
  target,     \* the rows of the target tables
  bucket,     \* the objects of the target bucket
  runs,       \* how many runs there were
  stage,      \* where a worker is
  result,     \* how it ended: "ok", "failed" or "died"; "" while it goes on
  pipelines,  \* its pipelines
  models,     \* its models
  cache,      \* its cache
  warned,     \* what it warned of
  cursor,     \* the place after which its next page begins
  page,       \* the rows of the page that are not handled yet
  more,       \* whether the table has said that there are more pages
  count,      \* how many rows it handled
  buffer,     \* the commands of the next flush
  at,         \* which processor executes them
  open,       \* snapshot lines that are in open streams
  files,      \* snapshot lines that are in files
  started,    \* history: the places that had a row when the scan began
  taken,      \* history: how often the row of a place was taken
  log         \* history: what became of a row

tables == <<source, published, target, bucket>>
setting == <<pipelines, models>>
memory == <<cache, warned>>
scan == <<cursor, page, more>>
flush == <<count, buffer, at>>
snapshots == <<open, files>>
history == <<started, taken, log>>
vars == <<setup, runs, tables, stage, result, setting, memory, scan, flush, snapshots, history>>

\* The workers of a run: one for each segment that the orchestrator counts.
Workers == {s \in Segment : s <= setup.total}

\* The same for every worker.
Each(v) == [s \in Segment |-> v]

Untaken == [p \in Pos |-> 0]

Init ==
  /\ setup \in Setups
  /\ source = setup.rows /\ published = FALSE
  /\ target = << >> /\ bucket = {}
  /\ runs = 1
  /\ stage = Each("idle") /\ result = Each("")
  /\ pipelines = Each(<< >>) /\ models = Each(<< >>)
  /\ cache = Each(<< >>) /\ warned = Each({})
  /\ cursor = Each(0) /\ page = Each(<< >>) /\ more = Each(TRUE)
  /\ count = Each(0) /\ buffer = Each(NoCommands) /\ at = Each(1)
  /\ open = Each({}) /\ files = Each({})
  /\ started = Each({}) /\ taken = Each(Untaken) /\ log = Each(<< >>)

-----------------------------------------------------------------------------
(* Before the scan *)

\* The preset is loaded, its pipelines are built and registered; anything that is
\* missing ends the worker.
LoadPreset(s) ==
  /\ stage[s] = "idle" /\ s \in Workers
  /\ IF Assembles(setup)
     THEN /\ stage' = [stage EXCEPT ![s] = "loaded"]
          /\ pipelines' = [pipelines EXCEPT ![s] = Assembled(setup)]
          /\ warned' = [warned EXCEPT ![s] =
               @ \union warnUnmatchedCustomizers(pipelines'[s], setup)]
          /\ UNCHANGED result
     ELSE /\ stage' = [stage EXCEPT ![s] = "ended"]
          /\ result' = [result EXCEPT ![s] = "failed"]
          /\ UNCHANGED <<pipelines, warned>>
  /\ UNCHANGED <<setup, runs, tables, models, cache, scan, flush, snapshots, history>>

\* ModelPreloaderHook, and what runInternal asks before it scans.  One query at
\* most fails.
Preload(s) ==
  /\ stage[s] = "loaded"
  /\ \E failed \in {{}} \union {{q} : q \in setup.failing} :
       /\ models' = [models EXCEPT ![s] = preloadModels(source, setup.json, failed)]
       /\ warned' = [warned EXCEPT ![s] = @ \union failed]
  /\ IF pipelines[s] = << >> \/ ~ CanRun(pipelines[s], setup)
     THEN /\ stage' = [stage EXCEPT ![s] = "closing"]
          /\ result' = [result EXCEPT ![s] = IF pipelines[s] = << >> THEN "ok" ELSE "failed"]
          /\ UNCHANGED started
     ELSE /\ stage' = [stage EXCEPT ![s] = "scanning"]
          /\ started' = [started EXCEPT ![s] = DOMAIN source]
          /\ UNCHANGED result
  /\ UNCHANGED <<setup, runs, tables, pipelines, cache, scan, flush, snapshots, taken, log>>

-----------------------------------------------------------------------------
(* The scan *)

Of(s) == {p \in Pos : SegmentOf[p] = s}

\* What the table still holds of a segment.
Beyond(s) == {p \in DOMAIN source \intersect Of(s) : p > cursor[s]}

FirstOf(rows, n) == {p \in rows : Cardinality({q \in rows : q <= p}) <= n}

\* Fault: the next page is asked for without the key that the last one ended at.
CursorStuck(s, n) == cursor[s]

\* LastEvaluatedKey, the place of the last row that was read.
CursorAfter(s, n) ==
  IF n = 0 THEN cursor[s]
  ELSE CHOOSE p \in FirstOf(Beyond(s), n) : \A q \in FirstOf(Beyond(s), n) : q <= p

\* A page that reaches the end may still announce another, which is then empty.
ReadPage(s) ==
  /\ stage[s] = "scanning" /\ page[s] = << >> /\ more[s]
  /\ \E n \in 0..PageLimit :
       /\ n <= Cardinality(Beyond(s))
       /\ n = 0 => Beyond(s) = {}
       /\ page' = [page EXCEPT ![s] = [p \in FirstOf(Beyond(s), n) |-> source[p]]]
       /\ cursor' = [cursor EXCEPT ![s] = CursorAfter(s, n)]
       /\ \/ n > 0 /\ UNCHANGED more
          \/ n = Cardinality(Beyond(s)) /\ more' = [more EXCEPT ![s] = FALSE]
  /\ UNCHANGED <<setup, runs, tables, stage, result, setting, memory, flush, snapshots, history>>

\* An error that scan gave up to retry.
ScanFails(s) ==
  /\ stage[s] = "scanning" /\ page[s] = << >> /\ more[s]
  /\ stage' = [stage EXCEPT ![s] = "closing"]
  /\ result' = [result EXCEPT ![s] = "failed"]
  /\ UNCHANGED <<setup, runs, tables, setting, memory, scan, flush, snapshots, history>>

-----------------------------------------------------------------------------
(* Rows *)

Scanner(s) == pipelines[s][1].scanner

NextPos(s) == CHOOSE p \in DOMAIN page[s] : \A q \in DOMAIN page[s] : p <= q

Take(s, p) ==
  /\ page' = [page EXCEPT ![s] = Restrict(@, DOMAIN @ \ {p})]
  /\ taken' = [taken EXCEPT ![s][p] = @ + 1]
  /\ UNCHANGED <<cursor, more, started>>

\* The entry of the log.  out is what the pipeline made of the row.
Record(s, p, row, pipeline, disposition, out) ==
  LET entry == [row |-> row, pipeline |-> pipeline, disposition |-> disposition, out |-> out]
  IN log' = [log EXCEPT ![s] = Over([q \in {p} |-> entry], @)]

Write(s, lines) ==
  open' = [open EXCEPT ![s] = IF setup.config.snapshot THEN @ \union lines ELSE @]

\* One row of the shard is done; flushEvery of them are followed by a flush.
Counted(s) ==
  /\ count' = [count EXCEPT ![s] = @ + 1]
  /\ stage' = [stage EXCEPT ![s] = IF (count[s] + 1) % FlushEvery = 0 THEN "flushing" ELSE @]

\* What a transformer can ask; reads is whether the bucket answers.
Env(s, p, reads) ==
  [source |-> Seen(Scanner(s), source), models |-> models[s],
   readable |-> IF reads THEN setup.objects ELSE {},
   fresh |-> Fresh(runs, p), fileUrls |-> setup.config.fileUrls]

SkipRow(s) ==
  /\ stage[s] = "scanning" /\ page[s] # << >>
  /\ ~ Yields(Scanner(s), page[s][NextPos(s)])
  /\ Take(s, NextPos(s))
  /\ UNCHANGED <<setup, runs, tables, stage, result, setting, memory, flush, snapshots, log>>

\* No pipeline accepts the row.
DropRow(s) ==
  LET p == NextPos(s)
      row == Scanned(Scanner(s), page[s][p])
  IN /\ stage[s] = "scanning" /\ page[s] # << >>
     /\ Yields(Scanner(s), page[s][p])
     /\ Claim(pipelines[s], row) = 0
     /\ Take(s, p)
     /\ Write(s, {<<"dropped", p>>})
     /\ Record(s, p, row, "none", "unmatched", row)
     /\ Counted(s)
     /\ UNCHANGED <<setup, runs, tables, result, setting, memory, buffer, at, files>>

ConvertRow(s, reads) ==
  LET p == NextPos(s)
      row == Scanned(Scanner(s), page[s][p])
      pipeline == pipelines[s][Claim(pipelines[s], row)]
      ctx == Converted(pipeline, row, Env(s, p, reads), cache[s], warned[s], setup.config)
  IN /\ stage[s] = "scanning" /\ page[s] # << >>
     /\ Yields(Scanner(s), page[s][p])
     /\ Claim(pipelines[s], row) # 0
     /\ ~ reads => pipeline.name = "FileManagerFiles"
     /\ Take(s, p)
     /\ cache' = [cache EXCEPT ![s] = ctx.cache]
     /\ warned' = [warned EXCEPT ![s] = ctx.warned]
     /\ Write(s, {<<"source", p>>, <<"post-transform", p>>}
                   \union (IF ctx.commands = NoCommands THEN {} ELSE {<<"commands", p>>}))
     /\ buffer' = [buffer EXCEPT ![s] = IF pipeline.blackhole THEN @ ELSE Folded(@, ctx.commands)]
     /\ Record(s, p, row, pipeline.name,
               IF pipeline.blackhole THEN "blackholed" ELSE "transferred", ctx.record)
     /\ Counted(s)
     /\ UNCHANGED <<setup, runs, tables, result, setting, at, files>>

\* A transformer throws, over a value it cannot read or a query that fails: the
\* record has left its first snapshot line.
RowThrows(s) ==
  LET p == NextPos(s)
      row == Scanned(Scanner(s), page[s][p])
      pipeline == pipelines[s][Claim(pipelines[s], row)]
  IN /\ stage[s] = "scanning" /\ page[s] # << >>
     /\ Yields(Scanner(s), page[s][p])
     /\ Claim(pipelines[s], row) # 0
     /\ pipeline.transformers # << >>
     /\ Take(s, p)
     /\ Write(s, {<<"source", p>>})
     /\ Record(s, p, row, pipeline.name, "threw", row)
     /\ stage' = [stage EXCEPT ![s] = "closing"]
     /\ result' = [result EXCEPT ![s] = "failed"]
     /\ UNCHANGED <<setup, runs, tables, setting, memory, flush, files>>

-----------------------------------------------------------------------------
(* Flushes *)

Order(s) == collectProcessorOrder(pipelines[s])
Processor(s) == Order(s)[at[s]]
Pending(s) == buffer[s][Claimed(Processor(s))]

Batch(n) == (n - 1) \div BatchSize

\* DynamoDB refuses a batch with two puts of one row.
Admissible(commands, n) ==
  \A i, j \in DOMAIN commands :
    Batch(i) = n /\ Batch(j) = n /\ commands[i].record.pk = commands[j].record.pk
      /\ commands[i].record.sk = commands[j].record.sk => i = j

\* Some of the pending commands are done.
Perform(s, some) ==
  IF Processor(s) = "S3Processor"
  THEN bucket' = Copied(setup.objects, bucket, Pending(s), some) /\ UNCHANGED target
  ELSE target' = Put(target, Processor(s), Pending(s), some) /\ UNCHANGED bucket

Execute(s) ==
  /\ stage[s] = "flushing" /\ at[s] <= Len(Order(s))
  /\ Processor(s) # "S3Processor" =>
       \A n \in 0..Batch(Len(Pending(s))) : Admissible(Pending(s), n)
  /\ Perform(s, DOMAIN Pending(s))
  /\ at' = [at EXCEPT ![s] = @ + 1]
  /\ UNCHANGED <<setup, runs, source, published, stage, result, setting, memory, scan, count,
                 buffer, snapshots, history>>

\* A call is given up: the batches before the one it was for are done, and of that
\* one some.
ExecuteFails(s) ==
  /\ stage[s] = "flushing" /\ at[s] <= Len(Order(s)) /\ Pending(s) # << >>
  /\ \E n \in 0..Batch(Len(Pending(s))) :
       LET its == {i \in DOMAIN Pending(s) : Batch(i) = n}
           before == {i \in DOMAIN Pending(s) : Batch(i) < n}
           copies == Processor(s) = "S3Processor"
       IN /\ ~ copies => \A m \in 0..(n - 1) : Admissible(Pending(s), m)
          /\ \E some \in IF copies \/ Admissible(Pending(s), n) THEN SUBSET its ELSE {{}} :
               Perform(s, before \union some)
  /\ stage' = [stage EXCEPT ![s] = "closing"]
  /\ result' = [result EXCEPT ![s] = "failed"]
  /\ UNCHANGED <<setup, runs, source, published, setting, memory, scan, flush, snapshots, history>>

\* Keys of commands that no processor claims.
Unclaimed(s) ==
  {key \in CommandKeys : buffer[s][key] # << >> /\ \A p \in ToSet(Order(s)) : Claimed(p) # key}

\* warnUnclaimedKeys ends a flush.
FlushDone(s) ==
  /\ stage[s] = "flushing" /\ at[s] > Len(Order(s))
  /\ warned' = [warned EXCEPT ![s] = @ \union {<<"unclaimed", key>> : key \in Unclaimed(s)}]
  /\ buffer' = [buffer EXCEPT ![s] = NoCommands]
  /\ at' = [at EXCEPT ![s] = 1]
  /\ stage' = [stage EXCEPT ![s] = "scanning"]
  /\ UNCHANGED <<setup, runs, tables, result, setting, cache, scan, count, snapshots, history>>

\* The scan is over: what is left is flushed, and then the shard is done.  That a
\* shard without a flush has an empty one matters to its processors only, whose side
\* of it PipelineRunner has.
EndScan(s) ==
  /\ stage[s] = "scanning" /\ page[s] = << >> /\ ~ more[s]
  /\ IF buffer[s] # NoCommands
     THEN stage' = [stage EXCEPT ![s] = "flushing"] /\ UNCHANGED result
     ELSE /\ stage' = [stage EXCEPT ![s] = "closing"]
          /\ result' = [result EXCEPT ![s] = "ok"]
  /\ UNCHANGED <<setup, runs, tables, setting, memory, scan, flush, snapshots, history>>

\* Fault: streams are closed only when the shard is done.
ClosedOnSuccess(s) == IF result[s] = "ok" THEN open[s] ELSE {}

\* What SnapshotWriter.close brings into the files.
Closed(s) == open[s]

Close(s) ==
  /\ stage[s] = "closing"
  /\ stage' = [stage EXCEPT ![s] = "ended"]
  /\ files' = [files EXCEPT ![s] = @ \union Closed(s)]
  /\ open' = [open EXCEPT ![s] = {}]
  /\ UNCHANGED <<setup, runs, tables, result, setting, memory, scan, flush, history>>

-----------------------------------------------------------------------------
(* Around the workers *)

\* A worker is killed; of the open lines none or all have reached their files.
Die(s) ==
  /\ stage[s] \in {"scanning", "flushing"}
  /\ stage' = [stage EXCEPT ![s] = "ended"]
  /\ result' = [result EXCEPT ![s] = "died"]
  /\ \E kept \in {{}, open[s]} : files' = [files EXCEPT ![s] = @ \union kept]
  /\ open' = [open EXCEPT ![s] = {}]
  /\ UNCHANGED <<setup, runs, tables, setting, memory, scan, flush, history>>

\* An edit when nobody scans is no other than another source.
Publish ==
  /\ ~ published /\ setup.edit # << >>
  /\ \E s \in Segment : stage[s] \in {"scanning", "flushing"}
  /\ published' = TRUE
  /\ source' = Over(setup.edit, source)
  /\ UNCHANGED <<setup, runs, target, bucket, stage, result, setting, memory, scan, flush,
                 snapshots, history>>

AllEnded == \A s \in Workers : stage[s] = "ended"

\* The transfer is run again from the beginning, with snapshots of its own.
Rerun ==
  /\ AllEnded /\ runs < setup.runs
  /\ \E s \in Workers : result[s] # "ok"
  /\ runs' = runs + 1
  /\ stage' = Each("idle") /\ result' = Each("")
  /\ pipelines' = Each(<< >>) /\ models' = Each(<< >>)
  /\ cache' = Each(<< >>) /\ warned' = Each({})
  /\ cursor' = Each(0) /\ page' = Each(<< >>) /\ more' = Each(TRUE)
  /\ count' = Each(0) /\ buffer' = Each(NoCommands) /\ at' = Each(1)
  /\ open' = Each({}) /\ files' = Each({})
  /\ started' = Each({}) /\ taken' = Each(Untaken) /\ log' = Each(<< >>)
  /\ UNCHANGED <<setup, tables>>

Finished ==
  /\ AllEnded /\ (runs = setup.runs \/ \A s \in Workers : result[s] = "ok")
  /\ UNCHANGED vars

Work(s) ==
  \/ LoadPreset(s) \/ Preload(s)
  \/ ReadPage(s) \/ ScanFails(s)
  \/ SkipRow(s) \/ DropRow(s) \/ (\E reads \in BOOLEAN : ConvertRow(s, reads)) \/ RowThrows(s)
  \/ Execute(s) \/ ExecuteFails(s) \/ FlushDone(s) \/ EndScan(s) \/ Close(s)

Next == (\E s \in Segment : Work(s) \/ Die(s)) \/ Publish \/ Rerun \/ Finished

Spec == Init /\ [][Next]_vars

-----------------------------------------------------------------------------
(* Properties *)

\* Rows of a segment at their places.
IsPage(f, s) == DOMAIN f \subseteq Of(s) /\ f = [p \in DOMAIN f |-> f[p]]

\* The types of what directs a worker; the rows and what becomes of them are data.
TypeOK ==
  /\ setup \in Setups /\ DOMAIN source \subseteq Pos
  /\ stage \in [Segment -> {"idle", "loaded", "scanning", "flushing", "closing", "ended"}]
  /\ result \in [Segment -> {"", "ok", "failed", "died"}]
  /\ cursor \in [Segment -> Nat] /\ more \in [Segment -> BOOLEAN]
  /\ DOMAIN page = Segment
  /\ \A s \in Segment : IsPage(page[s], s)
  /\ started \in [Segment -> SUBSET Pos]
  /\ taken \in [Segment -> [Pos -> Nat]]

Transferred(s) == {p \in DOMAIN log[s] : log[s][p].disposition = "transferred"}

\* DynamoDbClient.scan and the runner: no row is taken twice or by the worker of another
\* segment, and a worker that succeeds has taken every row that was there when it
\* began, wherever the pages were cut and whatever was written in the meantime.
ScanIsExact ==
  \A s \in Segment :
    /\ \A p \in Pos : taken[s][p] <= 1 /\ (taken[s][p] = 1 => SegmentOf[p] = s)
    /\ result[s] = "ok" => \A p \in started[s] \intersect Of(s) : taken[s][p] = 1

\* addLiveField and its cache: the records of an entry say the same of what is
\* published, also when the entry is published while they are read.
SiblingsAgree ==
  \A s \in Segment : \A p, q \in Transferred(s) :
    LET one == log[s][p]
        other == log[s][q]
    IN one.row.pk = other.row.pk /\ {"live"} \subseteq Attrs(one.out) \intersect Attrs(other.out)
         => one.out.attrs.live = other.out.attrs.live

\* Where a record goes.  An audit log without a creator goes nowhere.
Destination(entry) ==
  TargetKey(IF entry.pipeline = "AuditLogs" THEN "audit"
            ELSE IF entry.out.index # NoIndex THEN "os" ELSE "main", entry.out)

Written(s) ==
  {p \in Transferred(s) :
     log[s][p].pipeline = "AuditLogs" => log[s][p].out.type = "auditLog.log"}

SameButLocale(a, b) ==
  a.sk = b.sk /\ [a.pk EXCEPT !.locale = "", !.twice = FALSE]
                   = [b.pk EXCEPT !.locale = "", !.twice = FALSE]

\* The rows that a run can come to see.
V5Rows(x) == {x.rows[p] : p \in DOMAIN x.rows} \union {x.edit[p] : p \in DOMAIN x.edit}

\* The rows go through a built-in preset, to which no customizer adds what makes other
\* records; the table has no keys of the kinds that v6 has for what is moved, and the
\* settings of a tenant once.
KeepsKeys(x) ==
  /\ x.asked \in DOMAIN builtIn(x.config)
  /\ \A c \in ToSet(x.customizers) : ToSet(c.transformers) \intersect Replacing = {}
  /\ \A r \in V5Rows(x) : r.pk.space \notin {"KV", "ROLE", "AUDIT_LOG"}
  /\ \A f \in {"isFmSettings", "isMailerSettings"} : \A a, b \in V5Rows(x) :
       Passes(f, a) /\ Passes(f, b) /\ TenantOf(wrapInData(a)) = TenantOf(wrapInData(b))
         => SameButLocale(a, b)

\* removeLocale and the other key transformers, and those that move a record to another
\* store: rows that go to one place of the target are one row in several locales.
KeysStayApart ==
  KeepsKeys(setup) =>
    \A s, t \in Segment : \A p \in Written(s), q \in Written(t) :
      Destination(log[s][p]) = Destination(log[t][q])
        => SameButLocale(log[s][p].row, log[t][q].row)

\* The processors that put a row: those of its pipeline, as onEnd has them.
Putters(s, p) ==
  {x \in Processors : \E n \in DOMAIN pipelines[s] :
     /\ pipelines[s][n].name = log[s][p].pipeline
     /\ x \in ToSet(pipelines[s][n].processors)
     /\ PutsRecord(x, log[s][p].out, setup.config)}

\* What is stored under a key is what a row of this run became, or the metadata of a file.
FromThisRun(key, stored) ==
  \/ \E t \in Segment : \E q \in Transferred(t) :
       LET out == log[t][q].out IN out.pk = key.pk /\ out.sk = key.sk /\ stored.attrs = out.attrs
  \/ IsMetadata(key)

\* The flushes of runShard, the shard's commands and the processors: what a worker that
\* succeeds counts as transferred is in the tables its pipeline's processors write, and
\* what is there comes from this run, whatever the other workers write and whatever an
\* earlier run has left.
EveryRowArrives ==
  \A s \in Segment : result[s] = "ok" =>
    \A p \in Transferred(s) : \A processor \in Putters(s, p) :
      LET key == TargetKey(TableOf(processor), log[s][p].out)
      IN key \in DOMAIN target /\ FromThisRun(key, target[key])

\* The entries go through the pipeline of a built-in preset, and what a customizer adds to
\* it neither moves values nor makes another record.
KeepsValues(x) ==
  /\ x.asked \in DOMAIN builtIn(x.config)
  /\ \A c \in ToSet(x.customizers) : "CmsEntries" \in c.uses =>
       ToSet(c.transformers) \intersect ({"fixBrokenStorageKeys"} \union Replacing) = {}

\* transformRichText and its siblings, of a transferred entry: where its model is known,
\* a rich text with a root that the model declares, however deep it is nested, is in the
\* new format, unless it was warned of or fixBrokenStorageKeys has moved it or what it is
\* in; either way it is still at its place, or where it was moved to.  Other models were
\* warned of, but for those of files, which a customizer may let through to this pipeline.
ConvertedOrWarned ==
  \A s \in Segment : \A p \in Transferred(s) :
    LET row == log[s][p].row
        model == row.attrs.modelId
        fields == models[s][model]
    IN KeepsValues(setup) /\ log[s][p].pipeline = "CmsEntries"
       /\ {"modelId", "values"} \subseteq Attrs(row) =>
         IF model \in DOMAIN models[s]
         THEN \A v \in LexicalTexts(row.attrs.values, fields) :
                \E w \in Became(v, row, fields, log[s][p].out.attrs.values) :
                  RenderedOrWarned(v, w, row, warned[s]) \/ w.path # v.path
         ELSE <<"model", model>> \in warned[s] \/ model \in InternalModels

\* The documentation of transformRichText says that it re-renders "every `rich-text` field
\* in a CMS entry's `data.values`" whose value has a root, and that it "logs and skips" one
\* that it cannot.  Here only of entries of the preset whose model is known.
EveryRichTextConverted ==
  \A s \in Segment : \A p \in Transferred(s) :
    LET row == log[s][p].row
        fields == models[s][row.attrs.modelId]
    IN KeepsValues(setup) /\ log[s][p].pipeline = "CmsEntries"
       /\ {"modelId", "values"} \subseteq Attrs(row) /\ row.attrs.modelId \in DOMAIN models[s] =>
         \A v \in LexicalTexts(row.attrs.values, fields) :
           \E w \in Became(v, row, fields, log[s][p].out.attrs.values) :
             RenderedOrWarned(v, w, row, warned[s])

\* The order of the pipelines of a preset: a record of a kind is taken by the pipeline
\* meant for it and by no broader one (setup.own, from what the presets say of their
\* pipelines).
ClaimedByItsOwn ==
  \A s \in Segment : \A p \in DOMAIN log[s] \intersect DOMAIN setup.own :
    log[s][p].pipeline = setup.own[p]

\* The files go through the preset that makes metadata of them, and customizers add
\* neither metadata nor other ids; no tenant is called as the scope of metadata is, and
\* rows of one file name one object.
KeepsFiles(x) ==
  /\ KeepsKeys(x) /\ x.asked = "v5-to-v6-ddb"
  /\ \A c \in ToSet(x.customizers) :
       ToSet(c.transformers) \intersect {"createMetadata", "coreFields", "updateFlpIds"} = {}
  /\ \A r \in V5Rows(x) : TenantOf(wrapInData(r)) # "global"
  /\ \A a, b \in V5Rows(x) : HasFile(a) /\ HasFile(b) /\ a.attrs.id.id = b.attrs.id.id
       => NewKey(wrapInData(a)) = NewKey(wrapInData(b))

\* createMetadata: when a worker has succeeded, the metadata of each of its files is in
\* the table and names an object that is in the target bucket, if the source bucket had
\* it at all, whatever an earlier run has left.
MetadataHasItsObject ==
  KeepsFiles(setup) =>
    \A s \in Segment : result[s] = "ok" => \A p \in Transferred(s) :
      LET out == log[s][p].out
          key == TargetKey("main", Metadata(out))
      IN log[s][p].pipeline = "FileManagerFiles" /\ HasFile(out) =>
           /\ key \in DOMAIN target
           /\ "text@key" \in Attrs(out) /\ OldKey(out) \in setup.objects =>
                target[key].attrs.value.bucketKey \in bucket

\* SnapshotWriter and run's finally: a worker that was not killed leaves the snapshot of
\* each row it took up, also when it failed, and of each it converted what it became.
SnapshotTellsTheRun ==
  \A s \in Segment : stage[s] = "ended" /\ result[s] # "died" /\ setup.config.snapshot =>
    \A p \in DOMAIN log[s] :
      LET Line(file) == <<file, p>> \in files[s] IN
      /\ IF log[s][p].disposition = "unmatched" THEN Line("dropped") ELSE Line("source")
      /\ log[s][p].disposition \in {"transferred", "blackholed"} => Line("post-transform")
==============================================================================

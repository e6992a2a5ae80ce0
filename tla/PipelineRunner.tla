---------------------------- MODULE PipelineRunner ----------------------------
(***************************************************************************)
(* One worker's shard: PipelineRunner.runShard, flushShard and runRecord   *)
(* (src/src/features/PipelineRunner/PipelineRunner.ts) with the processors *)
(* it drives.                                                              *)
(*                                                                         *)
(* The loop reads the scanner's rows one by one.  The first pipeline whose *)
(* filters accept a row claims it and runs its transformers; the commands  *)
(* of the record go into one buffer shared by the shard, unless the record *)
(* is blackholed.  Every FlushEvery rows each processor in turn drains the *)
(* commands of its key from the buffer, and the buffer is replaced.  After *)
(* the last row the remainder is flushed, the afterShard hooks run and the *)
(* two record logs are written.                                            *)
(*                                                                         *)
(* A row is its position in the scan order.  Which pipelines accept it,    *)
(* whether a transformer blackholes it and which keys it emits beside the  *)
(* ones its processors emit in onEnd are the inputs of a step.  A command  *)
(* is <<row, key>>: several commands of one key by one row count as one,   *)
(* and one that Commands.add drops as a duplicate counts with the first.   *)
(***************************************************************************)
EXTENDS Naturals

CONSTANTS
  MaxRows,         \* bound on the rows of the shard
  FlushEvery,      \* config.tuning.flushEvery
  Key,             \* command keys: PutRecord, S3Copy, AuditLogPutRecord, ...
  NumProcessors,   \* processors of the merge group, in collectProcessorOrder
  Claims,          \* Claims[q]: the key processor q drains in execute
  HonoursDryRun,   \* processors whose execute returns at once in a dry run
  HasOptionalTarget, \* processors whose target may be left out of the config
  EmitsOnEnd,      \* processors whose onEnd puts every record, see OnEndKeys
  HasAfterShard,   \* processors that define afterShard
  Pipeline,        \* the registered pipelines
  ProcessorsOf,    \* ProcessorsOf[p]: the processors of pipeline p
  IsBlackhole      \* the pipelines built with .blackhole()

Processor == 1..NumProcessors

ASSUME RunnerAssumption ==
  /\ MaxRows \in Nat
  /\ FlushEvery \in Nat \ {0}
  /\ NumProcessors \in Nat
  /\ Claims \in [Processor -> Key]
  /\ HonoursDryRun \subseteq Processor
  /\ HasOptionalTarget \subseteq Processor
  /\ EmitsOnEnd \subseteq Processor
  /\ HasAfterShard \subseteq Processor
  /\ ProcessorsOf \in [Pipeline -> SUBSET Processor]
  /\ IsBlackhole \subseteq Pipeline

VARIABLES
  rows,                \* what the scanner will yield for this shard
  dryRun,              \* transferContext.dryRun
  unconfigured,        \* the processors whose target the config leaves out
  pc,                  \* where runShard is
  recordCount,         \* rows handled
  pending,             \* pendingCommands: the commands buffered in the shard
  claimed,             \* Commands.claimedKeys of that buffer
  periodicFlushCount,
  at,                  \* the processor flushShard or the afterShard loop is at
  stats,               \* perPipelineTransferred, ...Blackholed, unmatchedByType
  transferred,         \* rows in the buffer of TransferredRecordLog
  dropped,             \* rows in the buffers of DroppedRecordLog
  warned,              \* unclaimedWarned
  target,              \* commands performed on the target system
  logFiles,            \* rows in the log files on disk, per log
  asked,               \* history: every command folded into a buffer
  executed,            \* history: the processors whose execute returned
  hooked               \* history: the processors whose afterShard returned

inputs  == <<rows, dryRun, unconfigured>>
buffer  == <<pending, claimed>>
history == <<asked, executed, hooked>>
vars == <<inputs, pc, recordCount, buffer, periodicFlushCount, at, stats,
          transferred, dropped, warned, target, logFiles, history>>

Command == (1..MaxRows) \X Key
Disposition == {"transferred", "blackholed", "unmatched"}
Log == {"dropped", "transferred"}
Flushing == {"flush", "finalFlush"}
Ended == {"done", "failed"}
Step == {"scan", "afterShard", "droppedLog", "transferredLog"}
          \union Flushing \union Ended

TypeOK ==
  /\ rows \in 0..MaxRows
  /\ dryRun \in BOOLEAN
  /\ unconfigured \subseteq Processor
  /\ pc \in Step
  /\ recordCount \in 0..rows
  /\ pending \subseteq Command
  /\ claimed \subseteq Key
  /\ periodicFlushCount \in Nat
  /\ at \in 1..(NumProcessors + 1)
  /\ stats \in [Disposition -> Nat]
  /\ transferred \subseteq 1..rows
  /\ dropped \subseteq 1..rows
  /\ warned \subseteq Key
  /\ target \subseteq Command
  /\ logFiles \in [Log -> SUBSET (1..rows)]
  /\ asked \subseteq Command
  /\ executed \subseteq Processor
  /\ hooked \subseteq Processor

Init ==
  /\ rows \in 0..MaxRows
  /\ dryRun \in BOOLEAN
  /\ unconfigured \in SUBSET HasOptionalTarget
  /\ pc = "scan"
  /\ recordCount = 0
  /\ pending = {}
  /\ claimed = {}
  /\ periodicFlushCount = 0
  /\ at = 1
  /\ stats = [d \in Disposition |-> 0]
  /\ transferred = {}
  /\ dropped = {}
  /\ warned = {}
  /\ target = {}
  /\ logFiles = [l \in Log |-> {}]
  /\ asked = {}
  /\ executed = {}
  /\ hooked = {}

-----------------------------------------------------------------------------
(* The record loop *)

\* What the onEnd hooks of the pipeline's processors add to every record's bag;
\* one without a target adds nothing.  AuditLogProcessor's adds a command only
\* for a record of one TYPE: that choice is left to Bags.
OnEndKeys(p) ==
  {Claims[q] : q \in (ProcessorsOf[p] \intersect EmitsOnEnd) \ unconfigured}

\* What the bag of one record of pipeline p can hold: the onEnd commands and
\* whatever the transformers passed to ctx.addCommand.
Bags(p) == {K \in SUBSET Key : OnEndKeys(p) \subseteq K}

FlushDue(n) == n % FlushEvery = 0

\* Fault: no break after a claim, the next pipelines see the row again.
RowHandledNoBreak(d) ==
  /\ stats' = [stats EXCEPT ![d] = @ + 1]
  /\ recordCount' \in {recordCount, recordCount + 1}
  /\ pc' = IF recordCount' # recordCount /\ FlushDue(recordCount')
           THEN "flush" ELSE "scan"
  /\ at' = 1
  /\ UNCHANGED <<inputs, claimed, periodicFlushCount, warned, target, logFiles,
                 executed, hooked>>

\* The end of the loop body, for a row disposed of as d.
RowHandled(d) ==
  /\ stats' = [stats EXCEPT ![d] = @ + 1]
  /\ recordCount' = recordCount + 1
  /\ pc' = IF FlushDue(recordCount + 1) THEN "flush" ELSE "scan"
  /\ at' = 1
  /\ UNCHANGED <<inputs, claimed, periodicFlushCount, warned, target, logFiles,
                 executed, hooked>>

RowAvailable == pc = "scan" /\ recordCount < rows

\* Pipeline p claims the row and its record is processed: the bag is folded
\* into the shard buffer and the row is logged as transferred at once, long
\* before its commands are performed.
TransferRow(p, K) ==
  /\ RowAvailable
  /\ p \notin IsBlackhole
  /\ pending' = pending \union ({recordCount + 1} \X K)
  /\ asked' = asked \union ({recordCount + 1} \X K)
  /\ transferred' = transferred \union {recordCount + 1}
  /\ UNCHANGED dropped
  /\ RowHandled("transferred")

\* Fault: the blackholed record's bag is folded like any other.
BlackholeRowFolds(p, K) ==
  /\ RowAvailable
  /\ pending' = pending \union ({recordCount + 1} \X K)
  /\ asked' = asked \union ({recordCount + 1} \X K)
  /\ dropped' = dropped \union {recordCount + 1}
  /\ UNCHANGED transferred
  /\ RowHandled("blackholed")

\* Pipeline p claims the row, and p is a blackhole or a transformer called
\* ctx.blackhole(): the bag K is filled as usual and thrown away.
BlackholeRow(p, K) ==
  /\ RowAvailable
  /\ dropped' = dropped \union {recordCount + 1}
  /\ UNCHANGED <<pending, asked, transferred>>
  /\ RowHandled("blackholed")

\* No pipeline accepts the row.
UnmatchedRow ==
  /\ RowAvailable
  /\ dropped' = dropped \union {recordCount + 1}
  /\ UNCHANGED <<pending, asked, transferred>>
  /\ RowHandled("unmatched")

-----------------------------------------------------------------------------
(* Flushing: flushShard(commands, processors) *)

\* execute returns before it touches the buffer.
Skips(q) == q \in unconfigured \/ (dryRun /\ q \in HonoursDryRun)

Drains(q) == IF Skips(q) THEN {} ELSE {c \in pending : c[2] = Claims[q]}

\* One command the current processor drained takes effect on the target.  The
\* order among them is the clients' (batches per table, copies in parallel)
\* and a failure can come after any of them.
Perform(c) ==
  /\ pc \in Flushing
  /\ at <= NumProcessors
  /\ c \in Drains(at) \ target
  /\ target' = target \union {c}
  /\ UNCHANGED <<inputs, pc, recordCount, buffer, periodicFlushCount, at, stats,
                 transferred, dropped, warned, logFiles, history>>

\* Fault: execute is started and not awaited.
ExecuteReturnsNoAwait ==
  /\ pc \in Flushing
  /\ at <= NumProcessors
  /\ claimed' = IF Skips(at) THEN claimed ELSE claimed \union {Claims[at]}
  /\ executed' = executed \union {at}
  /\ at' = at + 1
  /\ UNCHANGED <<inputs, pc, recordCount, pending, periodicFlushCount, stats,
                 transferred, dropped, warned, target, logFiles, asked, hooked>>

\* The current processor's execute returns: all it drained is on the target.
ExecuteReturns ==
  /\ pc \in Flushing
  /\ at <= NumProcessors
  /\ Drains(at) \subseteq target
  /\ claimed' = IF Skips(at) THEN claimed ELSE claimed \union {Claims[at]}
  /\ executed' = executed \union {at}
  /\ at' = at + 1
  /\ UNCHANGED <<inputs, pc, recordCount, pending, periodicFlushCount, stats,
                 transferred, dropped, warned, target, logFiles, asked, hooked>>

\* Commands.unclaimedKeys: keys with commands nobody called get() for.
UnclaimedKeys == {c[2] : c \in pending} \ claimed

\* warnUnclaimedKeys, once per key in the life of the runner.
WarnUnclaimedKeys == warned' = warned \union UnclaimedKeys

\* Fault: pendingCommands is not replaced, its commands are flushed again.
NewBufferSame == pending

\* pendingCommands = new Commands()
NewBuffer == {}

\* Fault: afterShard is run by each flush instead of once at the end.
PeriodicFlushDoneRunsHooks ==
  /\ pc = "flush"
  /\ at = NumProcessors + 1
  /\ WarnUnclaimedKeys
  /\ pending' = NewBuffer
  /\ claimed' = {}
  /\ periodicFlushCount' = periodicFlushCount + 1
  /\ hooked' = HasAfterShard
  /\ pc' = "scan"
  /\ at' = 1
  /\ UNCHANGED <<inputs, recordCount, stats, transferred, dropped, target,
                 logFiles, asked, executed>>

\* A periodic flush ends with warnUnclaimedKeys and a fresh buffer.
PeriodicFlushDone ==
  /\ pc = "flush"
  /\ at = NumProcessors + 1
  /\ WarnUnclaimedKeys
  /\ pending' = NewBuffer
  /\ claimed' = {}
  /\ periodicFlushCount' = periodicFlushCount + 1
  /\ pc' = "scan"
  /\ at' = 1
  /\ UNCHANGED <<inputs, recordCount, stats, transferred, dropped, target,
                 logFiles, history>>

\* Fault: the remainder is flushed only when no periodic flush happened.
RemainderToFlushNone == periodicFlushCount = 0

\* Fault: an empty buffer is never flushed.
RemainderToFlushNonEmpty == pending # {}

\* Whether the end of the scan flushes once more.  A shard that never flushed
\* does so with an empty buffer, so that each processor executes at least once.
RemainderToFlush == pending # {} \/ periodicFlushCount = 0

\* The scanner is exhausted.
ScanEnds ==
  /\ pc = "scan"
  /\ recordCount = rows
  /\ pc' = IF RemainderToFlush THEN "finalFlush" ELSE "afterShard"
  /\ at' = 1
  /\ UNCHANGED <<inputs, recordCount, buffer, periodicFlushCount, stats,
                 transferred, dropped, warned, target, logFiles, history>>

\* The final flush ends with warnUnclaimedKeys; its buffer is not used again.
FinalFlushDone ==
  /\ pc = "finalFlush"
  /\ at = NumProcessors + 1
  /\ WarnUnclaimedKeys
  /\ pc' = "afterShard"
  /\ at' = 1
  /\ UNCHANGED <<inputs, recordCount, buffer, periodicFlushCount, stats,
                 transferred, dropped, target, logFiles, history>>

-----------------------------------------------------------------------------
(* The end of the shard *)

\* The next processor's afterShard, if it has one, returns.
AfterShard ==
  /\ pc = "afterShard"
  /\ at <= NumProcessors
  /\ hooked' = hooked \union ({at} \intersect HasAfterShard)
  /\ at' = at + 1
  /\ UNCHANGED <<inputs, pc, recordCount, buffer, periodicFlushCount, stats,
                 transferred, dropped, warned, target, logFiles, asked, executed>>

AfterShardDone ==
  /\ pc = "afterShard"
  /\ at = NumProcessors + 1
  /\ pc' = "droppedLog"
  /\ UNCHANGED <<inputs, recordCount, buffer, periodicFlushCount, at, stats,
                 transferred, dropped, warned, target, logFiles, history>>

\* droppedLog.flush(segment), then transferredLog.flush(segment).
FlushDroppedLog ==
  /\ pc = "droppedLog"
  /\ logFiles' = [logFiles EXCEPT !["dropped"] = dropped]
  /\ dropped' = {}
  /\ pc' = "transferredLog"
  /\ UNCHANGED <<inputs, recordCount, buffer, periodicFlushCount, at, stats,
                 transferred, warned, target, history>>

FlushTransferredLog ==
  /\ pc = "transferredLog"
  /\ logFiles' = [logFiles EXCEPT !["transferred"] = transferred]
  /\ transferred' = {}
  /\ pc' = "done"
  /\ UNCHANGED <<inputs, recordCount, buffer, periodicFlushCount, at, stats,
                 dropped, warned, target, history>>

\* The scanner, a filter, a transformer, a client, an afterShard hook or a log
\* throws: the shard is abandoned where it stands.
Throw ==
  /\ pc \notin Ended
  /\ pc' = "failed"
  /\ UNCHANGED <<inputs, recordCount, buffer, periodicFlushCount, at, stats,
                 transferred, dropped, warned, target, logFiles, history>>

\* runShard has returned or thrown; nothing of the shard runs any more.
Finished == pc \in Ended /\ UNCHANGED vars

Progress ==
  \/ \E p \in Pipeline : \E K \in Bags(p) : TransferRow(p, K) \/ BlackholeRow(p, K)
  \/ UnmatchedRow
  \/ \E c \in pending : Perform(c)
  \/ ExecuteReturns
  \/ PeriodicFlushDone
  \/ ScanEnds
  \/ FinalFlushDone
  \/ AfterShard
  \/ AfterShardDone
  \/ FlushDroppedLog
  \/ FlushTransferredLog

Next == Progress \/ Throw \/ Finished

Spec == Init /\ [][Next]_vars

-----------------------------------------------------------------------------
(* Properties *)

TransferredRows == transferred \union logFiles["transferred"]
DroppedRows == dropped \union logFiles["dropped"]

\* The steps that come after the last flush.
Settled == {"afterShard", "droppedLog", "transferredLog", "done"}

\* Once runShard is past its last flush, every command of every record it kept,
\* whichever flush it belonged to, is on the target, or its key was warned about
\* as one no processor drains.  A dry run and a processor without a target are
\* no exceptions: what they leave in the buffer is warned about.  So neither an
\* afterShard hook, nor a log file, nor success covers a command that fell
\* between two flushes.
NoSilentLoss ==
  pc \in Settled => \A c \in asked : c \in target \/ c[2] \in warned

\* The shard buffer is bounded by flushEvery rows and holds no command a flush
\* has already performed: between two rows it holds commands of the rows since
\* the last multiple of flushEvery only.
BufferBounded ==
  pc = "scan" =>
    \A c \in pending : /\ c \notin target
                       /\ recordCount - (recordCount % FlushEvery) < c[1]
                       /\ c[1] <= recordCount

\* The runner's three counters, its two logs and the scan agree: each row has
\* exactly one disposition, none is counted twice or in no log.
RowsAccounted ==
  /\ TransferredRows \union DroppedRows = 1..recordCount
  /\ TransferredRows \intersect DroppedRows = {}
  /\ stats["transferred"] + stats["blackholed"] + stats["unmatched"] = recordCount

\* A row that was blackholed or unmatched never reaches the target, neither
\* through its own bag nor through the buffer it shares with other rows.
DroppedRowsWriteNothing ==
  \A c \in pending \union target : c[1] \in TransferredRows /\ c[1] \notin DroppedRows

\* A shard that ends well has run every processor's execute at least once, also
\* when it is empty, when all of it was dropped, or when its length is a
\* multiple of flushEvery.
EveryProcessorExecutes == pc = "done" => executed = Processor

\* Once an afterShard hook has run, the shard writes nothing more: the state the
\* hook saved is the shard's last.
HooksComeLast == [][hooked # {} => UNCHANGED <<target, asked, pending>>]_vars

\* The shard's promise, with a row counted as taken when it has been handled.
Shard == INSTANCE ShardTransfer WITH
  taken   <- recordCount,
  dropped <- DroppedRows,
  outcome <- IF pc \in Ended THEN pc ELSE "running"

\* runShard keeps the promise of ShardTransfer.
RefinesShardTransfer == Shard!Spec

\* What the dry-run option says of itself: no writes are made to the target.
DryRunWritesNothing == dryRun => target = {}
==============================================================================

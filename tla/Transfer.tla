------------------------------- MODULE Transfer -------------------------------
(***************************************************************************)
(* The orchestrator (src/src/commands/transfer/handler.ts) and the worker  *)
(* processes it spawns (src/src/commands/processSegment/handler.ts), over  *)
(* the runs an operator needs to move every segment: a first run, and      *)
(* re-runs with --segments of what is still owed.                          *)
(*                                                                         *)
(* One run: the configuration and the --segments filter are resolved, the  *)
(* preset is loaded, every processor checks its access, the before hooks   *)
(* run, one process per segment is spawned, all of them are awaited, the   *)
(* totals are summed from the statistics files the workers left, the after *)
(* hooks run, and the exit code reports whether a segment failed.          *)
(*                                                                         *)
(* A worker's shard is one step here, ShardDone; PipelineRunner.tla is its *)
(* detail and IndexRefresh.tla that of one after hook.                     *)
(***************************************************************************)
EXTENDS Naturals

CONSTANTS
  NumSegments,   \* config.pipeline.segments
  Processor,     \* the processors of the preset
  NumBefore,     \* the BeforeTransferHooks registered
  NumAfter,      \* the AfterTransferHooks registered
  MaxRuns        \* bound on the runs of the operator

ASSUME TransferAssumption ==
  /\ NumSegments \in Nat \ {0}
  /\ NumBefore \in Nat
  /\ NumAfter \in Nat
  /\ MaxRuns \in Nat

Segment == 0..(NumSegments - 1)

VARIABLES
  runs,         \* runs started
  owed,         \* the segments the operator has no report of success for
  mergeGroups,  \* merge groups the preset registers with the runner
  phase,        \* where the handler is
  dryRun,
  toRun,        \* segmentsToRun
  access,       \* the access report, per processor
  beforeDone,   \* before hooks that returned in this run
  afterDone,    \* after hooks that returned in this run
  worker,       \* the process of each segment
  stats,        \* the segment's file in .transfer/<runId>/stats
  total,        \* the segments logRunTotal summed
  exitCode,
  moved         \* history: segments whose shard returned outside a dry run

operator == <<runs, owed, mergeGroups>>
run == <<phase, dryRun, toRun, access, beforeDone, afterDone, total, exitCode>>
workers == <<worker, stats, moved>>
vars == <<operator, run, workers>>

Status == {"ok", "denied", "missing", "unknown"}
Phase == {"idle", "resolve", "preset", "access", "before", "spawn", "workers",
          "total", "after", "exit"}
Alive == {"loading", "shard", "stats"}
Exited == {"exit0", "exit1"}

TypeOK ==
  /\ runs \in 0..MaxRuns
  /\ owed \subseteq Segment
  /\ mergeGroups \in 0..2
  /\ phase \in Phase
  /\ dryRun \in BOOLEAN
  /\ toRun \subseteq Segment
  /\ access \in [Processor -> Status]
  /\ beforeDone \in 0..NumBefore
  /\ afterDone \in 0..NumAfter
  /\ worker \in [Segment -> {"none"} \union Alive \union Exited]
  /\ stats \in [Segment -> {"none", "partial", "whole"}]
  /\ total \subseteq Segment
  /\ exitCode \in 0..1
  /\ moved \subseteq Segment

NoReport == [p \in Processor |-> "ok"]
NoWorkers == [s \in Segment |-> "none"]

Init ==
  /\ runs = 0
  /\ owed = Segment
  /\ mergeGroups \in 0..2
  /\ phase = "idle"
  /\ dryRun = FALSE
  /\ toRun = {}
  /\ access = NoReport
  /\ beforeDone = 0
  /\ afterDone = 0
  /\ worker = NoWorkers
  /\ stats = NoWorkers
  /\ total = {}
  /\ exitCode = 0
  /\ moved = {}

-----------------------------------------------------------------------------
(* The operator *)

\* `transfer` is started, possibly with --dry-run.  Its runId is new, so are its
\* directories under .transfer.
Start ==
  /\ phase = "idle"
  /\ runs < MaxRuns
  /\ runs' = runs + 1
  /\ dryRun' \in BOOLEAN
  /\ phase' = "resolve"
  /\ toRun' = {}
  /\ access' = NoReport
  /\ beforeDone' = 0
  /\ afterDone' = 0
  /\ worker' = NoWorkers
  /\ stats' = NoWorkers
  /\ total' = {}
  /\ exitCode' = 0
  /\ UNCHANGED <<owed, mergeGroups, moved>>

\* The run has ended.  Exit code 0 reports every segment of the run; a run that
\* failed with some segments lists them, the others have succeeded; any other
\* failure reports nothing.
ReadReport ==
  /\ phase = "exit"
  /\ owed' = IF dryRun THEN owed
             ELSE IF exitCode = 0 THEN owed \ toRun
             ELSE owed \ {s \in toRun : worker[s] = "exit0"}
  /\ phase' = "idle"
  /\ UNCHANGED <<runs, mergeGroups, dryRun, toRun, access, beforeDone, afterDone,
                 total, exitCode, workers>>

-----------------------------------------------------------------------------
(* The handler, up to the workers *)

Exit(code) == phase' = "exit" /\ exitCode' = code

\* resolveSegmentsToRun: without a filter every segment, else exactly the ones
\* asked for, if all of them exist.
SegmentsOf(filter) == IF filter = {} THEN Segment ELSE filter

\* Fault: off by one, the first segment that does not exist passes.
InRangeOffByOne(filter) == \A s \in filter : ~(s > NumSegments)

\* No value of the filter is out of range.
InRange(filter) == \A s \in filter : ~(s >= NumSegments)

\* Loading the configuration, or resolving the segments, fails, or the handler
\* goes on with the segments to run.
ResolveSegments(filter) ==
  /\ phase = "resolve"
  /\ IF InRange(filter)
     THEN /\ toRun' = SegmentsOf(filter)
          /\ phase' = "preset"
          /\ UNCHANGED exitCode
     ELSE Exit(1) /\ UNCHANGED toRun
  /\ UNCHANGED <<operator, dryRun, access, beforeDone, afterDone, total, workers>>

\* loadUserSetup, config.register, presetLoader.load and preset.configure.
LoadPreset ==
  /\ phase = "preset"
  /\ phase' = "access"
  /\ UNCHANGED <<operator, dryRun, toRun, access, beforeDone, afterDone, total,
                 exitCode, workers>>

Blocking == {"denied", "missing"}

\* Fault: a resource that is missing is only reported.
BlockedDeniedOnly(report) == \E p \in Processor : report[p] = "denied"

\* A report blocks the transfer; an access that could not be checked does not.
Blocked(report) == \E p \in Processor : report[p] \in Blocking

\* AccessChecker.run: every processor is asked, and one that throws is unknown.
CheckAccess(report) ==
  /\ phase = "access"
  /\ access' = report
  /\ IF Blocked(report) THEN Exit(1) ELSE phase' = "before" /\ UNCHANGED exitCode
  /\ UNCHANGED <<operator, dryRun, toRun, beforeDone, afterDone, total, workers>>

\* BeforeTransferHookComposite: the hooks one after the other.
BeforeHook ==
  /\ phase = "before"
  /\ beforeDone < NumBefore
  /\ beforeDone' = beforeDone + 1
  /\ UNCHANGED <<operator, phase, dryRun, toRun, access, afterDone, total,
                 exitCode, workers>>

BeforeHooksDone ==
  /\ phase = "before"
  /\ beforeDone = NumBefore
  /\ phase' = "spawn"
  /\ UNCHANGED <<operator, dryRun, toRun, access, beforeDone, afterDone, total,
                 exitCode, workers>>

\* Anything before the workers throws: no process is spawned.
SetupFails ==
  /\ phase \in {"resolve", "preset", "access", "before"}
  /\ Exit(1)
  /\ UNCHANGED <<operator, dryRun, toRun, access, beforeDone, afterDone, total,
                 workers>>

\* All workers are started at once.  One that cannot be started has failed.
SpawnWorkers ==
  /\ phase = "spawn"
  /\ \E unstarted \in SUBSET toRun :
       worker' = [s \in Segment |-> IF s \notin toRun THEN "none"
                                    ELSE IF s \in unstarted THEN "exit1"
                                    ELSE "loading"]
  /\ phase' = "workers"
  /\ UNCHANGED <<operator, dryRun, toRun, access, beforeDone, afterDone, total,
                 exitCode, stats, moved>>

-----------------------------------------------------------------------------
(* A worker *)

Worker(s, step) == worker' = [worker EXCEPT ![s] = step]

\* The configuration and the preset are loaded.  The runner takes one merge
\* group when it is given a segment.
LoadSegment(s) ==
  /\ worker[s] = "loading"
  /\ Worker(s, IF mergeGroups > 1 THEN "exit1" ELSE "shard")
  /\ UNCHANGED <<operator, run, stats, moved>>

\* runner.run returns.  With no pipeline at all it has no statistics.
ShardDone(s) ==
  /\ worker[s] = "shard"
  /\ moved' = IF dryRun THEN moved ELSE moved \union {s}
  /\ Worker(s, IF mergeGroups = 0 THEN "exit0" ELSE "stats")
  /\ UNCHANGED <<operator, run, stats>>

\* The statistics are written and the process ends with 0.
WriteStats(s) ==
  /\ worker[s] = "stats"
  /\ stats' = [stats EXCEPT ![s] = "whole"]
  /\ Worker(s, "exit0")
  /\ UNCHANGED <<operator, run, moved>>

\* Fault: the statistics are written although the shard has failed.
WorkerDiesWithStats(s) ==
  /\ worker[s] \in Alive
  /\ Worker(s, "exit1")
  /\ stats' = [stats EXCEPT ![s] = "whole"]
  /\ UNCHANGED <<operator, run, moved>>

\* The worker fails, or is killed, wherever it is; it may leave a statistics
\* file that is cut short, or whole.
WorkerDies(s) ==
  /\ worker[s] \in Alive
  /\ Worker(s, "exit1")
  /\ \/ UNCHANGED stats
     \/ /\ worker[s] = "stats"
        /\ \E left \in {"partial", "whole"} : stats' = [stats EXCEPT ![s] = left]
  /\ UNCHANGED <<operator, run, moved>>

WorkerStep(s) == LoadSegment(s) \/ ShardDone(s) \/ WriteStats(s) \/ WorkerDies(s)

-----------------------------------------------------------------------------
(* The handler, after the workers *)

\* Fault: Promise.all, the first worker that fails ends the wait.
WorkersAwaitedFailFast ==
  \/ \A s \in toRun : worker[s] = "exit0"
  \/ \E s \in toRun : worker[s] = "exit1"

\* Fault: a process that could not be started, or died, never settles.
WorkersAwaitedForever == \A s \in toRun : worker[s] = "exit0"

\* await Promise.allSettled(workers)
WorkersAwaited == \A s \in toRun : worker[s] \in Exited

AwaitWorkers ==
  /\ phase = "workers"
  /\ WorkersAwaited
  /\ phase' = "total"
  /\ UNCHANGED <<operator, dryRun, toRun, access, beforeDone, afterDone, total,
                 exitCode, workers>>

\* Fault: the handler ends at once when a segment failed.
LogRunTotalExits ==
  /\ phase = "total"
  /\ total' = {s \in Segment : stats[s] = "whole"}
  /\ IF \E s \in toRun : worker[s] = "exit1"
     THEN Exit(1) ELSE phase' = "after" /\ UNCHANGED exitCode
  /\ UNCHANGED <<operator, dryRun, toRun, access, beforeDone, afterDone, workers>>

\* logRunTotal: the files that parse are summed, the others skipped.
LogRunTotal ==
  /\ phase = "total"
  /\ total' = {s \in Segment : stats[s] = "whole"}
  /\ phase' = "after"
  /\ UNCHANGED <<operator, dryRun, toRun, access, beforeDone, afterDone, exitCode,
                 workers>>

\* AfterTransferHookComposite: the hooks one after the other.
AfterHook ==
  /\ phase = "after"
  /\ afterDone < NumAfter
  /\ afterDone' = afterDone + 1
  /\ UNCHANGED <<operator, phase, dryRun, toRun, access, beforeDone, total,
                 exitCode, workers>>

\* Fault: the exit code does not tell failed segments.
ExitCodeZero == 0

\* The exit code: 1 when a segment failed.  An after hook that throws does not
\* count.
ExitCode == IF \E s \in toRun : worker[s] = "exit1" THEN 1 ELSE 0

\* The after hooks have run, or one has thrown and the remaining ones are
\* skipped; either way the handler reports and ends.
AfterHooksDone ==
  /\ phase = "after"
  /\ Exit(ExitCode)
  /\ UNCHANGED <<operator, dryRun, toRun, access, beforeDone, afterDone, total,
                 workers>>

\* The orchestrator and its workers are interrupted: no report is left.
Interrupt ==
  /\ phase \notin {"idle", "exit"}
  /\ phase' = "idle"
  /\ worker' = [s \in Segment |-> IF worker[s] \in Alive THEN "exit1" ELSE worker[s]]
  /\ UNCHANGED <<operator, dryRun, toRun, access, beforeDone, afterDone, total,
                 exitCode, stats, moved>>

\* The operator has stopped.
Stopped == phase = "idle" /\ UNCHANGED vars

HandlerStep ==
  \/ \E filter \in SUBSET (0..NumSegments) : ResolveSegments(filter)
  \/ LoadPreset
  \/ \E report \in [Processor -> Status] : CheckAccess(report)
  \/ BeforeHook
  \/ BeforeHooksDone
  \/ SetupFails
  \/ SpawnWorkers
  \/ AwaitWorkers
  \/ LogRunTotal
  \/ AfterHook
  \/ AfterHooksDone

Next ==
  \/ Start
  \/ ReadReport
  \/ HandlerStep
  \/ \E s \in Segment : WorkerStep(s)
  \/ Interrupt
  \/ Stopped

\* The handler and the workers are processes that run; every request of theirs
\* is bounded by a timeout and every scan by its table.
Fairness == WF_vars(HandlerStep) /\ \A s \in Segment : WF_vars(WorkerStep(s))

Spec == Init /\ [][Next]_vars /\ Fairness

-----------------------------------------------------------------------------
(* Properties *)

\* An operator who re-runs what the reports do not clear forgets no segment:
\* over failed segments, workers that could not start, crashes between a shard
\* and its statistics, dry runs, interrupted runs and wrong filters, a segment
\* that is not owed any more has been transferred whole.
NoSegmentForgotten == Segment \ owed \subseteq moved

\* A worker lives only between the hooks of its run, in a run whose access was
\* not refused: whoever touches the target does so after every before hook and
\* before the first after hook, whatever happens to the other workers.
HooksBracketWorkers ==
  (\E s \in Segment : worker[s] \in Alive) =>
    /\ beforeDone = NumBefore
    /\ afterDone = 0
    /\ phase = "workers"
    /\ \A p \in Processor : access[p] \in {"ok", "unknown"}

\* The totals of a run count whole shards only, and none that is reported as a
\* success is missing from them.
TotalsAreHonest ==
  phase = "after" =>
    /\ total \subseteq {s \in toRun : dryRun \/ s \in moved}
    /\ mergeGroups = 1 => {s \in toRun : worker[s] = "exit0"} \subseteq total

\* Once its workers are started, and unless it is interrupted, a run gets to its
\* after hooks, also when every segment failed.
AfterHooksGetTheirTurn ==
  phase = "workers" ~> phase \in {"after", "idle"}

\* Every run ends.
EveryRunEnds == phase \notin {"idle", "exit"} ~> phase \in {"idle", "exit"}
==============================================================================

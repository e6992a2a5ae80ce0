--------------------------- MODULE Transfer_proofs ---------------------------
(***************************************************************************)
(* Theorems about Transfer, for every number of segments, processors,      *)
(* hooks and runs.                                                         *)
(*                                                                         *)
(* NoSegmentForgotten is about what an operator concludes after a run from *)
(* its exit code.  That the conclusion is right needs to be known from the *)
(* workers on: a worker that exits with 0 has moved its segment (Honest),  *)
(* no worker outlives the wait of its run (Bracketed), and an exit code of *)
(* 0 is only given when each worker has exited so (Reported).              *)
(***************************************************************************)
EXTENDS Transfer, TLAPS

BeforeWorkers == {"resolve", "preset", "access", "before", "spawn"}

\* The workers of a run exist between its hooks, and only for its segments.
Bracketed ==
  /\ phase \in BeforeWorkers => worker = NoWorkers /\ stats = NoWorkers
  /\ \A s \in Segment : worker[s] \in Alive => phase = "workers"
  /\ \A s \in Segment : worker[s] # "none" => s \in toRun
  /\ \A s \in toRun : phase \in {"total", "after"} => worker[s] \in Exited

\* What a run has behind it when it gets to its workers.
Admitted ==
  /\ phase \in BeforeWorkers \union {"workers"} => afterDone = 0
  /\ phase \in {"spawn", "workers"} => beforeDone = NumBefore
  /\ phase \in {"before", "spawn", "workers"} =>
       \A p \in Processor : access[p] \in {"ok", "unknown"}

\* What a worker leaves behind tells of its shard.
Honest ==
  \A s \in Segment :
    /\ worker[s] \in {"stats", "exit0"} => dryRun \/ s \in moved
    /\ stats[s] # "none" => s \in toRun /\ (dryRun \/ s \in moved)
    /\ mergeGroups = 1 /\ worker[s] = "exit0" => stats[s] = "whole"

\* What the handler reports tells of the workers.
Reported ==
  /\ phase = "after" => total = {s \in Segment : stats[s] = "whole"}
  /\ phase = "exit" /\ exitCode = 0 => \A s \in toRun : worker[s] = "exit0"

Inv ==
  /\ TypeOK
  /\ Bracketed
  /\ Admitted
  /\ Honest
  /\ Reported
  /\ NoSegmentForgotten

-----------------------------------------------------------------------------
(* Types *)

\* The types of the initial state.
LEMMA TypeInit == Init => TypeOK
<1> USE TransferAssumption DEF Status, Phase, Alive, Exited, NoReport, NoWorkers
<1>1. Init => dryRun \in BOOLEAN
  BY Zenon DEF Init
<1>2. QED
  BY <1>1 DEF Init, TypeOK

\* The variables keep their types, for every configuration of the transfer.
THEOREM TypeCorrect == Spec => []TypeOK
<1> USE TransferAssumption DEF Status, Phase, Alive, Exited
<1>1. Init => TypeOK
  BY TypeInit
<1>2. TypeOK /\ [Next]_vars => TypeOK'
  <2> SUFFICES ASSUME TypeOK, [Next]_vars PROVE TypeOK'
    OBVIOUS
  <2> USE DEF TypeOK, operator, run, workers, Exit, Worker
  <2>1. CASE Start
    BY <2>1 DEF Start, NoReport, NoWorkers
  <2>2. CASE ReadReport
    BY <2>2 DEF ReadReport
  <2>3. ASSUME NEW filter \in SUBSET (0..NumSegments), ResolveSegments(filter)
        PROVE  TypeOK'
    <3>1. InRange(filter) => SegmentsOf(filter) \subseteq Segment
      BY DEF InRange, SegmentsOf, Segment
    <3>2. QED
      BY <2>3, <3>1 DEF ResolveSegments
  <2>4. CASE LoadPreset
    BY <2>4 DEF LoadPreset
  <2>5. ASSUME NEW report \in [Processor -> Status], CheckAccess(report)
        PROVE  TypeOK'
    BY <2>5 DEF CheckAccess
  <2>6. CASE BeforeHook
    BY <2>6 DEF BeforeHook
  <2>7. CASE BeforeHooksDone
    BY <2>7 DEF BeforeHooksDone
  <2>8. CASE SetupFails
    BY <2>8 DEF SetupFails
  <2>9. CASE SpawnWorkers
    BY <2>9 DEF SpawnWorkers
  <2>10. CASE AwaitWorkers
    BY <2>10 DEF AwaitWorkers
  <2>11. CASE LogRunTotal
    BY <2>11 DEF LogRunTotal
  <2>12. CASE AfterHook
    BY <2>12 DEF AfterHook
  <2>13. CASE AfterHooksDone
    BY <2>13 DEF AfterHooksDone, ExitCode
  <2>14. ASSUME NEW s \in Segment, WorkerStep(s) PROVE TypeOK'
    BY <2>14 DEF WorkerStep, LoadSegment, ShardDone, WriteStats, WorkerDies
  <2>15. CASE Interrupt
    BY <2>15 DEF Interrupt
  <2>16. CASE UNCHANGED vars
    BY <2>16 DEF vars
  <2>17. QED
    BY <2>1, <2>2, <2>3, <2>4, <2>5, <2>6, <2>7, <2>8, <2>9, <2>10, <2>11, <2>12,
       <2>13, <2>14, <2>15, <2>16 DEF Next, HandlerStep, Stopped
<1>3. QED
  BY <1>1, <1>2, PTL DEF Spec

-----------------------------------------------------------------------------
(* The inductive invariant *)

\* No run has started: there are no workers and everything is owed.
LEMMA InvInit == Init => Inv
<1>1. Init => TypeOK
  BY TypeInit
<1>2. Init => Bracketed /\ Admitted /\ Honest /\ Reported /\ NoSegmentForgotten
  BY DEF Init, Bracketed, Admitted, Honest, Reported, NoSegmentForgotten,
         BeforeWorkers, Alive, NoWorkers
<1>3. QED
  BY <1>1, <1>2 DEF Inv

\* Start keeps the invariant: a new run begins with no process and no file.
LEMMA StartInv ==
  ASSUME Inv, TypeOK', Start
  PROVE  Inv'
<1> USE DEF Inv, Start, NoWorkers, operator, run, workers, BeforeWorkers,
            Alive, Exited
<1>1. Bracketed'
  BY DEF Bracketed
<1>2. Admitted'
  BY DEF Admitted
<1>3. Honest'
  BY DEF Honest
<1>4. Reported'
  BY DEF Reported
<1>5. NoSegmentForgotten'
  BY DEF NoSegmentForgotten
<1>6. QED
  BY <1>1, <1>2, <1>3, <1>4, <1>5

\* ReadReport keeps the invariant: what the operator takes from the exit code.
LEMMA ReadReportInv ==
  ASSUME Inv, TypeOK', ReadReport
  PROVE  Inv'
<1> USE DEF Inv, ReadReport, operator, run, workers, BeforeWorkers,
            Alive, Exited
<1>1. Bracketed'
  BY DEF Bracketed
<1>2. Admitted'
  BY DEF Admitted
<1>3. Honest'
  BY DEF Honest
<1>4. Reported'
  BY DEF Reported
<1>5. NoSegmentForgotten'
  <2> SUFFICES ASSUME NEW s \in Segment, s \notin owed' PROVE s \in moved
    BY DEF NoSegmentForgotten
  <2>1. CASE s \notin owed
    BY <2>1 DEF NoSegmentForgotten
  <2>2. CASE s \in owed
    <3>1. ~dryRun /\ worker[s] = "exit0"
      BY <2>2 DEF Reported
    <3>2. QED
      BY <3>1 DEF Honest
  <2>3. QED
    BY <2>1, <2>2
<1>6. QED
  BY <1>1, <1>2, <1>3, <1>4, <1>5

\* ResolveSegments keeps the invariant.
LEMMA ResolveSegmentsInv ==
  ASSUME Inv, TypeOK', NEW filter \in SUBSET (0..NumSegments), ResolveSegments(filter)
  PROVE  Inv'
<1> USE DEF Inv, ResolveSegments, Exit, operator, run, workers, BeforeWorkers,
            Alive, Exited
<1>1. Bracketed'
  BY DEF Bracketed, NoWorkers
<1>2. Admitted'
  BY DEF Admitted
<1>3. Honest'
  BY DEF Honest, Bracketed, NoWorkers
<1>4. Reported'
  BY DEF Reported
<1>5. NoSegmentForgotten'
  BY DEF NoSegmentForgotten
<1>6. QED
  BY <1>1, <1>2, <1>3, <1>4, <1>5

\* LoadPreset keeps the invariant.
LEMMA LoadPresetInv ==
  ASSUME Inv, TypeOK', LoadPreset
  PROVE  Inv'
<1> USE DEF Inv, LoadPreset, operator, run, workers, BeforeWorkers,
            Alive, Exited
<1>1. Bracketed'
  BY DEF Bracketed
<1>2. Admitted'
  BY DEF Admitted
<1>3. Honest'
  BY DEF Honest
<1>4. Reported'
  BY DEF Reported
<1>5. NoSegmentForgotten'
  BY DEF NoSegmentForgotten
<1>6. QED
  BY <1>1, <1>2, <1>3, <1>4, <1>5

\* CheckAccess keeps the invariant: only an unblocked report leads on.
LEMMA CheckAccessInv ==
  ASSUME Inv, TypeOK', NEW report \in [Processor -> Status], CheckAccess(report)
  PROVE  Inv'
<1> USE DEF Inv, CheckAccess, Exit, Blocked, Blocking, Status, operator, run, workers, BeforeWorkers,
            Alive, Exited
<1>1. Bracketed'
  BY DEF Bracketed
<1>2. Admitted'
  BY DEF Admitted
<1>3. Honest'
  BY DEF Honest
<1>4. Reported'
  BY DEF Reported
<1>5. NoSegmentForgotten'
  BY DEF NoSegmentForgotten
<1>6. QED
  BY <1>1, <1>2, <1>3, <1>4, <1>5

\* BeforeHook keeps the invariant.
LEMMA BeforeHookInv ==
  ASSUME Inv, TypeOK', BeforeHook
  PROVE  Inv'
<1> USE DEF Inv, BeforeHook, operator, run, workers, BeforeWorkers,
            Alive, Exited
<1>1. Bracketed'
  BY DEF Bracketed
<1>2. Admitted'
  BY DEF Admitted
<1>3. Honest'
  BY DEF Honest
<1>4. Reported'
  BY DEF Reported
<1>5. NoSegmentForgotten'
  BY DEF NoSegmentForgotten
<1>6. QED
  BY <1>1, <1>2, <1>3, <1>4, <1>5

\* BeforeHooksDone keeps the invariant.
LEMMA BeforeHooksDoneInv ==
  ASSUME Inv, TypeOK', BeforeHooksDone
  PROVE  Inv'
<1> USE DEF Inv, BeforeHooksDone, operator, run, workers, BeforeWorkers,
            Alive, Exited
<1>1. Bracketed'
  BY DEF Bracketed
<1>2. Admitted'
  BY DEF Admitted
<1>3. Honest'
  BY DEF Honest
<1>4. Reported'
  BY DEF Reported
<1>5. NoSegmentForgotten'
  BY DEF NoSegmentForgotten
<1>6. QED
  BY <1>1, <1>2, <1>3, <1>4, <1>5

\* SetupFails keeps the invariant.
LEMMA SetupFailsInv ==
  ASSUME Inv, TypeOK', SetupFails
  PROVE  Inv'
<1> USE DEF Inv, SetupFails, Exit, operator, run, workers, BeforeWorkers,
            Alive, Exited
<1>1. Bracketed'
  BY DEF Bracketed
<1>2. Admitted'
  BY DEF Admitted
<1>3. Honest'
  BY DEF Honest
<1>4. Reported'
  BY DEF Reported
<1>5. NoSegmentForgotten'
  BY DEF NoSegmentForgotten
<1>6. QED
  BY <1>1, <1>2, <1>3, <1>4, <1>5

\* SpawnWorkers keeps the invariant: only segments of the run get a process.
LEMMA SpawnWorkersInv ==
  ASSUME Inv, TypeOK', SpawnWorkers
  PROVE  Inv'
<1> USE DEF Inv, SpawnWorkers, NoWorkers, operator, run, workers, BeforeWorkers,
            Alive, Exited
<1>1. Bracketed'
  BY DEF Bracketed
<1>2. Admitted'
  BY DEF Admitted
<1>3. Honest'
  BY DEF Honest
<1>4. Reported'
  BY DEF Reported
<1>5. NoSegmentForgotten'
  BY DEF NoSegmentForgotten
<1>6. QED
  BY <1>1, <1>2, <1>3, <1>4, <1>5

\* AwaitWorkers keeps the invariant.
LEMMA AwaitWorkersInv ==
  ASSUME Inv, TypeOK', AwaitWorkers
  PROVE  Inv'
<1> USE DEF Inv, AwaitWorkers, WorkersAwaited, operator, run, workers, BeforeWorkers,
            Alive, Exited
<1>1. Bracketed'
  BY DEF Bracketed
<1>2. Admitted'
  BY DEF Admitted
<1>3. Honest'
  BY DEF Honest
<1>4. Reported'
  BY DEF Reported
<1>5. NoSegmentForgotten'
  BY DEF NoSegmentForgotten
<1>6. QED
  BY <1>1, <1>2, <1>3, <1>4, <1>5

\* LogRunTotal keeps the invariant.
LEMMA LogRunTotalInv ==
  ASSUME Inv, TypeOK', LogRunTotal
  PROVE  Inv'
<1> USE DEF Inv, LogRunTotal, operator, run, workers, BeforeWorkers,
            Alive, Exited
<1>1. Bracketed'
  BY DEF Bracketed
<1>2. Admitted'
  BY DEF Admitted
<1>3. Honest'
  BY DEF Honest
<1>4. Reported'
  BY DEF Reported
<1>5. NoSegmentForgotten'
  BY DEF NoSegmentForgotten
<1>6. QED
  BY <1>1, <1>2, <1>3, <1>4, <1>5

\* AfterHook keeps the invariant.
LEMMA AfterHookInv ==
  ASSUME Inv, TypeOK', AfterHook
  PROVE  Inv'
<1> USE DEF Inv, AfterHook, operator, run, workers, BeforeWorkers,
            Alive, Exited
<1>1. Bracketed'
  BY DEF Bracketed
<1>2. Admitted'
  BY DEF Admitted
<1>3. Honest'
  BY DEF Honest
<1>4. Reported'
  BY DEF Reported
<1>5. NoSegmentForgotten'
  BY DEF NoSegmentForgotten
<1>6. QED
  BY <1>1, <1>2, <1>3, <1>4, <1>5

\* AfterHooksDone keeps the invariant.
LEMMA AfterHooksDoneInv ==
  ASSUME Inv, TypeOK', AfterHooksDone
  PROVE  Inv'
<1> USE DEF Inv, AfterHooksDone, Exit, ExitCode, operator, run, workers, BeforeWorkers,
            Alive, Exited
<1>1. Bracketed'
  BY DEF Bracketed
<1>2. Admitted'
  BY DEF Admitted
<1>3. Honest'
  BY DEF Honest
<1>4. Reported'
  BY DEF Reported, Bracketed
<1>5. NoSegmentForgotten'
  BY DEF NoSegmentForgotten
<1>6. QED
  BY <1>1, <1>2, <1>3, <1>4, <1>5

\* LoadSegment keeps the invariant.
LEMMA LoadSegmentInv ==
  ASSUME Inv, TypeOK', NEW s \in Segment, LoadSegment(s)
  PROVE  Inv'
<1> USE DEF Inv, LoadSegment, Worker, operator, run, workers, BeforeWorkers,
            Alive, Exited
<1>1. Bracketed'
  BY DEF Bracketed
<1>2. Admitted'
  BY DEF Admitted
<1>3. Honest'
  BY DEF Honest
<1>4. Reported'
  BY DEF Reported
<1>5. NoSegmentForgotten'
  BY DEF NoSegmentForgotten
<1>6. QED
  BY <1>1, <1>2, <1>3, <1>4, <1>5

\* ShardDone keeps the invariant.
LEMMA ShardDoneInv ==
  ASSUME Inv, TypeOK', NEW s \in Segment, ShardDone(s)
  PROVE  Inv'
<1> USE DEF Inv, ShardDone, Worker, operator, run, workers, BeforeWorkers,
            Alive, Exited
<1>1. Bracketed'
  BY DEF Bracketed
<1>2. Admitted'
  BY DEF Admitted
<1>3. Honest'
  BY DEF Honest
<1>4. Reported'
  BY DEF Reported
<1>5. NoSegmentForgotten'
  BY DEF NoSegmentForgotten
<1>6. QED
  BY <1>1, <1>2, <1>3, <1>4, <1>5

\* WriteStats keeps the invariant.
LEMMA WriteStatsInv ==
  ASSUME Inv, TypeOK', NEW s \in Segment, WriteStats(s)
  PROVE  Inv'
<1> USE DEF Inv, WriteStats, Worker, operator, run, workers, BeforeWorkers,
            Alive, Exited
<1>1. Bracketed'
  BY DEF Bracketed
<1>2. Admitted'
  BY DEF Admitted
<1>3. Honest'
  BY DEF Honest, Bracketed, TypeOK
<1>4. Reported'
  BY DEF Reported, Bracketed
<1>5. NoSegmentForgotten'
  BY DEF NoSegmentForgotten
<1>6. QED
  BY <1>1, <1>2, <1>3, <1>4, <1>5

\* WorkerDies keeps the invariant.
LEMMA WorkerDiesInv ==
  ASSUME Inv, TypeOK', NEW s \in Segment, WorkerDies(s)
  PROVE  Inv'
<1> USE DEF Inv, WorkerDies, Worker, operator, run, workers, BeforeWorkers,
            Alive, Exited
<1>1. Bracketed'
  BY DEF Bracketed
<1>2. Admitted'
  BY DEF Admitted
<1>3. Honest'
  BY DEF Honest, Bracketed, TypeOK
<1>4. Reported'
  BY DEF Reported, Bracketed
<1>5. NoSegmentForgotten'
  BY DEF NoSegmentForgotten
<1>6. QED
  BY <1>1, <1>2, <1>3, <1>4, <1>5

\* Interrupt keeps the invariant.
LEMMA InterruptInv ==
  ASSUME Inv, TypeOK', Interrupt
  PROVE  Inv'
<1> USE DEF Inv, Interrupt, operator, run, workers, BeforeWorkers,
            Alive, Exited
<1>1. Bracketed'
  BY DEF Bracketed
<1>2. Admitted'
  BY DEF Admitted
<1>3. Honest'
  BY DEF Honest
<1>4. Reported'
  BY DEF Reported
<1>5. NoSegmentForgotten'
  BY DEF NoSegmentForgotten
<1>6. QED
  BY <1>1, <1>2, <1>3, <1>4, <1>5

\* Every step keeps the invariant.
LEMMA InvNext == Inv /\ TypeOK' /\ [Next]_vars => Inv'
<1> SUFFICES ASSUME Inv, TypeOK', [Next]_vars PROVE Inv'
  OBVIOUS
<1>1. ASSUME HandlerStep PROVE Inv'
  BY <1>1, ResolveSegmentsInv, LoadPresetInv, CheckAccessInv, BeforeHookInv,
     BeforeHooksDoneInv, SetupFailsInv, SpawnWorkersInv, AwaitWorkersInv,
     LogRunTotalInv, AfterHookInv, AfterHooksDoneInv DEF HandlerStep
<1>2. ASSUME NEW s \in Segment, WorkerStep(s) PROVE Inv'
  BY <1>2, LoadSegmentInv, ShardDoneInv, WriteStatsInv, WorkerDiesInv
     DEF WorkerStep
<1>3. CASE Start \/ ReadReport \/ Interrupt
  BY <1>3, StartInv, ReadReportInv, InterruptInv
<1>4. CASE UNCHANGED vars
  BY <1>4 DEF vars, operator, run, workers, Inv, TypeOK, Bracketed, Admitted,
              Honest, Reported, NoSegmentForgotten
<1>5. QED
  BY <1>1, <1>2, <1>3, <1>4 DEF Next, Stopped

-----------------------------------------------------------------------------
(* The theorems *)

\* Inv holds throughout.
THEOREM Invariance == Spec => []Inv
<1>1. Init => Inv
  BY InvInit
<1>2. Inv /\ TypeOK' /\ [Next]_vars => Inv'
  BY InvNext
<1>3. QED
  BY <1>1, <1>2, TypeCorrect, PTL DEF Spec

\* An operator who re-runs what the reports do not clear has, when nothing is
\* owed any more, transferred every segment.
THEOREM NothingForgotten == Spec => []NoSegmentForgotten
<1>1. Inv => NoSegmentForgotten
  BY DEF Inv
<1>2. QED
  BY <1>1, Invariance, PTL

\* Worker processes run strictly between the hooks of a run that was admitted.
THEOREM WorkersAreBracketed == Spec => []HooksBracketWorkers
<1>1. Inv => HooksBracketWorkers
  BY DEF Inv, Bracketed, Admitted, HooksBracketWorkers
<1>2. QED
  BY <1>1, Invariance, PTL

\* The totals of a run are those of shards that were transferred, and of all
\* that were reported as successes.
THEOREM TotalsCount == Spec => []TotalsAreHonest
<1>1. Inv => TotalsAreHonest
  BY DEF Inv, TypeOK, Honest, Reported, TotalsAreHonest
<1>2. QED
  BY <1>1, Invariance, PTL
=============================================================================

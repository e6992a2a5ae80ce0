-------------------------------- MODULE FixLive --------------------------------
(***************************************************************************)
(* The fix-live command on one table of a system that may be in use.       *)
(*                                                                         *)
(* A run scans the L rows of the table in parallel segments               *)
(* (BaseLiveFieldRunner.runSegment).  For each of them it reads all rows   *)
(* of the entry, lets the reconciler decide which of L, P and the          *)
(* published REV# carry a wrong live field (LiveFieldReconciler.decide),   *)
(* and in a live run corrects each by an update of its own, conditioned on *)
(* the row's _md (BaseLiveFieldRunner.write,                               *)
(* DynamoDbClient.updateAttribute).  Editors change, publish and delete    *)
(* entries meanwhile.  A live run is admitted when a dry run completed     *)
(* earlier (selectMode, FixLiveState).                                     *)
(***************************************************************************)
EXTENDS Naturals, FiniteSets, Sequences

CONSTANTS
  Entry,              \* the entries, one PK each
  Internal,           \* those of the File Manager's models
  Table,              \* "ddb", or "os" for the OpenSearch companion table
  Segment,            \* the scan segments
  SegmentOf,          \* SegmentOf[e]: the segment in which e is found
  Concurrency,        \* --concurrency: segments in flight
  MaxVersion,         \* revisions 1..MaxVersion
  RevisionSk,         \* RevisionSk[v]: "REV#" and the padded v, different for each
  NoVersion,          \* a version that is not a positive integer
  NoLive, EmptyLive,  \* live: null or missing; live without a version
  Absent,             \* there is no such row
  None,               \* no entry in hand
  Content,            \* what editors write into a row
  Groups,             \* what an entry may look like when a migration has ended
  MaxRetries,         \* maxRetries of the DynamoDB client
  MaxEdits, MaxRuns   \* bounds of the model

Version == 1..MaxVersion
Live == Version \union {NoLive, EmptyLive}

\* The sort keys of an entry's rows; the OpenSearch table has no REV# rows.
Sk == {"L", "P"} \union (IF Table = "ddb" THEN {RevisionSk[v] : v \in Version} ELSE {})

\* They in the order in which a query returns the rows.
SkOrder == <<"L", "P">> \o (IF Table = "ddb" THEN RevisionSk ELSE <<>>)

\* What is in a row, beside its _md; "garbled" is a row of the OpenSearch table
\* whose data cannot be decompressed.
Data == [status : {"draft", "published", "garbled"},
         version : Version \union {NoVersion}, live : Live]

Row == [status : {"draft", "published", "garbled"},
        version : Version \union {NoVersion}, live : Live, md : 0..MaxEdits]

WithMd(data, md) ==
  [status |-> data.status, version |-> data.version, live |-> data.live, md |-> md]

\* Why an entry is skipped.
Reason ==
  {"no-latest-record", "latest-status-contradicts-unpublished", "invalid-version",
   "latest-status-contradicts-published", "revision-record-missing",
   "revision-version-mismatch", "decompress-failed", "changed-during-run"}

ASSUME FixLiveAssumption ==
  /\ IsFiniteSet(Entry) /\ IsFiniteSet(Segment)
  /\ Internal \subseteq Entry /\ None \notin Entry \union Reason
  /\ Table \in {"ddb", "os"}
  /\ SegmentOf \in [Entry -> Segment]
  /\ Concurrency \in Nat \ {0}
  /\ MaxVersion \in Nat \ {0}
  /\ RevisionSk \in [Version -> STRING]
  /\ \A v, w \in Version : v # w => RevisionSk[v] # RevisionSk[w]
  /\ \A v \in Version : RevisionSk[v] \notin {"L", "P"}
  /\ NoVersion \notin Version
  /\ NoLive \notin Version /\ EmptyLive \notin Version \union {NoLive}
  /\ Absent \notin Row
  /\ Content \subseteq Data
  /\ Groups \subseteq [Sk -> Data \union {Absent}]
  /\ MaxRetries \in Nat /\ MaxEdits \in Nat /\ MaxRuns \in Nat

VARIABLES
  table,       \* table[e][sk]: the rows of the table
  edits,       \* how many edits there were; the next one's _md
  mode,        \* of the latest run, "dry-run" or "live"
  outcome,     \* of the latest run: "none", "running", "ok", "failed", "killed"
  runs,        \* how many runs there were
  lastDryRun,  \* whether the state file holds a completed dry run
  step,        \* where each segment is
  toScan,      \* the entries whose L row the scan has yet to pass
  entry,       \* the entry a segment has in hand
  read,        \* how many of its sort keys the query has passed
  group,       \* what the query has read
  pending,     \* the updates of the entry that have no result yet
  attempt,     \* the attempts of each of them
  late,        \* updates given up by the client and still on their way
  report,      \* the report of the latest run
  written,     \* history: the rows the latest run has updated
  edited       \* history: the rows edited since a run last read them

system == <<table, edits, edited>>
command == <<mode, outcome, runs, lastDryRun>>
segments == <<step, toScan, entry, read, group, pending, attempt>>
traces == <<late, report, written>>
vars == <<system, command, segments, traces>>

InFlight == {"scanning", "reading", "deciding", "writing"}

\* The lines of fix-live-report.jsonl.
Line ==
  [kind : {"skip"}, entry : Entry, reason : Reason]
    \union [kind : {"dry-run", "written", "condition-failed"}, entry : Entry, sk : Sk]

Skip(e, reason) == [kind |-> "skip", entry |-> e, reason |-> reason]
Change(e, sk, result) == [kind |-> result, entry |-> e, sk |-> sk]

NoGroup == [sk \in Sk |-> Absent]
NoAttempts == [sk \in Sk |-> 0]

\* A conditional update: the row as it was read, whose _md is the condition, and
\* the value for its live field.
Update == [entry : Entry, sk : Sk, row : Row, live : Live]

TypeOK ==
  /\ table \in [Entry -> [Sk -> Row \union {Absent}]]
  /\ edits \in 0..MaxEdits
  /\ mode \in {"dry-run", "live"}
  /\ outcome \in {"none", "running", "ok", "failed", "killed"}
  /\ runs \in 0..MaxRuns
  /\ lastDryRun \in BOOLEAN
  /\ step \in [Segment -> {"waiting", "done", "failed"} \union InFlight]
  /\ toScan \in [Segment -> SUBSET Entry]
  /\ entry \in [Segment -> Entry \union {None}]
  /\ read \in [Segment -> 0..Len(SkOrder)]
  /\ group \in [Segment -> [Sk -> Row \union {Absent}]]
  /\ pending \in [Segment -> SUBSET Sk]
  /\ attempt \in [Segment -> [Sk -> 0..MaxRetries]]
  /\ late \subseteq Update
  /\ report \subseteq Line
  /\ written \subseteq Entry \X Sk
  /\ edited \subseteq Entry \X Sk

\* A migrated system, before the first run.
Init ==
  /\ \E g \in [Entry -> Groups] :
       table = [e \in Entry |-> [sk \in Sk |->
                  IF g[e][sk] = Absent THEN Absent ELSE WithMd(g[e][sk], 0)]]
  /\ edits = 0
  /\ mode = "dry-run"
  /\ outcome = "none"
  /\ runs = 0
  /\ lastDryRun = FALSE
  /\ step = [s \in Segment |-> "done"]
  /\ toScan = [s \in Segment |-> {}]
  /\ entry = [s \in Segment |-> None]
  /\ read = [s \in Segment |-> 0]
  /\ group = [s \in Segment |-> NoGroup]
  /\ pending = [s \in Segment |-> {}]
  /\ attempt = [s \in Segment |-> NoAttempts]
  /\ late = {}
  /\ report = {}
  /\ written = {}
  /\ edited = {}

-----------------------------------------------------------------------------
(* LiveFieldReconciler.decide, on the rows g of one entry *)

Published(g) == g["P"] # Absent
RevisionOf(g) == RevisionSk[g["P"].version]

\* The status of L says that it is the published revision, or its version does,
\* and the other says that it is not.
StatusContradicts(g) ==
  (g["L"].status = "published") # (g["L"].version = g["P"].version)

\* Why the entry is skipped, or None.
SkipReason(g) ==
  CASE g["L"] = Absent -> "no-latest-record"
    [] g["L"] # Absent /\ ~Published(g) ->
         IF g["L"].status = "published" THEN "latest-status-contradicts-unpublished"
                                        ELSE None
    [] g["L"] # Absent /\ Published(g) ->
         IF g["P"].version \notin Version THEN "invalid-version"
         ELSE IF StatusContradicts(g) THEN "latest-status-contradicts-published"
         ELSE IF Table = "os" THEN None
         ELSE IF g[RevisionOf(g)] = Absent THEN "revision-record-missing"
         ELSE IF g[RevisionOf(g)].version # g["P"].version
              THEN "revision-version-mismatch"
         ELSE None

\* Fault: the published revision's own row is forgotten.
TargetsWithoutRevision(g) ==
  IF ~Published(g) THEN {"L"} ELSE {"L", "P"}

\* The rows whose live field the decision is about, and what it has to be.
Targets(g) ==
  IF ~Published(g) THEN {"L"}
  ELSE {"L", "P"} \union (IF Table = "ddb" THEN {RevisionOf(g)} ELSE {})

ExpectedLive(g) == IF Published(g) THEN g["P"].version ELSE NoLive

\* Fault: an empty live is taken for a version.
ChangesButEmpty(g) ==
  {sk \in Targets(g) : g[sk].live \notin {ExpectedLive(g), EmptyLive}}

\* reconcile, for every target: a missing, empty, wrong or stale live is a change.
Changes(g) == {sk \in Targets(g) : g[sk].live # ExpectedLive(g)}

-----------------------------------------------------------------------------
(* A segment: BaseLiveFieldRunner.runSegment *)

Go(s, where) == step' = [step EXCEPT ![s] = where]

\* runConcurrently over the segments: each of the lanes takes the next segment,
\* until it meets a failure; the other lanes go on.
CanStart(s) ==
  /\ step[s] = "waiting"
  /\ Cardinality({t \in Segment : step[t] \in InFlight \union {"failed"}}) < Concurrency

StartSegment(s) ==
  /\ CanStart(s)
  /\ Go(s, "scanning")
  /\ UNCHANGED <<system, command, toScan, entry, read, group, pending, attempt, traces>>

\* The scan comes to e, and yields its L row if there is one.  In the DynamoDB
\* table that row tells whether the entry is of an internal model.
ScanRow(s, e) ==
  /\ step[s] = "scanning"
  /\ e \in toScan[s]
  /\ toScan' = [toScan EXCEPT ![s] = @ \ {e}]
  /\ IF table[e]["L"] = Absent \/ (Table = "ddb" /\ e \in Internal)
     THEN UNCHANGED <<step, entry, read, group>>
     ELSE /\ Go(s, "reading")
          /\ entry' = [entry EXCEPT ![s] = e]
          /\ read' = [read EXCEPT ![s] = 0]
          /\ group' = [group EXCEPT ![s] = NoGroup]
  /\ UNCHANGED <<system, command, pending, attempt, traces>>

\* queryAll comes to the next row of the entry.
QueryRow(s) ==
  LET sk == SkOrder[read[s] + 1]
  IN  /\ step[s] = "reading"
      /\ group' = [group EXCEPT ![s][sk] = table[entry[s]][sk]]
      /\ read' = [read EXCEPT ![s] = @ + 1]
      /\ edited' = edited \ {<<entry[s], sk>>}
      /\ Go(s, IF read'[s] = Len(SkOrder) THEN "deciding" ELSE "reading")
      /\ UNCHANGED <<table, edits, command, toScan, entry, pending, attempt, traces>>

\* OsLiveFieldRunner.prepareGroup: one row that cannot be decompressed is enough.
Garbled(g) ==
  Table = "os" /\ \E sk \in Sk : g[sk] # Absent /\ g[sk].status = "garbled"

\* Fault: the model is looked for in the row as it is, where it is compressed.
IgnoredCompressed(e, g) == Table = "os" /\ e \in Internal /\ g = NoGroup

\* Only the decompressed L row of the OpenSearch table tells of internal models.
Ignored(e, g) ==
  Table = "os" /\ e \in Internal /\ g["L"] # Absent /\ ~Garbled(g)

\* Why nothing is written to the entry, or None.
SkipOf(g) == IF Garbled(g) THEN "decompress-failed" ELSE SkipReason(g)

\* Fault: the rows that are there are changed when the revision is another.
ChangesOfDespite(e, g) ==
  IF Ignored(e, g) \/ SkipOf(g) \notin {None, "revision-version-mismatch"}
  THEN {} ELSE Changes(g)

\* A skip is of the whole entry.
ChangesOf(e, g) == IF Ignored(e, g) \/ SkipOf(g) # None THEN {} ELSE Changes(g)

SkipsOf(e, g) ==
  IF Ignored(e, g) \/ SkipOf(g) = None THEN {} ELSE {Skip(e, SkipOf(g))}

\* prepareGroup, decide, and the beginning of applyChanges.
Decide(s) ==
  LET e == entry[s]
      g == group[s]
      changes == ChangesOf(e, g)
      planned == IF mode = "live" THEN {}
                 ELSE {Change(e, sk, "dry-run") : sk \in changes}
  IN  /\ step[s] = "deciding"
      /\ report' = report \union SkipsOf(e, g) \union planned
      /\ pending' = [pending EXCEPT ![s] = IF mode = "live" THEN changes ELSE {}]
      /\ attempt' = [attempt EXCEPT ![s] = NoAttempts]
      /\ Go(s, IF pending'[s] = {} THEN "scanning" ELSE "writing")
      /\ UNCHANGED <<system, command, toScan, entry, read, group, late, written>>

\* A scan or a query fails for good; the run is rejected at once.
ReadFails(s) ==
  /\ step[s] \in {"scanning", "reading"}
  /\ Go(s, "failed")
  /\ outcome' = "failed"
  /\ UNCHANGED <<system, mode, runs, lastDryRun, toScan, entry, read, group,
                 pending, attempt, traces>>

SegmentDone(s) ==
  /\ step[s] = "scanning"
  /\ toScan[s] = {}
  /\ Go(s, "done")
  /\ UNCHANGED <<system, command, toScan, entry, read, group, pending, attempt, traces>>

-----------------------------------------------------------------------------
(* The updates of one entry: BaseLiveFieldRunner.write, updateAttribute.     *)
(* There are three at most, fewer than the write lanes, so that all are      *)
(* under way at once; one that fails does not stop the others.               *)

UpdateOf(s, sk) ==
  [entry |-> entry[s], sk |-> sk, row |-> group[s][sk], live |-> ExpectedLive(group[s])]

\* Fault: the update is not conditioned.
AcceptsAny(u) == table[u.entry][u.sk] # Absent

\* The table evaluates the condition on the row's _md.
Accepts(u) ==
  table[u.entry][u.sk] # Absent /\ table[u.entry][u.sk].md = u.row.md

\* The row after the update: in the OpenSearch table data is one attribute, which
\* is written as it was read but for its live field.
Updated(u) ==
  [(IF Table = "ddb" THEN table[u.entry][u.sk] ELSE u.row) EXCEPT
     !.live = u.live, !.md = table[u.entry][u.sk].md]

\* The update arrives at the table.
Arrive(u) ==
  IF Accepts(u)
  THEN /\ table' = [table EXCEPT ![u.entry][u.sk] = Updated(u)]
       /\ written' = written \union {<<u.entry, u.sk>>}
  ELSE UNCHANGED <<table, written>>

\* An update the client gets no answer for has arrived, is lost, or arrives later.
Unanswered(u) ==
  \/ Arrive(u) /\ UNCHANGED late
  \/ late' = late \union {u} /\ UNCHANGED <<table, written>>
  \/ UNCHANGED <<table, written, late>>

\* Fault: the segment waits for one more result.
SettleWaiting(s, sk) ==
  /\ pending' = [pending EXCEPT ![s] = @ \ {sk}]
  /\ UNCHANGED step

\* The update of sk has its result; the last one takes the segment on to the next
\* entry, if none has failed.
Settle(s, sk) ==
  /\ pending' = [pending EXCEPT ![s] = @ \ {sk}]
  /\ step' = IF step[s] = "writing" /\ pending'[s] = {}
             THEN [step EXCEPT ![s] = "scanning"] ELSE step

\* Fault: what a failed condition says is not reported.
ResultLinesSilent(u) ==
  IF Accepts(u) THEN {Change(u.entry, u.sk, "written")} ELSE {}

ResultLines(u) ==
  IF Accepts(u) THEN {Change(u.entry, u.sk, "written")}
  ELSE {Change(u.entry, u.sk, "condition-failed"), Skip(u.entry, "changed-during-run")}

UpdateAnswered(s, sk) ==
  LET u == UpdateOf(s, sk)
  IN  /\ sk \in pending[s]
      /\ Arrive(u)
      /\ Settle(s, sk)
      /\ report' = report \union ResultLines(u)
      /\ UNCHANGED <<edits, edited, command, toScan, entry, read, group, attempt, late>>

MayRetry(s, sk) == attempt[s][sk] < MaxRetries

\* executeWithRetry: a retryable error, such as a connection that breaks.
UpdateRetried(s, sk) ==
  /\ sk \in pending[s]
  /\ MayRetry(s, sk)
  /\ attempt' = [attempt EXCEPT ![s][sk] = @ + 1]
  /\ Unanswered(UpdateOf(s, sk))
  /\ UNCHANGED <<edits, edited, command, step, toScan, entry, read, group, pending,
                 report>>

\* The last attempt, a timeout, or an error that is not retried.  The run is
\* rejected at once; the entry's other updates and the other segments go on.
UpdateFails(s, sk) ==
  /\ sk \in pending[s]
  /\ Unanswered(UpdateOf(s, sk))
  /\ pending' = [pending EXCEPT ![s] = @ \ {sk}]
  /\ Go(s, "failed")
  /\ outcome' = "failed"
  /\ UNCHANGED <<edits, edited, mode, runs, lastDryRun, toScan, entry, read, group,
                 attempt, report>>

\* An update that was given up arrives.
LateArrival(u) ==
  /\ u \in late
  /\ late' = late \ {u}
  /\ Arrive(u)
  /\ UNCHANGED <<edits, edited, command, segments, report>>

-----------------------------------------------------------------------------
(* The command: FixLiveCommand.run, selectMode, FixLiveState *)

\* The process lives as long as something is under way in it.
Working ==
  \E s \in Segment : step[s] \in InFlight \/ pending[s] # {} \/ CanStart(s)

\* Fault: the state file is not looked at.
AdmittedAlways(m) == m \in {"dry-run", "live"}

\* selectMode: a live run needs a completed dry run.
Admitted(m) == m = "live" => lastDryRun

Start(m) ==
  /\ outcome # "running" /\ ~Working
  /\ runs < MaxRuns
  /\ Admitted(m)
  /\ mode' = m
  /\ outcome' = "running"
  /\ runs' = runs + 1
  /\ step' = [s \in Segment |-> "waiting"]
  /\ toScan' = [s \in Segment |-> {e \in Entry : SegmentOf[e] = s}]
  /\ entry' = [s \in Segment |-> None]
  /\ read' = [s \in Segment |-> 0]
  /\ group' = [s \in Segment |-> NoGroup]
  /\ attempt' = [s \in Segment |-> NoAttempts]
  /\ late' = {}
  /\ report' = {}
  /\ written' = {}
  /\ UNCHANGED <<system, lastDryRun, pending>>

\* Every segment is done; a dry run is recorded in the state file.
RunEnds ==
  /\ outcome = "running"
  /\ \A s \in Segment : step[s] = "done"
  /\ outcome' = "ok"
  /\ lastDryRun' = (lastDryRun \/ mode = "dry-run")
  /\ UNCHANGED <<system, mode, runs, segments, traces>>

\* The process is killed; the updates it has sent may still arrive.
Kill ==
  /\ Working
  /\ outcome' = "killed"
  /\ step' = [s \in Segment |-> "failed"]
  /\ late' = late \union UNION {{UpdateOf(s, sk) : sk \in pending[s]} : s \in Segment}
  /\ pending' = [s \in Segment |-> {}]
  /\ UNCHANGED <<system, mode, runs, lastDryRun, toScan, entry, read, group,
                 attempt, report, written>>

-----------------------------------------------------------------------------
(* Editors: rows are written and deleted with a new _md, one at a time *)

Edit(e, sk) ==
  /\ edits < MaxEdits
  /\ \/ \E data \in Content :
          table' = [table EXCEPT ![e][sk] = WithMd(data, edits + 1)]
     \/ table[e][sk] # Absent /\ table' = [table EXCEPT ![e][sk] = Absent]
  /\ edits' = edits + 1
  /\ edited' = edited \union {<<e, sk>>}
  /\ UNCHANGED <<command, segments, traces>>

\* No run is under way and no further one is counted.
Finished ==
  /\ runs = MaxRuns /\ outcome # "running" /\ ~Working
  /\ UNCHANGED vars

SegmentStep(s) ==
  \/ StartSegment(s)
  \/ \E e \in Entry : ScanRow(s, e)
  \/ QueryRow(s)
  \/ Decide(s)
  \/ ReadFails(s)
  \/ SegmentDone(s)
  \/ \E sk \in Sk : UpdateAnswered(s, sk) \/ UpdateRetried(s, sk) \/ UpdateFails(s, sk)

Next ==
  \/ \E m \in {"dry-run", "live"} : Start(m)
  \/ \E s \in Segment : SegmentStep(s)
  \/ RunEnds
  \/ Kill
  \/ \E u \in late : LateArrival(u)
  \/ \E e \in Entry, sk \in Sk : Edit(e, sk)
  \/ Finished

\* The process goes on with each of its segments, whose requests are bounded by
\* a timeout and a number of retries, and with the end of the run.
Fairness == WF_vars(RunEnds) /\ \A s \in Segment : WF_vars(SegmentStep(s))

Spec == Init /\ [][Next]_vars /\ Fairness

-----------------------------------------------------------------------------
(* Properties *)

\* What v6 maintains: L, P and the published REV# carry the published version,
\* and L carries none when nothing is published.
InSync(e) ==
  LET rows == table[e]
      v == rows["P"].version
      is(sk, live) == rows[sk] # Absent /\ rows[sk].live = live
  IN  IF rows["P"] = Absent THEN is("L", NoLive)
      ELSE /\ v \in Version
           /\ is("L", v) /\ is("P", v)
           /\ Table = "ddb" =>
                is(RevisionSk[v], v) /\ rows[RevisionSk[v]].version = v

\* No row is overwritten that an editor has changed since the run read it, also
\* by an update that arrives late or twice, and but for its live field a row is
\* never changed.
NoFresherRowOverwritten ==
  [][\A e \in Entry, sk \in Sk :
       table'[e][sk] # table[e][sk] /\ edits' = edits =>
         /\ <<e, sk>> \notin edited
         /\ table[e][sk] # Absent
         /\ table'[e][sk] = [table[e][sk] EXCEPT !.live = table'[e][sk].live]]_vars

\* A run that ended well has left no entry behind: each entry that has an L row,
\* and that nobody edited since it was read, is in sync, has a skip in the report
\* that says why not, or a change that a dry run would make.
SettledOrReported ==
  outcome = "ok" =>
    \A e \in Entry \ Internal :
      table[e]["L"] # Absent /\ (\A sk \in Sk : <<e, sk>> \notin edited) =>
        \/ InSync(e)
        \/ \E r \in Reason : Skip(e, r) \in report
        \/ mode = "dry-run" /\ \E sk \in Sk : Change(e, sk, "dry-run") \in report

\* A row is written only of an entry the reconciler was certain about: a skip for
\* a reason of its own, or an entry of an internal model, means that no row of
\* the entry was written by the run.
WrittenWhenCertain ==
  /\ \A l \in report :
       l.kind = "skip" /\ l.reason # "changed-during-run" =>
         \A sk \in Sk : <<l.entry, sk>> \notin written
  /\ \A e \in Internal, sk \in Sk : <<e, sk>> \notin written

\* The report is an audit trail: what it calls written was written, and when the
\* run ended well each row that was written, by whichever attempt, has a line.
ReportIsAuditTrail ==
  /\ \A e \in Entry, sk \in Sk :
       Change(e, sk, "written") \in report => <<e, sk>> \in written
  /\ outcome = "ok" =>
       \A w \in written :
         \E result \in {"written", "condition-failed"} :
           Change(w[1], w[2], result) \in report

\* Nothing is ever written unless a dry run was completed before, whatever runs
\* were started, failed or were killed.
NothingWrittenUnadmitted == written # {} => lastDryRun

\* A run that is started comes to an end, and its process as well.
RunsEnd == Working ~> ~Working

\* The guide says "A skip means the whole entry was left untouched".
SkipLeavesEntryUntouched ==
  \A l \in report : l.kind = "skip" => \A sk \in Sk : <<l.entry, sk>> \notin written
==============================================================================

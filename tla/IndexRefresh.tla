----------------------------- MODULE IndexRefresh -----------------------------
(***************************************************************************)
(* The refresh_interval of the target's OpenSearch indexes over one        *)
(* transfer: every worker process disables it just before it first writes  *)
(* to an index (OsProcessor.ensureIndex), remembers the value it found in  *)
(* its TouchedIndexes, and writes that memory to a file of its own when    *)
(* its shard ends (OsProcessor.afterShard).  When all workers have ended,  *)
(* well or not, the orchestrator merges the files and puts the values back *)
(* (EnableRefreshHook).                                                    *)
(*                                                                         *)
(* The workers share nothing but the cluster: the check whether an index   *)
(* exists, the read of its settings and the write that disables them are   *)
(* three requests, and another worker's requests can come in between.      *)
(***************************************************************************)
EXTENDS Naturals, FiniteSets

CONSTANTS
  Segment,     \* the segments run, one worker process each
  Index,       \* the indexes the records of the run belong to
  Interval,    \* refresh intervals that refresh: "1s", "30s", ...
  Default,     \* DEFAULT_REFRESH_INTERVAL, "1s"
  Disabled,    \* DISABLED_REFRESH_INTERVAL, "-1"
  Unset,       \* the index exists and sets no refresh_interval
  Absent,      \* there is no such index
  None,        \* nothing remembered
  MaxRetries   \* length of the retry schedule

ASSUME RefreshAssumption ==
  /\ IsFiniteSet(Segment)
  /\ Default \in Interval
  /\ Disabled \notin Interval
  /\ Unset \notin Interval \union {Disabled}
  /\ Absent \notin Interval \union {Disabled, Unset}
  /\ None \notin Interval \union {Disabled, Unset, Absent}
  /\ None \notin Index
  /\ MaxRetries \in Nat

VARIABLES
  cluster,     \* cluster[i]: the refresh_interval of index i
  wpc,         \* where each worker is
  cur,         \* the index a worker's ensureIndex is about
  attempt,     \* its withRetry attempt
  original,    \* its originalRefresh, between the read and the write
  touched,     \* its TouchedIndexes
  file,        \* the <segment>-indexes.json of each segment
  hook,        \* where the orchestrator is: "waiting", "restoring", "done"
  toRestore,   \* the indexes EnableRefreshHook has yet to put back
  merged,      \* what loadTouchedIndexes found for each index
  initial,     \* history: the cluster before the run
  unread,      \* history: segments whose file the hook could not read
  unrestored   \* history: indexes whose restoring request failed

worker == <<wpc, cur, attempt, original, touched, file>>
after == <<hook, toRestore, merged, unread, unrestored>>
vars == <<cluster, worker, after, initial>>

Setting == Interval \union {Disabled, Unset, Absent}
Remembered == Interval \union {None}
Ensuring == {"exists", "read", "disable", "create"}
Settled == {"succeeded", "failed"}

TypeOK ==
  /\ cluster \in [Index -> Setting]
  /\ wpc \in [Segment -> {"idle", "hooked"} \union Ensuring \union Settled]
  /\ cur \in [Segment -> Index \union {None}]
  /\ \A s \in Segment : wpc[s] \in Ensuring => cur[s] \in Index
  /\ attempt \in [Segment -> 0..MaxRetries]
  /\ original \in [Segment -> Remembered]
  /\ \A s \in Segment : wpc[s] = "disable" => original[s] \in Interval
  /\ touched \in [Segment -> [Index -> Remembered]]
  /\ file \in [Segment -> [Index -> Remembered]]
  /\ hook \in {"waiting", "restoring", "done"}
  /\ toRestore \subseteq Index
  /\ merged \in [Index -> Remembered]
  /\ initial \in [Index -> Setting]
  /\ unread \subseteq Segment
  /\ unrestored \subseteq Index

NoMemory == [i \in Index |-> None]

\* A cluster as an earlier run, a Webiny deployment or an operator left it.
Init ==
  /\ cluster \in [Index -> Setting]
  /\ initial = cluster
  /\ wpc = [s \in Segment |-> "idle"]
  /\ cur = [s \in Segment |-> None]
  /\ attempt = [s \in Segment |-> 0]
  /\ original = [s \in Segment |-> None]
  /\ touched = [s \in Segment |-> NoMemory]
  /\ file = [s \in Segment |-> NoMemory]
  /\ hook = "waiting"
  /\ toRestore = {}
  /\ merged = NoMemory
  /\ unread = {}
  /\ unrestored = {}

-----------------------------------------------------------------------------
(* A worker: OsProcessor.ensureIndex *)

GoTo(s, step) == wpc' = [wpc EXCEPT ![s] = step]

\* A flush has commands for index i, the first ones of this worker.
EnsureIndex(s, i) ==
  /\ wpc[s] = "idle"
  /\ touched[s][i] = None
  /\ cur' = [cur EXCEPT ![s] = i]
  /\ GoTo(s, "exists")
  /\ UNCHANGED <<cluster, attempt, original, touched, file, after, initial>>

\* osClient.indexExists
IndexExists(s) ==
  /\ wpc[s] = "exists"
  /\ GoTo(s, IF cluster[cur[s]] = Absent THEN "create" ELSE "read")
  /\ UNCHANGED <<cluster, cur, attempt, original, touched, file, after, initial>>

\* Fault: a refresh that is off already is taken for the original.
OriginalRefreshAsFound(found) ==
  IF found = Unset THEN Default ELSE found

\* What counts as the original of a setting that was found.
OriginalRefresh(found) ==
  IF found \in Interval THEN found ELSE Default

\* osClient.getIndexSettings, before the request that disables the refresh.
ReadSettings(s) ==
  /\ wpc[s] = "read"
  /\ original' = [original EXCEPT ![s] = OriginalRefresh(cluster[cur[s]])]
  /\ GoTo(s, "disable")
  /\ UNCHANGED <<cluster, cur, attempt, touched, file, after, initial>>

\* ensureIndex ends with touchedIndexes.record; its locals are gone.
Record(s, value) ==
  /\ touched' = [touched EXCEPT ![s][cur[s]] = value]
  /\ cur' = [cur EXCEPT ![s] = None]
  /\ attempt' = [attempt EXCEPT ![s] = 0]
  /\ original' = [original EXCEPT ![s] = None]
  /\ GoTo(s, "idle")

\* Fault: the settings are read back after they were overwritten.
DisableRefreshRereads(s) ==
  /\ wpc[s] = "disable"
  /\ cluster' = [cluster EXCEPT ![cur[s]] = Disabled]
  /\ Record(s, OriginalRefresh(Disabled))
  /\ UNCHANGED <<file, after, initial>>

\* osClient.putIndexSettings; a failure is only warned about, and the index is
\* recorded either way.
DisableRefresh(s) ==
  /\ wpc[s] = "disable"
  /\ \/ cluster' = [cluster EXCEPT ![cur[s]] = Disabled]
     \/ UNCHANGED cluster
  /\ Record(s, original[s])
  /\ UNCHANGED <<file, after, initial>>

\* osClient.createIndex, with the refresh disabled.  When another worker was
\* faster the request is refused, which is no error.
CreateIndex(s) ==
  /\ wpc[s] = "create"
  /\ cluster' = [cluster EXCEPT ![cur[s]] = IF @ = Absent THEN Disabled ELSE @]
  /\ Record(s, Default)
  /\ UNCHANGED <<file, after, initial>>

\* withRetry: the attempt failed with a retryable error and starts over, or was
\* the last one of the schedule.
Retry(s) ==
  /\ wpc[s] \in {"exists", "read", "create"}
  /\ \/ UNCHANGED cluster
     \/ /\ wpc[s] = "create"    \* the index was created, the answer is lost
        /\ cluster[cur[s]] = Absent
        /\ cluster' = [cluster EXCEPT ![cur[s]] = Disabled]
  /\ IF attempt[s] < MaxRetries
     THEN /\ attempt' = [attempt EXCEPT ![s] = @ + 1]
          /\ GoTo(s, "exists")
     ELSE /\ GoTo(s, "failed")
          /\ UNCHANGED attempt
  /\ UNCHANGED <<cur, original, touched, file, after, initial>>

\* Fault: the memory is kept in the process.
AfterShardUnsaved(s) ==
  /\ wpc[s] = "idle"
  /\ GoTo(s, "hooked")
  /\ UNCHANGED <<cluster, cur, attempt, original, touched, file, after, initial>>

\* OsProcessor.afterShard: the memory goes to the segment's file.
AfterShard(s) ==
  /\ wpc[s] = "idle"
  /\ file' = [file EXCEPT ![s] = touched[s]]
  /\ GoTo(s, "hooked")
  /\ UNCHANGED <<cluster, cur, attempt, original, touched, after, initial>>

\* The logs and the statistics are written and the worker exits with 0.
Succeed(s) ==
  /\ wpc[s] = "hooked"
  /\ GoTo(s, "succeeded")
  /\ UNCHANGED <<cluster, cur, attempt, original, touched, file, after, initial>>

\* The worker dies at any point: a fatal error of this or another step, a kill.
Fail(s) ==
  /\ wpc[s] \notin Settled
  /\ GoTo(s, "failed")
  /\ UNCHANGED <<cluster, cur, attempt, original, touched, file, after, initial>>

-----------------------------------------------------------------------------
(* The orchestrator: the end of the transfer handler and EnableRefreshHook *)

\* Fault: Promise.all instead of Promise.allSettled.
WorkersAwaitedFailFast ==
  \/ \A s \in Segment : wpc[s] = "succeeded"
  \/ \E s \in Segment : wpc[s] = "failed"

\* Fault: the after-transfer hooks are skipped when a shard failed.
WorkersAwaitedAllGood == \A s \in Segment : wpc[s] = "succeeded"

\* await Promise.allSettled(workers)
WorkersAwaited == \A s \in Segment : wpc[s] \in Settled

\* A file exists when the worker had touched something.
HasFile(s) == file[s] # NoMemory

\* The value of index i in the first file, in directory order, that has one.
FirstWriter(order, i) ==
  LET holders == {s \in DOMAIN order : file[s][i] # None}
  IN  IF holders = {} THEN None
      ELSE file[CHOOSE s \in holders : \A t \in holders : order[s] <= order[t]][i]

\* The orders in which readdir can list a set of files.
Orders(S) ==
  {o \in [S -> 1..Cardinality(S)] : \A s, t \in S : s # t => o[s] # o[t]}

\* loadTouchedIndexes: unreadable files are skipped with a warning.
LoadTouchedIndexes ==
  /\ hook = "waiting"
  /\ WorkersAwaited
  /\ \E readable \in SUBSET {s \in Segment : HasFile(s)} :
       /\ unread' = {s \in Segment : HasFile(s)} \ readable
       /\ \E order \in Orders(readable) :
            merged' = [i \in Index |-> FirstWriter(order, i)]
  /\ toRestore' = {i \in Index : merged'[i] # None}
  /\ hook' = IF toRestore' = {} THEN "done" ELSE "restoring"
  /\ UNCHANGED <<cluster, worker, unrestored, initial>>

\* One index is put back; a failure is only warned about.
RestoreRefresh(i) ==
  /\ hook = "restoring"
  /\ i \in toRestore
  /\ \/ /\ cluster' = [cluster EXCEPT ![i] = merged[i]]
        /\ UNCHANGED unrestored
     \/ /\ unrestored' = unrestored \union {i}
        /\ UNCHANGED cluster
  /\ toRestore' = toRestore \ {i}
  /\ hook' = IF toRestore' = {} THEN "done" ELSE "restoring"
  /\ UNCHANGED <<worker, merged, unread, initial>>

\* The hook has run; no worker is left.
Finished == hook = "done" /\ UNCHANGED vars

WorkerStep(s) ==
  \/ \E i \in Index : EnsureIndex(s, i)
  \/ IndexExists(s)
  \/ ReadSettings(s)
  \/ DisableRefresh(s)
  \/ CreateIndex(s)
  \/ Retry(s)
  \/ AfterShard(s)
  \/ Succeed(s)
  \/ Fail(s)

HookStep == LoadTouchedIndexes \/ \E i \in Index : RestoreRefresh(i)

Next == (\E s \in Segment : WorkerStep(s)) \/ HookStep \/ Finished

\* A worker is a process that runs until it ends, and so is the orchestrator;
\* their requests are bounded by timeouts and by the retry schedule.
Fairness == WF_vars(HookStep) /\ \A s \in Segment : WF_vars(WorkerStep(s))

Spec == Init /\ [][Next]_vars /\ Fairness

-----------------------------------------------------------------------------
(* Properties *)

\* The value index i should get back.
RightValue(i) == OriginalRefresh(initial[i])

\* Whoever reads the settings of an index, in whatever order the workers get to
\* it, no value is ever invented or mixed up: what is remembered, saved or put
\* back for an index is its own original or the default, and never "disabled".
MemoryIsSound ==
  \A i \in Index :
    /\ merged[i] \in {None, Default, RightValue(i)}
    /\ \A s \in Segment : touched[s][i] \in {None, Default, RightValue(i)}

\* The original is not lost to the run: when every worker ended well, some
\* segment's file holds the right value of each index anyone touched.
OriginalInSomeFile ==
  (\A s \in Segment : wpc[s] = "succeeded") =>
    \A i \in Index :
      (\E s \in Segment : touched[s][i] # None) =>
        \E s \in Segment : file[s][i] = RightValue(i)

\* An index that a single worker touched gets its own value back.
SoleWriterRestored ==
  hook = "done" =>
    \A i \in Index \ unrestored : \A s \in Segment \ unread :
      /\ wpc[s] = "succeeded"
      /\ touched[s][i] # None
      /\ \A t \in Segment \ {s} : cur[t] # i /\ touched[t][i] = None
      => cluster[i] = RightValue(i)

\* An index is left disabled only for one of four reasons: it was disabled
\* before and no one touched it, its restoring request failed, its file could
\* not be read, or a worker that had begun to ensure it died.
DisabledForAReason ==
  hook = "done" =>
    \A i \in Index : cluster[i] = Disabled =>
      \/ initial[i] = Disabled /\ \A s \in Segment : touched[s][i] = None
      \/ i \in unrestored
      \/ \E s \in Segment : touched[s][i] # None /\ s \in unread
      \/ \E s \in Segment : cur[s] = i /\ wpc[s] = "failed"
      \/ \E s \in Segment : touched[s][i] # None /\ wpc[s] = "failed"

\* No worker disables an index again once the hook has begun to put them back.
NoDisablingBehindTheHook ==
  [][hook # "waiting" =>
       \A i \in Index : cluster'[i] = Disabled => cluster[i] = Disabled]_vars

\* The hook gets its turn whatever becomes of the workers.
HookRuns == <>(hook = "done")

\* EnableRefreshHook says of its merge that of several segments that touched one
\* index "the original refresh_interval from the first one is correct".  Here
\* only of transfers in which every worker ended well and every file was read.
FirstWriterIsRight ==
  (unread = {} /\ \A s \in Segment : wpc[s] = "succeeded") =>
    \A i \in Index : merged[i] \in {None, RightValue(i)}
==============================================================================

------------------------------- MODULE Execution -------------------------------
(***************************************************************************)
(* The commands of one flush on their way to the target: first             *)
(* DdbProcessor.execute, then S3Processor.execute, as flushShard runs      *)
(* them.  A failure of either fails the shard and ends the worker, whose   *)
(* requests may outlive it; the operator runs the segment again.           *)
(***************************************************************************)
EXTENDS BatchPut, BatchCopy

CONSTANTS
  Flushes,  \* the commands of a flush: the rows of its puts, the objects of its copies
  MaxRuns   \* bound of the model

ASSUME ExecutionAssumption ==
  /\ Flushes \subseteq [puts : Seq(Row), copies : Seq(Object)]
  /\ MaxRuns \in Nat \ {0}

VARIABLES
  outcome,  \* "putting", "copying", "ok", "failed", or "exited": the worker is gone
  runs      \* how many runs there were

vars == <<putVars, copyVars, outcome, runs>>

TypeOK ==
  /\ puts \in Seq(Row) /\ copies \in Seq(Object)
  /\ todo \subseteq Put /\ late \subseteq Put /\ put \subseteq Put /\ givenUp \subseteq Put
  /\ stack \in Seq([batch : SUBSET Put, attempt : 0..MaxRetries])
  /\ stored \in [Row -> 0..Len(puts)]
  /\ missing \subseteq Copy /\ lateCopies \subseteq Copy /\ lost \subseteq Copy
  /\ copyStep \in [Copy -> {"waiting", "copying", "done", "skipped", "failed"}]
  /\ tries \in [Copy -> 0..MaxRetries]
  /\ bucket \in [Object -> 0..Len(copies)]
  /\ outcome \in {"putting", "copying", "ok", "failed", "exited"}
  /\ runs \in 1..MaxRuns

Init ==
  /\ \E flush \in Flushes : puts = flush.puts /\ copies = flush.copies
  /\ PutInit /\ CopyInit
  /\ outcome = "putting" /\ runs = 1

Running == outcome \in {"putting", "copying"}

\* The rejection of a call that the flush still waits for.
Rejected == outcome' = IF Running THEN "failed" ELSE outcome

StartBatch ==
  /\ outcome = "putting"
  /\ SendBatch
  /\ UNCHANGED <<copyVars, outcome, runs>>

\* A request that is under way goes on as long as the worker lives, also when
\* nobody waits for it.
PutStep ==
  /\ \/ PutAnswered /\ UNCHANGED outcome
     \/ PutRetried /\ UNCHANGED outcome
     \/ PutFails /\ Rejected
     \/ \E i \in 1..Len(stack) : PutTimesOut(i) /\ Rejected
  /\ UNCHANGED <<copyVars, runs>>

\* Fault: the last batch is not awaited.
PutsDoneUnawaited ==
  /\ outcome = "putting" /\ todo = {}
  /\ outcome' = "copying"
  /\ UNCHANGED <<putVars, copyVars, runs>>

\* DdbProcessor.execute returns, S3Processor.execute begins.
PutsDone ==
  /\ outcome = "putting" /\ todo = {} /\ stack = <<>>
  /\ outcome' = "copying"
  /\ UNCHANGED <<putVars, copyVars, runs>>

StartCopies ==
  /\ outcome = "copying"
  /\ StartWindow
  /\ UNCHANGED <<putVars, outcome, runs>>

CopyStep(c) ==
  /\ \/ (CopyAnswered(c) \/ CopySkipped(c) \/ CopyRetried(c)) /\ UNCHANGED outcome
     \/ CopyFails(c) /\ Rejected
  /\ UNCHANGED <<putVars, runs>>

Succeeds ==
  /\ outcome = "copying" /\ CopiesDone
  /\ outcome' = "ok"
  /\ UNCHANGED <<putVars, copyVars, runs>>

\* The worker exits because of the failure, or is killed.
Exit ==
  /\ outcome \in {"putting", "copying", "failed"}
  /\ PutDropped /\ CopyDropped
  /\ outcome' = "exited"
  /\ UNCHANGED runs

Rerun ==
  /\ outcome = "exited" /\ runs < MaxRuns
  /\ PutAgain /\ CopyAgain
  /\ outcome' = "putting"
  /\ runs' = runs + 1

Late ==
  /\ \/ (\E r \in late : LatePut(r)) /\ UNCHANGED copyVars
     \/ (\E c \in lateCopies : LateCopy(c)) /\ UNCHANGED putVars
  /\ UNCHANGED <<outcome, runs>>

\* The flush is over, or no further run is counted.
Finished ==
  /\ outcome = "ok" \/ (outcome = "exited" /\ runs = MaxRuns)
  /\ UNCHANGED vars

Next ==
  \/ StartBatch \/ PutStep \/ PutsDone
  \/ StartCopies \/ (\E c \in Copy : CopyStep(c)) \/ Succeeds
  \/ Exit \/ Rerun \/ Late \/ Finished

\* The process goes on by itself, and each request has an answer, an error or its
\* timeout.
Fairness ==
  /\ WF_vars(StartBatch) /\ WF_vars(PutStep) /\ WF_vars(PutsDone)
  /\ WF_vars(StartCopies) /\ WF_vars(\E c \in Copy : CopyStep(c)) /\ WF_vars(Succeeds)

Spec == Init /\ [][Next]_vars /\ Fairness

-----------------------------------------------------------------------------
(* Properties *)

\* A flush that succeeded leaves each row with the last of its puts, over all its
\* batches and whatever earlier runs have left, unless a request that went without an
\* answer had a put of that row: such a request may arrive after the last put.
LastPutWins ==
  outcome = "ok" =>
    \A r \in Put :
      (\A q \in Put : puts[q] = puts[r] => q <= r /\ q \notin givenUp) =>
        stored[puts[r]] = r

Window(c) == (c - 1) \div Concurrency

\* Of the copies to one object, one of the last window that has any wins, unless one
\* went without an answer; within a window there is no order.
LastWindowWins ==
  outcome = "ok" =>
    \A c \in Copy \ missing :
      (\A d \in Copy \ missing : copies[d] = copies[c] => d \notin lost) =>
        /\ bucket[copies[c]] # 0
        /\ Window(bucket[copies[c]]) >= Window(c)

\* The promise: success means that all of it was delivered in this run, and only
\* copies whose source is missing were skipped.
Delivers == INSTANCE Delivery WITH
  Item <- {"put", "copy"} \X Nat,
  items <- ({"put"} \X Put) \union ({"copy"} \X Copy),
  optional <- {"copy"} \X missing,
  delivered <- ({"put"} \X put) \union ({"copy"} \X In("done")),
  skipped <- {"copy"} \X In("skipped"),
  result <- IF Running THEN "open" ELSE IF outcome = "ok" THEN "ok" ELSE "failed"

RefinesDelivery == Delivers!Spec

\* Socket errors are among those that are tried again: none of them rejects a batchPut
\* that has attempts left.
RejectedFor(error) ==
  /\ BatchPutRejected /\ outcome = "putting" /\ outcome' = "failed"
  /\ ~IsRetryable(error)
SocketErrorsRetried == [][RejectedFor(SocketError) => Retrying = {}]_vars

\* The flush comes to an end, however the attempts of its puts nest.
ExecutionEnds == Running ~> ~Running
==============================================================================

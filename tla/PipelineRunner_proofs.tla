------------------------ MODULE PipelineRunner_proofs ------------------------
(***************************************************************************)
(* Theorems about PipelineRunner, for every number of rows, every flush    *)
(* period, every set of keys, processors and pipelines.                    *)
(*                                                                         *)
(* Inv is the inductive invariant.  NoSilentLoss alone is not inductive:   *)
(* it speaks of the end of the shard, and holds there because at every     *)
(* earlier point a command is performed, warned about or still buffered    *)
(* (Owed), because a processor that has claimed a key in the current flush *)
(* has performed all of it (Claimed), and because a scan leaves the buffer *)
(* with nothing claimed.                                                   *)
(***************************************************************************)
EXTENDS PipelineRunner, TLAPS

\* Where no log file has been written yet.
BeforeLogs == {"scan", "afterShard", "droppedLog"} \union Flushing

\* Every command has a kept row, and is performed, warned about or buffered.
Owed ==
  /\ pending \subseteq asked
  /\ target \subseteq asked
  /\ \A c \in asked : c[1] \in TransferredRows
  /\ \A c \in asked : c \in target \/ c[2] \in warned \/ c \in pending

\* What a flush has claimed it has performed.
Claimed ==
  /\ pc = "scan" => claimed = {}
  /\ pc \in Flushing => \A c \in pending : c[2] \in claimed => c \in target

\* The processors a flush has passed have executed, and a shard that flushed
\* once has run them all.
Executed ==
  /\ pc = "scan" /\ periodicFlushCount # 0 => executed = Processor
  /\ pc \in Flushing => \A q \in Processor : q < at => q \in executed
  /\ pc \in Settled => executed = Processor

\* The rows are in one of two logs, whose files are written last.
Logged ==
  /\ pc \in BeforeLogs => logFiles = [l \in Log |-> {}]
  /\ pc = "transferredLog" => logFiles["transferred"] = {}

\* Only a scan that is exhausted leads on, and only afterShard sets hooked.
Ordered ==
  /\ pc \in Settled \union {"finalFlush"} => recordCount = rows
  /\ pc \in {"scan"} \union Flushing => hooked = {}

Inv ==
  /\ TypeOK
  /\ RowsAccounted
  /\ Owed
  /\ Claimed
  /\ NoSilentLoss
  /\ Executed
  /\ Logged
  /\ Ordered

-----------------------------------------------------------------------------
(* Types *)

\* The variables keep their types, for every configuration of the shard.
THEOREM TypeCorrect == Spec => []TypeOK
<1> USE RunnerAssumption DEF Processor, Command, Disposition, Log, Flushing, Ended, Step
<1>1. Init => TypeOK
  BY DEF Init, TypeOK
<1>2. TypeOK /\ [Next]_vars => TypeOK'
  <2> SUFFICES ASSUME TypeOK, [Next]_vars PROVE TypeOK'
    OBVIOUS
  <2> USE DEF TypeOK, inputs, buffer, history
  <2>1. ASSUME NEW p \in Pipeline, NEW K \in Bags(p), TransferRow(p, K) PROVE TypeOK'
    <3>1. recordCount + 1 \in 1..rows /\ K \subseteq Key
      BY <2>1 DEF TransferRow, RowAvailable, Bags
    <3>2. {recordCount + 1} \X K \subseteq Command
      BY <3>1
    <3>3. stats' \in [Disposition -> Nat] /\ pc' \in Step /\ recordCount' \in 0..rows'
      BY <2>1, <3>1 DEF TransferRow, RowHandled
    <3>4. /\ pending' \subseteq Command /\ asked' \subseteq Command
          /\ transferred' \subseteq 1..rows /\ dropped' = dropped /\ at' = 1
          /\ UNCHANGED <<inputs, claimed, periodicFlushCount, warned, target, logFiles,
                         executed, hooked>>
      BY <2>1, <3>1, <3>2 DEF TransferRow, RowHandled
    <3>5. QED
      BY <3>3, <3>4
  <2>2. ASSUME NEW p \in Pipeline, NEW K \in Bags(p), BlackholeRow(p, K) PROVE TypeOK'
    BY <2>2 DEF BlackholeRow, RowHandled, RowAvailable
  <2>3. CASE UnmatchedRow
    <3>1. recordCount + 1 \in 1..rows
      BY <2>3 DEF UnmatchedRow, RowAvailable
    <3>2. QED
      BY <2>3, <3>1 DEF UnmatchedRow, RowHandled
  <2>4. ASSUME NEW c \in pending, Perform(c) PROVE TypeOK'
    BY <2>4 DEF Perform
  <2>5. CASE ExecuteReturns
    BY <2>5 DEF ExecuteReturns
  <2>6. CASE PeriodicFlushDone
    BY <2>6 DEF PeriodicFlushDone, WarnUnclaimedKeys, UnclaimedKeys, NewBuffer
  <2>7. CASE ScanEnds
    BY <2>7 DEF ScanEnds
  <2>8. CASE FinalFlushDone
    BY <2>8 DEF FinalFlushDone, WarnUnclaimedKeys, UnclaimedKeys
  <2>9. CASE AfterShard
    BY <2>9 DEF AfterShard
  <2>10. CASE AfterShardDone
    BY <2>10 DEF AfterShardDone
  <2>11. CASE FlushDroppedLog
    BY <2>11 DEF FlushDroppedLog
  <2>12. CASE FlushTransferredLog
    BY <2>12 DEF FlushTransferredLog
  <2>13. CASE Throw
    BY <2>13 DEF Throw
  <2>14. CASE UNCHANGED vars
    BY <2>14 DEF vars
  <2>15. QED
    BY <2>1, <2>2, <2>3, <2>4, <2>5, <2>6, <2>7, <2>8, <2>9, <2>10, <2>11, <2>12,
       <2>13, <2>14 DEF Next, Progress, Finished
<1>3. QED
  BY <1>1, <1>2, PTL DEF Spec

-----------------------------------------------------------------------------
(* The inductive invariant *)

\* The start of the shard.
LEMMA InvInit == Init => Inv
<1> SUFFICES ASSUME Init PROVE Inv
  OBVIOUS
<1> USE RunnerAssumption DEF Init, Settled, Flushing, Ended, Log, Disposition
<1>1. TypeOK
  BY DEF TypeOK, Processor, Command, Step
<1>2. RowsAccounted
  BY DEF RowsAccounted, TransferredRows, DroppedRows
<1>3. Owed /\ Claimed /\ NoSilentLoss /\ Executed /\ Logged /\ Ordered
  BY DEF Owed, Claimed, NoSilentLoss, Executed, Logged, Ordered
<1>4. QED
  BY <1>1, <1>2, <1>3 DEF Inv

\* A row that is new goes to one of two disjoint sets.
LEMMA OneRowMore ==
  ASSUME NEW A, NEW B, NEW C, NEW r, A \union B = C, A \intersect B = {}, r \notin C
  PROVE  /\ (A \union {r}) \union B = C \union {r} /\ (A \union {r}) \intersect B = {}
         /\ A \union (B \union {r}) = C \union {r} /\ A \intersect (B \union {r}) = {}
  OBVIOUS

\* TransferRow keeps the invariant; its types are TypeCorrect's matter.
LEMMA TransferRowInv ==
  ASSUME Inv, TypeOK', NEW p \in Pipeline, NEW K \in Bags(p), TransferRow(p, K)
  PROVE  Inv'
<1> USE RunnerAssumption
        DEF Inv, TypeOK, TransferRow, RowHandled, RowAvailable, Bags, inputs,
            buffer, history, Settled, Flushing, Ended, Log, Disposition,
            Processor, Command
<1>1. RowsAccounted'
  <2>1. TransferredRows' = TransferredRows \union {recordCount + 1} /\ DroppedRows' = DroppedRows
    BY DEF TransferredRows, DroppedRows
  <2>2. 1..recordCount' = (1..recordCount) \union {recordCount + 1}
    OBVIOUS
  <2>3. recordCount + 1 \notin 1..recordCount
    OBVIOUS
  <2>4. /\ TransferredRows' \union DroppedRows' = 1..recordCount'
        /\ TransferredRows' \intersect DroppedRows' = {}
    <3>1. /\ TransferredRows \union DroppedRows = 1..recordCount
          /\ TransferredRows \intersect DroppedRows = {}
      BY DEF RowsAccounted
    <3>2. QED
      BY ONLY <2>1, <2>2, <2>3, <3>1, OneRowMore
  <2>5. /\ stats'["transferred"] = stats["transferred"] + 1
        /\ stats'["blackholed"] = stats["blackholed"]
        /\ stats'["unmatched"] = stats["unmatched"]
    OBVIOUS
  <2>6. /\ stats["transferred"] \in Nat /\ stats["blackholed"] \in Nat
        /\ stats["unmatched"] \in Nat /\ recordCount \in Nat
        /\ stats["transferred"] + stats["blackholed"] + stats["unmatched"] = recordCount
        /\ recordCount' = recordCount + 1
    BY DEF RowsAccounted
  <2>7. stats'["transferred"] + stats'["blackholed"] + stats'["unmatched"] = recordCount'
    BY ONLY <2>5, <2>6
  <2>8. QED
    BY <2>4, <2>7 DEF RowsAccounted
<1>2. Owed'
  <2>1. \A c \in asked' : c \in asked \/ c \in {recordCount + 1} \X K
    OBVIOUS
  <2>2. \A c \in {recordCount + 1} \X K : c[1] = recordCount + 1 /\ c \in pending'
    OBVIOUS
  <2>3. TransferredRows' = TransferredRows \union {recordCount + 1}
    BY DEF TransferredRows
  <2>4. QED
    BY <2>1, <2>2, <2>3 DEF Owed
<1>3. Claimed'
  BY DEF Claimed
<1>4. NoSilentLoss'
  BY DEF NoSilentLoss, Owed, Claimed
<1>5. Executed'
  BY DEF Executed
<1>6. Logged'
  BY DEF Logged, BeforeLogs
<1>7. Ordered'
  BY DEF Ordered
<1>8. QED
  BY <1>1, <1>2, <1>3, <1>4, <1>5, <1>6, <1>7

\* BlackholeRow keeps the invariant; its types are TypeCorrect's matter.
LEMMA BlackholeRowInv ==
  ASSUME Inv, TypeOK', NEW p \in Pipeline, NEW K \in Bags(p), BlackholeRow(p, K)
  PROVE  Inv'
<1> USE RunnerAssumption
        DEF Inv, TypeOK, BlackholeRow, RowHandled, RowAvailable, inputs,
            buffer, history, Settled, Flushing, Ended, Log, Disposition,
            Processor, Command
<1>1. RowsAccounted'
  <2>1. TransferredRows' = TransferredRows /\ DroppedRows' = DroppedRows \union {recordCount + 1}
    BY DEF TransferredRows, DroppedRows
  <2>2. 1..recordCount' = (1..recordCount) \union {recordCount + 1}
    OBVIOUS
  <2>3. recordCount + 1 \notin 1..recordCount
    OBVIOUS
  <2>4. /\ TransferredRows' \union DroppedRows' = 1..recordCount'
        /\ TransferredRows' \intersect DroppedRows' = {}
    <3>1. /\ TransferredRows \union DroppedRows = 1..recordCount
          /\ TransferredRows \intersect DroppedRows = {}
      BY DEF RowsAccounted
    <3>2. QED
      BY ONLY <2>1, <2>2, <2>3, <3>1, OneRowMore
  <2>5. /\ stats'["blackholed"] = stats["blackholed"] + 1
        /\ stats'["transferred"] = stats["transferred"]
        /\ stats'["unmatched"] = stats["unmatched"]
    OBVIOUS
  <2>6. /\ stats["transferred"] \in Nat /\ stats["blackholed"] \in Nat
        /\ stats["unmatched"] \in Nat /\ recordCount \in Nat
        /\ stats["transferred"] + stats["blackholed"] + stats["unmatched"] = recordCount
        /\ recordCount' = recordCount + 1
    BY DEF RowsAccounted
  <2>7. stats'["transferred"] + stats'["blackholed"] + stats'["unmatched"] = recordCount'
    BY ONLY <2>5, <2>6
  <2>8. QED
    BY <2>4, <2>7 DEF RowsAccounted
<1>2. Owed'
  BY DEF Owed, TransferredRows, Claimed, Logged, BeforeLogs
<1>3. Claimed'
  BY DEF Claimed
<1>4. NoSilentLoss'
  BY DEF NoSilentLoss, Owed, Claimed
<1>5. Executed'
  BY DEF Executed
<1>6. Logged'
  BY DEF Logged, BeforeLogs
<1>7. Ordered'
  BY DEF Ordered
<1>8. QED
  BY <1>1, <1>2, <1>3, <1>4, <1>5, <1>6, <1>7

\* UnmatchedRow keeps the invariant; its types are TypeCorrect's matter.
LEMMA UnmatchedRowInv ==
  ASSUME Inv, TypeOK', UnmatchedRow
  PROVE  Inv'
<1> USE RunnerAssumption
        DEF Inv, TypeOK, UnmatchedRow, RowHandled, RowAvailable, inputs,
            buffer, history, Settled, Flushing, Ended, Log, Disposition,
            Processor, Command
<1>1. RowsAccounted'
  <2>1. TransferredRows' = TransferredRows /\ DroppedRows' = DroppedRows \union {recordCount + 1}
    BY DEF TransferredRows, DroppedRows
  <2>2. 1..recordCount' = (1..recordCount) \union {recordCount + 1}
    OBVIOUS
  <2>3. recordCount + 1 \notin 1..recordCount
    OBVIOUS
  <2>4. /\ TransferredRows' \union DroppedRows' = 1..recordCount'
        /\ TransferredRows' \intersect DroppedRows' = {}
    <3>1. /\ TransferredRows \union DroppedRows = 1..recordCount
          /\ TransferredRows \intersect DroppedRows = {}
      BY DEF RowsAccounted
    <3>2. QED
      BY ONLY <2>1, <2>2, <2>3, <3>1, OneRowMore
  <2>5. /\ stats'["unmatched"] = stats["unmatched"] + 1
        /\ stats'["transferred"] = stats["transferred"]
        /\ stats'["blackholed"] = stats["blackholed"]
    OBVIOUS
  <2>6. /\ stats["transferred"] \in Nat /\ stats["blackholed"] \in Nat
        /\ stats["unmatched"] \in Nat /\ recordCount \in Nat
        /\ stats["transferred"] + stats["blackholed"] + stats["unmatched"] = recordCount
        /\ recordCount' = recordCount + 1
    BY DEF RowsAccounted
  <2>7. stats'["transferred"] + stats'["blackholed"] + stats'["unmatched"] = recordCount'
    BY ONLY <2>5, <2>6
  <2>8. QED
    BY <2>4, <2>7 DEF RowsAccounted
<1>2. Owed'
  BY DEF Owed, TransferredRows, Claimed, Logged, BeforeLogs
<1>3. Claimed'
  BY DEF Claimed
<1>4. NoSilentLoss'
  BY DEF NoSilentLoss, Owed, Claimed
<1>5. Executed'
  BY DEF Executed
<1>6. Logged'
  BY DEF Logged, BeforeLogs
<1>7. Ordered'
  BY DEF Ordered
<1>8. QED
  BY <1>1, <1>2, <1>3, <1>4, <1>5, <1>6, <1>7

\* Perform keeps the invariant; its types are TypeCorrect's matter.
LEMMA PerformInv ==
  ASSUME Inv, TypeOK', NEW c \in pending, Perform(c)
  PROVE  Inv'
<1> USE RunnerAssumption
        DEF Inv, TypeOK, Perform, Drains, inputs, buffer, history, Settled,
            Flushing, Ended, Log, Disposition, Processor, Command
<1>1. RowsAccounted'
  BY DEF RowsAccounted, TransferredRows, DroppedRows, Logged, BeforeLogs
<1>2. Owed'
  BY DEF Owed, TransferredRows, Claimed, Logged, BeforeLogs
<1>3. Claimed'
  BY DEF Claimed
<1>4. NoSilentLoss'
  BY DEF NoSilentLoss, Owed, Claimed
<1>5. Executed'
  BY DEF Executed
<1>6. Logged'
  BY DEF Logged, BeforeLogs
<1>7. Ordered'
  BY DEF Ordered
<1>8. QED
  BY <1>1, <1>2, <1>3, <1>4, <1>5, <1>6, <1>7

\* ExecuteReturns keeps the invariant; its types are TypeCorrect's matter.
LEMMA ExecuteReturnsInv ==
  ASSUME Inv, TypeOK', ExecuteReturns
  PROVE  Inv'
<1> USE RunnerAssumption
        DEF Inv, TypeOK, ExecuteReturns, Drains, Skips, inputs, buffer,
            history, Settled, Flushing, Ended, Log, Disposition, Processor,
            Command
<1>1. RowsAccounted'
  BY DEF RowsAccounted, TransferredRows, DroppedRows, Logged, BeforeLogs
<1>2. Owed'
  BY DEF Owed, TransferredRows, Claimed, Logged, BeforeLogs
<1>3. Claimed'
  BY DEF Claimed
<1>4. NoSilentLoss'
  BY DEF NoSilentLoss, Owed, Claimed
<1>5. Executed'
  BY DEF Executed
<1>6. Logged'
  BY DEF Logged, BeforeLogs
<1>7. Ordered'
  BY DEF Ordered
<1>8. QED
  BY <1>1, <1>2, <1>3, <1>4, <1>5, <1>6, <1>7

\* PeriodicFlushDone keeps the invariant; its types are TypeCorrect's matter.
LEMMA PeriodicFlushDoneInv ==
  ASSUME Inv, TypeOK', PeriodicFlushDone
  PROVE  Inv'
<1> USE RunnerAssumption
        DEF Inv, TypeOK, PeriodicFlushDone, WarnUnclaimedKeys, NewBuffer, inputs,
            buffer, history, Settled, Flushing, Ended, Log, Disposition, Processor,
            Command
<1>1. RowsAccounted'
  BY DEF RowsAccounted, TransferredRows, DroppedRows, Logged, BeforeLogs
<1>2. Owed'
  <2>1. \A c \in pending : c[2] \in claimed \/ c[2] \in UnclaimedKeys
    BY DEF UnclaimedKeys
  <2>2. \A c \in pending : c \in target \/ c[2] \in warned'
    BY <2>1 DEF Claimed
  <2>3. TransferredRows' = TransferredRows
    BY DEF TransferredRows
  <2>4. QED
    BY <2>2, <2>3 DEF Owed
<1>3. Claimed'
  BY DEF Claimed
<1>4. NoSilentLoss'
  BY DEF NoSilentLoss, Owed, Claimed
<1>5. Executed'
  <2>1. \A q \in Processor : q < at
    OBVIOUS
  <2>2. executed = Processor
    BY <2>1 DEF Executed
  <2>3. QED
    BY <2>2 DEF Executed
<1>6. Logged'
  BY DEF Logged, BeforeLogs
<1>7. Ordered'
  BY DEF Ordered
<1>8. QED
  BY <1>1, <1>2, <1>3, <1>4, <1>5, <1>6, <1>7

\* ScanEnds keeps the invariant; its types are TypeCorrect's matter.
LEMMA ScanEndsInv ==
  ASSUME Inv, TypeOK', ScanEnds
  PROVE  Inv'
<1> USE RunnerAssumption
        DEF Inv, TypeOK, ScanEnds, RemainderToFlush, inputs, buffer, history,
            Settled, Flushing, Ended, Log, Disposition, Processor, Command
<1>1. RowsAccounted'
  BY DEF RowsAccounted, TransferredRows, DroppedRows, Logged, BeforeLogs
<1>2. Owed'
  BY DEF Owed, TransferredRows, Claimed, Logged, BeforeLogs
<1>3. Claimed'
  BY DEF Claimed
<1>4. NoSilentLoss'
  BY DEF NoSilentLoss, Owed, Claimed
<1>5. Executed'
  BY DEF Executed
<1>6. Logged'
  BY DEF Logged, BeforeLogs
<1>7. Ordered'
  BY DEF Ordered
<1>8. QED
  BY <1>1, <1>2, <1>3, <1>4, <1>5, <1>6, <1>7

\* FinalFlushDone keeps the invariant; its types are TypeCorrect's matter.
LEMMA FinalFlushDoneInv ==
  ASSUME Inv, TypeOK', FinalFlushDone
  PROVE  Inv'
<1> USE RunnerAssumption
        DEF Inv, TypeOK, FinalFlushDone, WarnUnclaimedKeys, inputs, buffer,
            history, Settled, Flushing, Ended, Log, Disposition, Processor, Command
<1>1. RowsAccounted'
  BY DEF RowsAccounted, TransferredRows, DroppedRows, Logged, BeforeLogs
<1>2. Owed'
  BY DEF Owed, TransferredRows, Claimed, Logged, BeforeLogs
<1>3. Claimed'
  BY DEF Claimed
<1>4. NoSilentLoss'
  <2>1. \A c \in pending : c[2] \in claimed \/ c[2] \in UnclaimedKeys
    BY DEF UnclaimedKeys
  <2>2. \A c \in pending : c \in target \/ c[2] \in warned'
    BY <2>1 DEF Claimed
  <2>3. QED
    BY <2>2 DEF Owed, NoSilentLoss
<1>5. Executed'
  <2>1. \A q \in Processor : q < at
    OBVIOUS
  <2>2. executed = Processor
    BY <2>1 DEF Executed
  <2>3. QED
    BY <2>2 DEF Executed
<1>6. Logged'
  BY DEF Logged, BeforeLogs
<1>7. Ordered'
  BY DEF Ordered
<1>8. QED
  BY <1>1, <1>2, <1>3, <1>4, <1>5, <1>6, <1>7

\* AfterShard keeps the invariant; its types are TypeCorrect's matter.
LEMMA AfterShardInv ==
  ASSUME Inv, TypeOK', AfterShard
  PROVE  Inv'
<1> USE RunnerAssumption
        DEF Inv, TypeOK, AfterShard, inputs, buffer, history, Settled,
            Flushing, Ended, Log, Disposition, Processor, Command
<1>1. RowsAccounted'
  BY DEF RowsAccounted, TransferredRows, DroppedRows, Logged, BeforeLogs
<1>2. Owed'
  BY DEF Owed, TransferredRows, Claimed, Logged, BeforeLogs
<1>3. Claimed'
  BY DEF Claimed
<1>4. NoSilentLoss'
  BY DEF NoSilentLoss, Owed, Claimed
<1>5. Executed'
  BY DEF Executed
<1>6. Logged'
  BY DEF Logged, BeforeLogs
<1>7. Ordered'
  BY DEF Ordered
<1>8. QED
  BY <1>1, <1>2, <1>3, <1>4, <1>5, <1>6, <1>7

\* AfterShardDone keeps the invariant; its types are TypeCorrect's matter.
LEMMA AfterShardDoneInv ==
  ASSUME Inv, TypeOK', AfterShardDone
  PROVE  Inv'
<1> USE RunnerAssumption
        DEF Inv, TypeOK, AfterShardDone, inputs, buffer, history, Settled,
            Flushing, Ended, Log, Disposition, Processor, Command
<1>1. RowsAccounted'
  BY DEF RowsAccounted, TransferredRows, DroppedRows, Logged, BeforeLogs
<1>2. Owed'
  BY DEF Owed, TransferredRows, Claimed, Logged, BeforeLogs
<1>3. Claimed'
  BY DEF Claimed
<1>4. NoSilentLoss'
  BY DEF NoSilentLoss, Owed, Claimed
<1>5. Executed'
  BY DEF Executed
<1>6. Logged'
  BY DEF Logged, BeforeLogs
<1>7. Ordered'
  BY DEF Ordered
<1>8. QED
  BY <1>1, <1>2, <1>3, <1>4, <1>5, <1>6, <1>7

\* FlushDroppedLog keeps the invariant; its types are TypeCorrect's matter.
LEMMA FlushDroppedLogInv ==
  ASSUME Inv, TypeOK', FlushDroppedLog
  PROVE  Inv'
<1> USE RunnerAssumption
        DEF Inv, TypeOK, FlushDroppedLog, inputs, buffer, history, Settled,
            Flushing, Ended, Log, Disposition, Processor, Command
<1>1. RowsAccounted'
  BY DEF RowsAccounted, TransferredRows, DroppedRows, Logged, BeforeLogs
<1>2. Owed'
  BY DEF Owed, TransferredRows, Claimed, Logged, BeforeLogs
<1>3. Claimed'
  BY DEF Claimed
<1>4. NoSilentLoss'
  BY DEF NoSilentLoss, Owed, Claimed
<1>5. Executed'
  BY DEF Executed
<1>6. Logged'
  BY DEF Logged, BeforeLogs
<1>7. Ordered'
  BY DEF Ordered
<1>8. QED
  BY <1>1, <1>2, <1>3, <1>4, <1>5, <1>6, <1>7

\* FlushTransferredLog keeps the invariant; its types are TypeCorrect's matter.
LEMMA FlushTransferredLogInv ==
  ASSUME Inv, TypeOK', FlushTransferredLog
  PROVE  Inv'
<1> USE RunnerAssumption
        DEF Inv, TypeOK, FlushTransferredLog, inputs, buffer, history,
            Settled, Flushing, Ended, Log, Disposition, Processor, Command
<1>1. RowsAccounted'
  BY DEF RowsAccounted, TransferredRows, DroppedRows, Logged, BeforeLogs
<1>2. Owed'
  BY DEF Owed, TransferredRows, Claimed, Logged, BeforeLogs
<1>3. Claimed'
  BY DEF Claimed
<1>4. NoSilentLoss'
  BY DEF NoSilentLoss, Owed, Claimed
<1>5. Executed'
  BY DEF Executed
<1>6. Logged'
  BY DEF Logged, BeforeLogs
<1>7. Ordered'
  BY DEF Ordered
<1>8. QED
  BY <1>1, <1>2, <1>3, <1>4, <1>5, <1>6, <1>7

\* Throw keeps the invariant; its types are TypeCorrect's matter.
LEMMA ThrowInv ==
  ASSUME Inv, TypeOK', Throw
  PROVE  Inv'
<1> USE RunnerAssumption
        DEF Inv, TypeOK, Throw, inputs, buffer, history, Settled, Flushing,
            Ended, Log, Disposition, Processor, Command
<1>1. RowsAccounted'
  BY DEF RowsAccounted, TransferredRows, DroppedRows, Logged, BeforeLogs
<1>2. Owed'
  BY DEF Owed, TransferredRows, Claimed, Logged, BeforeLogs
<1>3. Claimed'
  BY DEF Claimed
<1>4. NoSilentLoss'
  BY DEF NoSilentLoss, Owed, Claimed
<1>5. Executed'
  BY DEF Executed
<1>6. Logged'
  BY DEF Logged, BeforeLogs
<1>7. Ordered'
  BY DEF Ordered
<1>8. QED
  BY <1>1, <1>2, <1>3, <1>4, <1>5, <1>6, <1>7


\* Every step keeps the invariant.
LEMMA InvNext == Inv /\ TypeOK' /\ [Next]_vars => Inv'
<1> SUFFICES ASSUME Inv, TypeOK', [Next]_vars PROVE Inv'
  OBVIOUS
<1>1. CASE Progress
  BY <1>1, TransferRowInv, BlackholeRowInv, UnmatchedRowInv, PerformInv,
     ExecuteReturnsInv, PeriodicFlushDoneInv, ScanEndsInv, FinalFlushDoneInv,
     AfterShardInv, AfterShardDoneInv, FlushDroppedLogInv, FlushTransferredLogInv
  DEF Progress
<1>2. CASE Throw
  BY <1>2, ThrowInv
<1>3. CASE UNCHANGED vars
  BY <1>3 DEF vars, inputs, buffer, history, Inv, TypeOK, RowsAccounted, Owed, Claimed,
              NoSilentLoss, Executed, Logged, Ordered, TransferredRows, DroppedRows
<1>4. QED
  BY <1>1, <1>2, <1>3 DEF Next, Finished

\* The invariant holds of every shard.
THEOREM Invariance == Spec => []Inv
<1>1. Init => Inv
  BY InvInit
<1>2. Inv /\ TypeOK' /\ [Next]_vars => Inv'
  BY InvNext
<1>3. QED
  BY <1>1, <1>2, TypeCorrect, PTL DEF Spec

-----------------------------------------------------------------------------
(* The window of a flush *)

\* A multiple of a positive number is at least that number.
LEMMA AtLeast ==
  ASSUME NEW a \in Nat, NEW d \in Nat \ {0} PROVE a * d >= a
  OBVIOUS

\* A row after which no flush is due is in the window of the row before.
LEMMA SameWindow ==
  ASSUME NEW n \in Nat, ~ FlushDue(n + 1)
  PROVE  (n + 1) - ((n + 1) % FlushEvery) = n - (n % FlushEvery)
<1> DEFINE f == FlushEvery
           q == n \div f
           p == (n + 1) \div f
           m == n % f
           k == (n + 1) % f
<1>1. f \in Nat \ {0}
  BY RunnerAssumption
<1>2. q \in Nat /\ m \in 0..(f - 1) /\ n = f * q + m
  BY <1>1
<1>3. p \in Nat /\ k \in 0..(f - 1) /\ n + 1 = f * p + k
  BY <1>1
<1>4. k # 0
  BY DEF FlushDue
<1> HIDE DEF f, q, p, m, k
<1>5. f * (p - q) = m + 1 - k
  BY <1>1, <1>2, <1>3
<1>6. CASE p - q >= 1
  <2>1. f * (p - q) >= f
    <3>1. p - q \in Nat \ {0}
      BY <1>2, <1>3, <1>6
    <3>2. QED
      BY <1>1, <3>1, AtLeast
  <2>2. QED
    BY <1>1, <1>2, <1>3, <1>4, <1>5, <2>1
<1>7. CASE q - p >= 1
  <2>1. f * (q - p) >= f
    <3>1. q - p \in Nat \ {0}
      BY <1>2, <1>3, <1>7
    <3>2. QED
      BY <1>1, <3>1, AtLeast
  <2>2. f * (q - p) = k - m - 1
    BY <1>1, <1>2, <1>3
  <2>3. QED
    BY <1>1, <1>2, <1>3, <2>1, <2>2
<1>8. CASE p = q
  <2>1. (n + 1) - k = n - m
    BY <1>1, <1>2, <1>3, <1>5, <1>8
  <2>2. QED
    BY <2>1 DEF f, m, k
<1>9. QED
  BY <1>2, <1>3, <1>6, <1>7, <1>8

\* A row that ends in the scan keeps the window: what it adds is its own.
LEMMA RowKeepsWindow ==
  ASSUME Inv, BufferBounded, RowAvailable, pc' = "scan", NEW K \in SUBSET Key,
         NEW d \in Disposition, RowHandled(d),
         pending' \subseteq pending \union ({recordCount + 1} \X K)
  PROVE  BufferBounded'
<1>1. recordCount \in Nat /\ recordCount' = recordCount + 1 /\ ~ FlushDue(recordCount + 1)
  BY DEF Inv, TypeOK, RowHandled
<1>2. recordCount' - (recordCount' % FlushEvery) = recordCount - (recordCount % FlushEvery)
  BY <1>1, SameWindow
<1>3. recordCount % FlushEvery \in 0..(FlushEvery - 1)
  BY <1>1, RunnerAssumption
<1>4. recordCount - (recordCount % FlushEvery) <= recordCount
  BY <1>1, <1>3, RunnerAssumption
<1>5. target' = target /\ \A c \in target : c[1] <= recordCount
  BY <1>1 DEF RowHandled, Inv, Owed, RowsAccounted
<1>6. ASSUME NEW c \in pending
      PROVE  /\ c \notin target' /\ recordCount' - (recordCount' % FlushEvery) < c[1]
             /\ c[1] <= recordCount'
  <2>1. /\ c \notin target /\ recordCount - (recordCount % FlushEvery) < c[1]
        /\ c[1] <= recordCount
    BY DEF BufferBounded, RowAvailable
  <2>2. c[1] \in Nat
    BY DEF Inv, TypeOK, Command
  <2>3. QED
    BY <1>1, <1>2, <1>5, <2>1, <2>2
<1>7. ASSUME NEW c \in {recordCount + 1} \X K
      PROVE  /\ c \notin target' /\ recordCount' - (recordCount' % FlushEvery) < c[1]
             /\ c[1] <= recordCount'
  <2>1. c[1] = recordCount + 1
    OBVIOUS
  <2>2. ~ (recordCount + 1 <= recordCount)
    BY <1>1
  <2>3. c \notin target'
    BY <1>5, <2>1, <2>2
  <2>4. recordCount - (recordCount % FlushEvery) < recordCount + 1
    BY <1>1, <1>3, RunnerAssumption
  <2>5. QED
    BY <1>1, <1>2, <2>1, <2>3, <2>4
<1>8. QED
  BY <1>6, <1>7 DEF BufferBounded

\* Between two rows the buffer holds commands of the current flush window only, and
\* none that was performed, whatever the flush period and the number of rows.
THEOREM BufferIsBounded == Spec => []BufferBounded
<1>1. Init => BufferBounded
  BY DEF Init, BufferBounded
<1>2. Inv /\ BufferBounded /\ [Next]_vars => BufferBounded'
  <2> SUFFICES ASSUME Inv, BufferBounded, [Next]_vars, pc' = "scan" PROVE BufferBounded'
    BY DEF BufferBounded
  <2>1. ASSUME NEW p \in Pipeline, NEW K \in Bags(p), TransferRow(p, K) PROVE BufferBounded'
    BY <2>1, RowKeepsWindow DEF TransferRow, Bags, Disposition
  <2>2. ASSUME NEW p \in Pipeline, NEW K \in Bags(p), BlackholeRow(p, K) PROVE BufferBounded'
    BY <2>2, RowKeepsWindow DEF BlackholeRow, Bags, Disposition
  <2>3. CASE UnmatchedRow
    BY <2>3, RowKeepsWindow DEF UnmatchedRow, Disposition
  <2>4. CASE PeriodicFlushDone
    BY <2>4 DEF PeriodicFlushDone, NewBuffer, BufferBounded
  <2>5. CASE UNCHANGED vars
    BY <2>5 DEF vars, buffer, BufferBounded
  <2>6. QED
    BY <2>1, <2>2, <2>3, <2>4, <2>5
    DEF Next, Progress, Finished, Perform, ExecuteReturns, ScanEnds, FinalFlushDone,
        AfterShard, AfterShardDone, FlushDroppedLog, FlushTransferredLog, Throw, Flushing,
        Ended
<1>3. QED
  BY <1>1, <1>2, Invariance, PTL DEF Spec

-----------------------------------------------------------------------------
(* The properties *)

\* No command is lost between two flushes, whatever the flush period and the
\* number of rows: after the last flush each one is performed or warned about.
THEOREM NothingLost == Spec => []NoSilentLoss
<1>1. Inv => NoSilentLoss
  BY DEF Inv
<1>2. QED
  BY <1>1, Invariance, PTL

\* The counters, the logs and the scan agree at every point of the shard.
THEOREM RowsAreAccounted == Spec => []RowsAccounted
<1>1. Inv => RowsAccounted
  BY DEF Inv
<1>2. QED
  BY <1>1, Invariance, PTL

\* No command of a dropped row is buffered or performed.
THEOREM DroppedRowsAreInert == Spec => []DroppedRowsWriteNothing
<1>1. Inv => DroppedRowsWriteNothing
  <2> SUFFICES ASSUME Inv, NEW c \in pending \union target
               PROVE  c[1] \in TransferredRows /\ c[1] \notin DroppedRows
    BY DEF DroppedRowsWriteNothing
  <2>1. c[1] \in TransferredRows
    BY DEF Inv, Owed
  <2>2. QED
    BY <2>1 DEF Inv, RowsAccounted
<1>2. QED
  BY <1>1, Invariance, PTL

\* A shard that ends well, an empty one included, has executed every processor.
THEOREM AllProcessorsExecute == Spec => []EveryProcessorExecutes
<1>1. Inv => EveryProcessorExecutes
  BY DEF Inv, Executed, Settled, EveryProcessorExecutes
<1>2. QED
  BY <1>1, Invariance, PTL

\* After its first afterShard hook the shard buffers and performs nothing.
THEOREM HooksAreLast == Spec => HooksComeLast
<1>1. Inv /\ [Next]_vars => [hooked # {} => UNCHANGED <<target, asked, pending>>]_vars
  <2> SUFFICES ASSUME Inv, Next, hooked # {}
               PROVE  UNCHANGED <<target, asked, pending>>
    OBVIOUS
  <2>1. pc \notin {"scan"} \union Flushing
    BY DEF Inv, Ordered
  <2>2. CASE Progress
    BY <2>1, <2>2 DEF Progress, Flushing, RowAvailable, TransferRow, BlackholeRow,
       UnmatchedRow, Perform, ExecuteReturns, PeriodicFlushDone, ScanEnds,
       FinalFlushDone, AfterShard, AfterShardDone, FlushDroppedLog,
       FlushTransferredLog, buffer, history
  <2>3. CASE Throw
    BY <2>3 DEF Throw, buffer, history
  <2>4. CASE Finished
    BY <2>4 DEF Finished, vars, buffer, history
  <2>5. QED
    BY <2>2, <2>3, <2>4 DEF Next
<1>2. QED
  BY <1>1, Invariance, PTL DEF Spec, HooksComeLast

-----------------------------------------------------------------------------
(* Refinement *)

\* The start of the shard is a start of the promise.
LEMMA RefinementInit == Init => Shard!Init
  BY RunnerAssumption
  DEF Init, Shard!Init, DroppedRows, Ended, Log

\* Every step of the shard is a step of the promise or none.
LEMMA RefinementNext == Inv /\ [Next]_vars => [Shard!Next]_(Shard!vars)
<1> SUFFICES ASSUME Inv, [Next]_vars PROVE [Shard!Next]_(Shard!vars)
  OBVIOUS
<1> USE DEF Shard!vars, Shard!Running, Ended, DroppedRows, inputs, buffer, history
<1>1. ASSUME NEW p \in Pipeline, NEW K \in Bags(p), TransferRow(p, K)
      PROVE  Shard!Keep(K) /\ K \in SUBSET Key
  BY <1>1 DEF TransferRow, RowHandled, RowAvailable, Shard!Keep, Bags
<1>2. ASSUME NEW p \in Pipeline, NEW K \in Bags(p), BlackholeRow(p, K)
      PROVE  Shard!Drop
  BY <1>2 DEF BlackholeRow, RowHandled, RowAvailable, Shard!Drop
<1>3. CASE UnmatchedRow
  <2>1. Shard!Drop
    BY <1>3 DEF UnmatchedRow, RowHandled, RowAvailable, Shard!Drop
  <2>2. QED
    BY <2>1 DEF Shard!Next
<1>4. ASSUME NEW c \in pending, Perform(c)
      PROVE  Shard!Perform(c) /\ c \in asked
  BY <1>4 DEF Perform, Drains, Flushing, Shard!Perform, Inv, Owed
<1>5. CASE ExecuteReturns
  BY <1>5 DEF ExecuteReturns
<1>6. CASE PeriodicFlushDone \/ FinalFlushDone
  <2>1. UnclaimedKeys \in SUBSET Key
    BY DEF UnclaimedKeys, Inv, TypeOK, Command
  <2>2. Shard!Warn(UnclaimedKeys)
    BY <1>6 DEF PeriodicFlushDone, FinalFlushDone, WarnUnclaimedKeys, Shard!Warn
  <2>3. QED
    BY <2>1, <2>2 DEF Shard!Next
<1>7. CASE ScanEnds
  BY <1>7 DEF ScanEnds
<1>8. CASE AfterShard \/ AfterShardDone
  BY <1>8 DEF AfterShard, AfterShardDone
<1>9. CASE FlushDroppedLog
  <2>1. logFiles'["dropped"] = dropped /\ logFiles["dropped"] = {}
    BY <1>9 DEF FlushDroppedLog, Inv, TypeOK, Logged, BeforeLogs, Log
  <2>2. QED
    BY <1>9, <2>1 DEF FlushDroppedLog
<1>10. CASE FlushTransferredLog
  <2>1. logFiles'["dropped"] = logFiles["dropped"]
    BY <1>10 DEF FlushTransferredLog, Inv, TypeOK, Log
  <2>2. recordCount = rows /\ \A c \in asked : c \in target \/ c[2] \in warned
    BY <1>10 DEF FlushTransferredLog, Inv, NoSilentLoss, Ordered, Settled
  <2>3. Shard!Finish
    BY <1>10, <2>1, <2>2 DEF FlushTransferredLog, Shard!Finish
  <2>4. QED
    BY <2>3 DEF Shard!Next
<1>11. CASE Throw
  <2>1. Shard!Abort
    BY <1>11 DEF Throw, Shard!Abort
  <2>2. QED
    BY <2>1 DEF Shard!Next
<1>12. CASE UNCHANGED vars
  BY <1>12 DEF vars
<1>13. QED
  BY <1>1, <1>2, <1>3, <1>4, <1>5, <1>6, <1>7, <1>8, <1>9, <1>10, <1>11, <1>12
  DEF Next, Progress, Finished, Shard!Next

\* The runner's shard keeps the promise of ShardTransfer: rows in order, kept
\* or dropped, commands performed once, and success only with nothing lost.
THEOREM Refinement == Spec => RefinesShardTransfer
<1>1. Init => Shard!Init
  BY RefinementInit
<1>2. Inv /\ [Next]_vars => [Shard!Next]_(Shard!vars)
  BY RefinementNext
<1>3. QED
  BY <1>1, <1>2, Invariance, PTL DEF Spec, RefinesShardTransfer, Shard!Spec
==============================================================================

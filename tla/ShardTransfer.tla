---------------------------- MODULE ShardTransfer ----------------------------
(***************************************************************************)
(* What one shard of a transfer promises, without saying how: the source   *)
(* rows of the shard are taken one at a time, each row is either kept (the *)
(* commands its pipeline asked for are now owed to the target) or dropped, *)
(* and the shard may report success only when every row was taken and no   *)
(* command was lost without a word: each one was performed on the target,  *)
(* or the operator was warned that commands of its key go nowhere.         *)
(*                                                                         *)
(* PipelineRunner.tla, the translation of PipelineRunner.runShard with its *)
(* buffer, its periodic flushes and its processors, implements this.       *)
(***************************************************************************)
EXTENDS Naturals

CONSTANT Key          \* the command keys a record can emit

VARIABLES
  rows,               \* how many rows the shard holds
  taken,              \* how many of them were taken, in scan order
  dropped,            \* the rows that were dropped
  asked,              \* the commands the kept rows asked for: <<row, key>>
  target,             \* the commands performed on the target
  warned,             \* the keys the operator was warned about
  outcome             \* "running", "done" or "failed"

vars == <<rows, taken, dropped, asked, target, warned, outcome>>

Init ==
  /\ rows \in Nat
  /\ taken = 0
  /\ dropped = {}
  /\ asked = {}
  /\ target = {}
  /\ warned = {}
  /\ outcome = "running"

Running == outcome = "running"

\* The next row is kept: it now owes the target one command per key of K.
Keep(K) ==
  /\ Running
  /\ taken < rows
  /\ taken' = taken + 1
  /\ asked' = asked \union ({taken + 1} \X K)
  /\ UNCHANGED <<rows, dropped, target, warned, outcome>>

\* The next row is dropped: it will never owe anything.
Drop ==
  /\ Running
  /\ taken < rows
  /\ taken' = taken + 1
  /\ dropped' = dropped \union {taken + 1}
  /\ UNCHANGED <<rows, asked, target, warned, outcome>>

\* One owed command is performed, once.
Perform(c) ==
  /\ Running
  /\ c \in asked \ target
  /\ target' = target \union {c}
  /\ UNCHANGED <<rows, taken, dropped, asked, warned, outcome>>

\* The operator is warned about the keys of K.
Warn(K) ==
  /\ Running
  /\ warned' = warned \union K
  /\ UNCHANGED <<rows, taken, dropped, asked, target, outcome>>

\* Success is reported: nothing is left to take and nothing was lost silently.
Finish ==
  /\ Running
  /\ taken = rows
  /\ \A c \in asked : c \in target \/ c[2] \in warned
  /\ outcome' = "done"
  /\ UNCHANGED <<rows, taken, dropped, asked, target, warned>>

\* A shard may fail at any time before that, leaving what it performed behind.
Abort ==
  /\ Running
  /\ outcome' = "failed"
  /\ UNCHANGED <<rows, taken, dropped, asked, target, warned>>

Next ==
  \/ \E K \in SUBSET Key : Keep(K)
  \/ Drop
  \/ \E c \in asked : Perform(c)
  \/ \E K \in SUBSET Key : Warn(K)
  \/ Finish
  \/ Abort

Spec == Init /\ [][Next]_vars
==============================================================================

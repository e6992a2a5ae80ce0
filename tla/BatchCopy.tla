------------------------------- MODULE BatchCopy -------------------------------
(***************************************************************************)
(* The copies of a flush: S3Processor.execute has S3Client.batchCopy copy  *)
(* the objects in windows, all those of a window at once, each with        *)
(* retries of its own.                                                     *)
(***************************************************************************)
EXTENDS Retry, FiniteSets, Sequences

CONSTANTS
  Object,       \* the objects of the target bucket
  Concurrency   \* tuning.concurrency

ASSUME BatchCopyAssumption == Concurrency \in Nat \ {0}

VARIABLES
  copies,       \* the copies of this flush, the sequence of their target objects
  missing,      \* those whose source object is not there
  copyStep,     \* "waiting", "copying", "done", "skipped" or "failed"
  tries,        \* tries[c]: the attempt that copy c is at
  bucket,       \* bucket[o]: the copy that object o is, 0 for what was there before
  lateCopies,   \* copies that were given up and are still on their way
  lost          \* history: the copies that went without an answer

copyVars == <<copies, missing, copyStep, tries, bucket, lateCopies, lost>>

Copy == 1..Len(copies)

CopyInit ==
  /\ missing \in SUBSET Copy
  /\ copyStep = [c \in Copy |-> "waiting"]
  /\ tries = [c \in Copy |-> 0]
  /\ bucket = [o \in Object |-> 0]
  /\ lateCopies = {} /\ lost = {}

In(step) == {c \in Copy : copyStep[c] = step}

\* Fault: a copy that is done is followed by the next at once.
WindowIsOverEarly == Cardinality(In("copying")) < Concurrency /\ In("failed") = {}

\* Promise.all: the next window waits for all of this one.
WindowIsOver == In("copying") = {} /\ In("failed") = {}

StartWindow ==
  /\ WindowIsOver /\ In("waiting") # {}
  /\ LET window == {c \in In("waiting") :
                      Cardinality({d \in In("waiting") : d < c}) < Concurrency}
     IN  copyStep' = [c \in Copy |-> IF c \in window THEN "copying" ELSE copyStep[c]]
  /\ UNCHANGED <<copies, missing, tries, bucket, lateCopies, lost>>

Turns(c, step) == c \in In("copying") /\ copyStep' = [copyStep EXCEPT ![c] = step]

CopyAnswered(c) ==
  /\ Turns(c, "done")
  /\ c \notin missing
  /\ bucket' = [bucket EXCEPT ![copies[c]] = c]
  /\ UNCHANGED <<copies, missing, tries, lateCopies, lost>>

\* A source that is not there is a warning.
CopySkipped(c) ==
  /\ Turns(c, "skipped")
  /\ c \in missing /\ ~IsRetryable(NoSuchKey)
  /\ UNCHANGED <<copies, missing, tries, bucket, lateCopies, lost>>

\* A request that failed may have copied the object, and without an answer it may yet.
CopyUnanswered(c) ==
  \/ UNCHANGED <<bucket, lateCopies, lost>>
  \/ /\ c \notin missing
     /\ bucket' = [bucket EXCEPT ![copies[c]] = c]
     /\ UNCHANGED <<lateCopies, lost>>
  \/ /\ c \notin missing
     /\ lateCopies' = lateCopies \union {c}
     /\ lost' = lost \union {c}
     /\ UNCHANGED bucket

CopyRetried(c) ==
  /\ c \in In("copying")
  /\ CanBeRetried /\ AttemptsLeft(tries[c])
  /\ tries' = [tries EXCEPT ![c] = @ + 1]
  /\ CopyUnanswered(c)
  /\ UNCHANGED <<copies, missing, copyStep>>

\* batchCopy is rejected at once; the other copies of the window go on.
CopyFails(c) ==
  /\ Turns(c, "failed")
  /\ CanBeTerminal \/ ~AttemptsLeft(tries[c])
  /\ CopyUnanswered(c)
  /\ UNCHANGED <<copies, missing, tries>>

CopiesDone == \A c \in Copy : copyStep[c] \in {"done", "skipped"}

\* The process is gone, the requests it has sent are not.
CopyDropped ==
  /\ copyStep' = [c \in Copy |-> IF copyStep[c] = "copying" THEN "failed" ELSE copyStep[c]]
  /\ lateCopies' = lateCopies \union (In("copying") \ missing)
  /\ lost' = lost \union (In("copying") \ missing)
  /\ UNCHANGED <<copies, missing, tries, bucket>>

\* Another run copies everything again.
CopyAgain ==
  /\ copyStep' = [c \in Copy |-> "waiting"]
  /\ tries' = [c \in Copy |-> 0]
  /\ UNCHANGED <<copies, missing, bucket, lateCopies, lost>>

LateCopy(c) ==
  /\ c \in lateCopies
  /\ lateCopies' = lateCopies \ {c}
  /\ bucket' = [bucket EXCEPT ![copies[c]] = c]
  /\ UNCHANGED <<copies, missing, copyStep, tries, lost>>
==============================================================================

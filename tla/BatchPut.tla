-------------------------------- MODULE BatchPut -------------------------------
(***************************************************************************)
(* The puts of a flush on their way to DynamoDB: DdbExecutor.execute       *)
(* groups them by table, DynamoDbClient.batchPut sends each table's in     *)
(* batches, one after another.  What a batch leaves unprocessed is put by  *)
(* a batchPut within the attempt of the first, so that attempts nest: the  *)
(* stack holds those that are under way, the outermost first.  Each of     *)
(* them has a timeout of its own, which leaves behind what it gave up.     *)
(***************************************************************************)
EXTENDS Retry, FiniteSets, Sequences

CONSTANTS
  Row,        \* the rows of the tables
  TableOf,    \* TableOf[w]: the table of row w
  BatchSize   \* BATCH_SIZE

ASSUME BatchPutAssumption == BatchSize \in Nat \ {0}

VARIABLES
  puts,      \* the puts of this flush, the sequence of their rows
  todo,      \* those no batch was made of yet
  stack,     \* the attempts under way: what they put, and their number
  stored,    \* stored[w]: the put row w holds, 0 for what was there before
  late,      \* puts in requests that were given up and are still on their way
  put,       \* history: the puts that reached their row in this run
  givenUp    \* history: the puts whose requests went without an answer

putVars == <<puts, todo, stack, stored, late, put, givenUp>>

Put == 1..Len(puts)
TableOfPut(r) == TableOf[puts[r]]

\* Where in the Map of DdbExecutor a table comes: by the first of its puts.
FirstPut(table) ==
  CHOOSE q \in Put : /\ TableOfPut(q) = table
                     /\ \A p \in Put : TableOfPut(p) = table => q <= p

\* The next batch: of the first table that has puts left, as many of the first
\* of them as a batch takes.
Batch ==
  {r \in todo :
     /\ \A q \in todo : FirstPut(TableOfPut(r)) <= FirstPut(TableOfPut(q))
     /\ Cardinality({q \in todo : TableOfPut(q) = TableOfPut(r) /\ q < r}) < BatchSize}

Attempt(some) == [batch |-> some, attempt |-> 0]

PutInit ==
  /\ todo = Put
  /\ stack = <<>>
  /\ stored = [w \in Row |-> 0]
  /\ late = {} /\ put = {} /\ givenUp = {}

SendBatch ==
  /\ stack = <<>> /\ todo # {}
  /\ stack' = <<Attempt(Batch)>>
  /\ todo' = todo \ Batch
  /\ UNCHANGED <<puts, stored, late, put, givenUp>>

InHand == stack[Len(stack)].batch

\* DynamoDB refuses a request that has two puts for a row.
Admissible(batch) == \A r, q \in batch : puts[r] = puts[q] => r = q

\* Some puts, of different rows, reach the table.
Store(some) ==
  stored' = [w \in Row |-> IF \E r \in some : puts[r] = w
                           THEN CHOOSE r \in some : puts[r] = w ELSE stored[w]]

\* Fault: what the table left unprocessed is forgotten.
AfterAnswerForgetful(processed) == <<>>

\* With nothing unprocessed the batchPut of the innermost attempt returns, and with
\* it all the attempts around it.
AfterAnswer(processed) ==
  IF processed = InHand THEN <<>> ELSE Append(stack, Attempt(InHand \ processed))

\* A request is answered; something of it was processed.
PutAnswered ==
  /\ stack # <<>> /\ Admissible(InHand)
  /\ \E processed \in (SUBSET InHand) \ {{}} :
       /\ Store(processed)
       /\ put' = put \union processed
       /\ stack' = AfterAnswer(processed)
  /\ UNCHANGED <<puts, todo, late, givenUp>>

\* What a request that failed did: part of it may have been processed, and without an
\* answer the rest may yet be.
Unanswered ==
  \E processed \in IF Admissible(InHand) THEN SUBSET InHand ELSE {{}} :
    /\ Store(processed)
    /\ put' = put \union processed
    /\ \/ UNCHANGED <<late, givenUp>>
       \/ /\ Admissible(InHand)
          /\ late' = late \union (InHand \ processed)
          /\ givenUp' = givenUp \union InHand

\* The attempts that may be repeated when the innermost one fails.
Retrying == {i \in 1..Len(stack) : AttemptsLeft(stack[i].attempt)}

\* Fault: a repeated attempt is counted as a first one.
RetriedUncounted(i) == SubSeq(stack, 1, i)

\* Attempt i is repeated, with the whole of its batch.
Retried(i) == [SubSeq(stack, 1, i) EXCEPT ![i].attempt = @ + 1]

\* An error that may be retried passes through the attempts that are the last of
\* theirs.
PutRetried ==
  /\ stack # <<>> /\ CanBeRetried
  /\ Unanswered
  /\ \E i \in Retrying : (\A j \in Retrying : j <= i) /\ stack' = Retried(i)
  /\ UNCHANGED <<puts, todo>>

\* An error that may not be retried, or that is no more, passes through all of them:
\* batchPut is rejected.
BatchPutRejected ==
  /\ stack # <<>>
  /\ Unanswered
  /\ stack' = <<>>
  /\ UNCHANGED <<puts, todo>>

PutFails == (CanBeTerminal \/ Retrying = {}) /\ BatchPutRejected

\* The timeout of attempt i is not retried and batchPut is rejected at once; what
\* attempt i awaits goes on, but will not be tried again by attempt i.
PutTimesOut(i) ==
  /\ i \in 1..Len(stack) /\ ~IsRetryable(Timeout)
  /\ stack' = [SubSeq(stack, i, Len(stack)) EXCEPT ![1].attempt = MaxRetries]
  /\ UNCHANGED <<puts, todo, stored, late, put, givenUp>>

\* The process is gone, the request it has sent is not.
PutDropped ==
  /\ stack' = <<>>
  /\ IF stack # <<>> /\ Admissible(InHand)
     THEN late' = late \union InHand /\ givenUp' = givenUp \union InHand
     ELSE UNCHANGED <<late, givenUp>>
  /\ UNCHANGED <<puts, todo, stored, put>>

\* Another run puts everything again.
PutAgain ==
  /\ todo' = Put
  /\ put' = {}
  /\ UNCHANGED <<puts, stack, stored, late, givenUp>>

LatePut(r) ==
  /\ r \in late
  /\ late' = late \ {r}
  /\ Store({r})
  /\ UNCHANGED <<puts, todo, stack, put, givenUp>>
==============================================================================

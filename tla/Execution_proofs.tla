--------------------------- MODULE Execution_proofs ----------------------------
(***************************************************************************)
(* Proofs about Execution.                                                 *)
(***************************************************************************)
EXTENDS Execution, FiniteSetTheorems, SequenceTheorems, TLAPS

Frame == [batch : SUBSET Put, attempt : 0..MaxRetries]

\* A row holds what it held before, or one of the puts that reached the table.
LEMMA StoreTyped ==
  ASSUME TypeOK, NEW some \in SUBSET Put, Store(some)
  PROVE  /\ stored' \in [Row -> 0..Len(puts)]
         /\ \A w \in Row :
              \/ stored'[w] = stored[w] /\ \A r \in some : puts[r] # w
              \/ stored'[w] \in some /\ puts[stored'[w]] = w
<1>1. \A w \in Row :
        \/ stored'[w] = stored[w] /\ \A r \in some : puts[r] # w
        \/ stored'[w] \in some /\ puts[stored'[w]] = w
  <2> SUFFICES ASSUME NEW w \in Row
               PROVE  \/ stored'[w] = stored[w] /\ \A r \in some : puts[r] # w
                      \/ stored'[w] \in some /\ puts[stored'[w]] = w
    OBVIOUS
  <2>1. stored'[w] = IF \E r \in some : puts[r] = w
                     THEN CHOOSE r \in some : puts[r] = w ELSE stored[w]
    BY DEF Store
  <2>2. CASE \E r \in some : puts[r] = w
    BY <2>1, <2>2
  <2>3. CASE ~\E r \in some : puts[r] = w
    BY <2>1, <2>3
  <2>4. QED
    BY <2>2, <2>3
<1>2. DOMAIN stored' = Row
  BY DEF Store
<1>3. ASSUME NEW w \in Row PROVE stored'[w] \in 0..Len(puts)
  <2>1. Len(puts) \in Nat /\ stored[w] \in 0..Len(puts)
    BY LenProperties DEF TypeOK
  <2>2. CASE stored'[w] = stored[w]
    BY <2>1, <2>2
  <2>3. CASE stored'[w] \in some
    <3>1. stored'[w] \in Put
      BY <2>3
    <3>2. QED
      BY <2>1, <3>1 DEF Put
  <2>4. QED
    BY <1>1, <2>2, <2>3
<1>4. QED
  BY <1>1, <1>2, <1>3 DEF Store

\* The innermost attempt is one of the stack.
LEMMA InHandTyped ==
  ASSUME TypeOK, stack # <<>>
  PROVE  /\ Len(stack) \in Nat /\ Len(stack) >= 1
         /\ stack[Len(stack)] \in Frame /\ InHand \subseteq Put
<1>1. stack \in Seq(Frame)
  BY DEF TypeOK, Frame
<1>2. Len(stack) \in Nat /\ Len(stack) >= 1 /\ stack[Len(stack)] \in Frame
  BY <1>1, EmptySeq, LenProperties, ElementOfSeq
<1>3. QED
  BY <1>2 DEF InHand, Frame

\* What is left unprocessed is put by an attempt within the innermost one.
LEMMA Appended ==
  ASSUME TypeOK, stack # <<>>, NEW rest \in SUBSET Put,
         stack' = Append(stack, Attempt(rest))
  PROVE  /\ stack' \in Seq(Frame)
         /\ Len(stack') = Len(stack) + 1
         /\ \A i \in 1..Len(stack) : stack'[i] = stack[i]
         /\ stack'[Len(stack) + 1].batch = rest
<1>1. Attempt(rest) \in Frame
  BY RetryAssumption DEF Attempt, Frame
<1>2. stack \in Seq(Frame)
  BY DEF TypeOK, Frame
<1>3. QED
  BY <1>1, <1>2, AppendProperties DEF Attempt

\* Attempt i is the innermost one after a repetition, with the batches as they were.
LEMMA Repeated ==
  ASSUME TypeOK, NEW i \in 1..Len(stack), AttemptsLeft(stack[i].attempt), stack' = Retried(i)
  PROVE  /\ stack' \in Seq(Frame)
         /\ Len(stack') = i
         /\ \A j \in 1..i : stack'[j].batch = stack[j].batch
<1> DEFINE part == SubSeq(stack, 1, i)
<1>1. stack \in Seq(Frame) /\ Len(stack) \in Nat /\ \A j \in 1..Len(stack) : stack[j] \in Frame
  BY ElementOfSeq, LenProperties DEF TypeOK, Frame
<1>2. part \in Seq(Frame) /\ Len(part) = i /\ \A j \in 1..i : part[j] = stack[j]
  BY <1>1, SubSeqProperties
<1> HIDE DEF part
<1>3. stack' = [part EXCEPT ![i] = [part[i] EXCEPT !.attempt = part[i].attempt + 1]]
  BY DEF Retried, part
<1>4. [part[i] EXCEPT !.attempt = part[i].attempt + 1] \in Frame
  <2>1. part[i] \in Frame /\ part[i].attempt < MaxRetries
    BY <1>1, <1>2 DEF AttemptsLeft
  <2>2. part[i].attempt + 1 \in 0..MaxRetries
    BY <2>1, RetryAssumption DEF Frame
  <2>3. QED
    BY <2>1, <2>2 DEF Frame
<1>5. stack' \in Seq(Frame) /\ Len(stack') = i
  BY <1>2, <1>3, <1>4, ExceptSeq
<1>6. ASSUME NEW j \in 1..i PROVE stack'[j].batch = stack[j].batch
  <2>1. DOMAIN part = 1..i /\ part[j] \in Frame
    BY <1>1, <1>2, LenProperties
  <2>2. CASE j = i
    BY <1>2, <1>3, <2>1, <2>2 DEF Frame
  <2>3. CASE j # i
    BY <1>2, <1>3, <2>1, <2>3
  <2>4. QED
    BY <2>2, <2>3
<1>7. QED
  BY <1>5, <1>6

\* What attempt i leaves behind is the part of the stack from i on.
LEMMA LeftBehind ==
  ASSUME TypeOK, NEW i \in Nat, PutTimesOut(i)
  PROVE  /\ i \in 1..Len(stack)
         /\ stack' \in Seq(Frame)
         /\ Len(stack') = Len(stack) - i + 1
         /\ \A j \in 1..Len(stack') : stack'[j].batch = stack[i + j - 1].batch
<1> DEFINE part == SubSeq(stack, i, Len(stack))
           n == Len(stack) - i + 1
<1>1. /\ stack \in Seq(Frame) /\ Len(stack) \in Nat
      /\ \A j \in 1..Len(stack) : stack[j] \in Frame
  BY ElementOfSeq, LenProperties DEF TypeOK, Frame
<1>2. i \in 1..Len(stack)
  BY DEF PutTimesOut
<1>3. n \in Nat /\ n >= 1
  BY <1>1, <1>2
<1>4. part \in Seq(Frame) /\ Len(part) = n /\ \A j \in 1..n : part[j] = stack[i + j - 1]
  BY <1>1, <1>2, SubSeqProperties
<1>5. \A j \in 1..n : part[j] \in Frame
  BY <1>3, <1>4, ElementOfSeq
<1> HIDE DEF part, n
<1>6. stack' = [part EXCEPT ![1] = [part[1] EXCEPT !.attempt = MaxRetries]]
  BY DEF PutTimesOut, part
<1>7. [part[1] EXCEPT !.attempt = MaxRetries] \in Frame
  BY <1>3, <1>5, RetryAssumption DEF Frame
<1>8. stack' \in Seq(Frame) /\ Len(stack') = n
  BY <1>3, <1>4, <1>6, <1>7, ExceptSeq
<1>9. ASSUME NEW j \in 1..n PROVE stack'[j].batch = stack[i + j - 1].batch
  <2>1. DOMAIN part = 1..n /\ part[j] \in Frame
    BY <1>4, <1>5, LenProperties
  <2>2. CASE j = 1
    BY <1>3, <1>4, <1>6, <2>1, <2>2 DEF Frame
  <2>3. CASE j # 1
    BY <1>4, <1>6, <2>1, <2>3
  <2>4. QED
    BY <2>2, <2>3
<1>10. QED
  BY <1>2, <1>8, <1>9 DEF n

-----------------------------------------------------------------------------
(* Types *)

\* What a request does that is not known to have been answered.
LEMMA UnansweredTyped ==
  ASSUME TypeOK, stack # <<>>, Unanswered
  PROVE  /\ stored' \in [Row -> 0..Len(puts)]
         /\ late' \subseteq Put /\ put' \subseteq Put /\ givenUp' \subseteq Put
<1>1. PICK processed \in IF Admissible(InHand) THEN SUBSET InHand ELSE {{}} :
        /\ Store(processed)
        /\ put' = put \union processed
        /\ \/ UNCHANGED <<late, givenUp>>
           \/ /\ Admissible(InHand)
              /\ late' = late \union (InHand \ processed)
              /\ givenUp' = givenUp \union InHand
  BY DEF Unanswered
<1>2. InHand \subseteq Put /\ processed \in SUBSET Put
  BY <1>1, InHandTyped
<1>3. stored' \in [Row -> 0..Len(puts)]
  BY <1>1, <1>2, StoreTyped
<1>4. QED
  BY <1>1, <1>2, <1>3 DEF TypeOK

\* The variables of the puts keep their types in every step of BatchPut.
LEMMA PutsTyped ==
  ASSUME TypeOK,
         \/ SendBatch \/ PutAnswered \/ PutRetried \/ PutFails \/ PutDropped \/ PutAgain
         \/ \E i \in 1..Len(stack) : PutTimesOut(i)
         \/ \E r \in late : LatePut(r)
  PROVE  /\ puts' = puts
         /\ todo' \subseteq Put /\ late' \subseteq Put /\ put' \subseteq Put /\ givenUp' \subseteq Put
         /\ stack' \in Seq(Frame)
         /\ stored' \in [Row -> 0..Len(puts)]
<1> DEFINE Goal ==
      /\ puts' = puts
      /\ todo' \subseteq Put /\ late' \subseteq Put /\ put' \subseteq Put /\ givenUp' \subseteq Put
      /\ stack' \in Seq(Frame)
      /\ stored' \in [Row -> 0..Len(puts)]
<1>0. <<>> \in Seq(Frame) /\ stack \in Seq(Frame)
  BY DEF TypeOK, Frame
<1>1. CASE SendBatch
  <2>1. Batch \subseteq Put
    BY DEF Batch, TypeOK
  <2>2. Attempt(Batch) \in Frame
    BY <2>1, RetryAssumption DEF Attempt, Frame
  <2>3. stack' \in Seq(Frame)
    BY <1>1, <2>2 DEF SendBatch
  <2>4. QED
    BY <1>1, <2>3 DEF SendBatch, TypeOK
<1>2. CASE PutAnswered
  <2>1. PICK processed \in (SUBSET InHand) \ {{}} :
          /\ Store(processed)
          /\ put' = put \union processed
          /\ stack' = AfterAnswer(processed)
    BY <1>2 DEF PutAnswered
  <2>2. stack # <<>> /\ UNCHANGED <<puts, todo, late, givenUp>>
    BY <1>2 DEF PutAnswered
  <2>3. processed \in SUBSET Put /\ InHand \ processed \in SUBSET Put
    BY <2>2, InHandTyped
  <2>4. stored' \in [Row -> 0..Len(puts)]
    BY <2>1, <2>3, StoreTyped
  <2>5. stack' \in Seq(Frame)
    <3>1. CASE processed = InHand
      BY <1>0, <2>1, <3>1 DEF AfterAnswer
    <3>2. CASE processed # InHand
      <4>1. stack' = Append(stack, Attempt(InHand \ processed))
        BY <2>1, <3>2 DEF AfterAnswer
      <4>2. QED
        BY <2>2, <2>3, <4>1, Appended
    <3>3. QED
      BY <3>1, <3>2
  <2>6. QED
    BY <2>1, <2>2, <2>3, <2>4, <2>5 DEF TypeOK
<1>3. CASE PutRetried
  <2>1. stack # <<>> /\ Unanswered /\ UNCHANGED <<puts, todo>>
    BY <1>3 DEF PutRetried
  <2>2. PICK i \in Retrying : stack' = Retried(i)
    BY <1>3 DEF PutRetried
  <2>3. i \in 1..Len(stack) /\ AttemptsLeft(stack[i].attempt)
    BY DEF Retrying
  <2>4. stack' \in Seq(Frame)
    BY <2>2, <2>3, Repeated
  <2>5. QED
    BY <2>1, <2>4, UnansweredTyped DEF TypeOK
<1>4. CASE PutFails
  <2>1. stack # <<>> /\ Unanswered /\ stack' = <<>> /\ UNCHANGED <<puts, todo>>
    BY <1>4 DEF PutFails, BatchPutRejected
  <2>2. QED
    BY <1>0, <2>1, UnansweredTyped DEF TypeOK
<1>5. CASE PutDropped
  <2>1. /\ stack' = <<>> /\ UNCHANGED <<puts, todo, stored, put>>
        /\ \/ stack # <<>> /\ late' = late \union InHand /\ givenUp' = givenUp \union InHand
           \/ UNCHANGED <<late, givenUp>>
    BY <1>5 DEF PutDropped
  <2>2. stack # <<>> => InHand \subseteq Put
    BY InHandTyped
  <2>3. QED
    BY <1>0, <2>1, <2>2 DEF TypeOK
<1>6. CASE PutAgain
  BY <1>0, <1>6 DEF PutAgain, TypeOK
<1>7. CASE \E i \in 1..Len(stack) : PutTimesOut(i)
  <2>1. PICK i \in 1..Len(stack) : PutTimesOut(i)
    BY <1>7
  <2>2. i \in Nat
    OBVIOUS
  <2>3. stack' \in Seq(Frame)
    BY <2>1, <2>2, LeftBehind
  <2>4. QED
    BY <2>1, <2>3 DEF PutTimesOut, TypeOK
<1>8. CASE \E r \in late : LatePut(r)
  <2>1. PICK r \in late : LatePut(r)
    BY <1>8
  <2>2. {r} \in SUBSET Put
    BY DEF TypeOK
  <2>3. stored' \in [Row -> 0..Len(puts)]
    BY <2>1, <2>2, StoreTyped DEF LatePut
  <2>4. QED
    BY <1>0, <2>1, <2>3 DEF LatePut, TypeOK
<1>9. QED
  BY <1>1, <1>2, <1>3, <1>4, <1>5, <1>6, <1>7, <1>8

CopyTypes(step, tried, objects, behind, unheard) ==
  /\ step \in [Copy -> {"waiting", "copying", "done", "skipped", "failed"}]
  /\ tried \in [Copy -> 0..MaxRetries]
  /\ objects \in [Object -> 0..Len(copies)]
  /\ behind \subseteq Copy /\ unheard \subseteq Copy

\* The variables of the copies keep their types in every step of BatchCopy.
LEMMA CopiesTyped ==
  ASSUME TypeOK,
         \/ StartWindow \/ CopyDropped \/ CopyAgain
         \/ \E c \in Copy : CopyAnswered(c) \/ CopySkipped(c) \/ CopyRetried(c) \/ CopyFails(c)
         \/ \E c \in lateCopies : LateCopy(c)
  PROVE  /\ copies' = copies /\ missing' = missing
         /\ CopyTypes(copyStep', tries', bucket', lateCopies', lost')
<1>1. Len(copies) \in Nat /\ CopyTypes(copyStep, tries, bucket, lateCopies, lost)
  BY LenProperties DEF TypeOK, CopyTypes
<1>2. \A c \in Copy : c \in 0..Len(copies)
  BY <1>1 DEF Copy
<1>3. CASE StartWindow
  BY <1>1, <1>3 DEF StartWindow, CopyTypes
<1>4. CASE CopyDropped
  <2>1. copyStep' \in [Copy -> {"waiting", "copying", "done", "skipped", "failed"}]
    BY <1>1, <1>4 DEF CopyDropped, CopyTypes
  <2>2. QED
    BY <1>1, <1>4, <2>1 DEF CopyDropped, CopyTypes, In
<1>5. CASE CopyAgain
  <2>1. tries' \in [Copy -> 0..MaxRetries]
    BY <1>5, RetryAssumption DEF CopyAgain
  <2>2. QED
    BY <1>1, <1>5, <2>1 DEF CopyAgain, CopyTypes
<1>6. ASSUME NEW c \in Copy, CopyUnanswered(c)
      PROVE  /\ bucket' \in [Object -> 0..Len(copies)]
             /\ lateCopies' \subseteq Copy /\ lost' \subseteq Copy
  BY <1>1, <1>2, <1>6 DEF CopyUnanswered, CopyTypes
<1>7. ASSUME NEW c \in Copy, CopyAnswered(c) \/ CopySkipped(c) \/ CopyRetried(c) \/ CopyFails(c)
      PROVE  /\ copies' = copies /\ missing' = missing
             /\ CopyTypes(copyStep', tries', bucket', lateCopies', lost')
  <2>1. CASE CopyAnswered(c)
    BY <1>1, <1>2, <2>1 DEF CopyAnswered, Turns, CopyTypes
  <2>2. CASE CopySkipped(c)
    BY <1>1, <2>2 DEF CopySkipped, Turns, CopyTypes
  <2>3. CASE CopyRetried(c)
    <3>1. tries[c] \in 0..MaxRetries /\ tries[c] < MaxRetries
      BY <1>1, <2>3 DEF CopyRetried, AttemptsLeft, CopyTypes
    <3>2. tries[c] + 1 \in 0..MaxRetries
      BY <3>1, RetryAssumption
    <3>3. tries' \in [Copy -> 0..MaxRetries]
      BY <1>1, <2>3, <3>2 DEF CopyRetried, CopyTypes
    <3>4. QED
      BY <1>1, <1>6, <2>3, <3>3 DEF CopyRetried, CopyTypes
  <2>4. CASE CopyFails(c)
    BY <1>1, <1>6, <2>4 DEF CopyFails, Turns, CopyTypes
  <2>5. QED
    BY <1>7, <2>1, <2>2, <2>3, <2>4
<1>8. ASSUME NEW c \in lateCopies, LateCopy(c)
      PROVE  /\ copies' = copies /\ missing' = missing
             /\ CopyTypes(copyStep', tries', bucket', lateCopies', lost')
  BY <1>1, <1>2, <1>8 DEF LateCopy, CopyTypes
<1>9. QED
  BY <1>3, <1>4, <1>5, <1>7, <1>8

\* Every variable keeps its type in every step: Next, by the module that takes it.
LEMMA TypedNext ==
  ASSUME TypeOK, [Next]_vars
  PROVE  TypeOK'
<1> DEFINE PutsOK ==
             /\ puts' = puts
             /\ todo' \subseteq Put /\ late' \subseteq Put /\ put' \subseteq Put
             /\ givenUp' \subseteq Put
             /\ stack' \in Seq(Frame)
             /\ stored' \in [Row -> 0..Len(puts)]
           CopiesOK ==
             /\ copies' = copies /\ missing' = missing
             /\ CopyTypes(copyStep', tries', bucket', lateCopies', lost')
           RestOK ==
             /\ outcome' \in {"putting", "copying", "ok", "failed", "exited"}
             /\ runs' \in 1..MaxRuns
<1>1. UNCHANGED putVars => PutsOK
  BY DEF putVars, TypeOK, Frame
<1>2. UNCHANGED copyVars => CopiesOK
  BY DEF copyVars, TypeOK, CopyTypes
<1>3. UNCHANGED <<outcome, runs>> => RestOK
  BY DEF TypeOK
<1>4. PutsOK /\ CopiesOK /\ RestOK => TypeOK'
  BY DEF TypeOK, CopyTypes, Frame, Put, Copy
<1>5. CASE StartBatch
  <2>1. PutsOK
    BY <1>5, PutsTyped DEF StartBatch
  <2>2. UNCHANGED copyVars /\ UNCHANGED <<outcome, runs>>
    BY <1>5 DEF StartBatch
  <2>3. QED
    BY <1>2, <1>3, <1>4, <2>1, <2>2
<1>6. CASE PutStep
  <2>1. PutsOK
    BY <1>6, PutsTyped DEF PutStep
  <2>2. UNCHANGED copyVars /\ runs' = runs /\ (outcome' = outcome \/ outcome' = "failed")
    BY <1>6 DEF PutStep, Rejected
  <2>3. RestOK
    BY <2>2 DEF TypeOK
  <2>4. QED
    BY <1>2, <1>4, <2>1, <2>2, <2>3
<1>7. CASE PutsDone \/ Succeeds
  <2>1. UNCHANGED putVars /\ UNCHANGED copyVars
    BY <1>7 DEF PutsDone, Succeeds
  <2>2. RestOK
    BY <1>7 DEF PutsDone, Succeeds, TypeOK
  <2>3. QED
    BY <1>1, <1>2, <1>4, <2>1, <2>2
<1>8. CASE StartCopies
  <2>1. CopiesOK
    BY <1>8, CopiesTyped DEF StartCopies
  <2>2. UNCHANGED putVars /\ UNCHANGED <<outcome, runs>>
    BY <1>8 DEF StartCopies
  <2>3. QED
    BY <1>1, <1>3, <1>4, <2>1, <2>2
<1>9. CASE \E c \in Copy : CopyStep(c)
  <2>1. CopiesOK
    BY <1>9, CopiesTyped DEF CopyStep
  <2>2. UNCHANGED putVars /\ runs' = runs /\ (outcome' = outcome \/ outcome' = "failed")
    BY <1>9 DEF CopyStep, Rejected
  <2>3. RestOK
    BY <2>2 DEF TypeOK
  <2>4. QED
    BY <1>1, <1>4, <2>1, <2>2, <2>3
<1>10. CASE Exit
  <2>1. PutsOK
    BY <1>10, PutsTyped DEF Exit
  <2>2. CopiesOK
    BY <1>10, CopiesTyped DEF Exit
  <2>3. RestOK
    BY <1>10 DEF Exit, TypeOK
  <2>4. QED
    BY <1>4, <2>1, <2>2, <2>3
<1>11. CASE Rerun
  <2>1. PutsOK
    BY <1>11, PutsTyped DEF Rerun
  <2>2. CopiesOK
    BY <1>11, CopiesTyped DEF Rerun
  <2>3. RestOK
    BY <1>11, ExecutionAssumption DEF Rerun, TypeOK
  <2>4. QED
    BY <1>4, <2>1, <2>2, <2>3
<1>12. CASE Late
  <2>1. PutsOK
    BY <1>1, <1>12, PutsTyped DEF Late
  <2>2. CopiesOK
    BY <1>2, <1>12, CopiesTyped DEF Late
  <2>3. RestOK
    BY <1>3, <1>12 DEF Late
  <2>4. QED
    BY <1>4, <2>1, <2>2, <2>3
<1>13. CASE Finished \/ UNCHANGED vars
  <2>1. UNCHANGED putVars /\ UNCHANGED copyVars /\ UNCHANGED <<outcome, runs>>
    BY <1>13 DEF Finished, vars
  <2>2. QED
    BY <1>1, <1>2, <1>3, <1>4, <2>1
<1>14. QED
  BY <1>5, <1>6, <1>7, <1>8, <1>9, <1>10, <1>11, <1>12, <1>13 DEF Next

\* Nothing has been sent at first.
LEMMA TypedInit ==
  ASSUME Init
  PROVE  TypeOK
<1>1. puts \in Seq(Row) /\ copies \in Seq(Object)
  BY ExecutionAssumption DEF Init
<1>2. Len(puts) \in Nat /\ Len(copies) \in Nat
  BY <1>1, LenProperties
<1>3. <<>> \in Seq([batch : SUBSET Put, attempt : 0..MaxRetries])
  OBVIOUS
<1>4. stored \in [Row -> 0..Len(puts)] /\ bucket \in [Object -> 0..Len(copies)]
  BY <1>2 DEF Init, PutInit, CopyInit
<1>5. tries \in [Copy -> 0..MaxRetries]
  BY RetryAssumption DEF Init, CopyInit
<1>6. runs \in 1..MaxRuns
  BY ExecutionAssumption DEF Init
<1>7. copyStep \in [Copy -> {"waiting", "copying", "done", "skipped", "failed"}]
  BY DEF Init, CopyInit
<1>8. QED
  BY <1>1, <1>3, <1>4, <1>5, <1>6, <1>7 DEF Init, PutInit, CopyInit, TypeOK

\* The clients keep the types of their variables, whatever the flush, the size of
\* batches and windows, and the number of retries and runs.
THEOREM TypeCorrect == Spec => []TypeOK
<1>1. Init => TypeOK
  BY TypedInit
<1>2. TypeOK /\ [Next]_vars => TypeOK'
  BY TypedNext
<1>3. QED
  BY <1>1, <1>2, PTL DEF Spec

-----------------------------------------------------------------------------
(* The last put of a row wins *)

Outer == IF stack = <<>> THEN {} ELSE stack[1].batch

SameRow(r, q) == puts[r] = puts[q]

\* Attempts within an attempt put what those around them have not put yet.
Nested ==
  \A i, j \in 1..Len(stack) :
    i <= j => /\ stack[j].batch \subseteq stack[i].batch
              /\ stack[i].batch \subseteq put \union stack[j].batch

\* What is still to be sent was neither sent nor put in this run.
Unsent == todo \intersect (put \union Outer) = {}

\* The puts of a row are sent in their order.
Ordered == \A r \in Put \ todo, q \in todo : SameRow(r, q) => r < q

\* What was put before the batch under way precedes it, row by row.
Following == \A r \in put \ Outer, q \in Outer : SameRow(r, q) => r < q

\* Of a batch with two puts of a row nothing is ever put.
Accepted == Len(stack) > 1 \/ put \intersect Outer # {} => Admissible(Outer)

\* While nothing failed, what is neither to be sent nor under way has been put.
Owed ==
  /\ outcome = "putting" => Put \subseteq todo \union put \union Outer
  /\ outcome \in {"copying", "ok"} => stack = <<>> /\ Put \subseteq put
  /\ outcome = "exited" => stack = <<>>

\* A row is what its last put made it, from when that one was put.
Newest ==
  \A r \in put :
    (\A q \in Put : SameRow(q, r) => q <= r /\ q \notin givenUp) => stored[puts[r]] = r

Inv ==
  /\ TypeOK /\ Nested /\ Unsent /\ Ordered /\ Following /\ Accepted /\ Owed
  /\ late \subseteq givenUp /\ Newest

\* The innermost attempt puts some of what the outermost does; the rest of that is put.
LEMMA InHandNested ==
  ASSUME TypeOK, Nested, stack # <<>>
  PROVE  /\ Outer = stack[1].batch
         /\ InHand \subseteq Outer /\ Outer \subseteq put \union InHand
         /\ Outer \subseteq Put
<1>1. Len(stack) \in Nat /\ Len(stack) >= 1
  BY InHandTyped
<1>2. stack[1] \in Frame
  <2>1. stack \in Seq(Frame) /\ 1 \in 1..Len(stack)
    BY <1>1 DEF TypeOK, Frame
  <2>2. QED
    BY <2>1, ElementOfSeq
<1>3. QED
  BY <1>1, <1>2 DEF Nested, InHand, Outer, Frame

\* A request that is accepted has only one put for a row, and so has its whole batch.
LEMMA OuterAdmissible ==
  ASSUME TypeOK, Nested, Accepted, stack # <<>>, Admissible(InHand)
  PROVE  Admissible(Outer)
<1>1. Len(stack) \in Nat /\ Len(stack) >= 1
  BY InHandTyped
<1>2. CASE Len(stack) = 1
  BY <1>2, InHandNested DEF InHand
<1>3. CASE Len(stack) > 1
  BY <1>3 DEF Accepted
<1>4. Len(stack) = 1 \/ Len(stack) > 1
  <2>1. \A n \in Nat : n >= 1 => n = 1 \/ n > 1
    OBVIOUS
  <2>2. QED
    BY <1>1, <2>1
<1>5. QED
  BY <1>2, <1>3, <1>4

\* The puts that reach the table are newer than what is there.
LEMMA NewestStored ==
  ASSUME Inv, stack # <<>>, NEW some \in SUBSET InHand,
         some = {} \/ Admissible(InHand), Store(some),
         puts' = puts, put' = put \union some, givenUp \subseteq givenUp'
  PROVE  Newest'
<1>1. Put' = Put /\ put \subseteq Put /\ Put \subseteq Nat
  BY LenProperties DEF Inv, TypeOK, Put
<1>2. InHand \subseteq Put /\ InHand \subseteq Outer /\ Outer \subseteq Put
  BY InHandTyped, InHandNested DEF Inv
<1>3. some # {} => Admissible(Outer)
  BY OuterAdmissible DEF Inv
<1> SUFFICES ASSUME NEW r \in put',
                    \A q \in Put : puts[q] = puts[r] => q <= r /\ q \notin givenUp'
             PROVE  stored'[puts[r]] = r
  BY <1>1 DEF Newest, SameRow
<1>4. r \in Put /\ puts[r] \in Row
  BY <1>1, <1>2, ElementOfSeq DEF Inv, TypeOK, Put
<1>5. \/ stored'[puts[r]] = stored[puts[r]] /\ \A q \in some : puts[q] # puts[r]
      \/ stored'[puts[r]] \in some /\ puts[stored'[puts[r]]] = puts[r]
  BY <1>2, <1>4, StoreTyped DEF Inv
<1>6. CASE stored'[puts[r]] = stored[puts[r]] /\ \A q \in some : puts[q] # puts[r]
  <2>1. r \in put
    BY <1>6
  <2>2. \A q \in Put : puts[q] = puts[r] => q <= r /\ q \notin givenUp
    OBVIOUS
  <2>3. stored[puts[r]] = r
    BY <2>1, <2>2 DEF Inv, Newest, SameRow
  <2>4. QED
    BY <1>6, <2>3
<1>7. CASE stored'[puts[r]] \in some /\ puts[stored'[puts[r]]] = puts[r]
  <2> DEFINE q == stored'[puts[r]]
  <2>1. q \in Outer /\ q \in Put /\ puts[q] = puts[r] /\ Admissible(Outer)
    BY <1>2, <1>3, <1>7
  <2> HIDE DEF q
  <2>2. CASE r \in Outer
    BY <2>1, <2>2 DEF Admissible, q
  <2>3. CASE r \notin Outer
    <3>1. r \in put \ Outer
      BY <1>2, <2>3
    <3>2. r < q
      BY <2>1, <3>1 DEF Inv, Following, SameRow
    <3>3. q <= r
      BY <2>1
    <3>4. r \in Nat /\ q \in Nat
      BY <1>1, <1>4, <2>1
    <3>5. QED
      BY <3>2, <3>3, <3>4
  <2>4. QED
    BY <2>2, <2>3
<1>8. QED
  BY <1>5, <1>6, <1>7

\* A batch takes the puts of a row in their order.
LEMMA BatchIsNext ==
  ASSUME TypeOK, NEW r \in Batch, NEW q \in todo \ Batch, SameRow(r, q)
  PROVE  r < q
<1> DEFINE Before(p) == {o \in todo : TableOfPut(o) = TableOfPut(p) /\ o < p}
<1>0. \A o \in todo : o \in Nat
  BY LenProperties DEF TypeOK, Put
<1>1. r \in Nat /\ q \in Nat /\ r \in todo /\ r # q
  BY <1>0 DEF Batch
<1>2. TableOfPut(r) = TableOfPut(q)
  BY DEF SameRow, TableOfPut
<1>3. /\ \A p \in todo : FirstPut(TableOfPut(r)) <= FirstPut(TableOfPut(p))
      /\ Cardinality(Before(r)) < BatchSize
  BY DEF Batch
<1>4. ~(Cardinality(Before(q)) < BatchSize)
  BY <1>2, <1>3 DEF Batch
<1>5. IsFiniteSet(todo)
  <2>1. Len(puts) \in Nat /\ todo \subseteq 1..Len(puts)
    BY LenProperties DEF TypeOK, Put
  <2>2. IsFiniteSet(1..Len(puts))
    BY <2>1, FS_Interval
  <2>3. QED
    BY <2>1, <2>2, FS_Subset
<1>6. \A p : IsFiniteSet(Before(p)) /\ Cardinality(Before(p)) \in Nat
  BY <1>5, FS_Subset, FS_CardinalityType
<1>7. ASSUME q < r PROVE FALSE
  <2>1. ASSUME NEW o \in Before(q) PROVE o \in Before(r)
    <3>1. o \in todo /\ o \in Nat /\ o < q /\ TableOfPut(o) = TableOfPut(r)
      BY <1>0, <1>2
    <3>2. o < r
      BY <1>1, <1>7, <3>1
    <3>3. QED
      BY <3>1, <3>2
  <2>2. Before(q) \subseteq Before(r)
    BY <2>1
  <2> HIDE DEF Before
  <2>3. Cardinality(Before(q)) <= Cardinality(Before(r))
    BY <1>6, <2>2, FS_Subset
  <2>4. QED
    BY <1>3, <1>4, <1>6, <2>3, BatchPutAssumption
<1>8. QED
  BY <1>1, <1>7

\* What the steps of an attempt leave of the order of the puts.
LEMMA OrderKept ==
  ASSUME Inv, stack # <<>>, NEW some \in SUBSET InHand, some = {} \/ Admissible(InHand),
         puts' = puts, todo' = todo, put' = put \union some,
         \/ stack' = <<>>
         \/ Outer' = Outer /\ (Len(stack') > 1 => Len(stack) > 1 \/ Admissible(InHand))
  PROVE  Unsent' /\ Ordered' /\ Following' /\ Accepted'
<1>1. some \subseteq Outer /\ Outer \subseteq Put /\ Put' = Put
  BY InHandNested DEF Inv, Put
<1>2. Admissible(InHand) => Admissible(Outer)
  BY OuterAdmissible DEF Inv
<1>3. Ordered'
  BY <1>1 DEF Inv, Ordered, SameRow
<1>4. CASE stack' = <<>>
  <2>1. Outer' = {} /\ ~(Len(stack') > 1)
    BY <1>4 DEF Outer
  <2>2. QED
    BY <1>1, <1>3, <2>1 DEF Inv, Unsent, Following, Accepted
<1>5. CASE Outer' = Outer /\ (Len(stack') > 1 => Len(stack) > 1 \/ Admissible(InHand))
  <2>1. Unsent' /\ Following'
    BY <1>1, <1>5 DEF Inv, Unsent, Following, SameRow
  <2>2. ASSUME Len(stack') > 1 \/ put' \intersect Outer' # {} PROVE Admissible(Outer)
    <3>1. Len(stack) > 1 \/ Admissible(InHand) \/ put \intersect Outer # {}
      BY <1>5, <2>2
    <3>2. QED
      BY <1>2, <3>1 DEF Inv, Accepted
  <2>3. Accepted'
    BY <1>5, <2>2 DEF Accepted, Admissible
  <2>4. QED
    BY <1>3, <2>1, <2>3
<1>6. QED
  BY <1>4, <1>5

\* A step that leaves the puts alone needs to show only what is owed after it.
LEMMA PutsLeftAlone ==
  ASSUME Inv, TypeOK', UNCHANGED putVars, Owed'
  PROVE  Inv'
<1>1. /\ puts' = puts /\ todo' = todo /\ stack' = stack /\ stored' = stored
      /\ late' = late /\ put' = put /\ givenUp' = givenUp
  BY DEF putVars
<1>2. Put' = Put /\ Outer' = Outer
  BY <1>1 DEF Put, Outer
<1>3. Nested' /\ Unsent' /\ Ordered' /\ Following'
  BY <1>1, <1>2 DEF Inv, Nested, Unsent, Ordered, Following, SameRow
<1>4. Accepted' /\ Newest' /\ late' \subseteq givenUp'
  BY <1>1, <1>2 DEF Inv, Accepted, Admissible, Newest, SameRow
<1>5. QED
  BY <1>3, <1>4 DEF Inv

\* A batch is the next in order, and none of it was put.
LEMMA StartBatchInv ==
  ASSUME Inv, TypeOK', StartBatch
  PROVE  Inv'
<1>1. /\ outcome = "putting" /\ outcome' = "putting" /\ stack = <<>>
      /\ stack' = <<Attempt(Batch)>> /\ todo' = todo \ Batch
      /\ puts' = puts /\ stored' = stored /\ late' = late /\ put' = put /\ givenUp' = givenUp
  BY DEF StartBatch, SendBatch
<1>2. Len(stack') = 1 /\ stack'[1].batch = Batch
  BY <1>1 DEF Attempt
<1>3. Outer = {} /\ Outer' = Batch /\ Put' = Put
  BY <1>1, <1>2 DEF Outer, Put
<1>4. Batch \subseteq todo /\ todo \subseteq Put /\ put \subseteq Put
  BY DEF Batch, Inv, TypeOK
<1>5. Nested'
  BY <1>2 DEF Nested
<1>6. Unsent'
  BY <1>1, <1>3, <1>4 DEF Inv, Unsent
<1>7. Ordered'
  <2> SUFFICES ASSUME NEW r \in Put \ (todo \ Batch), NEW q \in todo \ Batch, SameRow(r, q)
               PROVE  r < q
    BY <1>1, <1>3 DEF Ordered, SameRow
  <2>1. CASE r \in Batch
    BY <2>1, BatchIsNext DEF Inv
  <2>2. CASE r \notin Batch
    BY <2>2 DEF Inv, Ordered
  <2>3. QED
    BY <2>1, <2>2
<1>8. Following'
  BY <1>1, <1>3, <1>4 DEF Inv, Unsent, Ordered, Following, SameRow
<1>9. Accepted'
  <2>1. put' \intersect Outer' = {}
    BY <1>1, <1>3, <1>4 DEF Inv, Unsent
  <2>2. QED
    BY <1>2, <2>1 DEF Accepted
<1>10. Owed'
  BY <1>1, <1>3 DEF Inv, Owed
<1>11. Newest' /\ late' \subseteq givenUp'
  BY <1>1, <1>3 DEF Inv, Newest, SameRow
<1>12. QED
  BY <1>5, <1>6, <1>7, <1>8, <1>9, <1>10, <1>11 DEF Inv

\* What is answered is put; what is left of it is still under way.
LEMMA PutAnsweredInv ==
  ASSUME Inv, TypeOK', PutAnswered, outcome' = outcome
  PROVE  Inv'
<1>1. PICK processed \in (SUBSET InHand) \ {{}} :
        /\ Store(processed)
        /\ put' = put \union processed
        /\ stack' = AfterAnswer(processed)
  BY DEF PutAnswered
<1>2. /\ stack # <<>> /\ Admissible(InHand)
      /\ puts' = puts /\ todo' = todo /\ late' = late /\ givenUp' = givenUp
  BY DEF PutAnswered
<1>3. Put' = Put /\ InHand \subseteq Put /\ Outer \subseteq put \union InHand
  BY <1>2, InHandTyped, InHandNested DEF Inv, Put
<1>4. Newest'
  BY <1>1, <1>2, NewestStored
<1>5. CASE processed = InHand
  <2>1. stack' = <<>>
    BY <1>1, <1>5 DEF AfterAnswer
  <2>2. Unsent' /\ Ordered' /\ Following' /\ Accepted'
    BY <1>1, <1>2, <2>1, OrderKept
  <2>3. Nested'
    BY <2>1 DEF Nested
  <2>4. Outer' = {}
    BY <2>1 DEF Outer
  <2>5. Owed'
    BY <1>1, <1>2, <1>3, <1>5, <2>1, <2>4 DEF Inv, Owed
  <2>6. QED
    BY <1>2, <1>4, <2>2, <2>3, <2>5 DEF Inv
<1>6. CASE processed # InHand
  <2> DEFINE rest == InHand \ processed
             n == Len(stack)
  <2>1. stack' = Append(stack, Attempt(rest)) /\ rest \in SUBSET Put
    BY <1>1, <1>3, <1>6 DEF AfterAnswer
  <2>2. /\ n \in Nat /\ n >= 1 /\ Len(stack') = n + 1
        /\ \A i \in 1..n : stack'[i] = stack[i]
        /\ stack'[n + 1].batch = rest
    BY <1>2, <2>1, InHandTyped, Appended DEF Inv
  <2>3. stack' # <<>> /\ Outer' = Outer
    <3>1. 1 \in 1..n /\ stack' # <<>>
      BY <2>2
    <3>2. QED
      BY <1>2, <2>2, <3>1 DEF Outer
  <2>4. Unsent' /\ Ordered' /\ Following' /\ Accepted'
    BY <1>1, <1>2, <2>3, OrderKept
  <2>5. Nested'
    <3> SUFFICES ASSUME NEW i \in 1..n + 1, NEW j \in 1..n + 1, i <= j
                 PROVE  /\ stack'[j].batch \subseteq stack'[i].batch
                        /\ stack'[i].batch \subseteq put' \union stack'[j].batch
      BY <2>2 DEF Nested
    <3>1. n \in 1..n /\ (j = n + 1 \/ (i \in 1..n /\ j \in 1..n))
      BY <2>2
    <3>2. CASE i \in 1..n /\ j \in 1..n
      BY <1>1, <2>2, <3>2 DEF Inv, Nested
    <3>3. CASE j = n + 1 /\ i \in 1..n
      <4>1. i <= n /\ stack[n].batch = InHand
        BY <3>3 DEF InHand
      <4>2. InHand \subseteq stack[i].batch /\ stack[i].batch \subseteq put \union InHand
        BY <3>1, <3>3, <4>1 DEF Inv, Nested
      <4>3. QED
        BY <1>1, <2>2, <3>3, <4>2
    <3>4. CASE i = n + 1 /\ j = n + 1
      BY <3>4
    <3>5. i \in 1..n \/ i = n + 1
      BY <2>2
    <3>6. QED
      BY <3>1, <3>2, <3>3, <3>4, <3>5
  <2>6. Owed'
    BY <1>1, <1>2, <1>3, <2>3 DEF Inv, Owed
  <2>7. QED
    BY <1>2, <1>4, <2>4, <2>5, <2>6 DEF Inv
<1>7. QED
  BY <1>5, <1>6

\* What an unanswered request does to the invariant, but for the stack.
LEMMA UnansweredInv ==
  ASSUME Inv, stack # <<>>, Unanswered, UNCHANGED <<puts, todo>>,
         \/ stack' = <<>>
         \/ Outer' = Outer /\ (Len(stack') > 1 => Len(stack) > 1)
  PROVE  /\ Unsent' /\ Ordered' /\ Following' /\ Accepted' /\ Newest'
         /\ late' \subseteq givenUp' /\ put \subseteq put'
<1>1. PICK processed \in IF Admissible(InHand) THEN SUBSET InHand ELSE {{}} :
        /\ Store(processed)
        /\ put' = put \union processed
        /\ \/ UNCHANGED <<late, givenUp>>
           \/ /\ Admissible(InHand)
              /\ late' = late \union (InHand \ processed)
              /\ givenUp' = givenUp \union InHand
  BY DEF Unanswered
<1>2. processed \in SUBSET InHand /\ (processed = {} \/ Admissible(InHand))
  BY <1>1
<1>3. givenUp \subseteq givenUp'
  BY <1>1
<1>4. Newest'
  BY <1>1, <1>2, <1>3, NewestStored
<1>5. Unsent' /\ Ordered' /\ Following' /\ Accepted'
  BY <1>1, <1>2, OrderKept
<1>6. late' \subseteq givenUp' /\ put \subseteq put'
  BY <1>1 DEF Inv
<1>7. QED
  BY <1>4, <1>5, <1>6

\* The attempts within the repeated one are gone, their puts are in its batch.
LEMMA PutRetriedInv ==
  ASSUME Inv, TypeOK', PutRetried, outcome' = outcome
  PROVE  Inv'
<1>1. stack # <<>> /\ Unanswered /\ UNCHANGED <<puts, todo>>
  BY DEF PutRetried
<1>2. PICK i \in Retrying : stack' = Retried(i)
  BY DEF PutRetried
<1>3. i \in 1..Len(stack) /\ AttemptsLeft(stack[i].attempt)
  BY DEF Retrying
<1>4. Len(stack') = i /\ \A j \in 1..i : stack'[j].batch = stack[j].batch
  BY <1>2, <1>3, Repeated DEF Inv
<1>5. Len(stack) \in Nat /\ i \in Nat /\ i >= 1 /\ i <= Len(stack) /\ 1 \in 1..i
  BY <1>1, <1>3, InHandTyped DEF Inv
<1>6. stack' # <<>> /\ Outer' = Outer
  BY <1>1, <1>4, <1>5 DEF Outer
<1>7. Len(stack') > 1 => Len(stack) > 1
  BY <1>4, <1>5
<1>8. /\ Unsent' /\ Ordered' /\ Following' /\ Accepted' /\ Newest'
      /\ late' \subseteq givenUp' /\ put \subseteq put'
  BY <1>1, <1>6, <1>7, UnansweredInv
<1>9. Nested'
  <2> SUFFICES ASSUME NEW j \in 1..i, NEW k \in 1..i, j <= k
               PROVE  /\ stack'[k].batch \subseteq stack'[j].batch
                      /\ stack'[j].batch \subseteq put' \union stack'[k].batch
    BY <1>4 DEF Nested
  <2>1. j \in 1..Len(stack) /\ k \in 1..Len(stack)
    BY <1>5
  <2>2. QED
    BY <1>4, <1>8, <2>1 DEF Inv, Nested
<1>10. Owed'
  <2>1. Put' = Put
    BY <1>1 DEF Put
  <2>2. QED
    BY <1>1, <1>6, <1>8, <2>1 DEF Inv, Owed
<1>11. QED
  BY <1>8, <1>9, <1>10 DEF Inv

\* A rejected batchPut owes nothing any more.
LEMMA PutFailsInv ==
  ASSUME Inv, TypeOK', PutFails, Rejected
  PROVE  Inv'
<1>1. stack # <<>> /\ Unanswered /\ stack' = <<>> /\ UNCHANGED <<puts, todo>>
  BY DEF PutFails, BatchPutRejected
<1>2. /\ Unsent' /\ Ordered' /\ Following' /\ Accepted' /\ Newest'
      /\ late' \subseteq givenUp' /\ put \subseteq put'
  BY <1>1, UnansweredInv
<1>3. Nested'
  BY <1>1 DEF Nested
<1>4. Owed'
  <2>1. outcome \notin {"copying", "ok", "exited"}
    BY <1>1 DEF Inv, Owed
  <2>2. outcome' = "failed"
    BY <2>1 DEF Rejected, Running, Inv, TypeOK
  <2>3. QED
    BY <2>2 DEF Owed
<1>5. QED
  BY <1>2, <1>3, <1>4 DEF Inv

\* What an attempt leaves behind is part of a batch that was accepted, or all of it.
LEMMA PutTimesOutInv ==
  ASSUME Inv, TypeOK', NEW i \in 1..Len(stack), PutTimesOut(i), Rejected
  PROVE  Inv'
<1>1. /\ puts' = puts /\ todo' = todo /\ stored' = stored
      /\ late' = late /\ put' = put /\ givenUp' = givenUp
  BY DEF PutTimesOut
<1>2. stack # <<>> /\ Len(stack) \in Nat /\ Len(stack) >= 1 /\ i \in Nat /\ i >= 1 /\ i <= Len(stack)
  BY LenProperties, EmptySeq DEF Inv, TypeOK
<1>3. /\ Len(stack') = Len(stack) - i + 1
      /\ \A j \in 1..Len(stack') : stack'[j].batch = stack[i + j - 1].batch
  BY <1>2, LeftBehind DEF Inv
<1>4. Put' = Put /\ stack' # <<>> /\ 1 \in 1..Len(stack') /\ Outer' = stack[i].batch
  <2>1. Len(stack') >= 1 /\ Len(stack') \in Nat /\ i + 1 - 1 = i
    BY <1>2, <1>3
  <2>2. stack' # <<>> /\ 1 \in 1..Len(stack')
    BY <2>1
  <2>3. QED
    BY <1>1, <1>3, <2>1, <2>2 DEF Outer, Put
<1>5. Outer' \subseteq Outer
  BY <1>2, <1>4, InHandNested DEF Inv, Nested
<1>6. Outer' = Outer \/ Len(stack) > 1
  <2>1. i = 1 \/ Len(stack) > 1
    BY <1>2
  <2>2. QED
    BY <1>2, <1>4, <2>1 DEF Outer
<1>7. Len(stack) > 1 => Admissible(Outer)
  BY DEF Inv, Accepted
<1>8. Nested'
  <2> SUFFICES ASSUME NEW j \in 1..Len(stack'), NEW k \in 1..Len(stack'), j <= k
               PROVE  /\ stack'[k].batch \subseteq stack'[j].batch
                      /\ stack'[j].batch \subseteq put' \union stack'[k].batch
    BY DEF Nested
  <2>1. /\ i + j - 1 \in 1..Len(stack) /\ i + k - 1 \in 1..Len(stack)
        /\ i + j - 1 <= i + k - 1
    BY <1>2, <1>3
  <2>2. QED
    BY <1>1, <1>3, <2>1 DEF Inv, Nested
<1>9. Unsent' /\ Ordered'
  BY <1>1, <1>4, <1>5 DEF Inv, Unsent, Ordered, SameRow
<1>10. Following'
  <2> SUFFICES ASSUME NEW r \in put \ Outer', NEW q \in Outer', SameRow(r, q)
               PROVE  r < q
    BY <1>1 DEF Following, SameRow
  <2>1. CASE r \in Outer
    <3>1. Admissible(Outer)
      BY <1>6, <1>7, <2>1
    <3>2. r = q
      BY <1>5, <2>1, <3>1 DEF Admissible, SameRow
    <3>3. QED
      BY <3>2
  <2>2. CASE r \notin Outer
    BY <1>5, <2>2 DEF Inv, Following
  <2>3. QED
    BY <2>1, <2>2
<1>11. Accepted'
  <2>1. ASSUME Len(stack') > 1 \/ put \intersect Outer' # {} PROVE Admissible(Outer)
    <3>1. Len(stack') > 1 => Len(stack) > 1
      BY <1>2, <1>3
    <3>2. Len(stack) > 1 \/ put \intersect Outer # {}
      BY <1>5, <2>1, <3>1
    <3>3. QED
      BY <3>2 DEF Inv, Accepted
  <2>2. QED
    BY <1>1, <1>5, <2>1 DEF Accepted, Admissible
<1>12. Newest' /\ late' \subseteq givenUp'
  BY <1>1, <1>4 DEF Inv, Newest, SameRow
<1>13. Owed'
  <2>1. outcome \notin {"copying", "ok", "exited"}
    BY <1>2 DEF Inv, Owed
  <2>2. outcome' = "failed"
    BY <2>1 DEF Rejected, Running, Inv, TypeOK
  <2>3. QED
    BY <2>2 DEF Owed
<1>14. QED
  BY <1>8, <1>9, <1>10, <1>11, <1>12, <1>13 DEF Inv

\* A worker that is gone owes nothing, and its request is one without an answer.
LEMMA ExitInv ==
  ASSUME Inv, TypeOK', Exit
  PROVE  Inv'
<1>1. /\ stack' = <<>> /\ outcome' = "exited"
      /\ puts' = puts /\ todo' = todo /\ stored' = stored /\ put' = put
      /\ late' \subseteq givenUp' /\ givenUp \subseteq givenUp'
  BY DEF Exit, PutDropped, Inv
<1>2. Put' = Put /\ Outer' = {} /\ ~(Len(stack') > 1)
  BY <1>1 DEF Put, Outer
<1>3. Nested' /\ Unsent' /\ Ordered' /\ Following' /\ Accepted'
  BY <1>1, <1>2 DEF Inv, Nested, Unsent, Ordered, Following, Accepted, SameRow
<1>4. Newest'
  BY <1>1, <1>2 DEF Inv, Newest, SameRow
<1>5. Owed'
  BY <1>1 DEF Owed
<1>6. QED
  BY <1>1, <1>3, <1>4, <1>5 DEF Inv

\* Another run owes everything.
LEMMA RerunInv ==
  ASSUME Inv, TypeOK', Rerun
  PROVE  Inv'
<1>1. /\ stack' = stack /\ outcome' = "putting" /\ todo' = Put /\ put' = {}
      /\ puts' = puts /\ stored' = stored /\ late' = late /\ givenUp' = givenUp
  BY DEF Rerun, PutAgain
<1>2. stack = <<>>
  BY DEF Rerun, Inv, Owed
<1>3. Put' = Put /\ Outer' = {} /\ ~(Len(stack') > 1)
  BY <1>1, <1>2 DEF Put, Outer
<1>4. Nested' /\ Unsent' /\ Ordered' /\ Following' /\ Accepted'
  BY <1>1, <1>2, <1>3 DEF Nested, Unsent, Ordered, Following, Accepted
<1>5. Newest' /\ Owed' /\ late' \subseteq givenUp'
  BY <1>1, <1>3 DEF Inv, Newest, Owed
<1>6. QED
  BY <1>4, <1>5 DEF Inv

\* A late put is of a row that no promise is made about.
LEMMA LatePutInv ==
  ASSUME Inv, TypeOK', NEW r \in late, LatePut(r), outcome' = outcome
  PROVE  Inv'
<1>1. /\ stack' = stack /\ outcome' = outcome /\ todo' = todo /\ put' = put
      /\ puts' = puts /\ late' \subseteq late /\ givenUp' = givenUp /\ Store({r})
  BY DEF LatePut
<1>2. Put' = Put /\ Outer' = Outer /\ r \in Put /\ r \in givenUp /\ put \subseteq Put
  BY <1>1 DEF Put, Outer, Inv, TypeOK
<1>3. Nested' /\ Unsent' /\ Ordered' /\ Following' /\ Accepted' /\ Owed'
  BY <1>1, <1>2
     DEF Inv, Nested, Unsent, Ordered, Following, Accepted, Admissible, Owed, SameRow
<1>4. Newest'
  <2> SUFFICES ASSUME NEW q \in put, \A o \in Put : puts[o] = puts[q] => o <= q /\ o \notin givenUp
               PROVE  stored'[puts[q]] = q
    BY <1>1, <1>2 DEF Newest, SameRow
  <2>1. puts[q] \in Row
    BY <1>2, ElementOfSeq DEF Inv, TypeOK, Put
  <2>2. puts[r] # puts[q]
    BY <1>2
  <2>3. stored'[puts[q]] = stored[puts[q]]
    BY <1>1, <1>2, <2>1, <2>2, StoreTyped DEF Inv
  <2>4. QED
    BY <2>3 DEF Inv, Newest, SameRow
<1>5. QED
  BY <1>1, <1>3, <1>4 DEF Inv

\* The strengthening of LastPutWins is inductive.
LEMMA InvNext ==
  ASSUME Inv, [Next]_vars
  PROVE  Inv'
<1>0. TypeOK'
  BY TypedNext DEF Inv
<1>1. CASE StartBatch
  BY <1>0, <1>1, StartBatchInv
<1>2. CASE PutStep
  <2>1. CASE PutAnswered /\ UNCHANGED outcome
    BY <1>0, <2>1, PutAnsweredInv
  <2>2. CASE PutRetried /\ UNCHANGED outcome
    BY <1>0, <2>2, PutRetriedInv
  <2>3. CASE PutFails /\ Rejected
    BY <1>0, <2>3, PutFailsInv
  <2>4. CASE \E i \in 1..Len(stack) : PutTimesOut(i) /\ Rejected
    BY <1>0, <2>4, PutTimesOutInv
  <2>5. QED
    BY <1>2, <2>1, <2>2, <2>3, <2>4 DEF PutStep
<1>3. CASE PutsDone
  <2>1. UNCHANGED putVars /\ outcome' = "copying"
    BY <1>3 DEF PutsDone
  <2>2. stack' = <<>> /\ Put \subseteq put
    BY <1>3 DEF PutsDone, putVars, Inv, Owed, Outer
  <2>3. Owed'
    BY <2>1, <2>2 DEF Owed, putVars, Put
  <2>4. QED
    BY <1>0, <2>1, <2>3, PutsLeftAlone
<1>4. CASE StartCopies \/ Succeeds \/ Finished \/ UNCHANGED vars
  <2>1. UNCHANGED putVars /\ (outcome' = outcome \/ (outcome = "copying" /\ outcome' = "ok"))
    BY <1>4 DEF StartCopies, Succeeds, Finished, vars
  <2>2. Owed'
    BY <2>1 DEF Inv, Owed, putVars, Put, Outer
  <2>3. QED
    BY <1>0, <2>1, <2>2, PutsLeftAlone
<1>5. CASE \E c \in Copy : CopyStep(c)
  <2>1. UNCHANGED putVars /\ (outcome' = outcome \/ outcome' = "failed")
    BY <1>5 DEF CopyStep, Rejected
  <2>2. Owed'
    BY <2>1 DEF Inv, Owed, putVars, Put, Outer
  <2>3. QED
    BY <1>0, <2>1, <2>2, PutsLeftAlone
<1>6. CASE Exit
  BY <1>0, <1>6, ExitInv
<1>7. CASE Rerun
  BY <1>0, <1>7, RerunInv
<1>8. CASE Late
  <2>1. outcome' = outcome
    BY <1>8 DEF Late
  <2>2. CASE \E r \in late : LatePut(r)
    BY <1>0, <2>1, <2>2, LatePutInv
  <2>3. CASE UNCHANGED putVars
    <3>1. Owed'
      BY <2>1, <2>3 DEF Inv, Owed, putVars, Put, Outer
    <3>2. QED
      BY <1>0, <2>3, <3>1, PutsLeftAlone
  <2>4. QED
    BY <1>8, <2>2, <2>3 DEF Late
<1>9. QED
  BY <1>1, <1>2, <1>3, <1>4, <1>5, <1>6, <1>7, <1>8 DEF Next

\* It holds before anything is sent.
LEMMA InvInit ==
  ASSUME Init
  PROVE  Inv
<1>1. stack = <<>> /\ todo = Put /\ put = {} /\ late = {} /\ outcome = "putting"
  BY DEF Init, PutInit
<1>2. Outer = {} /\ ~(Len(stack) > 1)
  BY <1>1 DEF Outer
<1>3. Nested /\ Unsent /\ Ordered /\ Following /\ Accepted /\ Owed /\ Newest
  BY <1>1, <1>2 DEF Nested, Unsent, Ordered, Following, Accepted, Owed, Newest
<1>4. QED
  BY <1>1, <1>3, TypedInit DEF Inv

\* How the puts of a flush, the attempts under way and the rows of the table are related,
\* at every step of the clients.
THEOREM Invariance == Spec => []Inv
<1>1. QED
  BY InvInit, InvNext, PTL DEF Spec

\* When a flush succeeded, a row of which no request went without an answer is what its
\* last put made it, whatever was retried, left unprocessed or left behind by earlier runs.
THEOREM LastPutStays == Spec => []LastPutWins
<1>1. Inv => LastPutWins
  <2> SUFFICES ASSUME Inv, outcome = "ok", NEW r \in Put,
                      \A q \in Put : puts[q] = puts[r] => q <= r /\ q \notin givenUp
               PROVE  stored[puts[r]] = r
    BY DEF LastPutWins
  <2>1. r \in put
    BY DEF Inv, Owed
  <2>2. QED
    BY <2>1 DEF Inv, Newest, SameRow
<1>2. QED
  BY <1>1, Invariance, PTL

-----------------------------------------------------------------------------
(* Windows of copies *)

\* The copies of the windows from k on are waiting; those that are under way are of the
\* window before.
FromWindow(k) ==
  \A c \in Copy :
    /\ copyStep[c] = "waiting" <=> k <= Window(c)
    /\ copyStep[c] = "copying" => Window(c) + 1 = k

Windows == \E k \in Nat : FromWindow(k)

\* From when a copy is done, its object is what it or a copy of its window or of a
\* later one made it.
Latest ==
  \A c \in Copy \ missing :
    copyStep[c] = "done"
      /\ (\A d \in Copy \ missing : copies[d] = copies[c] => d \notin lost) =>
    bucket[copies[c]] \in Copy /\ Window(c) <= Window(bucket[copies[c]])

CopyInv ==
  /\ Windows /\ Latest
  /\ In("skipped") \subseteq missing
  /\ lateCopies \subseteq lost \ missing
  /\ outcome = "ok" => CopiesDone

\* A factor that is not smaller makes a product that is not smaller.
LEMMA Times ==
  ASSUME NEW a \in Nat, NEW b \in Nat, NEW f \in Nat, a <= b
  PROVE  f * a <= f * b
<1>1. b - a \in Nat /\ f * (b - a) \in Nat
  OBVIOUS
<1>2. f * b = f * a + f * (b - a)
  BY <1>1
<1>3. QED
  BY <1>1, <1>2

\* What a quotient reaches, in terms of products.
LEMMA Quotient ==
  ASSUME NEW n \in Nat, NEW f \in Nat \ {0}, NEW k \in Nat
  PROVE  n \div f \in Nat /\ (k <= n \div f <=> f * k <= n)
<1> DEFINE q == n \div f
           m == n % f
<1>1. q \in Nat /\ m \in 0..(f - 1) /\ n = f * q + m
  OBVIOUS
<1> HIDE DEF q, m
<1>2. CASE k <= q
  <2>1. f * k <= f * q
    BY <1>1, <1>2, Times
  <2>2. f * k \in Nat /\ f * q \in Nat
    BY <1>1
  <2>3. f * k <= n
    BY <1>1, <2>1, <2>2
  <2>4. QED
    BY <1>1, <1>2, <2>3 DEF q
<1>3. CASE ~(k <= q)
  <2>1. q + 1 \in Nat /\ q + 1 <= k
    BY <1>1, <1>3
  <2>2. f * (q + 1) <= f * k
    BY <2>1, Times
  <2>3. f * (q + 1) = f * q + f
    BY <1>1
  <2>4. f * k \in Nat /\ f * q \in Nat
    BY <1>1
  <2>5. ~(f * k <= n)
    BY <1>1, <2>2, <2>3, <2>4
  <2>6. QED
    BY <1>1, <1>3, <2>5 DEF q
<1>4. QED
  BY <1>2, <1>3

\* Windows begin and end at multiples of the concurrency.
LEMMA WindowBounds ==
  ASSUME TypeOK, NEW c \in Copy
  PROVE  /\ c \in Nat /\ c >= 1 /\ Window(c) \in Nat
         /\ \A k \in Nat : k <= Window(c) <=> Concurrency * k + 1 <= c
<1>1. c \in Nat /\ c >= 1 /\ c - 1 \in Nat
  BY LenProperties DEF TypeOK, Copy
<1>2. ASSUME NEW k \in Nat
      PROVE  (c - 1) \div Concurrency \in Nat /\ (k <= Window(c) <=> Concurrency * k + 1 <= c)
  <2>1. /\ (c - 1) \div Concurrency \in Nat
        /\ k <= (c - 1) \div Concurrency <=> Concurrency * k <= c - 1
    BY <1>1, BatchCopyAssumption, Quotient
  <2>2. Concurrency * k \in Nat
    BY BatchCopyAssumption
  <2>3. QED
    BY <1>1, <2>1, <2>2 DEF Window
<1>3. Window(c) \in Nat
  BY <1>2 DEF Window
<1>4. QED
  BY <1>1, <1>2, <1>3

\* The first Concurrency copies that wait are those of the first window that waits.
LEMMA FirstWindow ==
  ASSUME TypeOK, NEW k \in Nat, FromWindow(k), NEW c \in In("waiting")
  PROVE  Cardinality({d \in In("waiting") : d < c}) < Concurrency <=> Window(c) = k
<1> DEFINE start == Concurrency * k + 1
<1>0. Len(copies) \in Nat
  BY LenProperties DEF TypeOK
<1>1. start \in Nat /\ Concurrency \in Nat \ {0} /\ Len(copies) \in Nat
  BY <1>0, BatchCopyAssumption
<1>2. c \in Copy /\ c \in Nat /\ Window(c) \in Nat /\ k <= Window(c) /\ start <= c
  BY WindowBounds DEF In, FromWindow
<1>3. {d \in In("waiting") : d < c} = start..(c - 1)
  <2>1. ASSUME NEW d \in Copy PROVE d \in In("waiting") <=> start <= d
    BY <2>1, WindowBounds DEF In, FromWindow
  <2>2. \A d \in start..(c - 1) : d \in Copy /\ d < c
    <3>1. start >= 1
      BY BatchCopyAssumption
    <3>2. QED
      BY <1>1, <1>2, <3>1 DEF Copy
  <2>3. ASSUME NEW d \in In("waiting"), d < c PROVE d \in start..(c - 1)
    <3>1. d \in Copy /\ d \in Nat /\ start <= d
      BY <2>1, WindowBounds DEF In
    <3> HIDE DEF start
    <3>2. QED
      BY <1>1, <1>2, <2>3, <3>1
  <2>4. ASSUME NEW d \in start..(c - 1) PROVE d \in In("waiting") /\ d < c
    <3>1. d \in Copy /\ d < c
      BY <2>2
    <3>2. start <= d
      BY <1>1, <1>2
    <3>3. QED
      BY <2>1, <3>1, <3>2
  <2>5. QED
    BY <2>3, <2>4
<1>4. Cardinality(start..(c - 1)) = c - start
  <2>1. start \in Int /\ c - 1 \in Int
    BY <1>1, <1>2
  <2>2. Cardinality(start..(c - 1)) = IF start > c - 1 THEN 0 ELSE (c - 1) - start + 1
    BY <2>1, FS_Interval
  <2>3. QED
    BY <1>1, <1>2, <2>2
<1>5. Concurrency * (k + 1) + 1 = start + Concurrency
  BY <1>1
<1>6. k + 1 <= Window(c) <=> start + Concurrency <= c
  <2>1. k + 1 \in Nat
    OBVIOUS
  <2>2. k + 1 <= Window(c) <=> Concurrency * (k + 1) + 1 <= c
    BY <1>2, <2>1, WindowBounds
  <2>3. QED
    BY <1>5, <2>2
<1> HIDE DEF start
<1>7. c - start < Concurrency <=> ~(start + Concurrency <= c)
  BY <1>1, <1>2
<1>8. Window(c) = k <=> ~(k + 1 <= Window(c))
  BY <1>2
<1>9. QED
  BY <1>3, <1>4, <1>6, <1>7, <1>8

\* A window begins when the one before it is over.
LEMMA StartWindowInv ==
  ASSUME TypeOK, CopyInv, StartWindow, outcome = "copying", UNCHANGED outcome
  PROVE  CopyInv'
<1> DEFINE first(c) == Cardinality({d \in In("waiting") : d < c}) < Concurrency
<1>1. PICK k \in Nat : FromWindow(k)
  BY DEF CopyInv, Windows
<1>2. /\ copyStep' = [c \in Copy |->
                       IF c \in In("waiting") /\ first(c) THEN "copying" ELSE copyStep[c]]
      /\ UNCHANGED <<copies, missing, bucket, lateCopies, lost>>
  BY DEF StartWindow
<1>3. \A c \in In("waiting") : first(c) <=> Window(c) = k
  BY <1>1, FirstWindow
<1>4. \A c \in Copy : copyStep[c] # "copying"
  BY DEF StartWindow, WindowIsOver, In
<1> HIDE DEF first
<1>5. \A c \in Copy :
        copyStep'[c] = IF copyStep[c] = "waiting" /\ Window(c) = k
                       THEN "copying" ELSE copyStep[c]
  BY <1>2, <1>3 DEF In
<1>6. Copy' = Copy /\ \A c \in Copy : Window(c) \in Nat
  BY <1>2, WindowBounds DEF Copy
<1>7. FromWindow(k + 1)'
  <2> SUFFICES ASSUME NEW c \in Copy
               PROVE  /\ copyStep'[c] = "waiting" <=> k + 1 <= Window(c)
                      /\ copyStep'[c] = "copying" => Window(c) + 1 = k + 1
    BY <1>6 DEF FromWindow, Window
  <2>1. copyStep[c] = "waiting" <=> k <= Window(c)
    BY <1>1 DEF FromWindow
  <2>2. Window(c) \in Nat
    BY <1>6
  <2>3. QED
    BY <1>4, <1>5, <2>1, <2>2
<1>8. Windows'
  <2>1. k + 1 \in Nat
    OBVIOUS
  <2>2. QED
    BY <1>7, <2>1 DEF Windows
<1>9. \A c \in Copy : (copyStep'[c] = "done" => copyStep[c] = "done")
                      /\ (copyStep'[c] = "skipped" => copyStep[c] = "skipped")
  BY <1>5
<1>10. Latest' /\ In("skipped")' \subseteq missing'
  BY <1>2, <1>6, <1>9 DEF CopyInv, Latest, In, Window
<1>11. QED
  BY <1>2, <1>8, <1>10 DEF CopyInv

\* Neither windows nor order change where a copy ends, fails or is tried again.
LEMMA WindowsKept ==
  ASSUME Windows, copies' = copies, DOMAIN copyStep' = Copy,
         \A c \in Copy : /\ copyStep'[c] = "waiting" <=> copyStep[c] = "waiting"
                         /\ copyStep'[c] = "copying" => copyStep[c] = "copying"
  PROVE  Windows'
<1>1. PICK k \in Nat : FromWindow(k)
  BY DEF Windows
<1>2. FromWindow(k)'
  BY <1>1 DEF FromWindow, Copy, Window
<1>3. QED
  BY <1>2 DEF Windows

\* An object that a copy under way reaches is of the latest window that has begun.
LEMMA ReachedByLatest ==
  ASSUME TypeOK, Windows, Latest, NEW c \in Copy \ missing, copyStep[c] = "copying",
         bucket' = [bucket EXCEPT ![copies[c]] = c],
         copies' = copies, missing' = missing, lost' = lost,
         \A d \in Copy : d # c /\ copyStep'[d] = "done" => copyStep[d] = "done"
  PROVE  Latest'
<1>1. PICK k \in Nat : FromWindow(k)
  BY DEF Windows
<1>2. \A d \in Copy : Window(d) \in Nat
  BY WindowBounds
<1>3. Window(c) + 1 = k
  BY <1>1 DEF FromWindow
<1>4. copies[c] \in Object
  BY ElementOfSeq DEF TypeOK, Copy
<1>5. \A o \in Object : bucket'[o] = IF o = copies[c] THEN c ELSE bucket[o]
  BY DEF TypeOK
<1>6. ASSUME NEW d \in Copy \ missing, copyStep'[d] = "done",
             \A e \in Copy \ missing : copies[e] = copies[d] => e \notin lost
      PROVE  bucket'[copies[d]] \in Copy /\ Window(d) <= Window(bucket'[copies[d]])
  <2>0. copies[d] \in Object
    BY ElementOfSeq DEF TypeOK, Copy
  <2>1. CASE d = c
    BY <1>2, <1>4, <1>5, <2>1
  <2>2. CASE d # c /\ copies[d] = copies[c]
    <3>1. copyStep[d] = "done"
      BY <1>6, <2>2
    <3>2. ~(k <= Window(d))
      BY <1>1, <3>1 DEF FromWindow
    <3>3. Window(d) <= Window(c)
      BY <1>2, <1>3, <3>2
    <3>4. QED
      BY <1>4, <1>5, <2>2, <3>3
  <2>3. CASE copies[d] # copies[c]
    <3>1. copyStep[d] = "done"
      BY <1>6, <2>3
    <3>2. QED
      BY <1>5, <1>6, <2>0, <2>3, <3>1 DEF Latest
  <2>4. QED
    BY <2>1, <2>2, <2>3
<1>7. QED
  BY <1>6 DEF Latest, Copy, Window

\* Whoever did not hear of a copy has it among the lost.
LEMMA UnansweredLatest ==
  ASSUME TypeOK, CopyInv, NEW c \in Copy, copyStep[c] = "copying", CopyUnanswered(c),
         copies' = copies, missing' = missing,
         \A d \in Copy : copyStep'[d] = "done" => copyStep[d] = "done"
  PROVE  Latest' /\ lateCopies' \subseteq lost' \ missing'
<1>1. CASE UNCHANGED <<bucket, lateCopies, lost>>
  BY <1>1 DEF CopyInv, Latest, Copy, Window
<1>2. CASE c \notin missing /\ bucket' = [bucket EXCEPT ![copies[c]] = c]
           /\ UNCHANGED <<lateCopies, lost>>
  <2>1. Latest'
    BY <1>2, ReachedByLatest DEF CopyInv
  <2>2. QED
    BY <1>2, <2>1 DEF CopyInv
<1>3. CASE c \notin missing /\ lateCopies' = lateCopies \union {c}
           /\ lost' = lost \union {c} /\ UNCHANGED bucket
  <2>1. Latest'
    BY <1>3 DEF CopyInv, Latest, Copy, Window
  <2>2. QED
    BY <1>3, <2>1 DEF CopyInv
<1>4. QED
  BY <1>1, <1>2, <1>3 DEF CopyUnanswered

\* The steps of one copy.
LEMMA CopyStepInv ==
  ASSUME TypeOK, CopyInv, NEW c \in Copy, CopyStep(c)
  PROVE  CopyInv'
<1>1. copies' = copies /\ missing' = missing /\ Copy' = Copy /\ copyStep[c] = "copying"
  BY DEF CopyStep, CopyAnswered, CopySkipped, CopyRetried, CopyFails, Turns, In, Copy
<1>2. /\ DOMAIN copyStep' = Copy
      /\ \A d \in Copy : d # c => copyStep'[d] = copyStep[d]
      /\ copyStep'[c] \in {"done", "skipped", "copying", "failed"}
      /\ copyStep'[c] = "done" => CopyAnswered(c)
      /\ copyStep'[c] = "skipped" => CopySkipped(c)
  BY <1>1 DEF CopyStep, CopyAnswered, CopySkipped, CopyRetried, CopyFails, Turns, TypeOK
<1>3. Windows'
  BY <1>1, <1>2, WindowsKept DEF CopyInv
<1>4. In("skipped")' \subseteq missing'
  BY <1>1, <1>2 DEF In, CopyInv, CopySkipped
<1>5. outcome' # "ok"
  BY <1>1 DEF CopyInv, CopiesDone, CopyStep, Rejected
<1>6. Latest' /\ lateCopies' \subseteq lost' \ missing'
  <2>1. CASE CopyAnswered(c)
    <3>1. Latest'
      BY <1>1, <1>2, <2>1, ReachedByLatest DEF CopyAnswered, CopyInv
    <3>2. QED
      BY <2>1, <3>1 DEF CopyAnswered, CopyInv
  <2>2. CASE CopySkipped(c)
    <3>1. /\ UNCHANGED <<bucket, lateCopies, lost>>
          /\ \A d \in Copy : copyStep'[d] = "done" => copyStep[d] = "done"
      BY <1>2, <2>2 DEF CopySkipped, Turns, TypeOK
    <3>2. QED
      BY <1>1, <3>1 DEF CopyInv, Latest, Window
  <2>3. CASE CopyRetried(c) \/ CopyFails(c)
    <3>1. CopyUnanswered(c)
      BY <2>3 DEF CopyRetried, CopyFails
    <3>2. \A d \in Copy : copyStep'[d] = "done" => copyStep[d] = "done"
      BY <1>2, <2>3 DEF CopyRetried, CopyFails, Turns, TypeOK
    <3>3. QED
      BY <1>1, <3>1, <3>2, UnansweredLatest
  <2>4. QED
    BY <2>1, <2>2, <2>3 DEF CopyStep
<1>7. QED
  BY <1>3, <1>4, <1>5, <1>6 DEF CopyInv

\* A copy that arrives late is one of the lost.
LEMMA LateCopyInv ==
  ASSUME TypeOK, CopyInv, NEW c \in lateCopies, LateCopy(c), UNCHANGED outcome
  PROVE  CopyInv'
<1>1. c \in Copy /\ c \in lost /\ c \notin missing
  BY DEF CopyInv, TypeOK
<1>2. UNCHANGED <<copies, missing, copyStep, lost>> /\ Copy' = Copy
      /\ lateCopies' \subseteq lateCopies /\ bucket' = [bucket EXCEPT ![copies[c]] = c]
  BY DEF LateCopy, Copy
<1>3. \A o \in Object : o # copies[c] => bucket'[o] = bucket[o]
  BY <1>2 DEF TypeOK
<1>4. \A d \in Copy : copies[d] \in Object
  BY ElementOfSeq DEF TypeOK, Copy
<1>5. Latest'
  BY <1>1, <1>2, <1>3, <1>4 DEF CopyInv, Latest, Window
<1>6. Windows'
  BY <1>2 DEF CopyInv, Windows, FromWindow, Window
<1>7. In("skipped")' \subseteq missing' /\ (outcome' = "ok" => CopiesDone')
  BY <1>2 DEF CopyInv, In, CopiesDone
<1>8. QED
  BY <1>2, <1>5, <1>6, <1>7 DEF CopyInv

\* The copies as a whole keep their invariant in every step of a flush.
LEMMA CopyInvNext ==
  ASSUME TypeOK, CopyInv, [Next]_vars
  PROVE  CopyInv'
<1>1. CASE UNCHANGED copyVars /\ (outcome' = "ok" => CopiesDone)
  BY <1>1 DEF copyVars, CopyInv, Windows, FromWindow, Latest, Window, In, Copy, CopiesDone
<1>2. CASE StartBatch \/ PutsDone \/ Succeeds \/ Finished \/ UNCHANGED vars
  BY <1>1, <1>2 DEF StartBatch, PutsDone, Succeeds, Finished, vars, copyVars, CopyInv
<1>3. CASE PutStep
  BY <1>1, <1>3 DEF PutStep, Rejected, CopyInv
<1>4. CASE StartCopies
  BY <1>4, StartWindowInv DEF StartCopies
<1>5. CASE \E c \in Copy : CopyStep(c)
  BY <1>5, CopyStepInv
<1>6. CASE Exit
  <2>1. /\ UNCHANGED <<copies, missing, bucket>> /\ Copy' = Copy /\ outcome' = "exited"
        /\ lateCopies' = lateCopies \union (In("copying") \ missing)
        /\ lost' = lost \union (In("copying") \ missing)
        /\ copyStep' = [c \in Copy |-> IF copyStep[c] = "copying" THEN "failed" ELSE copyStep[c]]
    BY <1>6 DEF Exit, CopyDropped, Copy
  <2>2. Windows'
    BY <2>1, WindowsKept DEF CopyInv
  <2>3. Latest'
    BY <2>1 DEF CopyInv, Latest, Window
  <2>4. In("skipped")' \subseteq missing'
    BY <2>1 DEF CopyInv, In
  <2>5. QED
    BY <2>1, <2>2, <2>3, <2>4 DEF CopyInv
<1>7. CASE Rerun
  <2>1. /\ UNCHANGED <<copies, missing, lateCopies, lost>> /\ Copy' = Copy /\ outcome' = "putting"
        /\ copyStep' = [c \in Copy |-> "waiting"]
    BY <1>7 DEF Rerun, CopyAgain, Copy
  <2>2. FromWindow(0)'
    <3>1. \A c \in Copy : Window(c) \in Nat
      BY WindowBounds
    <3>2. QED
      BY <2>1, <3>1 DEF FromWindow, Window
  <2>3. Windows'
    BY <2>2 DEF Windows
  <2>4. Latest' /\ In("skipped")' = {}
    BY <2>1 DEF Latest, In
  <2>5. QED
    BY <2>1, <2>3, <2>4 DEF CopyInv
<1>8. CASE Late
  <2>1. CASE \E c \in lateCopies : LateCopy(c)
    BY <1>8, <2>1, LateCopyInv DEF Late
  <2>2. CASE UNCHANGED copyVars
    BY <1>1, <1>8, <2>2 DEF Late, CopyInv
  <2>3. QED
    BY <1>8, <2>1, <2>2 DEF Late
<1>9. QED
  BY <1>2, <1>3, <1>4, <1>5, <1>6, <1>7, <1>8 DEF Next

\* Before the first window all wait.
LEMMA CopyInvInit ==
  ASSUME Init
  PROVE  CopyInv
<1>1. /\ copyStep = [c \in Copy |-> "waiting"] /\ lateCopies = {} /\ outcome = "putting"
  BY DEF Init, CopyInit
<1>2. \A c \in Copy : Window(c) \in Nat
  BY TypedInit, WindowBounds
<1>3. FromWindow(0)
  BY <1>1, <1>2 DEF FromWindow
<1>4. Windows
  BY <1>3 DEF Windows
<1>5. QED
  BY <1>1, <1>4 DEF CopyInv, Latest, In

\* When a flush succeeded, an object of which no copy went without an answer is what a
\* copy of the last window that has one made it, whatever was tried again or left behind
\* by earlier runs: windows are the only order that copies of one object have.
THEOREM LastWindowStays == Spec => []LastWindowWins
<1>1. TypeOK /\ CopyInv => LastWindowWins
  <2> SUFFICES ASSUME TypeOK, CopyInv, outcome = "ok", NEW c \in Copy \ missing,
                      \A d \in Copy \ missing : copies[d] = copies[c] => d \notin lost
               PROVE  bucket[copies[c]] # 0 /\ Window(bucket[copies[c]]) >= Window(c)
    BY DEF LastWindowWins
  <2>1. copyStep[c] = "done"
    BY DEF CopyInv, CopiesDone, In
  <2>2. bucket[copies[c]] \in Copy /\ Window(c) <= Window(bucket[copies[c]])
    BY <2>1 DEF CopyInv, Latest
  <2>3. bucket[copies[c]] \in Nat /\ bucket[copies[c]] >= 1
        /\ Window(c) \in Nat /\ Window(bucket[copies[c]]) \in Nat
    BY <2>2, WindowBounds
  <2>4. QED
    BY <2>2, <2>3
<1>2. TypeOK /\ CopyInv /\ [Next]_vars => CopyInv'
  BY CopyInvNext
<1>3. QED
  BY <1>1, <1>2, CopyInvInit, TypeCorrect, PTL DEF Spec

-----------------------------------------------------------------------------
(* The clients deliver what Delivery promises *)

Items == ({"put"} \X Put) \union ({"copy"} \X Copy)
Delivered == ({"put"} \X put) \union ({"copy"} \X In("done"))
Skipped == {"copy"} \X In("skipped")
Result == IF Running THEN "open" ELSE IF outcome = "ok" THEN "ok" ELSE "failed"

\* The steps of Delivery, in terms of what its variables stand for.
LEMMA DeliveryStep ==
  ASSUME puts' = puts, copies' = copies, missing' = missing,
         \/ /\ \E some \in SUBSET Items : Delivered' = Delivered \union some
            /\ Skipped' = Skipped
            /\ Result' = Result \/ (Result = "open" /\ Result' = "failed")
         \/ /\ \E item \in {"copy"} \X missing : Skipped' = Skipped \union {item}
            /\ Delivered' = Delivered /\ Result' = Result
         \/ /\ Result = "open" /\ Delivered \union Skipped = Items /\ Result' = "ok"
            /\ Delivered' = Delivered /\ Skipped' = Skipped
         \/ /\ Result = "failed" /\ Result' = "open"
            /\ Delivered' = {} /\ Skipped' = {}
  PROVE  [Delivers!Next]_(Delivers!vars)
<1>1. Items' = Items /\ ({"copy"} \X missing)' = {"copy"} \X missing
  BY DEF Items, Put, Copy
<1>2. CASE /\ \E some \in SUBSET Items : Delivered' = Delivered \union some
           /\ Skipped' = Skipped
           /\ Result' = Result \/ (Result = "open" /\ Result' = "failed")
  <2>1. CASE Result' = Result
    BY <1>1, <1>2, <2>1
       DEF Delivers!Next, Delivers!Deliver, Items, Delivered, Skipped, Result
  <2>2. CASE Result = "open" /\ Result' = "failed"
    BY <1>1, <1>2, <2>2
       DEF Delivers!Next, Delivers!Fail, Items, Delivered, Skipped, Result
  <2>3. QED
    BY <1>2, <2>1, <2>2
<1>3. CASE /\ \E item \in {"copy"} \X missing : Skipped' = Skipped \union {item}
           /\ Delivered' = Delivered /\ Result' = Result
  BY <1>1, <1>3 DEF Delivers!Next, Delivers!Skip, Items, Delivered, Skipped, Result
<1>4. CASE /\ Result = "open" /\ Delivered \union Skipped = Items /\ Result' = "ok"
           /\ Delivered' = Delivered /\ Skipped' = Skipped
  BY <1>1, <1>4 DEF Delivers!Next, Delivers!Succeed, Items, Delivered, Skipped, Result
<1>5. CASE /\ Result = "failed" /\ Result' = "open"
           /\ Delivered' = {} /\ Skipped' = {}
  BY <1>1, <1>5 DEF Delivers!Next, Delivers!Again, Items, Delivered, Skipped, Result
<1>6. QED
  BY <1>2, <1>3, <1>4, <1>5

\* Puts that reach the table are items delivered; a rejection is a failure.
LEMMA PutStepDelivers ==
  ASSUME TypeOK, PutStep
  PROVE  [Delivers!Next]_(Delivers!vars)
<1>1. UNCHANGED copyVars /\ puts' = puts
  BY PutsTyped DEF PutStep
<1>2. copies' = copies /\ missing' = missing /\ Skipped' = Skipped /\ In("done")' = In("done")
  BY <1>1 DEF copyVars, Skipped, In, Copy
<1>3. \E some \in SUBSET Put : put' = put \union some
  <2>1. CASE PutAnswered
    <3>1. stack # <<>> /\ \E processed \in SUBSET InHand : put' = put \union processed
      BY <2>1 DEF PutAnswered
    <3>2. QED
      BY <3>1, InHandTyped
  <2>2. CASE PutRetried \/ PutFails
    <3>1. stack # <<>> /\ Unanswered
      BY <2>2 DEF PutRetried, PutFails, BatchPutRejected
    <3>2. QED
      BY <3>1, InHandTyped DEF Unanswered
  <2>3. CASE \E i \in 1..Len(stack) : PutTimesOut(i)
    <3>1. put' = put \union {}
      BY <2>3 DEF PutTimesOut
    <3>2. QED
      BY <3>1
  <2>4. QED
    BY <2>1, <2>2, <2>3 DEF PutStep
<1>4. \E some \in SUBSET Items : Delivered' = Delivered \union some
  <2>1. PICK some \in SUBSET Put : put' = put \union some
    BY <1>3
  <2>2. {"put"} \X some \in SUBSET Items
    BY DEF Items
  <2>3. Delivered' = Delivered \union ({"put"} \X some)
    BY <1>2, <2>1 DEF Delivered
  <2>4. QED
    BY <2>2, <2>3
<1>5. Result' = Result \/ (Result = "open" /\ Result' = "failed")
  <2>1. Rejected \/ outcome' = outcome
    BY DEF PutStep
  <2>2. QED
    BY <2>1 DEF Rejected, Result, Running
<1>6. QED
  BY <1>1, <1>2, <1>4, <1>5, DeliveryStep

\* So are copies that are done; a copy whose source is missing is an item skipped.
LEMMA CopyStepDelivers ==
  ASSUME TypeOK, NEW c \in Copy, CopyStep(c)
  PROVE  [Delivers!Next]_(Delivers!vars)
<1>1. UNCHANGED putVars /\ copies' = copies /\ missing' = missing
  BY CopiesTyped DEF CopyStep
<1>2. puts' = puts /\ put' = put /\ Copy' = Copy
  BY <1>1 DEF putVars, Copy
<1>3. Result' = Result \/ (Result = "open" /\ Result' = "failed")
  <2>1. Rejected \/ outcome' = outcome
    BY DEF CopyStep
  <2>2. QED
    BY <2>1 DEF Rejected, Result, Running
<1>4. ASSUME NEW step, Turns(c, step)
      PROVE  /\ copyStep[c] = "copying"
             /\ \A d \in Copy : copyStep'[d] = IF d = c THEN step ELSE copyStep[d]
  BY <1>4 DEF Turns, In, TypeOK
<1>5. CASE CopyAnswered(c)
  <2>1. In("done")' = In("done") \union {c} /\ In("skipped")' = In("skipped")
    BY <1>2, <1>4, <1>5 DEF CopyAnswered, In
  <2>2. Delivered' = Delivered \union {<<"copy", c>>} /\ Skipped' = Skipped
    BY <1>2, <2>1 DEF Delivered, Skipped
  <2>3. {<<"copy", c>>} \in SUBSET Items
    BY DEF Items
  <2>4. QED
    BY <1>1, <1>2, <1>3, <2>2, <2>3, DeliveryStep
<1>6. CASE CopySkipped(c) /\ outcome' = outcome
  <2>1. c \in missing /\ In("done")' = In("done") /\ In("skipped")' = In("skipped") \union {c}
    BY <1>2, <1>4, <1>6 DEF CopySkipped, In
  <2>2. Delivered' = Delivered /\ Skipped' = Skipped \union {<<"copy", c>>} /\ Result' = Result
    BY <1>2, <1>6, <2>1 DEF Delivered, Skipped, Result, Running
  <2>3. <<"copy", c>> \in {"copy"} \X missing
    BY <2>1
  <2>4. QED
    BY <1>1, <1>2, <2>2, <2>3, DeliveryStep
<1>7. CASE CopyRetried(c) \/ CopyFails(c)
  <2>1. In("done")' = In("done") /\ In("skipped")' = In("skipped")
    <3>1. CASE CopyRetried(c)
      BY <1>2, <3>1 DEF CopyRetried, In
    <3>2. CASE CopyFails(c)
      BY <1>2, <1>4, <3>2 DEF CopyFails, In
    <3>3. QED
      BY <1>7, <3>1, <3>2
  <2>2. Delivered' = Delivered \union {} /\ Skipped' = Skipped
    BY <1>2, <2>1 DEF Delivered, Skipped
  <2>3. {} \in SUBSET Items
    OBVIOUS
  <2>4. QED
    BY <1>1, <1>2, <1>3, <2>2, <2>3, DeliveryStep
<1>8. QED
  BY <1>5, <1>6, <1>7 DEF CopyStep

\* The end of the flush, of the worker and of a run.
LEMMA OutcomeDelivers ==
  ASSUME Inv, Succeeds \/ Exit \/ Rerun
  PROVE  [Delivers!Next]_(Delivers!vars)
<1>1. TypeOK
  BY DEF Inv
<1>2. CASE Succeeds
  <2>1. UNCHANGED putVars /\ UNCHANGED copyVars /\ CopiesDone /\ outcome = "copying" /\ outcome' = "ok"
    BY <1>2 DEF Succeeds
  <2>2. /\ puts' = puts /\ copies' = copies /\ missing' = missing
        /\ Delivered' = Delivered /\ Skipped' = Skipped
    BY <2>1 DEF putVars, copyVars, Delivered, Skipped, In, Copy
  <2>3. Put = put /\ Copy = In("done") \union In("skipped")
    BY <1>1, <2>1 DEF Inv, Owed, TypeOK, CopiesDone, In
  <2>4. Delivered \union Skipped = Items
    BY <2>3 DEF Delivered, Skipped, Items
  <2>5. Result = "open" /\ Result' = "ok"
    BY <2>1 DEF Result, Running
  <2>6. QED
    BY <2>2, <2>4, <2>5, DeliveryStep
<1>3. CASE Exit
  <2>1. puts' = puts /\ put' = put /\ copies' = copies /\ missing' = missing /\ Copy' = Copy
    BY <1>3 DEF Exit, PutDropped, CopyDropped, Copy
  <2>2. In("done")' = In("done") /\ In("skipped")' = In("skipped")
    BY <1>3, <2>1 DEF Exit, CopyDropped, In
  <2>3. Delivered' = Delivered \union {} /\ Skipped' = Skipped
    BY <2>1, <2>2 DEF Delivered, Skipped
  <2>4. Result' = Result \/ (Result = "open" /\ Result' = "failed")
    BY <1>3 DEF Exit, Result, Running
  <2>5. {} \in SUBSET Items
    OBVIOUS
  <2>6. QED
    BY <2>1, <2>3, <2>4, <2>5, DeliveryStep
<1>4. CASE Rerun
  <2>1. /\ puts' = puts /\ put' = {} /\ copies' = copies /\ missing' = missing /\ Copy' = Copy
        /\ copyStep' = [c \in Copy |-> "waiting"]
    BY <1>4 DEF Rerun, PutAgain, CopyAgain, Copy
  <2>2. In("done")' = {} /\ In("skipped")' = {}
    BY <2>1 DEF In
  <2>3. Delivered' = {} /\ Skipped' = {}
    BY <2>1, <2>2 DEF Delivered, Skipped
  <2>4. Result = "failed" /\ Result' = "open"
    BY <1>4 DEF Rerun, Result, Running
  <2>5. QED
    BY <2>1, <2>3, <2>4, DeliveryStep
<1>5. QED
  BY <1>2, <1>3, <1>4

\* What is only begun, or arrives late, delivers nothing.
LEMMA SilentDelivers ==
  ASSUME TypeOK, StartBatch \/ PutsDone \/ StartCopies \/ Late \/ Finished \/ UNCHANGED vars
  PROVE  [Delivers!Next]_(Delivers!vars)
<1>1. puts' = puts /\ put' = put /\ copies' = copies /\ missing' = missing /\ Copy' = Copy
  BY DEF StartBatch, SendBatch, PutsDone, StartCopies, StartWindow, Late, LatePut, LateCopy,
         Finished, vars, putVars, copyVars, Copy
<1>2. Result' = Result
  BY DEF StartBatch, PutsDone, StartCopies, Late, Finished, vars, Result, Running
<1>3. In("done")' = In("done") /\ In("skipped")' = In("skipped")
  <2>1. CASE StartCopies
    BY <1>1, <2>1 DEF StartCopies, StartWindow, In
  <2>2. CASE StartBatch \/ PutsDone \/ Late \/ Finished \/ UNCHANGED vars
    <3>1. copyStep' = copyStep
      BY <2>2 DEF StartBatch, PutsDone, Late, LateCopy, Finished, vars, copyVars
    <3>2. QED
      BY <1>1, <3>1 DEF In
  <2>3. QED
    BY <2>1, <2>2
<1>4. Delivered' = Delivered \union {} /\ Skipped' = Skipped
  BY <1>1, <1>3 DEF Delivered, Skipped
<1>5. {} \in SUBSET Items
  OBVIOUS
<1>6. QED
  BY <1>1, <1>2, <1>4, <1>5, DeliveryStep

\* At first all of the items are owed.
LEMMA DeliveryInit ==
  ASSUME Init
  PROVE  Delivers!Init
<1>1. TypeOK /\ put = {} /\ outcome = "putting" /\ copyStep = [c \in Copy |-> "waiting"]
  BY TypedInit DEF Init, PutInit, CopyInit
<1>2. Put \subseteq Nat /\ Copy \subseteq Nat /\ missing \subseteq Copy
  BY <1>1, LenProperties DEF TypeOK, Put, Copy
<1>3. In("done") = {} /\ In("skipped") = {}
  BY <1>1 DEF In
<1>4. QED
  BY <1>1, <1>2, <1>3 DEF Delivers!Init, Running

\* Executing the commands of a flush delivers what it promises: a success has put each
\* row and copied each object whose source is there.
THEOREM Refinement == Spec => RefinesDelivery
<1>1. Init => Delivers!Init
  BY DeliveryInit
<1>2. Inv /\ [Next]_vars => [Delivers!Next]_(Delivers!vars)
  BY PutStepDelivers, CopyStepDelivers, OutcomeDelivers, SilentDelivers DEF Inv, Next
<1>3. QED
  BY <1>1, <1>2, Invariance, PTL DEF Spec, RefinesDelivery, Delivers!Spec
==============================================================================

---------------------------- MODULE FixLive_proofs ----------------------------
(***************************************************************************)
(* Theorems about FixLive, for every set of entries, segments and          *)
(* revisions, every number of lanes, retries, edits and runs, whatever the *)
(* migration left in the table and whatever editors write.                 *)
(***************************************************************************)
EXTENDS FixLive, TLAPS, SequenceTheorems

-----------------------------------------------------------------------------
(* Sort keys, decisions and updates *)

\* The query passes every sort key.
LEMMA SkOrderPasses ==
  /\ Len(SkOrder) \in Nat /\ Len(SkOrder) >= 2
  /\ \A i \in 1..Len(SkOrder) : SkOrder[i] \in Sk
  /\ \A sk \in Sk : \E i \in 1..Len(SkOrder) : SkOrder[i] = sk
<1> USE FixLiveAssumption
<1> DEFINE two == <<"L", "P">>
           rest == IF Table = "ddb" THEN RevisionSk ELSE <<>>
<1>1. two \in Seq(Sk) /\ Len(two) = 2 /\ two[1] = "L" /\ two[2] = "P"
  BY DEF Sk
<1>2. /\ rest \in Seq(Sk)
      /\ Table = "ddb" => Len(rest) = MaxVersion /\ rest = RevisionSk
  <2>1. CASE Table = "ddb"
    <3>1. RevisionSk \in [1..MaxVersion -> Sk]
      BY <2>1 DEF Sk, Version
    <3>2. RevisionSk \in Seq(Sk)
      BY <3>1
    <3>3. DOMAIN RevisionSk = 1..Len(RevisionSk) /\ Len(RevisionSk) \in Nat
      BY <3>2, LenProperties
    <3>4. Len(RevisionSk) = MaxVersion
      BY <3>1, <3>3
    <3>5. QED
      BY <2>1, <3>2, <3>4
  <2>2. CASE Table # "ddb"
    BY <2>2
  <2>3. QED
    BY <2>1, <2>2
<1> HIDE DEF two, rest
<1>3. Len(rest) \in Nat
  BY <1>2, LenProperties
<1>4. SkOrder = two \o rest
  BY DEF SkOrder, two, rest
<1>5. /\ SkOrder \in Seq(Sk)
      /\ Len(SkOrder) = 2 + Len(rest)
      /\ \A i \in 1..2 + Len(rest) :
           SkOrder[i] = IF i <= 2 THEN two[i] ELSE rest[i - 2]
  <2>1. /\ two \o rest \in Seq(Sk)
        /\ Len(two \o rest) = Len(two) + Len(rest)
        /\ \A i \in 1..Len(two) + Len(rest) :
             (two \o rest)[i] = IF i <= Len(two) THEN two[i] ELSE rest[i - Len(two)]
    <3>1. two \in Seq(Sk) /\ rest \in Seq(Sk)
      BY <1>1, <1>2
    <3>2. QED
      BY ONLY <3>1, ConcatProperties
  <2>2. QED
    BY <1>1, <1>4, <2>1
<1>6. \A i \in 1..Len(SkOrder) : SkOrder[i] \in Sk
  BY <1>5, ElementOfSeq
<1>7. ASSUME NEW sk \in Sk PROVE \E i \in 1..Len(SkOrder) : SkOrder[i] = sk
  <2>1. CASE sk = "L"
    BY <1>1, <1>3, <1>5, <2>1
  <2>2. CASE sk = "P"
    BY <1>1, <1>3, <1>5, <2>2
  <2>3. CASE sk \notin {"L", "P"}
    <3>1. Table = "ddb" /\ \E v \in Version : sk = RevisionSk[v]
      BY <2>3 DEF Sk
    <3>2. PICK v \in Version : sk = RevisionSk[v]
      BY <3>1
    <3>3. v \in 1..MaxVersion /\ v \in Nat /\ v + 2 \in 1..2 + Len(rest)
      BY <1>2, <3>1 DEF Version
    <3>4. SkOrder[v + 2] = rest[v]
      BY <1>5, <3>3
    <3>5. QED
      BY <1>2, <1>5, <3>1, <3>2, <3>3, <3>4
  <2>4. QED
    BY <2>1, <2>2, <2>3
<1>8. QED
  BY <1>3, <1>5, <1>6, <1>7

\* When there is no reason to skip an entry, each row the decision is about was
\* read, and the value for its live field is one.
LEMMA DecisionIsSound ==
  ASSUME NEW g \in [Sk -> Row \union {Absent}], SkipReason(g) = None
  PROVE  /\ Targets(g) \subseteq {sk \in Sk : g[sk] # Absent}
         /\ ExpectedLive(g) \in Live
         /\ Published(g) => g["P"].version \in Version
<1> USE FixLiveAssumption
<1>1. "L" \in Sk /\ "P" \in Sk
  BY DEF Sk
<1>2. g["L"] # Absent
  BY DEF SkipReason, Reason
<1>3. CASE ~Published(g)
  BY <1>1, <1>2, <1>3 DEF Targets, ExpectedLive, Live
<1>4. CASE Published(g)
  <2>1. /\ g["P"].version \in Version
        /\ Table = "os" \/ g[RevisionOf(g)] # Absent
    BY <1>2, <1>4 DEF SkipReason, Reason
  <2>2. Table = "ddb" => RevisionOf(g) \in Sk
    BY <2>1 DEF RevisionOf, Sk
  <2>3. g["P"] # Absent
    BY <1>4 DEF Published
  <2>4. Targets(g) \subseteq {sk \in Sk : g[sk] # Absent}
    BY <1>1, <1>2, <1>4, <2>1, <2>2, <2>3 DEF Targets
  <2>5. QED
    BY <1>4, <2>1, <2>4 DEF ExpectedLive, Live
<1>5. QED
  BY <1>3, <1>4

\* The rows an entry is corrected in were read.
LEMMA ChangesAreSound ==
  ASSUME NEW g \in [Sk -> Row \union {Absent}], NEW e
  PROVE  /\ ChangesOf(e, g) \subseteq {sk \in Sk : g[sk] # Absent}
         /\ ChangesOf(e, g) # {} => ExpectedLive(g) \in Live
<1>1. CASE ChangesOf(e, g) = {}
  BY <1>1
<1>2. CASE ChangesOf(e, g) # {}
  <2>1. ~Garbled(g) /\ SkipReason(g) = None
    <3>1. "decompress-failed" # None
      BY FixLiveAssumption DEF Reason
    <3>2. QED
      BY <1>2, <3>1 DEF ChangesOf, SkipOf
  <2>2. ChangesOf(e, g) \subseteq Targets(g)
    BY DEF ChangesOf, Changes
  <2>3. QED
    BY <2>1, <2>2, DecisionIsSound
<1>3. QED
  BY <1>1, <1>2

-----------------------------------------------------------------------------
(* Types *)

\* Where a segment is tells what it has in hand.
InHand ==
  \A s \in Segment :
    /\ step[s] = "reading" => read[s] < Len(SkOrder)
    /\ step[s] \in {"reading", "deciding", "writing"} => entry[s] \in Entry
    /\ pending[s] # {} =>
         /\ step[s] \in {"writing", "failed"}
         /\ entry[s] \in Entry
         /\ ExpectedLive(group[s]) \in Live
    /\ \A sk \in pending[s] : group[s][sk] # Absent

Typed == TypeOK /\ InHand

\* A pending update is one.
LEMMA PendingIsUpdate ==
  ASSUME Typed, NEW s \in Segment, NEW sk \in pending[s]
  PROVE  /\ UpdateOf(s, sk) \in Update
         /\ sk \in Sk /\ entry[s] \in Entry
<1>1. sk \in Sk /\ group[s] \in [Sk -> Row \union {Absent}]
  BY DEF Typed, TypeOK
<1>2. /\ entry[s] \in Entry /\ group[s][sk] # Absent
      /\ ExpectedLive(group[s]) \in Live
  BY DEF Typed, InHand
<1>3. group[s][sk] \in Row
  BY <1>1, <1>2
<1>4. QED
  BY <1>1, <1>2, <1>3 DEF UpdateOf, Update

\* An update that arrives changes the live field of a row, or nothing.
LEMMA ArriveTyped ==
  ASSUME TypeOK, NEW u \in Update, Arrive(u)
  PROVE  /\ table' \in [Entry -> [Sk -> Row \union {Absent}]]
         /\ written' \subseteq Entry \X Sk
<1>1. u.entry \in Entry /\ u.sk \in Sk /\ u.row \in Row /\ u.live \in Live
  BY DEF Update
<1>2. CASE Accepts(u)
  <2>1. table[u.entry][u.sk] \in Row
    BY <1>1, <1>2 DEF Accepts, TypeOK
  <2>2. Updated(u) \in Row
    BY <1>1, <2>1 DEF Updated, Row
  <2>3. /\ table' = [table EXCEPT ![u.entry][u.sk] = Updated(u)]
        /\ written' = written \union {<<u.entry, u.sk>>}
    BY <1>2 DEF Arrive
  <2>4. table \in [Entry -> [Sk -> Row \union {Absent}]] /\ written \subseteq Entry \X Sk
    BY DEF TypeOK
  <2>5. QED
    BY <1>1, <2>2, <2>3, <2>4
<1>3. CASE ~Accepts(u)
  BY <1>3 DEF Arrive, TypeOK
<1>4. QED
  BY <1>2, <1>3

\* So does one without an answer, and it is an update that is left behind.
LEMMA UnansweredTyped ==
  ASSUME TypeOK, NEW u \in Update, Unanswered(u)
  PROVE  /\ table' \in [Entry -> [Sk -> Row \union {Absent}]]
         /\ written' \subseteq Entry \X Sk
         /\ late' \subseteq Update
BY ArriveTyped DEF Unanswered, TypeOK

\* Every step keeps the types.
LEMMA TypedNext == Typed /\ [Next]_vars => Typed'
<1> SUFFICES ASSUME Typed, [Next]_vars PROVE Typed'
  OBVIOUS
<1> USE DEF system, command, segments, traces, InFlight, NoGroup, NoAttempts
<1>1. ASSUME NEW m \in {"dry-run", "live"}, Start(m) PROVE Typed'
  <2>1. \A s \in Segment : pending[s] = {}
    BY <1>1 DEF Start, Working
  <2>2. runs' \in 0..MaxRuns
    BY <1>1, FixLiveAssumption DEF Start, Typed, TypeOK
  <2>3. TypeOK'
    <3>1. 0 \in 0..Len(SkOrder) /\ 0 \in 0..MaxRetries
      BY SkOrderPasses, FixLiveAssumption
    <3>2. /\ step' \in [Segment -> {"waiting", "done", "failed"} \union InFlight]
          /\ toScan' \in [Segment -> SUBSET Entry]
          /\ entry' \in [Segment -> Entry \union {None}]
          /\ read' \in [Segment -> 0..Len(SkOrder)]
          /\ group' \in [Segment -> [Sk -> Row \union {Absent}]]
          /\ attempt' \in [Segment -> [Sk -> 0..MaxRetries]]
      BY <1>1, <3>1 DEF Start
    <3>3. /\ UNCHANGED <<table, edits, edited, lastDryRun, pending>>
          /\ mode' \in {"dry-run", "live"} /\ outcome' = "running"
          /\ late' = {} /\ report' = {} /\ written' = {}
      BY <1>1 DEF Start
    <3>4. QED
      BY <2>2, <3>2, <3>3 DEF Typed, TypeOK
  <2>4. InHand'
    BY <1>1, <2>1 DEF Start, InHand
  <2>5. QED
    BY <2>3, <2>4 DEF Typed
<1>2. ASSUME NEW s \in Segment, StartSegment(s) PROVE Typed'
  BY <1>2 DEF StartSegment, CanStart, Go, Typed, TypeOK, InHand
<1>3. ASSUME NEW s \in Segment, NEW e \in Entry, ScanRow(s, e) PROVE Typed'
  <2>1. step[s] = "scanning" /\ pending[s] = {}
    BY <1>3 DEF ScanRow, Typed, InHand
  <2>2. /\ toScan' = [toScan EXCEPT ![s] = toScan[s] \ {e}]
        /\ UNCHANGED <<system, command, pending, attempt, traces>>
    BY <1>3 DEF ScanRow
  <2>3. CASE UNCHANGED <<step, entry, read, group>>
    BY <2>2, <2>3 DEF Typed, TypeOK, InHand
  <2>4. CASE /\ step' = [step EXCEPT ![s] = "reading"]
             /\ entry' = [entry EXCEPT ![s] = e]
             /\ read' = [read EXCEPT ![s] = 0]
             /\ group' = [group EXCEPT ![s] = NoGroup]
    <3>1. TypeOK'
      BY <2>2, <2>4, SkOrderPasses DEF Typed, TypeOK
    <3>2. InHand'
      BY <2>1, <2>2, <2>4, SkOrderPasses DEF Typed, TypeOK, InHand
    <3>3. QED
      BY <3>1, <3>2 DEF Typed
  <2>5. QED
    BY <1>3, <2>3, <2>4 DEF ScanRow, Go
<1>4. ASSUME NEW s \in Segment, QueryRow(s) PROVE Typed'
  <2> DEFINE sk == SkOrder[read[s] + 1]
  <2>1. /\ step[s] = "reading" /\ pending[s] = {} /\ entry[s] \in Entry
        /\ read[s] < Len(SkOrder)
    BY <1>4 DEF QueryRow, Typed, InHand
  <2>2. read[s] + 1 \in 1..Len(SkOrder) /\ sk \in Sk
    BY <2>1, SkOrderPasses DEF Typed, TypeOK
  <2> HIDE DEF sk
  <2>3. /\ group' = [group EXCEPT ![s][sk] = table[entry[s]][sk]]
        /\ read' = [read EXCEPT ![s] = read[s] + 1]
        /\ step' = [step EXCEPT ![s] =
                      IF read[s] + 1 = Len(SkOrder) THEN "deciding" ELSE "reading"]
        /\ edited' \subseteq edited
        /\ UNCHANGED <<table, edits, mode, outcome, runs, lastDryRun, toScan, entry,
                       pending, attempt, late, report, written>>
    BY <1>4 DEF QueryRow, Go, sk, Typed, TypeOK
  <2>4. group' \in [Segment -> [Sk -> Row \union {Absent}]]
    BY <2>1, <2>2, <2>3 DEF Typed, TypeOK
  <2>5. TypeOK'
    <3>1. read[s] + 1 \in 0..Len(SkOrder)
      BY <2>2, SkOrderPasses
    <3>2. read' \in [Segment -> 0..Len(SkOrder)]
      BY <2>3, <3>1 DEF Typed, TypeOK
    <3>3. step' \in [Segment -> {"waiting", "done", "failed"} \union InFlight]
      BY <2>3 DEF Typed, TypeOK
    <3>4. QED
      BY <2>3, <2>4, <3>2, <3>3 DEF Typed, TypeOK
  <2>6. InHand'
    <3>1. /\ step'[s] \in {"reading", "deciding"} /\ pending'[s] = {} /\ entry'[s] \in Entry
          /\ step'[s] = "reading" => read'[s] < Len(SkOrder)
      <4>1. read'[s] = read[s] + 1
        BY <2>3 DEF Typed, TypeOK
      <4>2. step'[s] = IF read[s] + 1 = Len(SkOrder) THEN "deciding" ELSE "reading"
        BY <2>3 DEF Typed, TypeOK
      <4>3. read[s] + 1 # Len(SkOrder) => read[s] + 1 < Len(SkOrder)
        BY <2>2, SkOrderPasses
      <4>4. QED
        BY <2>1, <2>3, <4>1, <4>2, <4>3
    <3>2. \A t \in Segment : t # s =>
            step'[t] = step[t] /\ read'[t] = read[t] /\ group'[t] = group[t]
      BY <2>3 DEF Typed, TypeOK
    <3>3. QED
      BY <2>3, <3>1, <3>2 DEF Typed, InHand
  <2>7. QED
    BY <2>5, <2>6 DEF Typed
<1>5. ASSUME NEW s \in Segment, Decide(s) PROVE Typed'
  <2> DEFINE e == entry[s]
             g == group[s]
             changes == ChangesOf(e, g)
  <2>1. g \in [Sk -> Row \union {Absent}] /\ e \in Entry /\ step[s] = "deciding"
    BY <1>5 DEF Decide, Typed, TypeOK, InHand
  <2>2. /\ changes \subseteq {sk \in Sk : g[sk] # Absent}
        /\ changes # {} => ExpectedLive(g) \in Live
    BY <2>1, ChangesAreSound
  <2>3. report' \subseteq Line
    <3>1. SkipsOf(e, g) \subseteq Line
      <4>1. SkipOf(g) \in Reason \union {None}
        BY DEF SkipOf, SkipReason, Reason
      <4>2. QED
        BY <2>1, <4>1 DEF SkipsOf, Skip, Line
    <3>2. \A sk \in changes : Change(e, sk, "dry-run") \in Line
      BY <2>1, <2>2 DEF Change, Line
    <3>3. QED
      BY <1>5, <3>1, <3>2 DEF Decide, Typed, TypeOK
  <2>4. /\ pending' = [pending EXCEPT ![s] = IF mode = "live" THEN changes ELSE {}]
        /\ attempt' = [attempt EXCEPT ![s] = NoAttempts]
        /\ step' = [step EXCEPT ![s] = IF pending'[s] = {} THEN "scanning" ELSE "writing"]
        /\ UNCHANGED <<system, command, toScan, entry, read, group, late, written>>
    BY <1>5 DEF Decide, Go
  <2> HIDE DEF changes
  <2>5. TypeOK'
    <3>1. pending' \in [Segment -> SUBSET Sk]
      BY <2>2, <2>4 DEF Typed, TypeOK
    <3>2. attempt' \in [Segment -> [Sk -> 0..MaxRetries]]
      BY <2>4, FixLiveAssumption DEF Typed, TypeOK
    <3>3. step' \in [Segment -> {"waiting", "done", "failed"} \union InFlight]
      BY <2>4 DEF Typed, TypeOK
    <3>4. QED
      BY <2>3, <2>4, <3>1, <3>2, <3>3 DEF Typed, TypeOK
  <2>6. InHand'
    BY <2>1, <2>2, <2>4 DEF Typed, TypeOK, InHand
  <2>7. QED
    BY <2>5, <2>6 DEF Typed
<1>6. ASSUME NEW s \in Segment, ReadFails(s) \/ SegmentDone(s) PROVE Typed'
  <2>1. pending[s] = {}
    BY <1>6 DEF ReadFails, SegmentDone, Typed, InHand
  <2>2. TypeOK'
    <3>1. CASE ReadFails(s)
      BY <3>1 DEF ReadFails, Go, Typed, TypeOK
    <3>2. CASE SegmentDone(s)
      BY <3>2 DEF SegmentDone, Go, Typed, TypeOK
    <3>3. QED
      BY <1>6, <3>1, <3>2
  <2>3. InHand'
    BY <1>6, <2>1 DEF ReadFails, SegmentDone, Go, Typed, TypeOK, InHand
  <2>4. QED
    BY <2>2, <2>3 DEF Typed
<1>7. ASSUME NEW s \in Segment, NEW sk \in Sk, UpdateAnswered(s, sk) PROVE Typed'
  <2>1. sk \in pending[s] /\ UpdateOf(s, sk) \in Update /\ Arrive(UpdateOf(s, sk))
    BY <1>7, PendingIsUpdate DEF UpdateAnswered
  <2>2. report' \subseteq Line
    <3>1. UpdateOf(s, sk).entry \in Entry /\ UpdateOf(s, sk).sk \in Sk
      BY <2>1 DEF Update
    <3>2. ResultLines(UpdateOf(s, sk)) \subseteq Line
      BY <3>1 DEF ResultLines, Change, Skip, Line, Reason
    <3>3. QED
      BY <1>7, <3>2 DEF UpdateAnswered, Typed, TypeOK
  <2>3. /\ table' \in [Entry -> [Sk -> Row \union {Absent}]]
        /\ written' \subseteq Entry \X Sk
    BY <2>1, ArriveTyped DEF Typed
  <2>4. TypeOK'
    BY <1>7, <2>2, <2>3 DEF UpdateAnswered, Settle, Typed, TypeOK
  <2>5. InHand'
    BY <1>7, <2>1 DEF UpdateAnswered, Settle, Typed, TypeOK, InHand
  <2>6. QED
    BY <2>4, <2>5 DEF Typed
<1>8. ASSUME NEW s \in Segment, NEW sk \in Sk, UpdateRetried(s, sk) PROVE Typed'
  <2>1. UpdateOf(s, sk) \in Update /\ Unanswered(UpdateOf(s, sk))
    BY <1>8, PendingIsUpdate DEF UpdateRetried
  <2>2. /\ table' \in [Entry -> [Sk -> Row \union {Absent}]]
        /\ written' \subseteq Entry \X Sk
        /\ late' \subseteq Update
    BY <2>1, UnansweredTyped DEF Typed
  <2>3. attempt' \in [Segment -> [Sk -> 0..MaxRetries]]
    <3>1. attempt[s][sk] \in 0..MaxRetries /\ attempt[s][sk] < MaxRetries
      BY <1>8 DEF UpdateRetried, MayRetry, Typed, TypeOK
    <3>2. attempt[s][sk] + 1 \in 0..MaxRetries
      BY <3>1, FixLiveAssumption
    <3>3. attempt' = [attempt EXCEPT ![s][sk] = attempt[s][sk] + 1]
      BY <1>8 DEF UpdateRetried
    <3>4. QED
      BY <3>2, <3>3 DEF Typed, TypeOK
  <2>4. TypeOK'
    BY <1>8, <2>2, <2>3 DEF UpdateRetried, Typed, TypeOK
  <2>5. InHand'
    BY <1>8 DEF UpdateRetried, Typed, InHand
  <2>6. QED
    BY <2>4, <2>5 DEF Typed
<1>9. ASSUME NEW s \in Segment, NEW sk \in Sk, UpdateFails(s, sk) PROVE Typed'
  <2>1. /\ UpdateOf(s, sk) \in Update /\ Unanswered(UpdateOf(s, sk))
        /\ sk \in pending[s]
    BY <1>9, PendingIsUpdate DEF UpdateFails
  <2>2. /\ table' \in [Entry -> [Sk -> Row \union {Absent}]]
        /\ written' \subseteq Entry \X Sk
        /\ late' \subseteq Update
    BY <2>1, UnansweredTyped DEF Typed
  <2>3. TypeOK'
    BY <1>9, <2>2 DEF UpdateFails, Go, Typed, TypeOK
  <2>4. InHand'
    BY <1>9, <2>1 DEF UpdateFails, Go, Typed, TypeOK, InHand
  <2>5. QED
    BY <2>3, <2>4 DEF Typed
<1>10. CASE RunEnds
  BY <1>10 DEF RunEnds, Typed, TypeOK, InHand
<1>11. CASE Kill
  <2>1. late' \subseteq Update
    <3>1. \A t \in Segment : \A sk \in pending[t] : UpdateOf(t, sk) \in Update
      BY PendingIsUpdate
    <3>2. QED
      BY <1>11, <3>1 DEF Kill, Typed, TypeOK
  <2>2. TypeOK'
    BY <1>11, <2>1 DEF Kill, Typed, TypeOK
  <2>3. InHand'
    BY <1>11 DEF Kill, Typed, InHand
  <2>4. QED
    BY <2>2, <2>3 DEF Typed
<1>12. ASSUME NEW u \in late, LateArrival(u) PROVE Typed'
  <2>1. u \in Update /\ Arrive(u)
    BY <1>12 DEF LateArrival, Typed, TypeOK
  <2>2. TypeOK'
    BY <1>12, <2>1, ArriveTyped DEF LateArrival, Typed, TypeOK
  <2>3. InHand'
    BY <1>12 DEF LateArrival, Typed, InHand
  <2>4. QED
    BY <2>2, <2>3 DEF Typed
<1>13. ASSUME NEW e \in Entry, NEW sk \in Sk, Edit(e, sk) PROVE Typed'
  <2>1. edits + 1 \in 0..MaxEdits
    BY <1>13, FixLiveAssumption DEF Edit, Typed, TypeOK
  <2>2. \A data \in Content : WithMd(data, edits + 1) \in Row
    <3>1. \A data \in Data : WithMd(data, edits + 1) \in Row
      BY <2>1 DEF Data, WithMd, Row
    <3>2. QED
      BY <3>1, FixLiveAssumption
  <2>3. table' \in [Entry -> [Sk -> Row \union {Absent}]]
    <3>1. table \in [Entry -> [Sk -> Row \union {Absent}]]
      BY DEF Typed, TypeOK
    <3>2. \E row \in Row \union {Absent} : table' = [table EXCEPT ![e][sk] = row]
      BY <1>13, <2>2 DEF Edit
    <3>3. QED
      BY <3>1, <3>2
  <2>4. TypeOK'
    <3>1. /\ edits' \in 0..MaxEdits /\ edited' \subseteq Entry \X Sk
          /\ UNCHANGED <<command, segments, traces>>
      BY <1>13, <2>1 DEF Edit, Typed, TypeOK
    <3>2. QED
      BY <2>3, <3>1 DEF Typed, TypeOK
  <2>5. InHand'
    BY <1>13 DEF Edit, Typed, InHand
  <2>6. QED
    BY <2>4, <2>5 DEF Typed
<1>14. CASE UNCHANGED vars
  BY <1>14 DEF vars, Typed, TypeOK, InHand
<1>15. QED
  BY <1>1, <1>2, <1>3, <1>4, <1>5, <1>6, <1>7, <1>8, <1>9, <1>10, <1>11, <1>12, <1>13,
     <1>14
  DEF Next, SegmentStep, Finished

\* Before the first run.
LEMMA TypedInit == Init => Typed
<1> SUFFICES ASSUME Init PROVE Typed
  OBVIOUS
<1> USE FixLiveAssumption, SkOrderPasses DEF NoGroup, NoAttempts
<1>1. PICK g \in [Entry -> Groups] :
        table = [e \in Entry |-> [sk \in Sk |->
                   IF g[e][sk] = Absent THEN Absent ELSE WithMd(g[e][sk], 0)]]
  BY DEF Init
<1>2. \A data \in Data : WithMd(data, 0) \in Row
  BY DEF Data, WithMd, Row
<1>3. \A e \in Entry, sk \in Sk : g[e][sk] \in Data \union {Absent}
  OBVIOUS
<1>4. table \in [Entry -> [Sk -> Row \union {Absent}]]
  BY <1>1, <1>2, <1>3
<1>5. TypeOK
  <2>1. 0 \in 0..MaxEdits /\ 0 \in 0..MaxRuns /\ 0 \in 0..Len(SkOrder) /\ 0 \in 0..MaxRetries
    OBVIOUS
  <2>2. /\ edits \in 0..MaxEdits /\ runs \in 0..MaxRuns
        /\ mode \in {"dry-run", "live"}
        /\ outcome \in {"none", "running", "ok", "failed", "killed"}
        /\ lastDryRun \in BOOLEAN
        /\ late \subseteq Update /\ report \subseteq Line
        /\ written \subseteq Entry \X Sk /\ edited \subseteq Entry \X Sk
    BY <2>1 DEF Init
  <2>3. /\ step \in [Segment -> {"waiting", "done", "failed"} \union InFlight]
        /\ toScan \in [Segment -> SUBSET Entry]
        /\ entry \in [Segment -> Entry \union {None}]
        /\ pending \in [Segment -> SUBSET Sk]
    BY DEF Init
  <2>4. /\ read \in [Segment -> 0..Len(SkOrder)]
        /\ group \in [Segment -> [Sk -> Row \union {Absent}]]
        /\ attempt \in [Segment -> [Sk -> 0..MaxRetries]]
    BY <2>1 DEF Init
  <2>5. QED
    BY <1>4, <2>2, <2>3, <2>4 DEF TypeOK
<1>6. InHand
  BY DEF Init, InHand
<1>7. QED
  BY <1>5, <1>6 DEF Typed

\* The variables keep their types.
THEOREM TypeCorrect == Spec => []TypeOK
<1>1. Typed => TypeOK
  BY DEF Typed
<1>2. QED
  BY <1>1, TypedInit, TypedNext, PTL DEF Spec

-----------------------------------------------------------------------------
(* Admission *)

\* A live run was admitted, and a dry run writes nothing.
Gate ==
  /\ mode = "live" => lastDryRun
  /\ mode = "dry-run" =>
       written = {} /\ late = {} /\ \A s \in Segment : pending[s] = {}

\* Every step keeps the gate shut.
LEMMA GateNext == Typed /\ Gate /\ [Next]_vars => Gate'
<1> SUFFICES ASSUME Typed, Gate, [Next]_vars PROVE Gate'
  OBVIOUS
<1> USE DEF system, command, segments, traces
<1>1. ASSUME NEW m \in {"dry-run", "live"}, Start(m) PROVE Gate'
  BY <1>1 DEF Start, Working, Admitted, Gate
<1>2. ASSUME NEW s \in Segment, SegmentStep(s) PROVE Gate'
  <2>1. ASSUME Decide(s) PROVE Gate'
    BY <2>1 DEF Decide, Gate, Typed, TypeOK
  <2>2. ASSUME NEW sk \in Sk, UpdateAnswered(s, sk) \/ UpdateRetried(s, sk) \/ UpdateFails(s, sk)
        PROVE  Gate'
    <3>1. mode # "dry-run" /\ mode' = mode /\ lastDryRun' = lastDryRun
      BY <2>2 DEF UpdateAnswered, UpdateRetried, UpdateFails, Gate
    <3>2. QED
      BY <3>1 DEF Gate
  <2>3. ASSUME \/ StartSegment(s) \/ (\E e \in Entry : ScanRow(s, e)) \/ QueryRow(s)
               \/ ReadFails(s) \/ SegmentDone(s)
        PROVE  Gate'
    <3>1. UNCHANGED <<mode, lastDryRun, written, late, pending>>
      BY <2>3 DEF StartSegment, ScanRow, QueryRow, ReadFails, SegmentDone
    <3>2. QED
      BY <3>1 DEF Gate
  <2>4. QED
    BY <1>2, <2>1, <2>2, <2>3 DEF SegmentStep
<1>3. CASE RunEnds
  BY <1>3 DEF RunEnds, Gate
<1>4. CASE Kill
  BY <1>4 DEF Kill, Gate
<1>5. ASSUME NEW u \in late, LateArrival(u) PROVE Gate'
  BY <1>5 DEF LateArrival, Gate
<1>6. ASSUME NEW e \in Entry, NEW sk \in Sk, Edit(e, sk) PROVE Gate'
  BY <1>6 DEF Edit, Gate
<1>7. CASE UNCHANGED vars
  BY <1>7 DEF vars, Gate
<1>8. QED
  BY <1>1, <1>2, <1>3, <1>4, <1>5, <1>6, <1>7 DEF Next, Finished

\* Nothing is written unless a dry run was completed before.
THEOREM Unadmitted == Spec => []NothingWrittenUnadmitted
<1>1. Init => Gate
  BY DEF Init, Gate
<1>2. Typed /\ Gate => NothingWrittenUnadmitted
  BY DEF Typed, TypeOK, Gate, NothingWrittenUnadmitted
<1>3. QED
  BY <1>1, <1>2, TypedInit, TypedNext, GateNext, PTL DEF Spec

-----------------------------------------------------------------------------
(* Conditional updates *)

\* The row in the table is the one that was read, if it has its _md, and nobody
\* has edited it.
Same(e, sk, row) ==
  table[e][sk] # Absent /\ table[e][sk].md = row.md =>
    /\ <<e, sk>> \notin edited
    /\ table[e][sk] = [row EXCEPT !.live = table[e][sk].live]

\* Every edit has an _md that is greater than those before, and rows that were
\* read are the same as long as they have theirs.
Fresh ==
  /\ \A e \in Entry, sk \in Sk : table[e][sk] # Absent => table[e][sk].md <= edits
  /\ \A s \in Segment, sk \in Sk : group[s][sk] # Absent =>
       /\ entry[s] \in Entry
       /\ group[s][sk].md <= edits
       /\ Same(entry[s], sk, group[s][sk])
  /\ \A u \in late : u.row.md <= edits /\ Same(u.entry, u.sk, u.row)

\* The table changes in one row at most, whose live field becomes that of u.
OneRow(u) ==
  \A e \in Entry, sk \in Sk : table'[e][sk] # table[e][sk] =>
    e = u.entry /\ sk = u.sk /\ table'[e][sk].live = u.live

\* The table changes in live fields only, of rows that nobody has edited.
OnlyLive ==
  \A e \in Entry, sk \in Sk :
    \/ table'[e][sk] = table[e][sk]
    \/ /\ table[e][sk] # Absent
       /\ <<e, sk>> \notin edited
       /\ \E live \in Live : table'[e][sk] = [table[e][sk] EXCEPT !.live = live]

\* An update of a row that is the same as it was read changes its live field only.
LEMMA ArriveOnlyLive ==
  ASSUME Typed, NEW u \in Update, Same(u.entry, u.sk, u.row), Arrive(u)
  PROVE  OnlyLive /\ OneRow(u)
<1>1. u.entry \in Entry /\ u.sk \in Sk /\ u.row \in Row /\ u.live \in Live
  BY DEF Update
<1>2. CASE Accepts(u)
  <2> DEFINE row == table[u.entry][u.sk]
  <2>1. row \in Row /\ row.md = u.row.md
    BY <1>1, <1>2 DEF Accepts, Typed, TypeOK
  <2>2. <<u.entry, u.sk>> \notin edited /\ row = [u.row EXCEPT !.live = row.live]
    BY <1>2 DEF Accepts, Same
  <2>3. Updated(u) = [row EXCEPT !.live = u.live]
    BY <1>1, <2>1, <2>2 DEF Updated, Row
  <2>4. table' = [table EXCEPT ![u.entry][u.sk] = Updated(u)]
    BY <1>2 DEF Arrive
  <2>5. OnlyLive
    BY <1>1, <1>2, <2>2, <2>3, <2>4 DEF Accepts, OnlyLive, Typed, TypeOK
  <2>6. Updated(u).live = u.live
    BY <2>1, <2>3 DEF Row
  <2>7. OneRow(u)
    BY <1>1, <2>4, <2>6 DEF OneRow, Typed, TypeOK
  <2>8. QED
    BY <2>5, <2>7
<1>3. CASE ~Accepts(u)
  BY <1>3 DEF Arrive, OnlyLive, OneRow
<1>4. QED
  BY <1>2, <1>3

\* A change of live fields leaves rows the same.
LEMMA SameStays ==
  ASSUME Typed, OnlyLive, edited' \subseteq edited,
         NEW e \in Entry, NEW sk \in Sk, NEW row \in Row, Same(e, sk, row)
  PROVE  Same(e, sk, row)'
<1>1. CASE table'[e][sk] = table[e][sk]
  BY <1>1 DEF Same
<1>2. CASE /\ table[e][sk] # Absent
           /\ \E live \in Live : table'[e][sk] = [table[e][sk] EXCEPT !.live = live]
  <2>1. table[e][sk] \in Row
    BY <1>2 DEF Typed, TypeOK
  <2>2. PICK live \in Live : table'[e][sk] = [table[e][sk] EXCEPT !.live = live]
    BY <1>2
  <2>3. table'[e][sk].md = table[e][sk].md /\ table'[e][sk].live = live
    BY <2>1, <2>2 DEF Row
  <2>4. ASSUME table[e][sk].md = row.md PROVE Same(e, sk, row)'
    <3>1. table[e][sk] = [row EXCEPT !.live = table[e][sk].live] /\ <<e, sk>> \notin edited
      BY <1>2, <2>4 DEF Same
    <3>2. table'[e][sk] = [row EXCEPT !.live = table'[e][sk].live]
      BY <2>1, <2>2, <2>3, <3>1 DEF Row
    <3>3. QED
      BY <3>1, <3>2 DEF Same
  <2>5. QED
    BY <2>3, <2>4 DEF Same
<1>3. QED
  BY <1>1, <1>2 DEF OnlyLive

\* Unanswered does what Arrive does, or nothing to the table.
LEMMA UnansweredOnlyLive ==
  ASSUME Typed, NEW u \in Update, Same(u.entry, u.sk, u.row), Unanswered(u)
  PROVE  OnlyLive /\ OneRow(u) /\ late' \subseteq late \union {u}
<1>1. CASE Arrive(u) /\ UNCHANGED late
  BY <1>1, ArriveOnlyLive
<1>2. CASE UNCHANGED table
  BY <1>2 DEF Unanswered, OnlyLive, OneRow
<1>3. QED
  BY <1>1, <1>2 DEF Unanswered

\* A pending update is of a row that is the same as it was read.
LEMMA PendingIsFresh ==
  ASSUME Typed, Fresh, NEW s \in Segment, NEW sk \in pending[s]
  PROVE  LET u == UpdateOf(s, sk)
         IN  u \in Update /\ u.row.md <= edits /\ Same(u.entry, u.sk, u.row)
<1>1. group[s][sk] # Absent /\ sk \in Sk
  BY DEF Typed, TypeOK, InHand
<1>2. UpdateOf(s, sk) \in Update
  BY PendingIsUpdate
<1>3. QED
  BY <1>1, <1>2 DEF Fresh, UpdateOf

\* What keeps the rows the same: live fields change, groups are forgotten, pending
\* updates are late.
LEMMA FreshStays ==
  ASSUME Typed, Typed', Fresh, OnlyLive, edits' = edits, edited' \subseteq edited,
         \A s \in Segment, sk \in Sk :
           group'[s][sk] # Absent =>
             group'[s][sk] = group[s][sk] /\ entry'[s] = entry[s],
         \A u \in late' :
           u \in late \/ \E s \in Segment : \E sk \in pending[s] : u = UpdateOf(s, sk)
  PROVE  Fresh'
<1>1. ASSUME NEW e \in Entry, NEW sk \in Sk, table'[e][sk] # Absent
      PROVE  table'[e][sk].md <= edits'
  <2>1. CASE table'[e][sk] = table[e][sk]
    BY <1>1, <2>1 DEF Fresh
  <2>2. CASE table'[e][sk] # table[e][sk]
    <3>1. /\ table[e][sk] # Absent
          /\ \E live \in Live : table'[e][sk] = [table[e][sk] EXCEPT !.live = live]
      BY <2>2 DEF OnlyLive
    <3>2. table[e][sk] \in Row
      BY <3>1 DEF Typed, TypeOK
    <3>3. table'[e][sk].md = table[e][sk].md
      BY <3>1, <3>2 DEF Row
    <3>4. QED
      BY <2>2, <3>3 DEF OnlyLive, Fresh
  <2>3. QED
    BY <2>1, <2>2
<1>2. ASSUME NEW s \in Segment, NEW sk \in Sk, group'[s][sk] # Absent
      PROVE  /\ entry'[s] \in Entry
             /\ group'[s][sk].md <= edits'
             /\ Same(entry[s], sk, group[s][sk])'
  <2>1. group'[s][sk] = group[s][sk] /\ entry'[s] = entry[s] /\ group[s][sk] \in Row
    BY <1>2 DEF Typed, TypeOK
  <2>2. entry[s] \in Entry /\ group[s][sk].md <= edits /\ Same(entry[s], sk, group[s][sk])
    BY <1>2, <2>1 DEF Fresh
  <2>3. \A e \in Entry, row \in Row : Same(e, sk, row) => Same(e, sk, row)'
    BY SameStays
  <2>4. QED
    BY <2>1, <2>2, <2>3 DEF Same
<1>3. ASSUME NEW u \in late' PROVE u.row.md <= edits' /\ Same(u.entry, u.sk, u.row)'
  <2>1. u \in Update /\ u.row.md <= edits /\ Same(u.entry, u.sk, u.row)
    <3>1. CASE u \in late
      BY <3>1 DEF Fresh, Typed, TypeOK
    <3>2. CASE \E s \in Segment : \E sk \in pending[s] : u = UpdateOf(s, sk)
      BY <3>2, PendingIsFresh
    <3>3. QED
      BY <3>1, <3>2
  <2>2. u.entry \in Entry /\ u.sk \in Sk /\ u.row \in Row
    BY <2>1 DEF Update
  <2>3. Same(u.entry, u.sk, u.row)'
    BY <2>1, <2>2, SameStays
  <2>4. QED
    BY <2>1, <2>3
<1>4. QED
  BY <1>1, <1>2, <1>3 DEF Fresh

\* A step of an update changes live fields only.
LEMMA UpdateOnlyLive ==
  ASSUME Typed, Fresh, NEW s \in Segment, NEW sk \in Sk,
         UpdateAnswered(s, sk) \/ UpdateRetried(s, sk) \/ UpdateFails(s, sk)
  PROVE  /\ OnlyLive /\ OneRow(UpdateOf(s, sk))
         /\ late' \subseteq late \union {UpdateOf(s, sk)}
         /\ sk \in pending[s]
         /\ UNCHANGED <<edits, edited, group, entry>>
<1>1. sk \in pending[s] /\ UNCHANGED <<edits, edited, group, entry>>
  BY DEF UpdateAnswered, UpdateRetried, UpdateFails
<1>2. CASE UpdateAnswered(s, sk)
  BY <1>1, <1>2, PendingIsFresh, ArriveOnlyLive DEF UpdateAnswered
<1>3. CASE UpdateRetried(s, sk) \/ UpdateFails(s, sk)
  BY <1>1, <1>3, PendingIsFresh, UnansweredOnlyLive DEF UpdateRetried, UpdateFails
<1>4. QED
  BY <1>1, <1>2, <1>3

\* So does one that arrives late.
LEMMA LateOnlyLive ==
  ASSUME Typed, Fresh, NEW u \in late, LateArrival(u)
  PROVE  OnlyLive /\ OneRow(u)
<1>1. u \in Update /\ Same(u.entry, u.sk, u.row) /\ Arrive(u)
  BY DEF LateArrival, Fresh, Typed, TypeOK
<1>2. QED
  BY <1>1, ArriveOnlyLive

\* An edit has a new _md.
LEMMA EditFresh ==
  ASSUME Typed, Typed', Fresh, NEW e \in Entry, NEW sk \in Sk, Edit(e, sk)
  PROVE  Fresh'
<1>1. edits \in Nat /\ edits' = edits + 1
  BY DEF Edit, Typed, TypeOK
<1>2. \E row \in {Absent} \union {WithMd(data, edits + 1) : data \in Content} :
        table' = [table EXCEPT ![e][sk] = row]
  BY DEF Edit
<1>3. table'[e][sk] # Absent => table'[e][sk].md = edits + 1
  BY <1>2 DEF WithMd, Typed, TypeOK
<1>4. \A f \in Entry, tk \in Sk : <<f, tk>> # <<e, sk>> => table'[f][tk] = table[f][tk]
  BY <1>2 DEF Typed, TypeOK
<1>5. /\ edited' = edited \union {<<e, sk>>}
      /\ UNCHANGED <<group, entry, late>>
  BY DEF Edit, segments, traces
<1>6. ASSUME NEW f \in Entry, NEW tk \in Sk, NEW row \in Row, row.md <= edits, Same(f, tk, row)
      PROVE  Same(f, tk, row)'
  <2>1. CASE <<f, tk>> = <<e, sk>>
    <3>1. row.md \in Nat /\ row.md # edits + 1
      BY <1>1, <1>6 DEF Row
    <3>2. QED
      BY <1>3, <2>1, <3>1 DEF Same
  <2>2. CASE <<f, tk>> # <<e, sk>>
    BY <1>4, <1>5, <1>6, <2>2 DEF Same
  <2>3. QED
    BY <2>1, <2>2
<1>7. \A row \in Row : row.md \in Nat /\ (row.md <= edits => row.md <= edits')
  BY <1>1 DEF Row
<1>8. \A f \in Entry, tk \in Sk : table'[f][tk] # Absent => table'[f][tk].md <= edits'
  <2> SUFFICES ASSUME NEW f \in Entry, NEW tk \in Sk, table'[f][tk] # Absent
               PROVE  table'[f][tk].md <= edits'
    OBVIOUS
  <2>1. CASE <<f, tk>> = <<e, sk>>
    BY <1>1, <1>3, <2>1
  <2>2. CASE <<f, tk>> # <<e, sk>>
    BY <1>4, <1>7, <2>2 DEF Fresh, Typed, TypeOK
  <2>3. QED
    BY <2>1, <2>2
<1>9. ASSUME NEW s \in Segment, NEW tk \in Sk, group'[s][tk] # Absent
      PROVE  /\ entry'[s] \in Entry
             /\ group'[s][tk].md <= edits'
             /\ Same(entry[s], tk, group[s][tk])'
  <2>1. /\ group[s][tk] \in Row /\ entry[s] \in Entry /\ group[s][tk].md <= edits
        /\ Same(entry[s], tk, group[s][tk])
    BY <1>5, <1>9 DEF Fresh, Typed, TypeOK
  <2>2. \A f \in Entry, row \in Row :
          row.md <= edits /\ Same(f, tk, row) => Same(f, tk, row)'
    BY <1>6
  <2>3. QED
    BY <1>5, <1>7, <2>1, <2>2 DEF Same
<1>10. ASSUME NEW u \in late' PROVE u.row.md <= edits' /\ Same(u.entry, u.sk, u.row)'
  <2>1. u \in Update /\ u.row.md <= edits /\ Same(u.entry, u.sk, u.row)
    BY <1>5 DEF Fresh, Typed, TypeOK
  <2>2. u.entry \in Entry /\ u.sk \in Sk /\ u.row \in Row
    BY <2>1 DEF Update
  <2>3. QED
    BY <1>6, <1>7, <2>1, <2>2
<1>11. QED
  BY <1>8, <1>9, <1>10 DEF Fresh

\* Every step keeps the rows that were read the same.
LEMMA FreshNext == Typed /\ Typed' /\ Fresh /\ [Next]_vars => Fresh'
<1> SUFFICES ASSUME Typed, Typed', Fresh, [Next]_vars PROVE Fresh'
  OBVIOUS
<1> USE DEF system, command, segments, traces
<1>1. UNCHANGED table => OnlyLive
  BY DEF OnlyLive
<1>2. ASSUME NEW m \in {"dry-run", "live"}, Start(m) PROVE Fresh'
  <2>1. \A s \in Segment, sk \in Sk : group'[s][sk] = Absent
    BY <1>2 DEF Start, NoGroup
  <2>2. late' = {} /\ UNCHANGED <<table, edits, edited>>
    BY <1>2 DEF Start
  <2>3. QED
    BY <1>1, <2>1, <2>2, FreshStays
<1>3. ASSUME NEW s \in Segment, NEW e \in Entry, ScanRow(s, e) PROVE Fresh'
  <2>1. \A t \in Segment, sk \in Sk :
          group'[t][sk] # Absent => group'[t][sk] = group[t][sk] /\ entry'[t] = entry[t]
    <3>1. CASE UNCHANGED <<group, entry>>
      BY <3>1
    <3>2. CASE /\ group' = [group EXCEPT ![s] = NoGroup]
               /\ entry' = [entry EXCEPT ![s] = e]
      <4>1. \A sk \in Sk : group'[s][sk] = Absent
        BY <3>2 DEF NoGroup, Typed, TypeOK
      <4>2. \A t \in Segment : t # s => group'[t] = group[t] /\ entry'[t] = entry[t]
        BY <3>2 DEF Typed, TypeOK
      <4>3. QED
        BY <4>1, <4>2
    <3>3. QED
      BY <1>3, <3>1, <3>2 DEF ScanRow
  <2>2. UNCHANGED <<table, edits, edited, late>>
    BY <1>3 DEF ScanRow
  <2>3. QED
    BY <1>1, <2>1, <2>2, FreshStays
<1>4. ASSUME NEW s \in Segment, QueryRow(s) PROVE Fresh'
  <2> DEFINE sk == SkOrder[read[s] + 1]
             e == entry[s]
  <2>1. /\ group' = [group EXCEPT ![s][sk] = table[e][sk]]
        /\ edited' = edited \ {<<e, sk>>}
        /\ UNCHANGED <<table, edits, entry, late>>
    BY <1>4 DEF QueryRow
  <2>2. e \in Entry /\ sk \in Sk
    <3>1. e \in Entry /\ step[s] = "reading" /\ read[s] < Len(SkOrder) /\ read[s] \in Nat
      BY <1>4, SkOrderPasses DEF QueryRow, Typed, TypeOK, InHand
    <3>2. QED
      BY <3>1, SkOrderPasses
  <2> HIDE DEF sk, e
  <2>3. OnlyLive
    BY <1>1, <2>1
  <2>4. \A f \in Entry, tk \in Sk, row \in Row : Same(f, tk, row) => Same(f, tk, row)'
    BY <2>1, <2>3, SameStays
  <2>5. ASSUME NEW t \in Segment, NEW tk \in Sk, group'[t][tk] # Absent
        PROVE  /\ entry'[t] \in Entry
               /\ group'[t][tk].md <= edits'
               /\ Same(entry[t], tk, group[t][tk])'
    <3>1. CASE t = s /\ tk = sk
      <4>1. group'[t][tk] = table[e][sk] /\ entry'[t] = e /\ table[e][sk] \in Row
        BY <2>1, <2>2, <2>5, <3>1 DEF Typed, TypeOK, e
      <4>2. table[e][sk].md <= edits
        BY <2>2, <2>5, <4>1 DEF Fresh
      <4>3. table[e][sk] = [table[e][sk] EXCEPT !.live = table[e][sk].live]
        BY <4>1 DEF Row
      <4>4. QED
        BY <2>1, <2>2, <3>1, <4>1, <4>2, <4>3 DEF Same
    <3>2. CASE ~(t = s /\ tk = sk)
      <4>1. group'[t][tk] = group[t][tk] /\ group[t][tk] \in Row
        <5>1. group'[t][tk] = group[t][tk]
          BY <2>1, <2>2, <3>2 DEF Typed, TypeOK
        <5>2. group[t][tk] \in Row \union {Absent}
          BY DEF Typed, TypeOK
        <5>3. QED
          BY <2>5, <5>1, <5>2
      <4>2. /\ entry[t] \in Entry /\ group[t][tk].md <= edits
            /\ Same(entry[t], tk, group[t][tk])
        BY <2>5, <4>1 DEF Fresh
      <4>3. QED
        BY <2>1, <2>4, <4>1, <4>2 DEF Same
    <3>3. QED
      BY <3>1, <3>2
  <2>6. ASSUME NEW u \in late' PROVE u.row.md <= edits' /\ Same(u.entry, u.sk, u.row)'
    <3>1. u \in Update /\ u.row.md <= edits /\ Same(u.entry, u.sk, u.row)
      BY <2>1 DEF Fresh, Typed, TypeOK
    <3>2. u.entry \in Entry /\ u.sk \in Sk /\ u.row \in Row
      BY <3>1 DEF Update
    <3>3. QED
      BY <2>1, <2>4, <3>1, <3>2
  <2>7. QED
    BY <2>1, <2>5, <2>6 DEF Fresh
<1>5. ASSUME NEW s \in Segment, NEW sk \in Sk,
             UpdateAnswered(s, sk) \/ UpdateRetried(s, sk) \/ UpdateFails(s, sk)
      PROVE  Fresh'
  <2>1. /\ OnlyLive /\ late' \subseteq late \union {UpdateOf(s, sk)} /\ sk \in pending[s]
        /\ UNCHANGED <<edits, edited, group, entry>>
    BY <1>5, UpdateOnlyLive
  <2>2. QED
    BY <2>1, FreshStays
<1>6. CASE Kill
  <2>1. late' = late \union UNION {{UpdateOf(s, sk) : sk \in pending[s]} : s \in Segment}
    BY <1>6 DEF Kill
  <2>2. UNCHANGED <<table, edits, edited, group, entry>>
    BY <1>6 DEF Kill
  <2>3. QED
    BY <1>1, <2>1, <2>2, FreshStays
<1>7. ASSUME NEW u \in late, LateArrival(u) PROVE Fresh'
  <2>1. OnlyLive
    BY <1>7, LateOnlyLive
  <2>2. late' \subseteq late /\ UNCHANGED <<edits, edited, group, entry>>
    BY <1>7 DEF LateArrival
  <2>3. QED
    BY <2>1, <2>2, FreshStays
<1>8. ASSUME NEW e \in Entry, NEW sk \in Sk, Edit(e, sk) PROVE Fresh'
  BY <1>8, EditFresh
<1>9. ASSUME \/ \E s \in Segment :
                  StartSegment(s) \/ Decide(s) \/ ReadFails(s) \/ SegmentDone(s)
             \/ RunEnds \/ UNCHANGED vars
      PROVE  Fresh'
  <2>1. UNCHANGED <<table, edits, edited, group, entry, late>>
    BY <1>9 DEF StartSegment, Decide, ReadFails, SegmentDone, RunEnds, vars
  <2>2. QED
    BY <1>1, <2>1, FreshStays
<1>10. QED
  BY <1>2, <1>3, <1>4, <1>5, <1>6, <1>7, <1>8, <1>9 DEF Next, SegmentStep, Finished

\* The first rows have the _md 0.
LEMMA FreshInit == Init => Fresh
<1> SUFFICES ASSUME Init PROVE Fresh
  OBVIOUS
<1>1. \A e \in Entry, sk \in Sk : table[e][sk] # Absent => table[e][sk].md = 0
  <2>1. PICK g \in [Entry -> Groups] :
          table = [e \in Entry |-> [sk \in Sk |->
                     IF g[e][sk] = Absent THEN Absent ELSE WithMd(g[e][sk], 0)]]
    BY DEF Init
  <2>2. QED
    BY <2>1 DEF WithMd
<1>2. QED
  BY <1>1 DEF Init, Fresh, NoGroup

\* No row is overwritten that was edited since it was read, by whatever update and
\* however late.
THEOREM NothingFresherOverwritten == Spec => NoFresherRowOverwritten
<1>1. Typed /\ Typed' /\ Fresh /\ [Next]_vars =>
        \A e \in Entry, sk \in Sk :
          table'[e][sk] # table[e][sk] /\ edits' = edits =>
            /\ <<e, sk>> \notin edited
            /\ table[e][sk] # Absent
            /\ table'[e][sk] = [table[e][sk] EXCEPT !.live = table'[e][sk].live]
  <2> SUFFICES ASSUME Typed, Typed', Fresh, [Next]_vars,
                      NEW e \in Entry, NEW sk \in Sk,
                      table'[e][sk] # table[e][sk], edits' = edits
               PROVE  /\ <<e, sk>> \notin edited
                      /\ table[e][sk] # Absent
                      /\ table'[e][sk] = [table[e][sk] EXCEPT !.live = table'[e][sk].live]
    OBVIOUS
  <2>1. OnlyLive
    <3>1. ASSUME NEW s \in Segment, NEW tk \in Sk,
                 UpdateAnswered(s, tk) \/ UpdateRetried(s, tk) \/ UpdateFails(s, tk)
          PROVE  OnlyLive
      BY <3>1, UpdateOnlyLive
    <3>2. ASSUME NEW u \in late, LateArrival(u) PROVE OnlyLive
      BY <3>2, LateOnlyLive
    <3>3. ASSUME NEW f \in Entry, NEW tk \in Sk, Edit(f, tk) PROVE FALSE
      BY <3>3 DEF Edit, Typed, TypeOK
    <3>4. ASSUME \/ \E s \in Segment :
                      \/ StartSegment(s) \/ (\E f \in Entry : ScanRow(s, f))
                      \/ QueryRow(s) \/ Decide(s) \/ ReadFails(s) \/ SegmentDone(s)
                 \/ (\E m \in {"dry-run", "live"} : Start(m))
                 \/ RunEnds \/ Kill \/ UNCHANGED vars
          PROVE  FALSE
      BY <3>4
      DEF StartSegment, ScanRow, QueryRow, Decide, ReadFails, SegmentDone, Start,
          RunEnds, Kill, vars, system
    <3>5. QED
      BY <3>1, <3>2, <3>3, <3>4 DEF Next, SegmentStep, Finished
  <2>2. PICK live \in Live : table'[e][sk] = [table[e][sk] EXCEPT !.live = live]
    BY <2>1 DEF OnlyLive
  <2>3. table[e][sk] # Absent /\ <<e, sk>> \notin edited
    BY <2>1 DEF OnlyLive
  <2>4. table[e][sk] \in Row
    BY <2>3 DEF Typed, TypeOK
  <2>5. QED
    BY <2>2, <2>3, <2>4 DEF Row
<1>2. QED
  BY <1>1, TypedInit, TypedNext, FreshInit, FreshNext, PTL
  DEF Spec, NoFresherRowOverwritten

-----------------------------------------------------------------------------
(* The report and what was written *)

UpdateStep(s, sk) == UpdateAnswered(s, sk) \/ UpdateRetried(s, sk) \/ UpdateFails(s, sk)

\* What a step of an update does beside the table.
LEMMA UpdateStepTraces ==
  ASSUME Typed, NEW s \in Segment, NEW sk \in Sk, UpdateStep(s, sk)
  PROVE  /\ sk \in pending[s] /\ entry[s] \in Entry
         /\ step[s] \in {"writing", "failed"}
         /\ written \subseteq written' /\ written' \subseteq written \union {<<entry[s], sk>>}
         /\ late' \subseteq late \union {UpdateOf(s, sk)}
         /\ report \subseteq report'
         /\ report' \subseteq report \union ResultLines(UpdateOf(s, sk))
         /\ \A t \in Segment :
              /\ pending'[t] \subseteq pending[t]
              /\ t # s => pending'[t] = pending[t] /\ step'[t] = step[t]
         /\ step'[s] \in {step[s], "scanning", "failed"}
         /\ UNCHANGED <<toScan, entry>>
<1> DEFINE u == UpdateOf(s, sk)
<1>1. /\ sk \in pending[s] /\ entry[s] \in Entry
      /\ step[s] \in {"writing", "failed"}
  BY DEF UpdateStep, UpdateAnswered, UpdateRetried, UpdateFails, Typed, InHand
<1>2. u.entry = entry[s] /\ u.sk = sk
  BY DEF UpdateOf
<1> HIDE DEF u
<1>3. Arrive(u) => written \subseteq written' /\ written' \subseteq written \union {<<entry[s], sk>>}
  BY <1>2 DEF Arrive
<1>4. CASE UpdateAnswered(s, sk)
  BY <1>1, <1>3, <1>4 DEF UpdateAnswered, Settle, u, Typed, TypeOK
<1>5. CASE UpdateRetried(s, sk)
  BY <1>1, <1>3, <1>5 DEF UpdateRetried, Unanswered, u
<1>6. CASE UpdateFails(s, sk)
  BY <1>1, <1>3, <1>6 DEF UpdateFails, Unanswered, Go, u, Typed, TypeOK
<1>7. QED
  BY <1>4, <1>5, <1>6 DEF UpdateStep

\* An update that took effect is in the report, or is awaited, or the run failed.
Accounted(e, sk) ==
  \/ \E result \in {"written", "condition-failed"} : Change(e, sk, result) \in report
  \/ \E s \in Segment : entry[s] = e /\ sk \in pending[s]
  \/ outcome \notin {"running", "ok"}

Trail ==
  /\ \A e \in Entry, sk \in Sk :
       Change(e, sk, "written") \in report => <<e, sk>> \in written
  /\ \A w \in written : Accounted(w[1], w[2])
  /\ \A u \in late : Accounted(u.entry, u.sk)
  /\ outcome = "ok" => \A s \in Segment : step[s] = "done"

\* A step that neither writes nor reports.
LEMMA TrailStays ==
  ASSUME Trail, UNCHANGED <<late, report, written>>,
         outcome' = outcome \/ outcome' = "failed",
         \A s \in Segment : pending[s] # {} => pending'[s] = pending[s] /\ entry'[s] = entry[s],
         outcome' = "ok" => \A s \in Segment : step'[s] = "done"
  PROVE  Trail'
<1>1. \A e, sk : Accounted(e, sk) => Accounted(e, sk)'
  BY DEF Accounted
<1>2. QED
  BY <1>1 DEF Trail

\* A step of an update is accounted for.
LEMMA TrailUpdate ==
  ASSUME Typed, Trail, NEW s \in Segment, NEW sk \in Sk, UpdateStep(s, sk)
  PROVE  Trail'
<1> DEFINE u == UpdateOf(s, sk)
           e == entry[s]
<1>1. /\ sk \in pending[s] /\ e \in Entry
      /\ step[s] \in {"writing", "failed"}
      /\ written \subseteq written' /\ written' \subseteq written \union {<<e, sk>>}
      /\ late' \subseteq late \union {u}
      /\ report \subseteq report'
      /\ \A t \in Segment : t # s => pending'[t] = pending[t] /\ step'[t] = step[t]
      /\ UNCHANGED entry
  BY UpdateStepTraces
<1>2. u.entry = e /\ u.sk = sk
  BY DEF UpdateOf
<1> HIDE DEF u
<1>3. outcome # "ok" /\ outcome' \in {outcome, "failed"}
  BY <1>1 DEF UpdateStep, UpdateAnswered, UpdateRetried, UpdateFails, Trail, command
<1>4. \A f \in Entry, tk \in Sk :
        Change(f, tk, "written") \in report' => <<f, tk>> \in written'
  <2> SUFFICES ASSUME NEW f \in Entry, NEW tk \in Sk, Change(f, tk, "written") \in report',
                      Change(f, tk, "written") \notin report
               PROVE  <<f, tk>> \in written'
    BY <1>1 DEF Trail
  <2>1. UpdateAnswered(s, sk)
    BY DEF UpdateStep, UpdateRetried, UpdateFails
  <2>2. Change(f, tk, "written") \in ResultLines(u)
    BY <2>1 DEF UpdateAnswered, u
  <2>3. Accepts(u) /\ Change(f, tk, "written") = Change(e, sk, "written")
    BY <1>2, <2>2 DEF ResultLines, Change, Skip
  <2>4. f = e /\ tk = sk
    BY <2>3 DEF Change
  <2>5. QED
    BY <1>2, <2>1, <2>3, <2>4 DEF UpdateAnswered, Arrive, u
<1>5. Accounted(e, sk)'
  <2>1. CASE UpdateAnswered(s, sk)
    <3>1. \E result \in {"written", "condition-failed"} :
            Change(e, sk, result) \in ResultLines(u)
      BY <1>2 DEF ResultLines
    <3>2. report' = report \union ResultLines(u)
      BY <2>1 DEF UpdateAnswered, u
    <3>3. QED
      BY <1>1, <3>1, <3>2 DEF Accounted
  <2>2. CASE UpdateRetried(s, sk)
    BY <1>1, <2>2 DEF UpdateRetried, Accounted
  <2>3. CASE UpdateFails(s, sk)
    BY <2>3 DEF UpdateFails, Accounted
  <2>4. QED
    BY <2>1, <2>2, <2>3 DEF UpdateStep
<1>6. ASSUME NEW f, NEW tk, Accounted(f, tk) PROVE Accounted(f, tk)'
  <2>1. CASE \E result \in {"written", "condition-failed"} : Change(f, tk, result) \in report
    BY <1>1, <2>1 DEF Accounted
  <2>2. CASE outcome \notin {"running", "ok"}
    BY <1>3, <2>2 DEF Accounted
  <2>3. CASE \E t \in Segment : entry[t] = f /\ tk \in pending[t]
    <3>1. PICK t \in Segment : entry[t] = f /\ tk \in pending[t]
      BY <2>3
    <3>2. CASE tk \in pending'[t]
      BY <1>1, <3>1, <3>2 DEF Accounted
    <3>3. CASE tk \notin pending'[t]
      <4>1. t = s /\ tk = sk
        BY <1>1, <3>1, <3>3
        DEF UpdateStep, UpdateAnswered, UpdateRetried, UpdateFails, Settle, Typed, TypeOK
      <4>2. QED
        BY <1>1, <1>5, <3>1, <4>1 DEF Accounted
    <3>4. QED
      BY <3>2, <3>3
  <2>4. QED
    BY <1>6, <2>1, <2>2, <2>3 DEF Accounted
<1>7. QED
  BY <1>1, <1>2, <1>3, <1>4, <1>5, <1>6 DEF Trail

\* Every step keeps the trail.
LEMMA TrailNext == Typed /\ Trail /\ [Next]_vars => Trail'
<1> SUFFICES ASSUME Typed, Trail, [Next]_vars PROVE Trail'
  OBVIOUS
<1> USE DEF system, command, segments, traces
<1>1. ASSUME NEW m \in {"dry-run", "live"}, Start(m) PROVE Trail'
  BY <1>1 DEF Start, Trail
<1>2. ASSUME NEW s \in Segment,
             StartSegment(s) \/ QueryRow(s) \/ ReadFails(s) \/ SegmentDone(s)
      PROVE  Trail'
  <2>1. UNCHANGED <<late, report, written, pending, entry>>
    BY <1>2 DEF StartSegment, QueryRow, ReadFails, SegmentDone
  <2>2. outcome # "ok" /\ outcome' \in {outcome, "failed"}
    BY <1>2 DEF StartSegment, CanStart, QueryRow, ReadFails, SegmentDone, Trail
  <2>3. QED
    BY <2>1, <2>2, TrailStays
<1>3. ASSUME NEW s \in Segment, NEW e \in Entry, ScanRow(s, e) PROVE Trail'
  <2>1. pending[s] = {} /\ outcome # "ok"
    BY <1>3 DEF ScanRow, Typed, InHand, Trail
  <2>2. UNCHANGED <<late, report, written, pending, outcome>>
    BY <1>3 DEF ScanRow
  <2>3. \A t \in Segment : t # s => entry'[t] = entry[t]
    BY <1>3 DEF ScanRow, Typed, TypeOK
  <2>4. QED
    BY <2>1, <2>2, <2>3, TrailStays
<1>4. ASSUME NEW s \in Segment, Decide(s) PROVE Trail'
  <2>1. pending[s] = {} /\ outcome # "ok"
    BY <1>4 DEF Decide, Typed, InHand, Trail
  <2>2. /\ UNCHANGED <<late, written, outcome, entry>>
        /\ report \subseteq report'
        /\ \A t \in Segment : t # s => pending'[t] = pending[t]
    BY <1>4 DEF Decide, Typed, TypeOK
  <2>3. \A f \in Entry, tk \in Sk :
          Change(f, tk, "written") \in report' => Change(f, tk, "written") \in report
    BY <1>4 DEF Decide, SkipsOf, Skip, Change
  <2>4. \A f, tk : Accounted(f, tk) => Accounted(f, tk)'
    BY <2>1, <2>2 DEF Accounted
  <2>5. QED
    BY <2>1, <2>2, <2>3, <2>4 DEF Trail
<1>5. ASSUME NEW s \in Segment, NEW sk \in Sk, UpdateStep(s, sk) PROVE Trail'
  BY <1>5, TrailUpdate
<1>6. CASE RunEnds
  <2>1. \A s \in Segment : step[s] = "done"
    BY <1>6 DEF RunEnds
  <2>2. outcome = "running" /\ outcome' = "ok"
        /\ UNCHANGED <<late, report, written, pending, entry, step>>
    BY <1>6 DEF RunEnds
  <2>3. \A f, tk : Accounted(f, tk) => Accounted(f, tk)'
    BY <2>2 DEF Accounted
  <2>4. QED
    BY <2>1, <2>2, <2>3 DEF Trail
<1>7. CASE Kill
  <2>1. outcome' = "killed" /\ UNCHANGED <<report, written>>
    BY <1>7 DEF Kill
  <2>2. QED
    BY <2>1 DEF Trail, Accounted
<1>8. ASSUME NEW u \in late, LateArrival(u) PROVE Trail'
  <2>1. /\ UNCHANGED <<report, pending, entry, outcome, step>>
        /\ late' \subseteq late
        /\ written \subseteq written' /\ written' \subseteq written \union {<<u.entry, u.sk>>}
    BY <1>8 DEF LateArrival, Arrive
  <2>2. \A f, tk : Accounted(f, tk)' = Accounted(f, tk)
    BY <2>1 DEF Accounted
  <2>3. Accounted(u.entry, u.sk)
    BY DEF Trail
  <2>4. \A w \in written' : Accounted(w[1], w[2])
    BY <2>1, <2>3 DEF Trail
  <2>5. QED
    BY <2>1, <2>2, <2>4 DEF Trail
<1>9. ASSUME NEW e \in Entry, NEW sk \in Sk, Edit(e, sk) PROVE Trail'
  <2>1. UNCHANGED <<late, report, written, pending, entry, outcome, step>>
    BY <1>9 DEF Edit
  <2>2. QED
    BY <2>1, TrailStays DEF Trail
<1>10. CASE UNCHANGED vars
  <2>1. UNCHANGED <<late, report, written, pending, entry, outcome, step>>
    BY <1>10 DEF vars
  <2>2. QED
    BY <2>1, TrailStays DEF Trail
<1>11. QED
  BY <1>1, <1>2, <1>3, <1>4, <1>5, <1>6, <1>7, <1>8, <1>9, <1>10
  DEF Next, SegmentStep, UpdateStep, Finished

\* What the report calls written was written, and after a run that ended well each
\* row that was written is in the report.
THEOREM ReportIsTrue == Spec => []ReportIsAuditTrail
<1>1. Init => Trail
  BY DEF Init, Trail
<1>2. Typed /\ Trail => ReportIsAuditTrail
  <2> SUFFICES ASSUME Typed, Trail, outcome = "ok", NEW w \in written
               PROVE  \E result \in {"written", "condition-failed"} :
                        Change(w[1], w[2], result) \in report
    BY DEF ReportIsAuditTrail, Trail
  <2>1. \A s \in Segment : pending[s] = {}
    BY DEF Typed, InHand, Trail
  <2>2. Accounted(w[1], w[2])
    BY DEF Trail
  <2>3. QED
    BY <2>1, <2>2 DEF Accounted
<1>3. QED
  BY <1>1, <1>2, TypedInit, TypedNext, TrailNext, PTL DEF Spec

-----------------------------------------------------------------------------
(* Each entry once *)

\* The run has written to entry e, or may still do so with an update that was
\* given up.
Touched(e) ==
  (\E sk \in Sk : <<e, sk>> \in written) \/ (\E u \in late : u.entry = e)

Awaited(e) == \E s \in Segment : entry[s] = e /\ pending[s] # {}

Ahead(s, e) ==
  e \in toScan[s] \/ (entry[s] = e /\ step[s] \in {"reading", "deciding"})

\* The run comes to an entry in one segment and once, and until it has decided
\* about it, it has not touched it or said anything of it.
Once ==
  \A s \in Segment :
    /\ \A e \in toScan[s] : SegmentOf[e] = s
    /\ entry[s] \in Entry => SegmentOf[entry[s]] = s /\ entry[s] \notin toScan[s]
    /\ \A e \in Entry : Ahead(s, e) => ~Touched(e) /\ \A l \in report : l.entry # e

\* A step that gets ahead with no entry, and touches and mentions only entries that
\* are behind.
LEMMA OnceStays ==
  ASSUME Typed, Once,
         \A s \in Segment : toScan'[s] \subseteq toScan[s],
         \A s \in Segment : entry'[s] # entry[s] =>
           entry'[s] \in toScan[s] /\ entry'[s] \notin toScan'[s],
         \A s \in Segment, e \in Entry : Ahead(s, e)' =>
           /\ Ahead(s, e)
           /\ Touched(e)' => Touched(e)
           /\ \A l \in report' : l.entry = e => l \in report
  PROVE  Once'
<1>1. ASSUME NEW s \in Segment
      PROVE  /\ \A e \in toScan'[s] : SegmentOf[e] = s
             /\ entry'[s] \in Entry => SegmentOf[entry'[s]] = s /\ entry'[s] \notin toScan'[s]
  <2>1. CASE entry'[s] = entry[s]
    BY <2>1 DEF Once
  <2>2. CASE entry'[s] # entry[s]
    BY <2>2 DEF Once
  <2>3. QED
    BY <2>1, <2>2
<1>2. ASSUME NEW s \in Segment, NEW e \in Entry, Ahead(s, e)'
      PROVE  ~Touched(e)' /\ \A l \in report' : l.entry # e
  <2>1. Ahead(s, e) /\ (Touched(e)' => Touched(e)) /\ \A l \in report' : l.entry = e => l \in report
    BY <1>2
  <2>2. ~Touched(e) /\ \A l \in report : l.entry # e
    BY <2>1 DEF Once
  <2>3. QED
    BY <2>1, <2>2
<1>3. QED
  BY <1>1, <1>2 DEF Once

\* A step of an update touches and mentions the entry in hand.
LEMMA UpdateStepTouches ==
  ASSUME Typed, NEW s \in Segment, NEW sk \in Sk, UpdateStep(s, sk)
  PROVE  /\ \A e : Touched(e)' => Touched(e) \/ e = entry[s]
         /\ \A l \in report' : l \in report \/ l.entry = entry[s]
         /\ \A l \in report' : l.kind = "skip" /\ l.reason # "changed-during-run" => l \in report
<1> DEFINE u == UpdateOf(s, sk)
<1>1. /\ written' \subseteq written \union {<<entry[s], sk>>}
      /\ late' \subseteq late \union {u}
      /\ report' \subseteq report \union ResultLines(u)
  BY UpdateStepTraces
<1>2. u.entry = entry[s]
  BY DEF UpdateOf
<1> HIDE DEF u
<1>3. \A l \in ResultLines(u) :
        l.entry = entry[s] /\ (l.kind = "skip" => l.reason = "changed-during-run")
  BY <1>2 DEF ResultLines, Change, Skip
<1>4. \A e : Touched(e)' => Touched(e) \/ e = entry[s]
  BY <1>1, <1>2 DEF Touched
<1>5. QED
  BY <1>1, <1>3, <1>4

\* So does Decide.
LEMMA DecideMentions ==
  ASSUME Typed, NEW s \in Segment, Decide(s)
  PROVE  /\ \A l \in report' : l \in report \/ l.entry = entry[s]
         /\ \A l \in report' : l \in report \/ l.kind = "dry-run" \/ pending'[s] = {}
         /\ pending'[s] \subseteq ChangesOf(entry[s], group[s])
         /\ pending[s] = {} /\ step[s] = "deciding" /\ entry[s] \in Entry
         /\ step'[s] \in {"scanning", "writing"}
         /\ \A t \in Segment : t # s => pending'[t] = pending[t] /\ step'[t] = step[t]
         /\ UNCHANGED <<toScan, entry, written, late>>
<1>1. /\ pending[s] = {} /\ step[s] = "deciding" /\ entry[s] \in Entry
      /\ pending'[s] \subseteq ChangesOf(entry[s], group[s])
      /\ step'[s] \in {"scanning", "writing"}
      /\ \A t \in Segment : t # s => pending'[t] = pending[t] /\ step'[t] = step[t]
      /\ UNCHANGED <<toScan, entry, written, late>>
  BY DEF Decide, Go, Typed, TypeOK, InHand
<1>2. \A l \in report' :
        \/ l \in report
        \/ l \in SkipsOf(entry[s], group[s])
        \/ \E sk \in ChangesOf(entry[s], group[s]) : l = Change(entry[s], sk, "dry-run")
  BY DEF Decide
<1>3. \A l \in SkipsOf(entry[s], group[s]) :
        l.entry = entry[s] /\ ChangesOf(entry[s], group[s]) = {}
  BY DEF SkipsOf, Skip, ChangesOf
<1>4. \A sk : Change(entry[s], sk, "dry-run").entry = entry[s]
              /\ Change(entry[s], sk, "dry-run").kind = "dry-run"
  BY DEF Change
<1>5. QED
  BY <1>1, <1>2, <1>3, <1>4

\* Every step comes to each entry once.
LEMMA OnceNext == Typed /\ Once /\ [Next]_vars => Once'
<1> SUFFICES ASSUME Typed, Once, [Next]_vars PROVE Once'
  OBVIOUS
<1> USE DEF system, command, segments, traces
<1>1. ASSUME NEW m \in {"dry-run", "live"}, Start(m) PROVE Once'
  <2>1. \A s \in Segment : toScan'[s] = {e \in Entry : SegmentOf[e] = s} /\ entry'[s] = None
    BY <1>1 DEF Start
  <2>2. report' = {} /\ written' = {} /\ late' = {}
    BY <1>1 DEF Start
  <2>3. None \notin Entry
    BY FixLiveAssumption
  <2>4. QED
    BY <2>1, <2>2, <2>3 DEF Once, Touched
<1>2. ASSUME NEW s \in Segment, NEW f \in Entry, ScanRow(s, f) PROVE Once'
  <2>1. step[s] = "scanning" /\ f \in toScan[s] /\ toScan' = [toScan EXCEPT ![s] = toScan[s] \ {f}]
        /\ UNCHANGED <<written, late, report>>
    BY <1>2 DEF ScanRow
  <2>2. \/ UNCHANGED <<step, entry>>
        \/ /\ step' = [step EXCEPT ![s] = "reading"]
           /\ entry' = [entry EXCEPT ![s] = f]
    BY <1>2 DEF ScanRow, Go
  <2>3. \A e : Touched(e)' = Touched(e)
    BY <2>1 DEF Touched
  <2>4. \A t \in Segment, e \in Entry : Ahead(t, e)' => Ahead(t, e)
    BY <2>1, <2>2 DEF Ahead, Typed, TypeOK
  <2>5. \A t \in Segment : toScan'[t] \subseteq toScan[t]
    BY <2>1 DEF Typed, TypeOK
  <2>6. \A t \in Segment : entry'[t] # entry[t] =>
          entry'[t] \in toScan[t] /\ entry'[t] \notin toScan'[t]
    BY <2>1, <2>2 DEF Typed, TypeOK
  <2>7. QED
    BY <2>1, <2>3, <2>4, <2>5, <2>6, OnceStays
<1>3. ASSUME NEW s \in Segment,
             StartSegment(s) \/ QueryRow(s) \/ ReadFails(s) \/ SegmentDone(s)
      PROVE  Once'
  <2>1. UNCHANGED <<toScan, entry, written, late, report>>
    BY <1>3 DEF StartSegment, QueryRow, ReadFails, SegmentDone
  <2>2. \A t \in Segment, e \in Entry : Ahead(t, e)' => Ahead(t, e)
    BY <1>3, <2>1
    DEF StartSegment, QueryRow, ReadFails, SegmentDone, Go, Ahead, Typed, TypeOK
  <2>3. \A e : Touched(e)' = Touched(e)
    BY <2>1 DEF Touched
  <2>4. QED
    BY <2>1, <2>2, <2>3, OnceStays
<1>4. ASSUME NEW s \in Segment, Decide(s) PROVE Once'
  <2>1. /\ \A l \in report' : l \in report \/ l.entry = entry[s]
        /\ step[s] = "deciding" /\ entry[s] \in Entry
        /\ step'[s] \in {"scanning", "writing"}
        /\ \A t \in Segment : t # s => step'[t] = step[t]
        /\ UNCHANGED <<toScan, entry, written, late>>
    BY <1>4, DecideMentions
  <2>2. \A e : Touched(e)' = Touched(e)
    BY <2>1 DEF Touched
  <2>3. \A t \in Segment, e \in Entry : Ahead(t, e)' => Ahead(t, e) /\ e # entry[s]
    BY <2>1 DEF Ahead, Once
  <2>4. QED
    BY <2>1, <2>2, <2>3, OnceStays
<1>5. ASSUME NEW s \in Segment, NEW sk \in Sk, UpdateStep(s, sk) PROVE Once'
  <2>1. /\ entry[s] \in Entry /\ step[s] \in {"writing", "failed"}
        /\ step'[s] \in {step[s], "scanning", "failed"}
        /\ \A t \in Segment : t # s => step'[t] = step[t]
        /\ UNCHANGED <<toScan, entry>>
    BY <1>5, UpdateStepTraces
  <2>2. /\ \A e : Touched(e)' => Touched(e) \/ e = entry[s]
        /\ \A l \in report' : l \in report \/ l.entry = entry[s]
    BY <1>5, UpdateStepTouches
  <2>3. \A t \in Segment, e \in Entry : Ahead(t, e)' => Ahead(t, e) /\ e # entry[s]
    BY <2>1 DEF Ahead, Once
  <2>4. QED
    BY <2>1, <2>2, <2>3, OnceStays
<1>6. CASE Kill
  <2>1. /\ UNCHANGED <<toScan, entry, report, written>>
        /\ \A t \in Segment : step'[t] = "failed"
    BY <1>6 DEF Kill
  <2>2. \A t \in Segment, e \in Entry : Ahead(t, e)' => Ahead(t, e) /\ e \in toScan[t]
    BY <2>1 DEF Ahead
  <2>3. \A t, r \in Segment, e \in Entry : e \in toScan[t] => entry[r] # e
    BY DEF Once
  <2>4. \A u \in late' : u \in late \/ \E r \in Segment : u.entry = entry[r]
    BY <1>6 DEF Kill, UpdateOf
  <2>5. \A t \in Segment, e \in Entry : e \in toScan[t] /\ Touched(e)' => Touched(e)
    BY <2>1, <2>3, <2>4 DEF Touched
  <2>6. QED
    BY <2>1, <2>2, <2>5, OnceStays
<1>7. ASSUME NEW u \in late, LateArrival(u) PROVE Once'
  <2>1. /\ UNCHANGED <<toScan, entry, report, step>>
        /\ late' \subseteq late
        /\ written' \subseteq written \union {<<u.entry, u.sk>>}
    BY <1>7 DEF LateArrival, Arrive
  <2>2. \A e : Touched(e)' => Touched(e)
    BY <2>1 DEF Touched
  <2>3. \A t \in Segment, e \in Entry : Ahead(t, e)' = Ahead(t, e)
    BY <2>1 DEF Ahead
  <2>4. QED
    BY <2>1, <2>2, <2>3, OnceStays
<1>8. ASSUME RunEnds \/ (\E e \in Entry, sk \in Sk : Edit(e, sk)) \/ UNCHANGED vars
      PROVE  Once'
  <2>1. UNCHANGED <<toScan, entry, report, step, late, written>>
    BY <1>8 DEF RunEnds, Edit, vars
  <2>2. \A e : Touched(e)' = Touched(e)
    BY <2>1 DEF Touched
  <2>3. \A t \in Segment, e \in Entry : Ahead(t, e)' = Ahead(t, e)
    BY <2>1 DEF Ahead
  <2>4. QED
    BY <2>1, <2>2, <2>3, OnceStays
<1>9. QED
  BY <1>1, <1>2, <1>3, <1>4, <1>5, <1>6, <1>7, <1>8 DEF Next, SegmentStep, UpdateStep, Finished

-----------------------------------------------------------------------------
(* Nothing is written without certainty *)

OwnReason(l) == l.kind = "skip" /\ l.reason # "changed-during-run"

\* An entry that is skipped for a reason of its own, or is of an internal model, is
\* not touched and not about to be.
Certain ==
  /\ \A l \in report : OwnReason(l) => ~Touched(l.entry) /\ ~Awaited(l.entry)
  /\ \A e \in Internal : ~Touched(e) /\ ~Awaited(e)
  /\ Table = "ddb" => \A s \in Segment : entry[s] \notin Internal

\* A step that touches nothing new and skips nothing new.
LEMMA CertainStays ==
  ASSUME Certain,
         \A e \in Entry : Touched(e)' \/ Awaited(e)' => Touched(e) \/ Awaited(e),
         \A l \in report' : OwnReason(l) => l \in report /\ l.entry \in Entry,
         Table = "ddb" => \A s \in Segment : entry'[s] \notin Internal
  PROVE  Certain'
<1>1. \A l \in report' : OwnReason(l)' = OwnReason(l)
  BY DEF OwnReason
<1>2. QED
  BY <1>1, FixLiveAssumption DEF Certain

\* An own reason is of an entry.
LEMMA ReasonOfEntry == Typed => \A l \in report : OwnReason(l) => l.entry \in Entry
<1> SUFFICES ASSUME Typed, NEW l \in report PROVE l.entry \in Entry
  OBVIOUS
<1>1. l \in Line
  BY DEF Typed, TypeOK
<1>2. QED
  BY <1>1 DEF Line

\* Entries of internal models have no changes.
LEMMA InternalUnchanged ==
  ASSUME NEW e \in Internal, NEW g, Table = "os"
  PROVE  ChangesOf(e, g) = {}
<1>1. ASSUME g["L"] = Absent PROVE SkipOf(g) # None
  <2>1. SkipOf(g) \in {"decompress-failed", "no-latest-record"}
    BY <1>1 DEF SkipOf, SkipReason
  <2>2. QED
    BY <2>1, FixLiveAssumption DEF Reason
<1>2. ASSUME Garbled(g) PROVE SkipOf(g) # None
  BY <1>2, FixLiveAssumption DEF SkipOf, Reason
<1>3. QED
  BY <1>1, <1>2 DEF ChangesOf, Ignored

\* Every step keeps the certainty.
LEMMA CertainNext == Typed /\ Once /\ Certain /\ [Next]_vars => Certain'
<1> SUFFICES ASSUME Typed, Once, Certain, [Next]_vars PROVE Certain'
  OBVIOUS
<1> USE DEF system, command, segments, traces
<1>1. ASSUME NEW m \in {"dry-run", "live"}, Start(m) PROVE Certain'
  <2>1. /\ report' = {} /\ written' = {} /\ late' = {}
        /\ \A s \in Segment : pending'[s] = {} /\ entry'[s] = None
    BY <1>1 DEF Start, Working
  <2>2. QED
    BY <2>1, FixLiveAssumption DEF Certain, Touched, Awaited
<1>2. ASSUME NEW s \in Segment, NEW f \in Entry, ScanRow(s, f) PROVE Certain'
  <2>1. /\ pending[s] = {} /\ UNCHANGED <<written, late, report, pending>>
        /\ \/ entry' = entry
           \/ entry' = [entry EXCEPT ![s] = f] /\ ~(Table = "ddb" /\ f \in Internal)
    BY <1>2 DEF ScanRow, Typed, InHand
  <2>2. \A e : Touched(e)' = Touched(e)
    BY <2>1 DEF Touched
  <2>3. \A e : Awaited(e)' => Awaited(e)
    BY <2>1 DEF Awaited, Typed, TypeOK
  <2>4. Table = "ddb" => \A t \in Segment : entry'[t] \notin Internal
    BY <2>1 DEF Certain, Typed, TypeOK
  <2>5. QED
    BY <2>1, <2>2, <2>3, <2>4, CertainStays, ReasonOfEntry
<1>3. ASSUME \/ \E s \in Segment :
                  StartSegment(s) \/ QueryRow(s) \/ ReadFails(s) \/ SegmentDone(s)
             \/ RunEnds \/ (\E e \in Entry, sk \in Sk : Edit(e, sk)) \/ UNCHANGED vars
      PROVE  Certain'
  <2>1. UNCHANGED <<entry, pending, written, late, report>>
    BY <1>3 DEF StartSegment, QueryRow, ReadFails, SegmentDone, RunEnds, Edit, vars
  <2>2. \A e : Touched(e)' = Touched(e) /\ Awaited(e)' = Awaited(e)
    BY <2>1 DEF Touched, Awaited
  <2>3. QED
    BY <2>1, <2>2, CertainStays, ReasonOfEntry DEF Certain
<1>4. ASSUME NEW s \in Segment, Decide(s) PROVE Certain'
  <2> DEFINE e == entry[s]
  <2>1. /\ \A l \in report' : l \in report \/ l.entry = e
        /\ \A l \in report' : l \in report \/ l.kind = "dry-run" \/ pending'[s] = {}
        /\ pending'[s] \subseteq ChangesOf(e, group[s])
        /\ pending[s] = {} /\ step[s] = "deciding" /\ e \in Entry
        /\ \A t \in Segment : t # s => pending'[t] = pending[t]
        /\ UNCHANGED <<entry, written, late>>
    BY <1>4, DecideMentions
  <2>2. \A f : Touched(f)' = Touched(f)
    BY <2>1 DEF Touched
  <2>3. ~Touched(e) /\ (\A l \in report : l.entry # e) /\ \A t \in Segment : entry[t] = e => t = s
    BY <2>1 DEF Once, Ahead
  <2>4. \A f : Awaited(f)' => Awaited(f) \/ (f = e /\ pending'[s] # {})
    BY <2>1 DEF Awaited
  <2>5. ~Awaited(e)
    BY <2>1, <2>3 DEF Awaited
  <2>6. e \in Internal => pending'[s] = {}
    BY <2>1, InternalUnchanged, FixLiveAssumption DEF Certain
  <2>7. ASSUME NEW l \in report', OwnReason(l) PROVE ~Touched(l.entry)' /\ ~Awaited(l.entry)'
    <3>1. CASE l \in report
      BY <2>2, <2>3, <2>4, <2>7, <3>1 DEF Certain
    <3>2. CASE l \notin report
      BY <2>1, <2>2, <2>3, <2>4, <2>5, <2>7, <3>2 DEF OwnReason
    <3>3. QED
      BY <3>1, <3>2
  <2>8. \A l : OwnReason(l)' = OwnReason(l)
    BY DEF OwnReason
  <2>9. QED
    BY <2>1, <2>2, <2>4, <2>6, <2>7, <2>8 DEF Certain
<1>5. ASSUME NEW s \in Segment, NEW sk \in Sk, UpdateStep(s, sk) PROVE Certain'
  <2>1. /\ sk \in pending[s] /\ entry[s] \in Entry
        /\ \A t \in Segment : pending'[t] \subseteq pending[t]
        /\ UNCHANGED entry
    BY <1>5, UpdateStepTraces
  <2>2. /\ \A e : Touched(e)' => Touched(e) \/ e = entry[s]
        /\ \A l \in report' : OwnReason(l) => l \in report
    BY <1>5, UpdateStepTouches DEF OwnReason
  <2>3. \A e : Awaited(e)' => Awaited(e)
    BY <2>1 DEF Awaited
  <2>4. Awaited(entry[s])
    BY <2>1 DEF Awaited
  <2>5. QED
    BY <2>1, <2>2, <2>3, <2>4, CertainStays, ReasonOfEntry DEF Certain
<1>6. CASE Kill
  <2>1. /\ UNCHANGED <<entry, report, written>>
        /\ \A t \in Segment : pending'[t] = {}
    BY <1>6 DEF Kill
  <2>2. \A u \in late' : u \in late \/ \E r \in Segment : pending[r] # {} /\ u.entry = entry[r]
    BY <1>6 DEF Kill, UpdateOf
  <2>3. \A e : Touched(e)' => Touched(e) \/ Awaited(e)
    BY <2>1, <2>2 DEF Touched, Awaited
  <2>4. \A e : ~Awaited(e)'
    BY <2>1 DEF Awaited
  <2>5. QED
    BY <2>1, <2>3, <2>4, CertainStays, ReasonOfEntry DEF Certain
<1>7. ASSUME NEW u \in late, LateArrival(u) PROVE Certain'
  <2>1. /\ UNCHANGED <<entry, report, pending>>
        /\ late' \subseteq late
        /\ written' \subseteq written \union {<<u.entry, u.sk>>}
    BY <1>7 DEF LateArrival, Arrive
  <2>2. \A e : (Touched(e)' => Touched(e)) /\ Awaited(e)' = Awaited(e)
    BY <2>1 DEF Touched, Awaited
  <2>3. QED
    BY <2>1, <2>2, CertainStays, ReasonOfEntry DEF Certain
<1>8. QED
  BY <1>1, <1>2, <1>3, <1>4, <1>5, <1>6, <1>7 DEF Next, SegmentStep, UpdateStep, Finished

\* No row is written of an entry that is skipped for a reason of its own or belongs
\* to an internal model.
THEOREM OnlyCertainWrites == Spec => []WrittenWhenCertain
<1>1. Init => Once /\ Certain
  BY FixLiveAssumption DEF Init, Once, Ahead, Certain, Touched, Awaited
<1>2. Typed /\ Certain => WrittenWhenCertain
  BY FixLiveAssumption DEF Certain, OwnReason, Touched, WrittenWhenCertain
<1>3. QED
  BY <1>1, <1>2, TypedInit, TypedNext, OnceNext, CertainNext, PTL DEF Spec

-----------------------------------------------------------------------------
(* No entry is left behind *)

\* The rows of an entry, but for their live fields, are all a decision looks at.
Alike(g, h) ==
  \A sk \in Sk :
    /\ g[sk] = Absent <=> h[sk] = Absent
    /\ g[sk] # Absent => /\ g[sk].status = h[sk].status
                         /\ g[sk].version = h[sk].version
                         /\ g[sk].md = h[sk].md

\* Items whose rows are alike get the same decision.
LEMMA AlikeDecides ==
  ASSUME NEW g \in [Sk -> Row \union {Absent}], NEW h \in [Sk -> Row \union {Absent}],
         Alike(g, h)
  PROVE  /\ SkipReason(g) = SkipReason(h)
         /\ ExpectedLive(g) = ExpectedLive(h)
         /\ Targets(g) = Targets(h)
<1>1. "L" \in Sk /\ "P" \in Sk
  BY DEF Sk
<1>2. Published(g) = Published(h)
  BY <1>1 DEF Published, Alike
<1>3. Published(g) => g["P"].version = h["P"].version
  BY <1>1 DEF Published, Alike
<1>4. ExpectedLive(g) = ExpectedLive(h)
  BY <1>2, <1>3 DEF ExpectedLive
<1>5. Targets(g) = Targets(h)
  BY <1>2, <1>3 DEF Targets, RevisionOf
<1>6. SkipReason(g) = SkipReason(h)
  <2>1. g["L"] = Absent <=> h["L"] = Absent
    BY <1>1 DEF Alike
  <2>2. g["L"] # Absent => g["L"].status = h["L"].status /\ g["L"].version = h["L"].version
    BY <1>1 DEF Alike
  <2>3. ASSUME Published(g), g["P"].version \in Version, Table # "os"
        PROVE  /\ g[RevisionOf(g)] = Absent <=> h[RevisionOf(h)] = Absent
               /\ g[RevisionOf(g)] # Absent =>
                    g[RevisionOf(g)].version = h[RevisionOf(h)].version
    <3>1. RevisionOf(g) = RevisionOf(h)
      BY <1>3, <2>3 DEF RevisionOf
    <3>2. RevisionOf(g) \in Sk
      BY <2>3, FixLiveAssumption DEF RevisionOf, Sk
    <3>3. QED
      BY <3>1, <3>2 DEF Alike
  <2>4. CASE g["L"] = Absent
    BY <2>1, <2>4 DEF SkipReason
  <2>5. CASE g["L"] # Absent /\ ~Published(g)
    BY <1>2, <2>1, <2>2, <2>5 DEF SkipReason
  <2>6. CASE g["L"] # Absent /\ Published(g)
    <3>1. StatusContradicts(g) = StatusContradicts(h)
      BY <1>3, <2>2, <2>6 DEF StatusContradicts
    <3>2. QED
      BY <1>2, <1>3, <2>1, <2>3, <2>6, <3>1 DEF SkipReason
  <2>7. QED
    BY <2>4, <2>5, <2>6
<1>7. QED
  BY <1>4, <1>5, <1>6

\* Nothing about entry e is left to be done.
Correct(e) == SkipReason(table[e]) = None /\ Changes(table[e]) = {}

\* An entry about which nothing is left to be done is in sync.
LEMMA CorrectIsInSync ==
  ASSUME Typed, NEW e \in Entry, Correct(e)
  PROVE  InSync(e)
<1> DEFINE g == table[e]
<1>1. g \in [Sk -> Row \union {Absent}] /\ SkipReason(g) = None /\ Changes(g) = {}
  BY DEF Typed, TypeOK, Correct
<1>2. Targets(g) \subseteq {sk \in Sk : g[sk] # Absent}
  BY <1>1, DecisionIsSound
<1>3. \A sk \in Targets(g) : g[sk] # Absent /\ g[sk].live = ExpectedLive(g)
  BY <1>1, <1>2 DEF Changes
<1>4. CASE ~Published(g)
  BY <1>3, <1>4 DEF Published, Targets, ExpectedLive, InSync
<1>5. CASE Published(g)
  <2>1. g["P"].version \in Version
    BY <1>1, <1>5, DecisionIsSound
  <2>2. Table = "ddb" => g[RevisionOf(g)].version = g["P"].version
    <3> SUFFICES ASSUME Table = "ddb" PROVE g[RevisionOf(g)].version = g["P"].version
      OBVIOUS
    <3>1. Table # "os" /\ g["L"] # Absent
      BY <1>1, FixLiveAssumption DEF SkipReason, Reason
    <3>2. QED
      BY <1>1, <1>5, <2>1, <3>1, FixLiveAssumption DEF SkipReason, Reason
  <2>3. QED
    BY <1>3, <1>5, <2>1, <2>2 DEF Published, Targets, ExpectedLive, RevisionOf, InSync
<1>6. QED
  BY <1>4, <1>5

\* A change of live fields leaves the decision as it was.
LEMMA OnlyLiveAlike ==
  ASSUME Typed, OnlyLive, NEW e \in Entry
  PROVE  Alike(table[e], table'[e]) /\ Alike(table'[e], table[e])
<1> SUFFICES ASSUME NEW sk \in Sk
             PROVE  /\ table[e][sk] = Absent <=> table'[e][sk] = Absent
                    /\ table[e][sk] # Absent =>
                         /\ table[e][sk].status = table'[e][sk].status
                         /\ table[e][sk].version = table'[e][sk].version
                         /\ table[e][sk].md = table'[e][sk].md
  BY DEF Alike
<1>1. CASE table'[e][sk] = table[e][sk]
  BY <1>1
<1>2. CASE table'[e][sk] # table[e][sk]
  <2>1. table[e][sk] # Absent
    BY <1>2 DEF OnlyLive
  <2>2. PICK live \in Live : table'[e][sk] = [table[e][sk] EXCEPT !.live = live]
    BY <1>2 DEF OnlyLive
  <2>3. table[e][sk] \in Row
    BY <2>1 DEF Typed, TypeOK
  <2>4. table'[e][sk] \in Row
    BY <2>2, <2>3 DEF Row
  <2>5. QED
    BY <2>1, <2>2, <2>3, <2>4, FixLiveAssumption DEF Row
<1>3. QED
  BY <1>1, <1>2

\* A correct entry stays correct when rows are given the live field they should have.
LEMMA CorrectStays ==
  ASSUME Typed, Typed', OnlyLive, NEW e \in Entry, Correct(e),
         \A sk \in Sk : table'[e][sk] # table[e][sk] =>
           table'[e][sk].live = ExpectedLive(table[e])
  PROVE  Correct(e)'
<1>1. table[e] \in [Sk -> Row \union {Absent}] /\ table'[e] \in [Sk -> Row \union {Absent}]
  BY DEF Typed, TypeOK
<1>2. /\ SkipReason(table'[e]) = SkipReason(table[e])
      /\ ExpectedLive(table'[e]) = ExpectedLive(table[e])
      /\ Targets(table'[e]) = Targets(table[e])
  BY <1>1, OnlyLiveAlike, AlikeDecides
<1>3. Targets(table[e]) \subseteq Sk
  BY <1>1, DecisionIsSound DEF Correct
<1>4. \A sk \in Targets(table[e]) : table'[e][sk].live = ExpectedLive(table[e])
  BY <1>3 DEF Correct, Changes
<1>5. Changes(table'[e]) = {}
  BY <1>2, <1>4 DEF Changes
<1>6. QED
  BY <1>2, <1>5 DEF Correct

Good == outcome \in {"running", "ok"}

Unedited(e) == \A sk \in Sk : <<e, sk>> \notin edited

\* The report says something of entry e.
Spoken(e) ==
  \/ \E r \in Reason : Skip(e, r) \in report
  \/ mode = "dry-run" /\ \E sk \in Sk : Change(e, sk, "dry-run") \in report

\* What the query of a segment has passed is what is there, if nobody has edited it.
ReadAsIs(s) ==
  LET e == entry[s]
  IN  /\ step[s] \in {"reading", "deciding"} =>
           \A i \in 1..read[s] :
             <<e, SkOrder[i]>> \notin edited => group[s][SkOrder[i]] = table[e][SkOrder[i]]
      /\ step[s] = "deciding" => read[s] = Len(SkOrder)

\* While an entry is being written, what is not correct about it is pending.
InWork(s) ==
  step[s] = "writing" /\ Unedited(entry[s]) =>
    /\ SkipReason(group[s]) = None
    /\ Alike(group[s], table[entry[s]])
    /\ \A sk \in Targets(group[s]) :
         sk \in pending[s] \/ table[entry[s]][sk].live = ExpectedLive(group[s])

\* The run is through with entry e.
Behind(e) ==
  LET s == SegmentOf[e]
  IN  e \notin toScan[s] /\ ~(entry[s] = e /\ step[s] \in {"reading", "deciding", "writing"})

\* It has left the entry correct, or has said something of it.
Through(e) ==
  Behind(e) /\ table[e]["L"] # Absent /\ Unedited(e) => Correct(e) \/ Spoken(e)

\* An update that was given up is still right.
LateIsRight(u) == Unedited(u.entry) => u.live = ExpectedLive(table[u.entry])

Settling ==
  Good =>
    /\ \A s \in Segment : step[s] # "failed" /\ ReadAsIs(s) /\ InWork(s)
    /\ \A u \in late : LateIsRight(u)
    /\ \A e \in Entry \ Internal : Through(e)

\* What is said stays said.
LEMMA SpokenStays ==
  ASSUME report \subseteq report', mode' = mode
  PROVE  \A e : Spoken(e) => Spoken(e)'
BY DEF Spoken

\* Decide settles the entry, or turns to writing it.
LEMMA SettlingDecide ==
  ASSUME Typed, Once, Settling, NEW s \in Segment, Decide(s), Good
  PROVE  Settling'
<1> DEFINE e == entry[s]
           g == group[s]
           changes == ChangesOf(e, g)
<1>1. /\ step[s] = "deciding" /\ e \in Entry /\ SegmentOf[e] = s /\ pending[s] = {}
      /\ report \subseteq report'
      /\ \A t \in Segment : t # s => pending'[t] = pending[t] /\ step'[t] = step[t]
      /\ step'[s] = IF pending'[s] = {} THEN "scanning" ELSE "writing"
      /\ pending'[s] = IF mode = "live" THEN changes ELSE {}
      /\ UNCHANGED <<table, edited, mode, outcome, toScan, entry, read, group, late>>
  <2>1. /\ step[s] = "deciding" /\ e \in Entry /\ pending[s] = {}
        /\ \A t \in Segment : t # s => pending'[t] = pending[t] /\ step'[t] = step[t]
    BY DecideMentions
  <2>2. SegmentOf[e] = s
    BY <2>1 DEF Once
  <2>3. step' = [step EXCEPT ![s] = IF pending'[s] = {} THEN "scanning" ELSE "writing"]
    BY DEF Decide, Go
  <2>4. pending' = [pending EXCEPT ![s] = IF mode = "live" THEN changes ELSE {}]
    BY DEF Decide
  <2>5. /\ report \subseteq report'
        /\ UNCHANGED <<table, edited, mode, outcome, toScan, entry, read, group, late>>
    BY DEF Decide, system, command
  <2>6. QED
    BY <2>1, <2>2, <2>3, <2>4, <2>5 DEF Typed, TypeOK
<1>2. g \in [Sk -> Row \union {Absent}] /\ table[e] \in [Sk -> Row \union {Absent}]
  BY <1>1 DEF Typed, TypeOK
<1>3. ASSUME Unedited(e) PROVE g = table[e]
  <2>1. \A i \in 1..Len(SkOrder) : g[SkOrder[i]] = table[e][SkOrder[i]]
    <3>1. /\ read[s] = Len(SkOrder)
          /\ \A i \in 1..read[s] :
               <<e, SkOrder[i]>> \notin edited => g[SkOrder[i]] = table[e][SkOrder[i]]
      BY <1>1 DEF Settling, ReadAsIs
    <3>2. \A i \in 1..Len(SkOrder) : <<e, SkOrder[i]>> \notin edited
      BY <1>3, SkOrderPasses DEF Unedited
    <3>3. QED
      BY <3>1, <3>2
  <2>2. \A sk \in Sk : g[sk] = table[e][sk]
    BY <2>1, SkOrderPasses
  <2>3. QED
    BY <1>2, <2>2
<1>4. \A t \in Segment : t # s => ReadAsIs(t)' /\ InWork(t)'
  BY <1>1 DEF Settling, ReadAsIs, InWork, Unedited
<1>5. ReadAsIs(s)' /\ step'[s] # "failed"
  BY <1>1 DEF ReadAsIs
<1>6. InWork(s)'
  <2> SUFFICES ASSUME step'[s] = "writing", Unedited(e)
               PROVE  /\ SkipReason(g) = None
                      /\ Alike(g, table[e])
                      /\ \A sk \in Targets(g) :
                           sk \in pending'[s] \/ table[e][sk].live = ExpectedLive(g)
    BY <1>1 DEF InWork, Unedited
  <2>1. changes # {} /\ pending'[s] = changes
    BY <1>1
  <2>2. SkipOf(g) = None /\ changes = Changes(g)
    BY <2>1 DEF ChangesOf
  <2>3. SkipReason(g) = None
    BY <2>2, FixLiveAssumption DEF SkipOf, Reason
  <2>4. Alike(g, table[e])
    BY <1>3 DEF Alike
  <2>5. QED
    BY <1>3, <2>1, <2>2, <2>3, <2>4 DEF Changes
<1>7. \A u \in late' : LateIsRight(u)'
  BY <1>1 DEF Settling, LateIsRight, Unedited
<1>8. ASSUME NEW f \in Entry \ Internal PROVE Through(f)'
  <2>1. Spoken(f) => Spoken(f)'
    BY <1>1, SpokenStays
  <2>2. CASE f # e
    <3>1. Behind(f)' => Behind(f)
      BY <1>1, <2>2, FixLiveAssumption DEF Behind
    <3>2. QED
      BY <1>1, <2>1, <3>1 DEF Settling, Through, Correct, Unedited
  <2>3. CASE f = e
    <3> SUFFICES ASSUME Behind(e)', table[e]["L"] # Absent, Unedited(e)
                 PROVE  Correct(e) \/ Spoken(e)'
      BY <1>1, <2>3 DEF Through, Correct, Unedited
    <3>1. pending'[s] = {}
      BY <1>1 DEF Behind
    <3>2. g = table[e]
      BY <1>3
    <3>3. CASE SkipOf(g) # None
      <4>1. ~Ignored(e, g)
        BY <2>3, FixLiveAssumption DEF Ignored
      <4>2. SkipsOf(e, g) = {Skip(e, SkipOf(g))}
        BY <3>3, <4>1 DEF SkipsOf
      <4>3. SkipOf(g) \in Reason
        BY <3>3 DEF SkipOf, SkipReason, Reason
      <4>4. Skip(e, SkipOf(g)) \in report'
        BY <4>2 DEF Decide
      <4>5. QED
        BY <1>1, <4>3, <4>4 DEF Spoken
    <3>4. CASE SkipOf(g) = None
      <4>1. ~Ignored(e, g)
        BY <2>3, FixLiveAssumption DEF Ignored
      <4>2. changes = Changes(g) /\ SkipReason(g) = None
        BY <3>4, <4>1, FixLiveAssumption DEF ChangesOf, SkipOf, Reason
      <4>3. CASE changes = {}
        BY <3>2, <4>2, <4>3 DEF Correct
      <4>4. CASE changes # {}
        <5>1. mode # "live" /\ mode = "dry-run"
          BY <1>1, <3>1, <4>4 DEF Typed, TypeOK
        <5>2. PICK sk \in changes : TRUE
          BY <4>4
        <5>3. Change(e, sk, "dry-run") \in report'
          BY <5>1, <5>2 DEF Decide
        <5>4. sk \in Sk
          BY <1>2, <5>2, ChangesAreSound
        <5>5. QED
          BY <1>1, <5>1, <5>3, <5>4 DEF Spoken
      <4>5. QED
        BY <4>3, <4>4
    <3>5. QED
      BY <3>3, <3>4
  <2>4. QED
    BY <2>2, <2>3
<1>9. step'[s] # "failed" /\ \A t \in Segment : step'[t] # "failed"
  BY <1>1 DEF Settling
<1>10. QED
  BY <1>4, <1>5, <1>6, <1>7, <1>8, <1>9 DEF Settling

\* QueryRow reads what is there, of an entry that is not behind.
LEMMA SettlingQuery ==
  ASSUME Typed, Once, Settling, NEW s \in Segment, QueryRow(s), Good
  PROVE  Settling'
<1> DEFINE e == entry[s]
           sk == SkOrder[read[s] + 1]
<1>1. /\ step[s] = "reading" /\ e \in Entry /\ read[s] \in Nat
      /\ read[s] + 1 \in 1..Len(SkOrder) /\ sk \in Sk
  <2>1. step[s] = "reading" /\ e \in Entry /\ read[s] < Len(SkOrder) /\ read[s] \in Nat
    BY SkOrderPasses DEF QueryRow, Typed, TypeOK, InHand
  <2>2. QED
    BY <2>1, SkOrderPasses
<1>2. /\ group' = [group EXCEPT ![s][sk] = table[e][sk]]
      /\ read' = [read EXCEPT ![s] = read[s] + 1]
      /\ edited' = edited \ {<<e, sk>>}
      /\ step' = [step EXCEPT ![s] = IF read'[s] = Len(SkOrder) THEN "deciding" ELSE "reading"]
      /\ UNCHANGED <<table, mode, outcome, toScan, entry, pending, late, report>>
  BY DEF QueryRow, Go, command, traces
<1>3. SegmentOf[e] = s /\ ~Touched(e) /\ \A t \in Segment : entry[t] = e => t = s
  BY <1>1 DEF Once, Ahead
<1>4. /\ read'[s] = read[s] + 1
      /\ step'[s] = IF read'[s] = Len(SkOrder) THEN "deciding" ELSE "reading"
      /\ \A t \in Segment : t # s =>
           step'[t] = step[t] /\ group'[t] = group[t] /\ read'[t] = read[t]
  BY <1>2 DEF Typed, TypeOK
<1>5. \A tk \in Sk : group'[s][tk] = IF tk = sk THEN table[e][sk] ELSE group[s][tk]
  BY <1>1, <1>2 DEF Typed, TypeOK
<1> HIDE DEF sk
<1>6. \A f : f # e => Unedited(f)' = Unedited(f)
  BY <1>2 DEF Unedited
<1>7. ASSUME NEW t \in Segment PROVE step'[t] # "failed" /\ ReadAsIs(t)' /\ InWork(t)'
  <2>1. CASE t = s
    <3>1. step'[s] # "failed" /\ InWork(s)'
      BY <1>4 DEF InWork
    <3>2. ASSUME NEW i \in 1..read'[s], <<e, SkOrder[i]>> \notin edited'
          PROVE  group'[s][SkOrder[i]] = table[e][SkOrder[i]]
      <4>1. i \in 1..Len(SkOrder) /\ SkOrder[i] \in Sk
        BY <1>1, <1>4, SkOrderPasses
      <4>2. CASE SkOrder[i] = sk
        BY <1>5, <4>1, <4>2
      <4>3. CASE SkOrder[i] # sk
        <5>1. i \in 1..read[s]
          BY <1>1, <1>4, <4>3 DEF sk
        <5>2. <<e, SkOrder[i]>> \notin edited
          BY <1>2, <3>2, <4>3
        <5>3. group[s][SkOrder[i]] = table[e][SkOrder[i]]
          BY <1>1, <5>1, <5>2 DEF Settling, ReadAsIs
        <5>4. QED
          BY <1>5, <4>1, <4>3, <5>3
      <4>4. QED
        BY <4>2, <4>3
    <3>3. ReadAsIs(s)'
      BY <1>2, <1>4, <3>2 DEF ReadAsIs
    <3>4. QED
      BY <2>1, <3>1, <3>3
  <2>2. CASE t # s
    <3>1. entry[t] # e
      BY <1>3, <2>2
    <3>2. /\ \A tk : <<entry[t], tk>> \in edited' <=> <<entry[t], tk>> \in edited
          /\ Unedited(entry[t])' = Unedited(entry[t])
      BY <1>2, <1>6, <3>1
    <3>3. ReadAsIs(t)'
      BY <1>2, <1>4, <2>2, <3>2 DEF Settling, ReadAsIs
    <3>4. InWork(t)'
      BY <1>2, <1>4, <2>2, <3>2 DEF Settling, InWork, Unedited
    <3>5. QED
      BY <1>4, <2>2, <3>3, <3>4 DEF Settling
  <2>3. QED
    BY <2>1, <2>2
<1>8. ASSUME NEW u \in late' PROVE LateIsRight(u)'
  <2>1. u.entry # e
    BY <1>2, <1>3 DEF Touched
  <2>2. QED
    BY <1>2, <1>6, <2>1 DEF Settling, LateIsRight, Unedited
<1>9. ASSUME NEW f \in Entry \ Internal PROVE Through(f)'
  <2>1. CASE f = e
    BY <1>2, <1>3, <1>4, <2>1 DEF Through, Behind
  <2>2. CASE f # e
    <3>1. Behind(f)' => Behind(f)
      BY <1>2, <1>4, <2>2, FixLiveAssumption DEF Behind
    <3>2. Unedited(f)' => Unedited(f)
      BY <1>6, <2>2
    <3>3. Correct(f)' = Correct(f) /\ Spoken(f)' = Spoken(f)
      BY <1>2 DEF Correct, Spoken
    <3>4. QED
      BY <1>2, <3>1, <3>2, <3>3 DEF Settling, Through
  <2>3. QED
    BY <2>1, <2>2
<1>10. QED
  BY <1>7, <1>8, <1>9 DEF Settling

\* ScanRow leaves an entry behind that has no L row, or turns to it.
LEMMA SettlingScan ==
  ASSUME Typed, Once, Settling, NEW s \in Segment, NEW f \in Entry, ScanRow(s, f), Good
  PROVE  Settling'
<1>1. /\ step[s] = "scanning" /\ f \in toScan[s]
      /\ toScan' = [toScan EXCEPT ![s] = toScan[s] \ {f}]
      /\ UNCHANGED <<table, edited, mode, outcome, pending, late, report>>
  BY DEF ScanRow, system, command, traces
<1>2. SegmentOf[f] = s /\ \A e : Unedited(e)' = Unedited(e)
  BY <1>1 DEF Once, Unedited
<1>3. \A e : Correct(e)' = Correct(e) /\ Spoken(e)' = Spoken(e)
  BY <1>1 DEF Correct, Spoken
<1>4. CASE /\ table[f]["L"] = Absent \/ (Table = "ddb" /\ f \in Internal)
           /\ UNCHANGED <<step, entry, read, group>>
  <2>1. \A t \in Segment : step'[t] # "failed" /\ ReadAsIs(t)' /\ InWork(t)'
    BY <1>1, <1>2, <1>4 DEF Settling, ReadAsIs, InWork
  <2>2. \A u \in late' : LateIsRight(u)'
    BY <1>1, <1>2 DEF Settling, LateIsRight
  <2>3. ASSUME NEW e \in Entry \ Internal PROVE Through(e)'
    <3>1. CASE e = f
      BY <1>1, <1>4, <3>1 DEF Through
    <3>2. CASE e # f
      <4>1. Behind(e)' => Behind(e)
        BY <1>1, <1>4, <3>2, FixLiveAssumption DEF Behind, Typed, TypeOK
      <4>2. QED
        BY <1>1, <1>2, <1>3, <4>1 DEF Settling, Through
    <3>3. QED
      BY <3>1, <3>2
  <2>4. QED
    BY <2>1, <2>2, <2>3 DEF Settling
<1>5. CASE /\ step' = [step EXCEPT ![s] = "reading"]
           /\ entry' = [entry EXCEPT ![s] = f]
           /\ read' = [read EXCEPT ![s] = 0]
           /\ group' = [group EXCEPT ![s] = NoGroup]
  <2>1. /\ step'[s] = "reading" /\ entry'[s] = f /\ read'[s] = 0
        /\ \A t \in Segment : t # s =>
             /\ step'[t] = step[t] /\ entry'[t] = entry[t]
             /\ read'[t] = read[t] /\ group'[t] = group[t]
    BY <1>5 DEF Typed, TypeOK
  <2>2. ASSUME NEW t \in Segment PROVE step'[t] # "failed" /\ ReadAsIs(t)' /\ InWork(t)'
    <3>1. CASE t = s
      BY <2>1, <3>1 DEF ReadAsIs, InWork
    <3>2. CASE t # s
      <4>1. /\ step'[t] = step[t] /\ entry'[t] = entry[t]
            /\ read'[t] = read[t] /\ group'[t] = group[t]
        BY <2>1, <3>2
      <4>2. step[t] # "failed" /\ ReadAsIs(t) /\ InWork(t)
        BY DEF Settling
      <4>3. ReadAsIs(t)'
        BY <1>1, <4>1, <4>2 DEF ReadAsIs
      <4>4. InWork(t)'
        BY <1>1, <1>2, <4>1, <4>2 DEF InWork
      <4>5. QED
        BY <4>1, <4>2, <4>3, <4>4
    <3>3. QED
      BY <3>1, <3>2
  <2>3. \A u \in late' : LateIsRight(u)'
    BY <1>1, <1>2 DEF Settling, LateIsRight
  <2>4. ASSUME NEW e \in Entry \ Internal PROVE Through(e)'
    <3>1. Behind(e)' => Behind(e)
      <4>1. CASE e = f
        BY <1>2, <2>1, <4>1 DEF Behind
      <4>2. CASE e # f
        BY <1>1, <2>1, <4>2, FixLiveAssumption DEF Behind, Typed, TypeOK
      <4>3. QED
        BY <4>1, <4>2
    <3>2. QED
      BY <1>1, <1>2, <1>3, <3>1 DEF Settling, Through
  <2>5. QED
    BY <2>2, <2>3, <2>4 DEF Settling
<1>6. QED
  BY <1>4, <1>5 DEF ScanRow, Go

\* An accepted update sets the live field.
LEMMA ArriveSets ==
  ASSUME Typed, NEW u \in Update, Accepts(u), Arrive(u)
  PROVE  table'[u.entry][u.sk].live = u.live
<1>1. u.entry \in Entry /\ u.sk \in Sk /\ u.row \in Row
  BY DEF Update
<1>2. table[u.entry][u.sk] \in Row
  BY <1>1 DEF Accepts, Typed, TypeOK
<1>3. Updated(u).live = u.live
  BY <1>1, <1>2 DEF Updated, Row
<1>4. QED
  BY <1>1, <1>3 DEF Arrive, Typed, TypeOK

\* Other live fields do not change what the live field of a late update should be.
LEMMA LateStaysRight ==
  ASSUME Typed, Typed', OnlyLive, UNCHANGED edited, NEW u \in Update, LateIsRight(u)
  PROVE  LateIsRight(u)'
<1>1. u.entry \in Entry
  BY DEF Update
<1>2. ExpectedLive(table'[u.entry]) = ExpectedLive(table[u.entry])
  <2>1. /\ table[u.entry] \in [Sk -> Row \union {Absent}]
        /\ table'[u.entry] \in [Sk -> Row \union {Absent}]
    BY <1>1 DEF Typed, TypeOK
  <2>2. QED
    BY <1>1, <2>1, OnlyLiveAlike, AlikeDecides
<1>3. QED
  BY <1>2 DEF LateIsRight, Unedited

\* UpdateAnswered and UpdateRetried leave the row with what it should have, or
\* pending.
LEMMA SettlingUpdate ==
  ASSUME Typed, Typed', Fresh, Once, Settling, NEW s \in Segment, NEW sk \in Sk,
         UpdateAnswered(s, sk) \/ UpdateRetried(s, sk), Good
  PROVE  Settling'
<1> DEFINE e == entry[s]
           g == group[s]
           u == UpdateOf(s, sk)
<1>1. /\ sk \in pending[s] /\ e \in Entry /\ step[s] = "writing" /\ SegmentOf[e] = s
      /\ late' \subseteq late \union {u}
      /\ report \subseteq report'
      /\ \A t \in Segment : t # s => pending'[t] = pending[t] /\ step'[t] = step[t]
      /\ UNCHANGED <<toScan, entry>>
  <2>1. UpdateStep(s, sk)
    BY DEF UpdateStep
  <2>2. /\ sk \in pending[s] /\ e \in Entry /\ step[s] \in {"writing", "failed"}
        /\ late' \subseteq late \union {u}
        /\ report \subseteq report'
        /\ \A t \in Segment : t # s => pending'[t] = pending[t] /\ step'[t] = step[t]
        /\ UNCHANGED <<toScan, entry>>
    BY <2>1, UpdateStepTraces
  <2>3. step[s] # "failed" /\ SegmentOf[e] = s
    BY <2>2 DEF Settling, Once
  <2>4. QED
    BY <2>2, <2>3
<1>2. UNCHANGED <<edited, mode, outcome, group, read>>
  BY DEF UpdateAnswered, UpdateRetried, command
<1>3. \/ step'[s] = "writing"
      \/ step'[s] = "scanning" /\ pending'[s] = {}
  <2>1. CASE UpdateAnswered(s, sk)
    BY <1>1, <2>1 DEF UpdateAnswered, Settle, Typed, TypeOK
  <2>2. CASE UpdateRetried(s, sk)
    BY <1>1, <2>2 DEF UpdateRetried
  <2>3. QED
    BY <2>1, <2>2
<1>4. /\ u \in Update /\ u.entry = e /\ u.sk = sk
      /\ u.row = g[sk] /\ u.live = ExpectedLive(g)
  BY <1>1, PendingIsUpdate DEF UpdateOf
<1>5. OnlyLive /\ OneRow(u)
  BY UpdateOnlyLive
<1> HIDE DEF u
<1>6. \A f \in Entry : f # e => table'[f] = table[f]
  <2> SUFFICES ASSUME NEW f \in Entry, f # e PROVE table'[f] = table[f]
    OBVIOUS
  <2>1. \A tk \in Sk : table'[f][tk] = table[f][tk]
    BY <1>4, <1>5 DEF OneRow
  <2>2. table[f] \in [Sk -> Row \union {Absent}] /\ table'[f] \in [Sk -> Row \union {Absent}]
    BY DEF Typed, TypeOK
  <2>3. QED
    BY <2>1, <2>2
<1>7. \A t \in Segment : t # s => entry[t] # e
  BY <1>1 DEF Once
<1>8. \A f : Unedited(f)' = Unedited(f)
  BY <1>2 DEF Unedited
<1>9. /\ g \in [Sk -> Row \union {Absent}]
      /\ table[e] \in [Sk -> Row \union {Absent}]
      /\ table'[e] \in [Sk -> Row \union {Absent}]
  BY <1>1 DEF Typed, TypeOK
<1>10. ASSUME Unedited(e)
       PROVE  /\ SkipReason(g) = None
              /\ Alike(g, table'[e])
              /\ \A tk \in Targets(g) :
                   tk \in pending'[s] \/ table'[e][tk].live = ExpectedLive(g)
  <2>1. /\ SkipReason(g) = None /\ Alike(g, table[e])
        /\ \A tk \in Targets(g) :
             tk \in pending[s] \/ table[e][tk].live = ExpectedLive(g)
    BY <1>1, <1>10 DEF Settling, InWork
  <2>2. Alike(g, table'[e])
    <3>1. Alike(table[e], table'[e])
      BY <1>1, <1>5, OnlyLiveAlike
    <3>2. QED
      BY <2>1, <3>1 DEF Alike
  <2>3. Targets(g) \subseteq Sk
    BY <1>9, <2>1, DecisionIsSound
  <2>4. ASSUME NEW tk \in Targets(g)
        PROVE  tk \in pending'[s] \/ table'[e][tk].live = ExpectedLive(g)
    <3>1. CASE tk # sk
      <4>1. table'[e][tk] = table[e][tk]
        BY <1>1, <1>4, <1>5, <2>3, <3>1 DEF OneRow
      <4>2. tk \in pending[s] => tk \in pending'[s]
        BY <1>1, <3>1 DEF UpdateAnswered, UpdateRetried, Settle, Typed, TypeOK
      <4>3. QED
        BY <2>1, <4>1, <4>2
    <3>2. CASE tk = sk /\ UpdateAnswered(s, sk)
      <4>1. g[sk] # Absent
        BY <1>1 DEF Typed, InHand
      <4>2. Accepts(u)
        BY <1>4, <2>1, <4>1 DEF Accepts, Alike
      <4>3. Arrive(u)
        BY <3>2 DEF UpdateAnswered, u
      <4>4. QED
        BY <1>4, <3>2, <4>2, <4>3, ArriveSets
    <3>3. CASE tk = sk /\ UpdateRetried(s, sk)
      BY <1>1, <3>3 DEF UpdateRetried
    <3>4. QED
      BY <3>1, <3>2, <3>3
  <2>5. QED
    BY <2>1, <2>2, <2>4
<1>11. ASSUME NEW t \in Segment PROVE step'[t] # "failed" /\ ReadAsIs(t)' /\ InWork(t)'
  <2>1. CASE t = s
    BY <1>1, <1>2, <1>3, <1>8, <1>10, <2>1 DEF ReadAsIs, InWork
  <2>2. CASE t # s
    <3>1. step'[t] = step[t] /\ pending'[t] = pending[t] /\ entry'[t] = entry[t]
      BY <1>1, <2>2
    <3>2. step[t] \in {"reading", "deciding", "writing"} =>
            table'[entry[t]] = table[entry[t]]
      BY <1>6, <1>7, <2>2 DEF Typed, InHand
    <3>3. ReadAsIs(t)'
      BY <1>2, <3>1, <3>2 DEF Settling, ReadAsIs
    <3>4. InWork(t)'
      BY <1>2, <1>8, <3>1, <3>2 DEF Settling, InWork
    <3>5. QED
      BY <3>1, <3>3, <3>4 DEF Settling
  <2>3. QED
    BY <2>1, <2>2
<1>12. ASSUME NEW v \in late' PROVE LateIsRight(v)'
  <2>1. CASE v \in late
    <3>1. v \in Update /\ LateIsRight(v)
      BY <2>1 DEF Settling, Typed, TypeOK
    <3>2. QED
      BY <1>2, <1>5, <3>1, LateStaysRight
  <2>2. CASE v = u
    <3>1. Unedited(e) => ExpectedLive(table'[e]) = ExpectedLive(g)
      BY <1>9, <1>10, AlikeDecides
    <3>2. QED
      BY <1>4, <1>8, <2>2, <3>1 DEF LateIsRight
  <2>3. QED
    BY <1>1, <2>1, <2>2
<1>13. ASSUME NEW f \in Entry \ Internal PROVE Through(f)'
  <2>1. Spoken(f) => Spoken(f)'
    BY <1>1, <1>2, SpokenStays
  <2>2. CASE f # e
    <3>1. Behind(f)' => Behind(f)
      BY <1>1, <2>2, FixLiveAssumption DEF Behind
    <3>2. Correct(f)' = Correct(f) /\ table'[f] = table[f]
      BY <1>6, <2>2 DEF Correct
    <3>3. QED
      BY <1>8, <2>1, <3>1, <3>2 DEF Settling, Through
  <2>3. CASE f = e
    <3> SUFFICES ASSUME Behind(e)', Unedited(e) PROVE Correct(e)'
      BY <1>1, <1>8, <2>3 DEF Through, Correct, Behind
    <3>1. pending'[s] = {}
      BY <1>1, <1>3 DEF Behind
    <3>2. /\ SkipReason(g) = SkipReason(table'[e])
          /\ ExpectedLive(g) = ExpectedLive(table'[e])
          /\ Targets(g) = Targets(table'[e])
      BY <1>9, <1>10, AlikeDecides
    <3>3. \A tk \in Targets(g) : table'[e][tk].live = ExpectedLive(g)
      BY <1>10, <3>1
    <3>4. Changes(table'[e]) = {}
      BY <3>2, <3>3 DEF Changes
    <3>5. QED
      BY <1>1, <1>10, <3>2, <3>4 DEF Correct
  <2>4. QED
    BY <2>2, <2>3
<1>14. QED
  BY <1>11, <1>12, <1>13 DEF Settling

\* LateArrival gives a row the live field it should have, or has already.
LEMMA SettlingLate ==
  ASSUME Typed, Typed', Fresh, Once, Settling, NEW u \in late, LateArrival(u), Good
  PROVE  Settling'
<1>1. /\ late' \subseteq late
      /\ UNCHANGED <<edited, mode, outcome, step, toScan, entry, read, group, pending, report>>
  BY DEF LateArrival, command, segments
<1>2. OnlyLive /\ OneRow(u)
  BY LateOnlyLive
<1>3. u \in Update /\ u.entry \in Entry /\ Touched(u.entry) /\ LateIsRight(u)
  BY DEF Touched, Settling, Typed, TypeOK, Update
<1>4. \A f : Unedited(f)' = Unedited(f) /\ Behind(f)' = Behind(f) /\ Spoken(f)' = Spoken(f)
  BY <1>1 DEF Unedited, Behind, Spoken
<1>5. ASSUME NEW f \in Entry, Unedited(f), NEW sk \in Sk, table'[f][sk] # table[f][sk]
      PROVE  table'[f][sk].live = ExpectedLive(table[f])
  BY <1>2, <1>3, <1>5 DEF OneRow, LateIsRight
<1>6. ASSUME NEW t \in Segment PROVE ReadAsIs(t)' /\ InWork(t)'
  <2> DEFINE e == entry[t]
             g == group[t]
  <2>1. ReadAsIs(t)'
    <3> SUFFICES ASSUME step[t] \in {"reading", "deciding"}
                 PROVE  \A i \in 1..read[t] : table'[e][SkOrder[i]] = table[e][SkOrder[i]]
      BY <1>1 DEF Settling, ReadAsIs
    <3>1. e \in Entry /\ e # u.entry
      BY <1>3 DEF Typed, InHand, Once, Ahead
    <3>2. \A i \in 1..read[t] : SkOrder[i] \in Sk
      BY SkOrderPasses DEF Typed, TypeOK
    <3>3. QED
      BY <1>2, <3>1, <3>2 DEF OneRow
  <2>2. InWork(t)'
    <3> SUFFICES ASSUME step[t] = "writing", Unedited(e)
                 PROVE  /\ SkipReason(g) = None
                        /\ Alike(g, table'[e])
                        /\ \A sk \in Targets(g) :
                             sk \in pending[t] \/ table'[e][sk].live = ExpectedLive(g)
      BY <1>1, <1>4 DEF InWork
    <3>1. /\ SkipReason(g) = None /\ Alike(g, table[e])
          /\ \A sk \in Targets(g) : sk \in pending[t] \/ table[e][sk].live = ExpectedLive(g)
      BY DEF Settling, InWork
    <3>2. e \in Entry
      BY DEF Typed, InHand
    <3>3. /\ g \in [Sk -> Row \union {Absent}]
          /\ table[e] \in [Sk -> Row \union {Absent}]
      BY <3>2 DEF Typed, TypeOK
    <3>4. Alike(g, table'[e])
      <4>1. Alike(table[e], table'[e])
        BY <1>2, <3>2, OnlyLiveAlike
      <4>2. QED
        BY <3>1, <4>1 DEF Alike
    <3>5. ExpectedLive(g) = ExpectedLive(table[e])
      BY <3>1, <3>3, AlikeDecides
    <3>6. Targets(g) \subseteq Sk
      BY <3>1, <3>3, DecisionIsSound
    <3>7. \A sk \in Targets(g) :
            table'[e][sk] = table[e][sk] \/ table'[e][sk].live = ExpectedLive(g)
      BY <1>5, <3>2, <3>5, <3>6
    <3>8. QED
      BY <3>1, <3>4, <3>7
  <2>3. QED
    BY <2>1, <2>2
<1>7. \A v \in late' : LateIsRight(v)'
  BY <1>1, <1>2, LateStaysRight DEF Settling, Typed, TypeOK
<1>8. ASSUME NEW f \in Entry \ Internal PROVE Through(f)'
  <2> SUFFICES ASSUME Behind(f), table'[f]["L"] # Absent, Unedited(f)
               PROVE  Correct(f)' \/ Spoken(f)
    BY <1>4 DEF Through
  <2>1. table[f]["L"] # Absent
    BY <1>2, OnlyLiveAlike DEF Alike, Sk
  <2>2. Correct(f) \/ Spoken(f)
    BY <2>1 DEF Settling, Through
  <2>3. Correct(f) => Correct(f)'
    BY <1>2, <1>5, CorrectStays
  <2>4. QED
    BY <2>2, <2>3
<1>9. QED
  BY <1>1, <1>6, <1>7, <1>8 DEF Settling

\* Edit takes its entry out of what is promised.
LEMMA SettlingEdit ==
  ASSUME Typed, Typed', Settling, NEW e \in Entry, NEW sk \in Sk, Edit(e, sk), Good
  PROVE  Settling'
<1>1. /\ edited' = edited \union {<<e, sk>>}
      /\ UNCHANGED <<mode, outcome, step, toScan, entry, read, group, pending, report, late>>
  BY DEF Edit, command, segments, traces
<1>2. \A f \in Entry, tk \in Sk : <<f, tk>> # <<e, sk>> => table'[f][tk] = table[f][tk]
  BY DEF Edit, Typed, TypeOK
<1>3. \A f \in Entry : f # e => table'[f] = table[f]
  <2> SUFFICES ASSUME NEW f \in Entry, f # e PROVE table'[f] = table[f]
    OBVIOUS
  <2>1. table[f] \in [Sk -> Row \union {Absent}] /\ table'[f] \in [Sk -> Row \union {Absent}]
    BY DEF Typed, TypeOK
  <2>2. QED
    BY <1>2, <2>1
<1>4. ~Unedited(e)' /\ \A f : f # e => Unedited(f)' = Unedited(f)
  BY <1>1 DEF Unedited
<1>5. ASSUME NEW t \in Segment PROVE ReadAsIs(t)' /\ InWork(t)'
  <2>1. ReadAsIs(t)'
    <3> SUFFICES ASSUME step[t] \in {"reading", "deciding"}, NEW i \in 1..read[t],
                        <<entry[t], SkOrder[i]>> \notin edited'
                 PROVE  group[t][SkOrder[i]] = table'[entry[t]][SkOrder[i]]
      BY <1>1 DEF Settling, ReadAsIs
    <3>1. entry[t] \in Entry /\ SkOrder[i] \in Sk
      BY SkOrderPasses DEF Typed, TypeOK, InHand
    <3>2. group[t][SkOrder[i]] = table[entry[t]][SkOrder[i]]
      BY <1>1 DEF Settling, ReadAsIs
    <3>3. QED
      BY <1>1, <1>2, <3>1, <3>2
  <2>2. InWork(t)'
    <3>1. CASE entry[t] = e
      BY <1>1, <1>4, <3>1 DEF InWork
    <3>2. CASE entry[t] # e
      <4>1. step[t] = "writing" => table'[entry[t]] = table[entry[t]]
        BY <1>3, <3>2 DEF Typed, InHand
      <4>2. QED
        BY <1>1, <1>4, <3>2, <4>1 DEF Settling, InWork
    <3>3. QED
      BY <3>1, <3>2
  <2>3. QED
    BY <2>1, <2>2
<1>6. ASSUME NEW u \in late' PROVE LateIsRight(u)'
  <2>1. u.entry \in Entry /\ LateIsRight(u)
    BY <1>1 DEF Settling, Typed, TypeOK, Update
  <2>2. QED
    BY <1>3, <1>4, <2>1 DEF LateIsRight
<1>7. ASSUME NEW f \in Entry \ Internal PROVE Through(f)'
  <2>1. CASE f = e
    BY <1>4, <2>1 DEF Through
  <2>2. CASE f # e
    <3>1. Behind(f)' = Behind(f) /\ Spoken(f)' = Spoken(f)
      BY <1>1 DEF Behind, Spoken
    <3>2. Correct(f)' = Correct(f)
      BY <1>3, <2>2 DEF Correct
    <3>3. QED
      BY <1>3, <1>4, <2>2, <3>1, <3>2 DEF Settling, Through
  <2>3. QED
    BY <2>1, <2>2
<1>8. QED
  BY <1>1, <1>5, <1>6, <1>7 DEF Settling

\* Every step keeps the entries settled.
LEMMA SettlingNext ==
  Typed /\ Typed' /\ Fresh /\ Once /\ Settling /\ [Next]_vars => Settling'
<1> SUFFICES ASSUME Typed, Typed', Fresh, Once, Settling, [Next]_vars, Good'
             PROVE  Settling'
  BY DEF Settling
<1>1. ASSUME NEW m \in {"dry-run", "live"}, Start(m) PROVE Settling'
  <2>1. /\ late' = {}
        /\ \A s \in Segment : step'[s] = "waiting" /\ toScan'[s] = {e \in Entry : SegmentOf[e] = s}
    BY <1>1 DEF Start
  <2>2. \A f \in Entry : ~Behind(f)'
    BY <2>1, FixLiveAssumption DEF Behind
  <2>3. QED
    BY <2>1, <2>2 DEF Settling, ReadAsIs, InWork, Through
<1>2. ASSUME ~\E m \in {"dry-run", "live"} : Start(m)
      PROVE  Settling'
  <2>1. Good
    BY <1>2
    DEF Next, SegmentStep, StartSegment, ScanRow, QueryRow, Decide, ReadFails, SegmentDone,
        UpdateAnswered, UpdateRetried, UpdateFails, RunEnds, Kill, LateArrival, Edit,
        Finished, vars, command, Good
  <2>2. ASSUME NEW s \in Segment, SegmentStep(s) PROVE Settling'
    <3>1. ASSUME StartSegment(s) \/ SegmentDone(s) PROVE Settling'
      <4>1. /\ step[s] \in {"waiting", "scanning"} /\ step'[s] \in {"scanning", "done"}
            /\ \A t \in Segment : t # s => step'[t] = step[t]
            /\ UNCHANGED <<table, edited, mode, outcome, toScan, entry, read, group,
                           pending, report, late>>
        BY <3>1
        DEF StartSegment, CanStart, SegmentDone, Go, system, command, traces, Typed, TypeOK
      <4>2. \A t \in Segment : step'[t] # "failed" /\ ReadAsIs(t)' /\ InWork(t)'
        BY <2>1, <4>1 DEF Settling, ReadAsIs, InWork, Unedited
      <4>3. \A u \in late' : LateIsRight(u)'
        BY <2>1, <4>1 DEF Settling, LateIsRight, Unedited
      <4>4. \A f \in Entry : Behind(f)' => Behind(f)
        BY <4>1, FixLiveAssumption DEF Behind
      <4>5. \A f : Correct(f)' = Correct(f) /\ Spoken(f)' = Spoken(f) /\ Unedited(f)' = Unedited(f)
        BY <4>1 DEF Correct, Spoken, Unedited
      <4>6. \A f \in Entry \ Internal : Through(f)'
        BY <2>1, <4>1, <4>4, <4>5 DEF Settling, Through
      <4>7. QED
        BY <4>2, <4>3, <4>6 DEF Settling
    <3>2. ASSUME NEW f \in Entry, ScanRow(s, f) PROVE Settling'
      BY <2>1, <3>2, SettlingScan
    <3>3. CASE QueryRow(s)
      BY <2>1, <3>3, SettlingQuery
    <3>4. CASE Decide(s)
      BY <2>1, <3>4, SettlingDecide
    <3>5. ASSUME NEW sk \in Sk, UpdateAnswered(s, sk) \/ UpdateRetried(s, sk) PROVE Settling'
      BY <2>1, <3>5, SettlingUpdate
    <3>6. ASSUME ReadFails(s) \/ \E sk \in Sk : UpdateFails(s, sk) PROVE FALSE
      BY <3>6 DEF ReadFails, UpdateFails, Good
    <3>7. QED
      BY <2>2, <3>1, <3>2, <3>3, <3>4, <3>5, <3>6 DEF SegmentStep
  <2>3. CASE Kill
    BY <2>3 DEF Kill, Good
  <2>4. ASSUME NEW u \in late, LateArrival(u) PROVE Settling'
    BY <2>1, <2>4, SettlingLate
  <2>5. ASSUME NEW e \in Entry, NEW sk \in Sk, Edit(e, sk) PROVE Settling'
    BY <2>1, <2>5, SettlingEdit
  <2>6. CASE RunEnds \/ UNCHANGED vars
    <3>1. UNCHANGED <<table, edited, mode, step, toScan, entry, read, group, pending,
                      report, late>>
      BY <2>6 DEF RunEnds, vars, system, command, segments, traces
    <3>2. \A t \in Segment : step'[t] # "failed" /\ ReadAsIs(t)' /\ InWork(t)'
      BY <2>1, <3>1 DEF Settling, ReadAsIs, InWork, Unedited
    <3>3. \A u \in late' : LateIsRight(u)'
      BY <2>1, <3>1 DEF Settling, LateIsRight, Unedited
    <3>4. \A f \in Entry \ Internal : Through(f)'
      BY <2>1, <3>1 DEF Settling, Through, Behind, Correct, Spoken, Unedited
    <3>5. QED
      BY <3>2, <3>3, <3>4 DEF Settling
  <2>7. QED
    BY <1>2, <2>2, <2>3, <2>4, <2>5, <2>6 DEF Next, Finished
<1>3. QED
  BY <1>1, <1>2

\* A segment that is done has nothing left to scan.
Scanned == \A s \in Segment : step[s] = "done" => toScan[s] = {}

\* Every step keeps it so.
LEMMA ScannedNext == Typed /\ Scanned /\ [Next]_vars => Scanned'
<1> SUFFICES ASSUME Typed, Scanned, [Next]_vars, NEW s \in Segment, step'[s] = "done"
             PROVE  toScan'[s] = {}
  BY DEF Scanned
<1> USE DEF system, command, segments, traces
<1>1. ASSUME NEW m \in {"dry-run", "live"}, Start(m) PROVE FALSE
  BY <1>1 DEF Start
<1>2. ASSUME NEW t \in Segment, SegmentStep(t) PROVE toScan'[s] = {}
  <2>1. CASE t = s /\ step'[s] # step[s]
    <3>1. SegmentDone(s)
      BY <1>2, <2>1
      DEF SegmentStep, StartSegment, ScanRow, QueryRow, Decide, ReadFails, UpdateAnswered,
          UpdateRetried, UpdateFails, Settle, Go, Typed, TypeOK
    <3>2. QED
      BY <3>1 DEF SegmentDone
  <2>2. step'[s] = step[s] /\ toScan'[s] \subseteq toScan[s] => toScan'[s] = {}
    BY DEF Scanned
  <2>3. toScan'[s] \subseteq toScan[s]
    <3>1. ASSUME NEW e \in Entry, ScanRow(t, e) PROVE toScan'[s] \subseteq toScan[s]
      BY <3>1 DEF ScanRow, Typed, TypeOK
    <3>2. ASSUME ~\E e \in Entry : ScanRow(t, e) PROVE toScan' = toScan
      BY <1>2, <3>2
      DEF SegmentStep, StartSegment, QueryRow, Decide, ReadFails, SegmentDone,
          UpdateAnswered, UpdateRetried, UpdateFails
    <3>3. QED
      BY <3>1, <3>2
  <2>4. t # s => step'[s] = step[s]
    BY <1>2
    DEF SegmentStep, StartSegment, ScanRow, QueryRow, Decide, ReadFails, SegmentDone,
        UpdateAnswered, UpdateRetried, UpdateFails, Settle, Go, Typed, TypeOK
  <2>5. QED
    BY <2>1, <2>2, <2>3, <2>4
<1>3. CASE Kill
  BY <1>3 DEF Kill
<1>4. CASE \/ RunEnds \/ Finished \/ UNCHANGED vars
           \/ \E u \in late : LateArrival(u)
           \/ \E e \in Entry, sk \in Sk : Edit(e, sk)
  BY <1>4 DEF RunEnds, Finished, LateArrival, Edit, vars, Scanned
<1>5. QED
  BY <1>1, <1>2, <1>3, <1>4 DEF Next

\* After a run that ended well, each entry that nobody edited is in sync, or the
\* report says why not.
THEOREM NoEntryLeftBehind == Spec => []SettledOrReported
<1>1. Init => Once /\ Settling /\ Trail /\ Scanned
  BY FixLiveAssumption DEF Init, Once, Ahead, Settling, Good, Trail, Scanned
<1>2. Typed /\ Settling /\ Trail /\ Scanned => SettledOrReported
  <2> SUFFICES ASSUME Typed, Settling, Trail, Scanned, outcome = "ok",
                      NEW e \in Entry \ Internal, table[e]["L"] # Absent, Unedited(e)
               PROVE  InSync(e) \/ Spoken(e)
    BY DEF SettledOrReported, Unedited, Spoken
  <2>1. SegmentOf[e] \in Segment
    BY FixLiveAssumption
  <2>2. Behind(e)
    BY <2>1 DEF Trail, Scanned, Behind
  <2>3. Correct(e) \/ Spoken(e)
    BY <2>2 DEF Settling, Good, Through
  <2>4. QED
    BY <2>3, CorrectIsInSync
<1>3. QED
  BY <1>1, <1>2, TypedInit, TypedNext, FreshInit, FreshNext, OnceNext, SettlingNext,
     TrailNext, ScannedNext, PTL
  DEF Spec

==============================================================================

-------------------------- MODULE Segment_proofs --------------------------
(***************************************************************************)
(* Proofs about Segment: for every table, every cut of it into segments    *)
(* and pages, and every content of its rows, ScanIsExact and               *)
(* SnapshotTellsTheRun.                                                    *)
(*                                                                         *)
(* The scan is about positions: what a worker has passed (cursor), what it *)
(* holds (page) and what it took (taken).  The editor adds rows behind and *)
(* before the cursor, so the invariant speaks of the rows that were there  *)
(* when the scan began.                                                    *)
(***************************************************************************)
EXTENDS Segment, TLAPS, WellFoundedInduction, FiniteSetTheorems

-----------------------------------------------------------------------------
(* Positions *)

\* Of finitely many positions one is the last.
LEMMA LastExists ==
  ASSUME NEW R, \A r \in R : r \in Nat, IsFiniteSet(R), R # {}
  PROVE  \E p \in R : \A q \in R : q <= p
<1> DEFINE From(p) == {q \in R : p <= q}
           T == {From(p) : p \in R}
<1>1. IsWellFoundedOn(StrictSubsetOrdering(R), SUBSET R)
  BY FS_StrictSubsetOrderingWellFounded, FS_FiniteSubsetsOfFinite
<1>2. T \subseteq SUBSET R /\ T # {}
  OBVIOUS
<1>3. PICK X \in T : \A Y \in T : ~ (<<Y, X>> \in StrictSubsetOrdering(R))
  <2> HIDE DEF T
  <2> QED
    BY <1>1, <1>2, WFMin
<1>4. PICK p \in R : X = From(p)
  OBVIOUS
<1>5. ASSUME NEW q \in R, ~(q <= p) PROVE FALSE
  <2>1. From(q) \subseteq From(p) /\ p \in From(p) /\ p \notin From(q)
    BY <1>5
  <2>2. <<From(q), From(p)>> \in StrictSubsetOrdering(R)
    BY <2>1 DEF StrictSubsetOrdering
  <2>3. QED
    BY <1>3, <1>4, <2>2
<1>6. QED
  BY <1>5

\* And one is the first.
LEMMA FirstExists ==
  ASSUME NEW R, \A r \in R : r \in Nat, IsFiniteSet(R), R # {}
  PROVE  \E p \in R : \A q \in R : p <= q
<1> DEFINE UpTo(p) == {q \in R : q <= p}
           T == {UpTo(p) : p \in R}
<1>1. IsWellFoundedOn(StrictSubsetOrdering(R), SUBSET R)
  BY FS_StrictSubsetOrderingWellFounded, FS_FiniteSubsetsOfFinite
<1>2. T \subseteq SUBSET R /\ T # {}
  OBVIOUS
<1>3. PICK X \in T : \A Y \in T : ~ (<<Y, X>> \in StrictSubsetOrdering(R))
  <2> HIDE DEF T
  <2> QED
    BY <1>1, <1>2, WFMin
<1>4. PICK p \in R : X = UpTo(p)
  OBVIOUS
<1>5. ASSUME NEW q \in R, ~(p <= q) PROVE FALSE
  <2>1. UpTo(q) \subseteq UpTo(p) /\ p \in UpTo(p) /\ p \notin UpTo(q)
    BY <1>5
  <2>2. <<UpTo(q), UpTo(p)>> \in StrictSubsetOrdering(R)
    BY <2>1 DEF StrictSubsetOrdering
  <2>3. QED
    BY <1>3, <1>4, <2>2
<1>6. QED
  BY <1>5

\* The first rows of a set: with one of them every earlier one; one at least, if there
\* is any; and all, if they are as many as the set has.
LEMMA FirstRows ==
  ASSUME NEW R, \A r \in R : r \in Nat, IsFiniteSet(R), NEW n \in Nat
  PROVE  /\ FirstOf(R, n) \subseteq R /\ IsFiniteSet(FirstOf(R, n))
         /\ \A p \in FirstOf(R, n), q \in R : q <= p => q \in FirstOf(R, n)
         /\ n # 0 /\ R # {} => FirstOf(R, n) # {}
         /\ n = Cardinality(R) => FirstOf(R, n) = R
<1> DEFINE UpTo(p) == {q \in R : q <= p}
<1>1. \A p \in R : IsFiniteSet(UpTo(p)) /\ Cardinality(UpTo(p)) \in Nat
  BY FS_Subset, FS_CardinalityType
<1>2. FirstOf(R, n) = {p \in R : Cardinality(UpTo(p)) <= n}
  BY DEF FirstOf
<1>3. FirstOf(R, n) \subseteq R /\ IsFiniteSet(FirstOf(R, n))
  BY <1>2, FS_Subset
<1>4. ASSUME NEW p \in FirstOf(R, n), NEW q \in R, q <= p
      PROVE  q \in FirstOf(R, n)
  <2>1. p \in R /\ Cardinality(UpTo(p)) <= n
    BY <1>2
  <2>2. UpTo(q) \subseteq UpTo(p)
    BY <1>4, <2>1
  <2>3. Cardinality(UpTo(q)) <= Cardinality(UpTo(p))
    BY <1>1, <2>1, <2>2, FS_Subset
  <2>4. Cardinality(UpTo(q)) \in Nat /\ Cardinality(UpTo(p)) \in Nat
    BY <1>1, <2>1
  <2> HIDE DEF UpTo
  <2>5. Cardinality(UpTo(q)) <= n
    BY <2>1, <2>3, <2>4
  <2> QED
    BY <1>2, <2>5
<1>5. ASSUME n # 0, R # {} PROVE FirstOf(R, n) # {}
  <2>1. PICK p \in R : \A q \in R : p <= q
    BY <1>5, FirstExists
  <2>2. UpTo(p) = {p}
    BY <2>1
  <2>3. Cardinality(UpTo(p)) = 1
    BY <2>2, FS_Singleton
  <2> QED
    BY <1>2, <1>5, <2>3
<1>6. ASSUME n = Cardinality(R) PROVE FirstOf(R, n) = R
  <2>1. \A p \in R : Cardinality(UpTo(p)) <= Cardinality(R)
    BY FS_Subset
  <2> QED
    BY <1>2, <1>6, <2>1
<1>7. QED
  BY <1>3, <1>4, <1>5, <1>6

-----------------------------------------------------------------------------
(* Types *)

\* Positions are numbers, and sets of them are finite.
LEMMA Positions ==
  ASSUME NEW R, R \subseteq Pos
  PROVE  IsFiniteSet(R) /\ \A p \in R : p \in Nat
BY SegmentAssumption, FS_Subset

\* An empty page is the empty sequence.
LEMMA EmptyPage ==
  ASSUME NEW f, f = [x \in DOMAIN f |-> f[x]], DOMAIN f = {}
  PROVE  f = << >>
<1>1. f = [x \in {} |-> f[x]]
  OBVIOUS
<1>2. << >> = [x \in {} |-> f[x]]
  OBVIOUS
<1>3. QED
  BY <1>1, <1>2

\* A page that is not empty has a next row.
LEMMA NextPosExists ==
  ASSUME TypeOK, NEW s \in Segment, page[s] # << >>
  PROVE  NextPos(s) \in DOMAIN page[s]
<1> DEFINE R == DOMAIN page[s]
<1>1. R \subseteq Pos
  BY DEF TypeOK, IsPage, Of
<1>2. R # {}
  BY EmptyPage DEF TypeOK, IsPage
<1>3. \E p \in R : \A q \in R : p <= q
  BY <1>1, <1>2, Positions, FirstExists
<1>4. QED
  BY <1>3 DEF NextPos

\* A page holds the rows between the old cursor and the new one, none left out, and the
\* last page all that there are.
LEMMA PageRead ==
  ASSUME TypeOK, NEW s \in Segment, ReadPage(s)
  PROVE  /\ DOMAIN page'[s] \subseteq Beyond(s)
         /\ cursor'[s] \in Nat /\ cursor[s] <= cursor'[s]
         /\ \A p \in Beyond(s) : p <= cursor'[s] <=> p \in DOMAIN page'[s]
         /\ ~ more'[s] => \A p \in Beyond(s) : p <= cursor'[s]
<1> DEFINE B == Beyond(s)
<1>1. PICK n \in 0..PageLimit :
        /\ n <= Cardinality(B)
        /\ n = 0 => B = {}
        /\ page' = [page EXCEPT ![s] = [p \in FirstOf(B, n) |-> source[p]]]
        /\ cursor' = [cursor EXCEPT ![s] = CursorAfter(s, n)]
        /\ \/ n > 0 /\ UNCHANGED more
           \/ n = Cardinality(B) /\ more' = [more EXCEPT ![s] = FALSE]
  BY DEF ReadPage
<1>2. n \in Nat /\ cursor[s] \in Nat /\ more[s] = TRUE
  <2>1. PageLimit \in Nat
    BY SegmentAssumption
  <2>2. cursor[s] \in Nat /\ more[s] \in BOOLEAN
    BY DEF TypeOK
  <2>3. more[s]
    BY DEF ReadPage
  <2> QED
    BY <2>1, <2>2, <2>3
<1>3. B \subseteq Pos /\ \A p \in B : p > cursor[s]
  BY DEF Beyond, Of
<1>4. IsFiniteSet(B) /\ \A p \in B : p \in Nat
  BY <1>3, Positions
<1>5. /\ page'[s] = [p \in FirstOf(B, n) |-> source[p]]
      /\ cursor'[s] = CursorAfter(s, n)
  BY <1>1 DEF TypeOK
<1>6. /\ DOMAIN page'[s] = FirstOf(B, n)
      /\ ~ more'[s] => n = Cardinality(B)
  BY <1>1, <1>2, <1>5
<1>7. /\ FirstOf(B, n) \subseteq B /\ IsFiniteSet(FirstOf(B, n))
      /\ \A p \in FirstOf(B, n), q \in B : q <= p => q \in FirstOf(B, n)
      /\ n # 0 /\ B # {} => FirstOf(B, n) # {}
      /\ n = Cardinality(B) => FirstOf(B, n) = B
  <2> HIDE DEF B
  <2> QED
    BY <1>2, <1>4, FirstRows
<1>8. CASE n = 0
  <2>1. B = {} /\ cursor'[s] = cursor[s]
    BY <1>1, <1>5, <1>8 DEF CursorAfter
  <2> QED
    BY <1>2, <1>6, <1>7, <2>1
<1>9. CASE n # 0
  <2>1. B # {}
    BY <1>1, <1>2, <1>9, FS_EmptySet
  <2>2. PICK last \in FirstOf(B, n) : \A q \in FirstOf(B, n) : q <= last
    BY <1>4, <1>7, <1>9, <2>1, LastExists
  <2>3. /\ cursor'[s] \in FirstOf(B, n)
        /\ \A q \in FirstOf(B, n) : q <= cursor'[s]
    BY <1>5, <1>9, <2>2 DEF CursorAfter
  <2>4. cursor'[s] \in Nat /\ cursor'[s] > cursor[s]
    BY <1>3, <1>4, <1>7, <2>3
  <2> QED
    BY <1>2, <1>6, <1>7, <2>3, <2>4
<1>10. QED
  BY <1>8, <1>9

-----------------------------------------------------------------------------

\* The steps of a worker that scan nothing.
Aside(s) ==
  \/ LoadPreset(s) \/ ScanFails(s) \/ Execute(s) \/ ExecuteFails(s) \/ FlushDone(s)
  \/ EndScan(s) \/ Close(s) \/ Die(s)

\* The steps that take a row.
Taking(s) ==
  \/ SkipRow(s) \/ DropRow(s) \/ (\E reads \in BOOLEAN : ConvertRow(s, reads)) \/ RowThrows(s)

Going == {"loaded", "scanning", "flushing"}

\* A worker goes to stage st with result r.
MovesOn(s, st, r) ==
  /\ st \in Going \union {"closing", "ended"} /\ r \in {"", "ok", "failed", "died"}
  /\ stage' = [stage EXCEPT ![s] = st] /\ result' = [result EXCEPT ![s] = r]
  /\ st \in Going => r = result[s] /\ stage[s] \in Going \union {"idle"}
  /\ st = "loaded" => stage[s] = "idle"

\* A worker that ends well has nothing left to scan.
Sits(s) ==
  /\ UNCHANGED <<setup, source, scan, started, taken>>
  /\ \E st, r : /\ MovesOn(s, st, r)
                /\ r = "ok" => result[s] = "ok" \/ (page[s] = << >> /\ ~ more[s])

\* The steps around the rows leave the scan where it is.
LEMMA AsideStep ==
  ASSUME TypeOK, NEW s \in Segment, Aside(s)
  PROVE  Sits(s)
<1> USE DEF scan, history, tables, flush, setting, memory, snapshots, Sits
<1>0. /\ stage \in [Segment -> {"idle", "loaded", "scanning", "flushing", "closing", "ended"}]
      /\ result \in [Segment -> {"", "ok", "failed", "died"}]
  BY DEF TypeOK
<1>1. CASE LoadPreset(s)
  <2>1. MovesOn(s, "loaded", result[s]) \/ MovesOn(s, "ended", "failed")
    BY <1>0, <1>1 DEF LoadPreset, MovesOn, Going
  <2>2. UNCHANGED <<setup, source, scan, started, taken>>
    BY <1>1 DEF LoadPreset
  <2>3. stage[s] = "idle"
    BY <1>1 DEF LoadPreset
  <2> QED
    BY <2>1, <2>2, <2>3
<1>2. CASE ScanFails(s)
  <2>1. MovesOn(s, "closing", "failed")
    BY <1>0, <1>2 DEF ScanFails, MovesOn, Going
  <2> QED
    BY <1>2, <2>1 DEF ScanFails
<1>3. CASE Execute(s)
  <2>1. MovesOn(s, "flushing", result[s])
    BY <1>0, <1>3 DEF Execute, MovesOn, Going
  <2> QED
    BY <1>3, <2>1 DEF Execute
<1>4. CASE ExecuteFails(s)
  <2>1. MovesOn(s, "closing", "failed")
    BY <1>0, <1>4 DEF ExecuteFails, MovesOn, Going
  <2> QED
    BY <1>4, <2>1 DEF ExecuteFails
<1>5. CASE FlushDone(s)
  <2>1. MovesOn(s, "scanning", result[s])
    BY <1>0, <1>5 DEF FlushDone, MovesOn, Going
  <2> QED
    BY <1>5, <2>1 DEF FlushDone
<1>6. CASE EndScan(s)
  <2>1. MovesOn(s, "flushing", result[s]) \/ MovesOn(s, "closing", "ok")
    BY <1>0, <1>6 DEF EndScan, MovesOn, Going
  <2>2. page[s] = << >> /\ ~ more[s] /\ UNCHANGED <<setup, source, scan, started, taken>>
    BY <1>6 DEF EndScan
  <2> QED
    BY <2>1, <2>2
<1>7. CASE Close(s)
  <2>1. MovesOn(s, "ended", result[s])
    BY <1>0, <1>7 DEF Close, MovesOn, Going
  <2> QED
    BY <1>7, <2>1 DEF Close
<1>8. CASE Die(s)
  <2>1. MovesOn(s, "ended", "died")
    BY <1>0, <1>8 DEF Die, MovesOn, Going
  <2> QED
    BY <1>8, <2>1 DEF Die
<1>9. QED
  BY <1>1, <1>2, <1>3, <1>4, <1>5, <1>6, <1>7, <1>8 DEF Aside

\* A row leaves the page and is taken, and nothing else of the scan changes.
Takes(s) ==
  /\ stage[s] = "scanning" /\ NextPos(s) \in DOMAIN page[s]
  /\ UNCHANGED <<setup, source, cursor, more, started>>
  /\ page' = [page EXCEPT ![s] = Restrict(@, DOMAIN @ \ {NextPos(s)})]
  /\ taken' = [taken EXCEPT ![s][NextPos(s)] = @ + 1]
  /\ \E st : MovesOn(s, st, result[s]) \/ MovesOn(s, st, "failed")

\* The steps that take the next row of the page take that row alone.
LEMMA TakingStep ==
  ASSUME TypeOK, NEW s \in Segment, Taking(s)
  PROVE  Takes(s)
<1> USE DEF Take, history, tables, flush, setting, memory, snapshots, Takes
<1>0. /\ stage \in [Segment -> {"idle", "loaded", "scanning", "flushing", "closing", "ended"}]
      /\ result \in [Segment -> {"", "ok", "failed", "died"}]
  BY DEF TypeOK
<1>1. CASE SkipRow(s)
  <2>1. NextPos(s) \in DOMAIN page[s] /\ stage[s] = "scanning" /\ UNCHANGED <<stage, result, setup>>
    BY <1>1, NextPosExists DEF SkipRow
  <2>2. MovesOn(s, "scanning", result[s])
    BY <1>0, <2>1 DEF MovesOn, Going
  <2>3. QED
    BY <1>1, <2>1, <2>2 DEF SkipRow
<1>2. CASE DropRow(s)
  <2>1. NextPos(s) \in DOMAIN page[s] /\ stage[s] = "scanning" /\ UNCHANGED result /\ Counted(s)
    BY <1>2, NextPosExists DEF DropRow
  <2>2. MovesOn(s, "scanning", result[s]) \/ MovesOn(s, "flushing", result[s])
    BY <1>0, <2>1 DEF MovesOn, Going, Counted
  <2>3. QED
    BY <1>2, <2>1, <2>2 DEF DropRow
<1>3. ASSUME NEW reads \in BOOLEAN, ConvertRow(s, reads)
      PROVE  Takes(s)
  <2>1. NextPos(s) \in DOMAIN page[s] /\ stage[s] = "scanning" /\ UNCHANGED result /\ Counted(s)
    BY <1>3, NextPosExists DEF ConvertRow
  <2>2. MovesOn(s, "scanning", result[s]) \/ MovesOn(s, "flushing", result[s])
    BY <1>0, <2>1 DEF MovesOn, Going, Counted
  <2>3. QED
    BY <1>3, <2>1, <2>2 DEF ConvertRow
<1>4. CASE RowThrows(s)
  <2>1. NextPos(s) \in DOMAIN page[s] /\ stage[s] = "scanning"
    BY <1>4, NextPosExists DEF RowThrows
  <2>2. MovesOn(s, "closing", "failed")
    BY <1>0, <1>4 DEF RowThrows, MovesOn, Going
  <2>3. QED
    BY <1>4, <2>1, <2>2 DEF RowThrows
<1>9. QED
  BY <1>1, <1>2, <1>3, <1>4 DEF Taking

\* What a step of a worker does, as far as the scan goes.
LEMMA WorkerStep ==
  ASSUME TypeOK, NEW s \in Segment, Work(s) \/ Die(s)
  PROVE  Sits(s) \/ Takes(s) \/ Preload(s) \/ ReadPage(s)
<1>1. Aside(s) \/ Taking(s) \/ Preload(s) \/ ReadPage(s)
  BY DEF Work, Aside, Taking
<1>2. QED
  BY <1>1, AsideStep, TakingStep

\* The editor of the source changes rows and adds some.
LEMMA PublishStep ==
  ASSUME TypeOK, Publish
  PROVE  /\ UNCHANGED <<setup, stage, result, scan, started, taken>>
         /\ DOMAIN source \subseteq DOMAIN source' /\ DOMAIN source' \subseteq Pos
<1>1. UNCHANGED <<setup, stage, result, scan, started, taken>> /\ source' = Over(setup.edit, source)
  BY DEF Publish, history
<1>2. DOMAIN setup.edit \subseteq Pos
  BY SegmentAssumption DEF TypeOK
<1>3. DOMAIN source' = DOMAIN setup.edit \union DOMAIN source
  BY <1>1 DEF Over
<1>4. QED
  BY <1>1, <1>2, <1>3 DEF TypeOK

\* The beginning of a run, the first or another.
Begins ==
  /\ stage = Each("idle") /\ result = Each("")
  /\ cursor = Each(0) /\ page = Each(<< >>) /\ more = Each(TRUE)
  /\ started = Each({}) /\ taken = Each(Untaken)

\* A worker that has read nothing yet has a page without rows.
LEMMA NoPage == \A s \in Segment : IsPage(<< >>, s)
<1>1. << >> = [p \in DOMAIN << >> |-> << >>[p]] /\ DOMAIN << >> = {}
  OBVIOUS
<1>2. QED
  BY <1>1 DEF IsPage

\* A rerun begins as the first run did, over the same source and the same setup.
LEMMA RerunStep ==
  ASSUME Rerun
  PROVE  Begins' /\ setup' = setup /\ source' = source
BY DEF Rerun, Begins, tables

-----------------------------------------------------------------------------

\* Every step keeps the types.
LEMMA TypeNext == TypeOK /\ [Next]_vars => TypeOK'
<1> SUFFICES ASSUME TypeOK, [Next]_vars
             PROVE  TypeOK'
  OBVIOUS
<1>1. ASSUME NEW s \in Segment, Sits(s) PROVE TypeOK'
  <2>1. UNCHANGED <<setup, source, cursor, page, more, started, taken>>
    BY <1>1 DEF Sits, scan
  <2>2. PICK st, r : MovesOn(s, st, r)
    BY <1>1 DEF Sits
  <2>3. QED
    BY <2>1, <2>2 DEF TypeOK, MovesOn, Going
<1>2. ASSUME NEW s \in Segment, Takes(s) PROVE TypeOK'
  <2>1. UNCHANGED <<setup, source, cursor, more, started>>
    BY <1>2 DEF Takes
  <2>2. PICK st : MovesOn(s, st, result[s]) \/ MovesOn(s, st, "failed")
    BY <1>2 DEF Takes
  <2>3. /\ stage' \in [Segment -> {"idle", "loaded", "scanning", "flushing", "closing", "ended"}]
        /\ result' \in [Segment -> {"", "ok", "failed", "died"}]
    BY <2>2 DEF TypeOK, MovesOn, Going
  <2>4. DOMAIN page' = Segment /\ taken' \in [Segment -> [Pos -> Nat]]
    <3>1. NextPos(s) \in Pos
      BY <1>2 DEF Takes, TypeOK, IsPage, Of
    <3>2. DOMAIN page = Segment /\ taken \in [Segment -> [Pos -> Nat]]
      BY DEF TypeOK
    <3> HIDE DEF NextPos
    <3>3. QED
      BY <1>2, <3>1, <3>2 DEF Takes
  <2>5. ASSUME NEW t \in Segment
        PROVE  IsPage(page'[t], t)
    <3>1. CASE t = s
      <4>1. page'[s] = Restrict(page[s], DOMAIN page[s] \ {NextPos(s)})
        BY <1>2 DEF Takes, TypeOK
      <4>2. page'[s] = [p \in DOMAIN page[s] \ {NextPos(s)} |-> page[s][p]]
        BY <4>1 DEF Restrict
      <4>3. QED
        BY <3>1, <4>2 DEF TypeOK, IsPage
    <3>2. CASE t # s
      BY <1>2, <3>2 DEF Takes, TypeOK
    <3>3. QED
      BY <3>1, <3>2
  <2>6. QED
    BY <2>1, <2>3, <2>4, <2>5 DEF TypeOK
<1>3. ASSUME NEW s \in Segment, Preload(s) PROVE TypeOK'
  <2>1. UNCHANGED <<setup, source, cursor, page, more, taken>>
    BY <1>3 DEF Preload, tables, scan
  <2>2. /\ stage' \in [Segment -> {"idle", "loaded", "scanning", "flushing", "closing", "ended"}]
        /\ result' \in [Segment -> {"", "ok", "failed", "died"}]
        /\ started' \in [Segment -> SUBSET Pos]
    <3>1. \/ /\ stage' = [stage EXCEPT ![s] = "closing"]
             /\ \E r \in {"ok", "failed"} : result' = [result EXCEPT ![s] = r]
             /\ UNCHANGED started
          \/ /\ stage' = [stage EXCEPT ![s] = "scanning"]
             /\ started' = [started EXCEPT ![s] = DOMAIN source]
             /\ UNCHANGED result
      BY <1>3 DEF Preload
    <3>2. stage \in [Segment -> {"idle", "loaded", "scanning", "flushing", "closing", "ended"}]
          /\ result \in [Segment -> {"", "ok", "failed", "died"}]
          /\ started \in [Segment -> SUBSET Pos] /\ DOMAIN source \in SUBSET Pos
      BY DEF TypeOK
    <3>3. QED
      BY <3>1, <3>2
  <2>3. QED
    BY <2>1, <2>2 DEF TypeOK
<1>4. ASSUME NEW s \in Segment, ReadPage(s) PROVE TypeOK'
  <2>1. UNCHANGED <<setup, source, stage, result, started, taken>>
    BY <1>4 DEF ReadPage, tables, history
  <2>2. cursor'[s] \in Nat /\ DOMAIN page'[s] \subseteq Of(s)
    BY <1>4, PageRead DEF Beyond
  <2>3. \E n \in 0..PageLimit :
          /\ page' = [page EXCEPT ![s] = [p \in FirstOf(Beyond(s), n) |-> source[p]]]
          /\ cursor' = [cursor EXCEPT ![s] = CursorAfter(s, n)]
          /\ UNCHANGED more \/ more' = [more EXCEPT ![s] = FALSE]
    BY <1>4 DEF ReadPage
  <2>4. cursor' \in [Segment -> Nat] /\ more' \in [Segment -> BOOLEAN] /\ DOMAIN page' = Segment
    BY <2>2, <2>3 DEF TypeOK
  <2>5. ASSUME NEW t \in Segment
        PROVE  IsPage(page'[t], t)
    <3>1. CASE t = s
      BY <2>2, <2>3, <3>1 DEF TypeOK, IsPage
    <3>2. CASE t # s
      <4>1. page'[t] = page[t]
        BY <2>3, <3>2 DEF TypeOK
      <4>2. QED
        BY <4>1 DEF TypeOK
    <3>3. QED
      BY <3>1, <3>2
  <2>6. QED
    BY <2>1, <2>4, <2>5 DEF TypeOK
<1>5. CASE Publish
  <2>1. UNCHANGED <<setup, stage, result, cursor, page, more, started, taken>>
    BY <1>5, PublishStep DEF scan
  <2>2. DOMAIN source' \subseteq Pos
    BY <1>5, PublishStep
  <2>3. QED
    BY <2>1, <2>2 DEF TypeOK
<1>6. CASE Rerun
  <2>1. Begins' /\ setup' \in Setups /\ DOMAIN source' \subseteq Pos
    BY <1>6, RerunStep DEF TypeOK
  <2>2. QED
    BY <2>1, NoPage DEF Begins, TypeOK, Each, Untaken
<1>7. CASE UNCHANGED vars
  <2>1. UNCHANGED <<setup, source, stage, result, cursor, page, more, started, taken>>
    BY <1>7 DEF vars, tables, scan, history
  <2>2. QED
    BY <2>1 DEF TypeOK
<1>8. QED
  BY <1>1, <1>2, <1>3, <1>4, <1>5, <1>6, <1>7, WorkerStep DEF Next, Finished

\* What directs a worker keeps its type, whatever the rows are.
THEOREM TypeCorrect == Spec => []TypeOK
<1>1. Init => TypeOK
  <2> SUFFICES ASSUME Init PROVE TypeOK
    OBVIOUS
  <2>1. Begins /\ setup \in Setups /\ DOMAIN source \subseteq Pos
    BY SegmentAssumption DEF Init, Begins
  <2>2. QED
    BY <2>1, NoPage DEF Begins, TypeOK, Each, Untaken
<1>2. QED
  BY <1>1, TypeNext, PTL DEF Spec

-----------------------------------------------------------------------------
(* The scan is exact *)

\* The scan has not begun before its stage, and the end is not told before it.
Early(s) ==
  /\ stage[s] \in Going \union {"idle"} => result[s] = ""
  /\ stage[s] \in {"idle", "loaded"} => cursor[s] = 0 /\ started[s] = {} /\ more[s]

\* What a worker holds it has passed and not taken.
Held(s) == \A p \in DOMAIN page[s] : p <= cursor[s] /\ taken[s][p] = 0

\* What it took it has passed, is its own and was taken once.
TakenOnce(s) ==
  \A p \in Pos : \/ taken[s][p] = 0
                 \/ taken[s][p] = 1 /\ SegmentOf[p] = s /\ p <= cursor[s]

\* What it has passed, of the rows it began with, it holds or took.
Passed(s) ==
  /\ started[s] \subseteq DOMAIN source
  /\ \A p \in started[s] \intersect Of(s) :
       /\ p <= cursor[s] => p \in DOMAIN page[s] \/ taken[s][p] = 1
       /\ ~ more[s] => p <= cursor[s]
       /\ result[s] = "ok" => taken[s][p] = 1

Position(s) == Early(s) /\ Held(s) /\ TakenOnce(s) /\ Passed(s)

\* A worker's position does not depend on the others.
LEMMA PositionKept ==
  ASSUME NEW s \in Segment, Position(s),
         stage'[s] = stage[s], result'[s] = result[s], cursor'[s] = cursor[s],
         page'[s] = page[s], more'[s] = more[s], started'[s] = started[s],
         taken'[s] = taken[s], DOMAIN source \subseteq DOMAIN source'
  PROVE  Position(s)'
BY DEF Position, Early, Held, TakenOnce, Passed, Of

\* A step around the rows keeps a worker's position,
LEMMA SitsPosition ==
  ASSUME TypeOK, NEW s \in Segment, Sits(s), Position(s)
  PROVE  Position(s)'
<1>1. UNCHANGED <<source, cursor, page, more, started, taken>>
  BY DEF Sits, scan
<1>2. PICK st, r : /\ MovesOn(s, st, r)
                   /\ r = "ok" => result[s] = "ok" \/ (page[s] = << >> /\ ~ more[s])
  BY DEF Sits
<1>3. stage'[s] = st /\ result'[s] = r
  BY <1>2 DEF MovesOn, TypeOK
<1>4. /\ st \in Going \union {"idle"} => r = ""
      /\ st \in {"idle", "loaded"} => stage[s] = "idle"
  BY <1>2 DEF MovesOn, Position, Early, Going
<1>5. ASSUME r = "ok", NEW p \in started[s] \intersect Of(s)
      PROVE  taken[s][p] = 1
  <2>1. page[s] = << >> => DOMAIN page[s] = {}
    OBVIOUS
  <2>2. QED
    BY <1>2, <1>5, <2>1 DEF Position, Passed
<1>6. QED
  BY <1>1, <1>3, <1>4, <1>5 DEF Position, Early, Held, TakenOnce, Passed, Of

\* so does the step that takes its next row,
LEMMA TakesPosition ==
  ASSUME TypeOK, NEW s \in Segment, Takes(s), Position(s)
  PROVE  Position(s)'
<1> DEFINE n == NextPos(s)
<1>1. UNCHANGED <<source, cursor, more, started>> /\ stage[s] = "scanning" /\ n \in DOMAIN page[s]
  BY DEF Takes
<1>2. PICK st : MovesOn(s, st, result[s]) \/ MovesOn(s, st, "failed")
  BY DEF Takes
<1>3. /\ stage'[s] = st /\ result'[s] # "ok"
      /\ st \in Going => result'[s] = ""
      /\ st \notin {"idle", "loaded"}
  BY <1>1, <1>2 DEF MovesOn, TypeOK, Position, Early, Going
<1>4. DOMAIN page'[s] = DOMAIN page[s] \ {n}
  BY DEF Takes, TypeOK, Restrict
<1>5. n \in Pos /\ SegmentOf[n] = s
  BY <1>1 DEF TypeOK, IsPage, Of
<1>6. \A p \in Pos : taken'[s][p] = IF p = n THEN taken[s][n] + 1 ELSE taken[s][p]
  BY <1>5 DEF Takes, TypeOK
<1>7. taken[s][n] = 0 /\ n <= cursor[s]
  BY <1>1 DEF Position, Held
<1>8. DOMAIN page[s] \subseteq Pos
  BY DEF TypeOK, IsPage, Of
<1> HIDE DEF n
<1>9. \A p \in DOMAIN page'[s] : p <= cursor'[s] /\ taken'[s][p] = 0
  BY <1>1, <1>4, <1>6, <1>8 DEF Position, Held
<1>10. \A p \in Pos : \/ taken'[s][p] = 0
                      \/ taken'[s][p] = 1 /\ SegmentOf[p] = s /\ p <= cursor'[s]
  <2> SUFFICES ASSUME NEW p \in Pos
               PROVE  \/ taken'[s][p] = 0
                      \/ taken'[s][p] = 1 /\ SegmentOf[p] = s /\ p <= cursor[s]
    BY <1>1
  <2>1. CASE p = n
    BY <1>5, <1>6, <1>7, <2>1
  <2>2. CASE p # n
    BY <1>6, <2>2 DEF Position, TakenOnce
  <2>3. QED
    BY <2>1, <2>2
<1>11. started'[s] \subseteq DOMAIN source'
  BY <1>1 DEF Position, Passed
<1>12. ASSUME NEW p \in started'[s] \intersect Of(s)
       PROVE  /\ p <= cursor'[s] => p \in DOMAIN page'[s] \/ taken'[s][p] = 1
              /\ ~ more'[s] => p <= cursor'[s]
  <2>1. p \in started[s] \intersect Of(s) /\ p \in Pos
    BY <1>1 DEF Of
  <2>2. /\ p <= cursor[s] => p \in DOMAIN page[s] \/ taken[s][p] = 1
        /\ ~ more[s] => p <= cursor[s]
    BY <2>1 DEF Position, Passed
  <2>3. taken'[s][p] = IF p = n THEN 1 ELSE taken[s][p]
    BY <1>6, <1>7, <2>1
  <2>4. QED
    BY <1>1, <1>4, <2>2, <2>3
<1>13. QED
  <2>1. Early(s)'
    BY <1>3 DEF Early, Going
  <2>2. Held(s)'
    BY <1>9 DEF Held
  <2>3. TakenOnce(s)'
    BY <1>10 DEF TakenOnce
  <2>4. Passed(s)'
    BY <1>3, <1>11, <1>12 DEF Passed, Of
  <2>5. QED
    BY <2>1, <2>2, <2>3, <2>4 DEF Position

\* the step that prepares the transfer,
LEMMA PreloadPosition ==
  ASSUME TypeOK, NEW s \in Segment, Preload(s), Position(s)
  PROVE  Position(s)'
<1>1. /\ UNCHANGED <<source, cursor, page, more, taken>> /\ stage[s] = "loaded"
      /\ \/ stage'[s] = "closing" /\ started'[s] = started[s]
         \/ stage'[s] = "scanning" /\ started'[s] = DOMAIN source /\ result'[s] = result[s]
  BY DEF Preload, TypeOK, tables, scan
<1>2. cursor[s] = 0 /\ started[s] = {} /\ more[s] /\ result[s] = ""
  BY <1>1 DEF Position, Early, Going
<1>3. \A p \in Of(s) : ~(p <= 0)
  BY SegmentAssumption DEF Of
<1>4. QED
  BY <1>1, <1>2, <1>3 DEF Position, Early, Held, TakenOnce, Passed, Of, Going

\* and the step that reads the next page.
LEMMA ReadPagePosition ==
  ASSUME TypeOK, NEW s \in Segment, ReadPage(s), Position(s)
  PROVE  Position(s)'
<1>1. UNCHANGED <<source, stage, result, started, taken>> /\ stage[s] = "scanning" /\ page[s] = << >>
  BY DEF ReadPage, tables, history
<1>2. /\ DOMAIN page'[s] \subseteq Beyond(s)
      /\ cursor'[s] \in Nat /\ cursor[s] <= cursor'[s]
      /\ \A p \in Beyond(s) : p <= cursor'[s] <=> p \in DOMAIN page'[s]
      /\ ~ more'[s] => \A p \in Beyond(s) : p <= cursor'[s]
  BY PageRead
<1>3. \A p \in Pos : p \in Nat
  BY SegmentAssumption
<1>4. cursor[s] \in Nat /\ DOMAIN page[s] = {}
  <2>1. cursor[s] \in Nat
    BY DEF TypeOK
  <2>2. DOMAIN << >> = {}
    OBVIOUS
  <2>3. QED
    BY <1>1, <2>1, <2>2
<1>5. \A p \in Beyond(s) : p \in Pos /\ p \in Of(s) /\ p > cursor[s]
  BY DEF Beyond, Of
<1>6. \A p \in Beyond(s) : taken[s][p] = 0
  <2> SUFFICES ASSUME NEW p \in Beyond(s)
               PROVE  taken[s][p] = 0
    OBVIOUS
  <2>1. p \in Pos /\ p \in Nat /\ ~(p <= cursor[s])
    BY <1>3, <1>4, <1>5
  <2>2. taken[s][p] = 0 \/ p <= cursor[s]
    BY <2>1 DEF Position, TakenOnce
  <2>3. QED
    BY <2>1, <2>2
<1>7. \A p \in started[s] \intersect Of(s) : p <= cursor[s] \/ p \in Beyond(s)
  BY <1>3, <1>4 DEF Position, Passed, Beyond, Of
<1>8. result[s] = ""
  BY <1>1 DEF Position, Early, Going
<1>9. \A p \in DOMAIN page'[s] : p <= cursor'[s] /\ taken'[s][p] = 0
  BY <1>1, <1>2, <1>6
<1>10. \A p \in Pos : \/ taken'[s][p] = 0
                      \/ taken'[s][p] = 1 /\ SegmentOf[p] = s /\ p <= cursor'[s]
  <2> SUFFICES ASSUME NEW p \in Pos, taken[s][p] # 0
               PROVE  taken[s][p] = 1 /\ SegmentOf[p] = s /\ p <= cursor'[s]
    BY <1>1
  <2>1. taken[s][p] = 1 /\ SegmentOf[p] = s /\ p <= cursor[s]
    BY DEF Position, TakenOnce
  <2>2. p \in Nat
    BY <1>3
  <2>3. QED
    BY <1>2, <1>4, <2>1, <2>2
<1>11. started'[s] \subseteq DOMAIN source'
  BY <1>1 DEF Position, Passed
<1>12. ASSUME NEW p \in started'[s] \intersect Of(s)
       PROVE  /\ p <= cursor'[s] => p \in DOMAIN page'[s] \/ taken'[s][p] = 1
              /\ ~ more'[s] => p <= cursor'[s]
  <2>1. p \in started[s] \intersect Of(s) /\ p \in Nat
    BY <1>1, <1>3 DEF Of
  <2>2. CASE p <= cursor[s]
    <3>1. taken[s][p] = 1
      BY <1>4, <2>1, <2>2 DEF Position, Passed
    <3>2. p <= cursor'[s]
      BY <1>2, <1>4, <2>1, <2>2
    <3>3. QED
      BY <1>1, <3>1, <3>2
  <2>3. CASE p \in Beyond(s)
    BY <1>2, <2>3
  <2>4. QED
    BY <1>7, <2>1, <2>2, <2>3
<1>13. QED
  <2>1. Early(s)'
    BY <1>1, <1>8 DEF Early
  <2>2. Held(s)'
    BY <1>9 DEF Held
  <2>3. TakenOnce(s)'
    BY <1>10 DEF TakenOnce
  <2>4. Passed(s)'
    BY <1>1, <1>8, <1>11, <1>12 DEF Passed, Of
  <2>5. QED
    BY <2>1, <2>2, <2>3, <2>4 DEF Position

\* What a step of a worker leaves alone of the others.
LEMMA OthersKept ==
  ASSUME TypeOK, NEW s \in Segment, Work(s) \/ Die(s), NEW t \in Segment, t # s
  PROVE  /\ stage'[t] = stage[t] /\ result'[t] = result[t] /\ cursor'[t] = cursor[t]
         /\ page'[t] = page[t] /\ more'[t] = more[t] /\ started'[t] = started[t]
         /\ taken'[t] = taken[t] /\ source' = source
<1>1. CASE Sits(s)
  BY <1>1 DEF Sits, MovesOn, scan, TypeOK
<1>2. CASE Takes(s)
  BY <1>2 DEF Takes, MovesOn, TypeOK
<1>3. CASE Preload(s)
  BY <1>3 DEF Preload, tables, scan, TypeOK
<1>4. CASE ReadPage(s)
  BY <1>4 DEF ReadPage, tables, history, TypeOK
<1>5. QED
  BY <1>1, <1>2, <1>3, <1>4, WorkerStep

\* Every step keeps the position of every worker.
LEMMA PositionNext == TypeOK /\ (\A s \in Segment : Position(s)) /\ [Next]_vars
                        => (\A s \in Segment : Position(s))'
<1> SUFFICES ASSUME TypeOK, \A s \in Segment : Position(s), [Next]_vars,
                    NEW t \in Segment
             PROVE  Position(t)'
  OBVIOUS
<1>1. ASSUME NEW s \in Segment, Work(s) \/ Die(s) PROVE Position(t)'
  <2>1. CASE t = s
    BY <1>1, <2>1, WorkerStep, SitsPosition, TakesPosition, PreloadPosition, ReadPagePosition
  <2>2. CASE t # s
    BY <1>1, <2>2, OthersKept, PositionKept
  <2>3. QED
    BY <2>1, <2>2
<1>2. CASE Publish
  BY <1>2, PublishStep, PositionKept DEF scan
<1>3. CASE Rerun
  <2>1. Begins'
    BY <1>3, RerunStep
  <2>2. /\ stage'[t] = "idle" /\ result'[t] = "" /\ cursor'[t] = 0 /\ page'[t] = << >>
        /\ more'[t] = TRUE /\ started'[t] = {} /\ taken'[t] = Untaken
    BY <2>1 DEF Begins, Each
  <2>3. DOMAIN << >> = {} /\ \A p \in Pos : Untaken[p] = 0
    BY DEF Untaken
  <2>4. QED
    <3>1. Early(t)'
      BY <2>2 DEF Early
    <3>2. Held(t)'
      BY <2>2, <2>3 DEF Held
    <3>3. TakenOnce(t)'
      BY <2>2, <2>3 DEF TakenOnce
    <3>4. Passed(t)'
      BY <2>2 DEF Passed
    <3>5. QED
      BY <3>1, <3>2, <3>3, <3>4 DEF Position
<1>4. CASE UNCHANGED vars
  BY <1>4, PositionKept DEF vars, tables, scan, history
<1>5. QED
  BY <1>1, <1>2, <1>3, <1>4 DEF Next, Finished

\* The position of each worker is always right.
LEMMA PositionAlways == Spec => [](\A s \in Segment : Position(s))
<1>1. Init => \A s \in Segment : Position(s)
  <2> SUFFICES ASSUME Init, NEW s \in Segment
               PROVE  Position(s)
    OBVIOUS
  <2>1. /\ stage[s] = "idle" /\ result[s] = "" /\ cursor[s] = 0 /\ page[s] = << >>
        /\ more[s] = TRUE /\ started[s] = {} /\ taken[s] = Untaken
    BY DEF Init, Each
  <2>2. DOMAIN << >> = {} /\ \A p \in Pos : Untaken[p] = 0
    BY DEF Untaken
  <2>3. Early(s) /\ Passed(s)
    BY <2>1 DEF Early, Passed
  <2>4. Held(s)
    BY <2>1, <2>2 DEF Held
  <2>5. TakenOnce(s)
    BY <2>1, <2>2 DEF TakenOnce
  <2>6. QED
    BY <2>3, <2>4, <2>5 DEF Position
<1>2. QED
  BY <1>1, TypeCorrect, PositionNext, PTL DEF Spec

\* However the table is cut into pages and whatever the editor publishes in the
\* meantime, a worker that succeeds has taken each row it began with exactly once, and
\* no row of another segment.
THEOREM ScansAreExact == Spec => []ScanIsExact
<1>1. (\A s \in Segment : Position(s)) => ScanIsExact
  <2> SUFFICES ASSUME NEW s \in Segment, Position(s)
               PROVE  /\ \A p \in Pos : taken[s][p] <= 1 /\ (taken[s][p] = 1 => SegmentOf[p] = s)
                      /\ result[s] = "ok" => \A p \in started[s] \intersect Of(s) : taken[s][p] = 1
    BY DEF ScanIsExact
  <2>1. \A p \in Pos : taken[s][p] = 0 \/ (taken[s][p] = 1 /\ SegmentOf[p] = s)
    BY DEF Position, TakenOnce
  <2>2. result[s] = "ok" => \A p \in started[s] \intersect Of(s) : taken[s][p] = 1
    BY DEF Position, Passed
  <2>3. QED
    BY <2>1, <2>2
<1>2. QED
  BY <1>1, PositionAlways, PTL

-----------------------------------------------------------------------------
(* Snapshots *)

\* What the snapshot must say of a logged row, among these lines.
Tells(p, disposition, lines) ==
  /\ IF disposition = "unmatched" THEN <<"dropped", p>> \in lines ELSE <<"source", p>> \in lines
  /\ disposition \in {"transferred", "blackholed"} => <<"post-transform", p>> \in lines

\* What is in open streams and files tells the log, and no stream is open before the
\* first row and after the last.
Told(s) ==
  /\ setup.config.snapshot /\ result[s] # "died" =>
       \A p \in DOMAIN log[s] : Tells(p, log[s][p].disposition, open[s] \union files[s])
  /\ stage[s] \in {"idle", "ended"} => open[s] = {}

Snapshots ==
  /\ DOMAIN open = Segment /\ DOMAIN files = Segment /\ DOMAIN log = Segment
  /\ \A s \in Segment : Told(s)

\* A row that comes to something is logged and written.
Logs(s) ==
  /\ stage[s] = "scanning" /\ stage'[s] \in {"scanning", "flushing", "closing"}
  /\ \E p, entry, lines :
       /\ log' = [log EXCEPT ![s] = Over([q \in {p} |-> entry], @)]
       /\ open' = [open EXCEPT ![s] = IF setup.config.snapshot THEN @ \union lines ELSE @]
       /\ UNCHANGED <<setup, files>>
       /\ Tells(p, entry.disposition, lines)

\* A step that takes a row writes that row's lines into its log.
LEMMA RowStep ==
  ASSUME TypeOK, NEW s \in Segment,
         DropRow(s) \/ (\E reads \in BOOLEAN : ConvertRow(s, reads)) \/ RowThrows(s)
  PROVE  Logs(s)
<1>0. stage \in [Segment -> {"idle", "loaded", "scanning", "flushing", "closing", "ended"}]
  BY DEF TypeOK
<1> DEFINE p == NextPos(s)
           row == Scanned(Scanner(s), page[s][p])
<1>1. CASE DropRow(s)
  <2> DEFINE entry == [row |-> row, pipeline |-> "none", disposition |-> "unmatched", out |-> row]
             lines == {<<"dropped", p>>}
  <2>1. /\ log' = [log EXCEPT ![s] = Over([q \in {p} |-> entry], @)]
        /\ open' = [open EXCEPT ![s] = IF setup.config.snapshot THEN @ \union lines ELSE @]
        /\ UNCHANGED <<setup, files>>
    BY <1>1 DEF DropRow, Record, Write
  <2>3. stage[s] = "scanning" /\ stage'[s] \in {"scanning", "flushing", "closing"}
    BY <1>0, <1>1 DEF DropRow, Counted
  <2>2. Tells(p, entry.disposition, lines)
    BY DEF Tells
  <2> HIDE DEF entry, lines, p
  <2>4. QED
    BY <2>1, <2>2, <2>3 DEF Logs
<1>2. ASSUME NEW reads \in BOOLEAN, ConvertRow(s, reads)
      PROVE  Logs(s)
  <2> DEFINE pipeline == pipelines[s][Claim(pipelines[s], row)]
             ctx == Converted(pipeline, row, Env(s, p, reads), cache[s], warned[s], setup.config)
             disposition == IF pipeline.blackhole THEN "blackholed" ELSE "transferred"
             entry == [row |-> row, pipeline |-> pipeline.name,
                       disposition |-> disposition, out |-> ctx.record]
             lines == {<<"source", p>>, <<"post-transform", p>>}
                        \union (IF ctx.commands = NoCommands THEN {} ELSE {<<"commands", p>>})
  <2>1. /\ log' = [log EXCEPT ![s] = Over([q \in {p} |-> entry], @)]
        /\ open' = [open EXCEPT ![s] = IF setup.config.snapshot THEN @ \union lines ELSE @]
        /\ UNCHANGED <<setup, files>>
    BY <1>2 DEF ConvertRow, Record, Write
  <2>3. stage[s] = "scanning" /\ stage'[s] \in {"scanning", "flushing", "closing"}
    BY <1>0, <1>2 DEF ConvertRow, Counted
  <2>2. entry.disposition # "unmatched" /\ <<"source", p>> \in lines /\ <<"post-transform", p>> \in lines
    OBVIOUS
  <2> HIDE DEF entry, lines, p
  <2>4. QED
    BY <2>1, <2>2, <2>3 DEF Logs, Tells
<1>3. CASE RowThrows(s)
  <2> DEFINE pipeline == pipelines[s][Claim(pipelines[s], row)]
             entry == [row |-> row, pipeline |-> pipeline.name, disposition |-> "threw", out |-> row]
             lines == {<<"source", p>>}
  <2>1. /\ log' = [log EXCEPT ![s] = Over([q \in {p} |-> entry], @)]
        /\ open' = [open EXCEPT ![s] = IF setup.config.snapshot THEN @ \union lines ELSE @]
        /\ UNCHANGED <<setup, files>>
    BY <1>3 DEF RowThrows, Record, Write
  <2>3. stage[s] = "scanning" /\ stage'[s] \in {"scanning", "flushing", "closing"}
    BY <1>0, <1>3 DEF RowThrows
  <2>2. Tells(p, entry.disposition, lines)
    BY DEF Tells
  <2> HIDE DEF entry, lines, p
  <2>4. QED
    BY <2>1, <2>2, <2>3 DEF Logs
<1>4. QED
  BY <1>1, <1>2, <1>3

\* The other steps leave the snapshots alone, but for the two that end with them.
Unlogged(s) ==
  /\ UNCHANGED <<setup, open, files, log>>
  /\ stage[s] \in Going \union {"idle"} /\ stage'[s] # "idle"
  /\ stage'[s] = "ended" => stage[s] = "idle"

\* Closing them puts them into the file; a worker that dies leaves any part of them there.
CloseStep(s) ==
  /\ UNCHANGED <<setup, log>>
  /\ open' = [open EXCEPT ![s] = {}]
  /\ \/ files' = [files EXCEPT ![s] = @ \union open[s]] /\ UNCHANGED result
     \/ result'[s] = "died" /\ (\E f : files' = [files EXCEPT ![s] = f])

\* Every step of a worker logs a row, logs nothing, or closes the snapshots.
LEMMA SnapshotStep ==
  ASSUME TypeOK, NEW s \in Segment, Work(s) \/ Die(s)
  PROVE  Logs(s) \/ Unlogged(s) \/ CloseStep(s)
<1> USE DEF tables, setting, memory, scan, flush, snapshots, history, Unlogged, Going
<1>0. /\ stage \in [Segment -> {"idle", "loaded", "scanning", "flushing", "closing", "ended"}]
      /\ result \in [Segment -> {"", "ok", "failed", "died"}]
  BY DEF TypeOK
<1>1. CASE LoadPreset(s)
  BY <1>0, <1>1 DEF LoadPreset
<1>2. CASE Preload(s)
  BY <1>0, <1>2 DEF Preload
<1>3. CASE ReadPage(s)
  BY <1>0, <1>3 DEF ReadPage
<1>4. CASE ScanFails(s)
  BY <1>0, <1>4 DEF ScanFails
<1>5. CASE SkipRow(s)
  BY <1>0, <1>5 DEF SkipRow
<1>6. CASE Execute(s)
  BY <1>0, <1>6 DEF Execute
<1>7. CASE ExecuteFails(s)
  BY <1>0, <1>7 DEF ExecuteFails
<1>8. CASE FlushDone(s)
  BY <1>0, <1>8 DEF FlushDone
<1>9. CASE EndScan(s)
  BY <1>0, <1>9 DEF EndScan
<1>10. CASE Close(s)
  BY <1>10 DEF Close, Closed, CloseStep
<1>11. CASE Die(s)
  BY <1>0, <1>11 DEF Die, CloseStep
<1>12. QED
  BY <1>1, <1>2, <1>3, <1>4, <1>5, <1>6, <1>7, <1>8, <1>9, <1>10, <1>11, RowStep DEF Work

\* A row that has just been logged is told in the snapshots,
LEMMA LogsTold ==
  ASSUME TypeOK, Snapshots, NEW s \in Segment, Position(s), Logs(s)
  PROVE  Told(s)'
<1>1. PICK p, entry, lines :
        /\ log' = [log EXCEPT ![s] = Over([q \in {p} |-> entry], @)]
        /\ open' = [open EXCEPT ![s] = IF setup.config.snapshot THEN @ \union lines ELSE @]
        /\ UNCHANGED <<setup, files>>
        /\ Tells(p, entry.disposition, lines)
  BY DEF Logs
<1>2. stage[s] = "scanning" /\ stage'[s] \notin {"idle", "ended"} /\ result[s] = ""
  BY DEF Logs, Position, Early, Going
<1>3. /\ DOMAIN log'[s] = DOMAIN log[s] \union {p}
      /\ \A q \in DOMAIN log'[s] : log'[s][q] = IF q = p THEN entry ELSE log[s][q]
  <2>1. log'[s] = Over([q \in {p} |-> entry], log[s])
    BY <1>1 DEF Snapshots
  <2>2. QED
    BY <2>1 DEF Over
<1>4. ASSUME setup.config.snapshot, NEW q \in DOMAIN log'[s]
      PROVE  Tells(q, log'[s][q].disposition, open'[s] \union files'[s])
  <2>1. open'[s] = open[s] \union lines /\ files'[s] = files[s]
    BY <1>1, <1>4 DEF Snapshots
  <2>2. CASE q = p
    BY <1>1, <1>3, <2>1, <2>2 DEF Tells
  <2>3. CASE q # p
    <3>1. q \in DOMAIN log[s] /\ log'[s][q] = log[s][q]
      BY <1>3, <2>3
    <3>2. Tells(q, log[s][q].disposition, open[s] \union files[s])
      BY <1>2, <1>4, <3>1 DEF Snapshots, Told
    <3>3. QED
      BY <2>1, <3>1, <3>2 DEF Tells
  <2>4. QED
    BY <2>2, <2>3
<1>5. setup' = setup
  BY <1>1
<1>6. QED
  BY <1>2, <1>4, <1>5 DEF Told

\* a step that logs nothing leaves what the snapshots tell,
LEMMA UnloggedTold ==
  ASSUME Snapshots, NEW s \in Segment, Position(s), Unlogged(s)
  PROVE  Told(s)'
<1>1. result[s] = ""
  BY DEF Unlogged, Position, Early
<1>2. Told(s) /\ UNCHANGED <<setup, open, files, log>>
  BY DEF Snapshots, Unlogged
<1>3. QED
  BY <1>1, <1>2 DEF Told, Unlogged

\* and closing them loses nothing that they were to tell.
LEMMA EndsTold ==
  ASSUME Snapshots, NEW s \in Segment, CloseStep(s)
  PROVE  Told(s)'
<1>1. open'[s] = {} /\ UNCHANGED <<setup, log>> /\ Told(s)
  BY DEF CloseStep, Snapshots
<1>2. CASE files' = [files EXCEPT ![s] = @ \union open[s]] /\ UNCHANGED result
  <2>1. open'[s] \union files'[s] = open[s] \union files[s]
    BY <1>1, <1>2 DEF Snapshots
  <2>2. QED
    BY <1>1, <1>2, <2>1 DEF Told
<1>3. CASE result'[s] = "died"
  BY <1>1, <1>3 DEF Told
<1>4. QED
  BY <1>2, <1>3 DEF CloseStep

\* Every step keeps the snapshots true to the logs.
LEMMA SnapshotsNext ==
  TypeOK /\ (\A s \in Segment : Position(s)) /\ Snapshots /\ [Next]_vars => Snapshots'
<1> SUFFICES ASSUME TypeOK, \A s \in Segment : Position(s), Snapshots, [Next]_vars
             PROVE  Snapshots'
  OBVIOUS
<1>1. ASSUME NEW s \in Segment, Work(s) \/ Die(s) PROVE Snapshots'
  <2>1. Logs(s) \/ Unlogged(s) \/ CloseStep(s)
    BY <1>1, SnapshotStep
  <2>2. /\ DOMAIN open' = Segment /\ DOMAIN files' = Segment /\ DOMAIN log' = Segment
        /\ setup' = setup
        /\ \A t \in Segment \ {s} : open'[t] = open[t] /\ files'[t] = files[t] /\ log'[t] = log[t]
    BY <2>1 DEF Logs, Unlogged, CloseStep, Snapshots
  <2>3. Told(s)'
    BY <2>1, LogsTold, UnloggedTold, EndsTold
  <2>4. ASSUME NEW t \in Segment, t # s PROVE Told(t)'
    <3>1. /\ open'[t] = open[t] /\ files'[t] = files[t] /\ log'[t] = log[t]
          /\ stage'[t] = stage[t] /\ result'[t] = result[t] /\ setup' = setup /\ Told(t)
      BY <1>1, <2>2, <2>4, OthersKept DEF Snapshots
    <3>2. QED
      BY <3>1 DEF Told
  <2>5. QED
    BY <2>2, <2>3, <2>4 DEF Snapshots
<1>2. CASE Publish
  <2>1. UNCHANGED <<setup, open, files, log, stage, result>>
    BY <1>2 DEF Publish, snapshots, history
  <2>2. QED
    BY <2>1 DEF Snapshots, Told
<1>3. CASE Rerun
  <2>1. open' = Each({}) /\ files' = Each({}) /\ log' = Each(<< >>)
    BY <1>3 DEF Rerun
  <2>2. DOMAIN << >> = {}
    OBVIOUS
  <2>3. QED
    BY <2>1, <2>2 DEF Each, Snapshots, Told
<1>4. CASE UNCHANGED vars
  BY <1>4 DEF vars, snapshots, history, Snapshots, Told
<1>5. QED
  BY <1>1, <1>2, <1>3, <1>4 DEF Next, Finished

\* A worker that was not killed, whether it succeeded, failed or threw, leaves the snapshot
\* of each row it took up, and of each it converted what it became.
THEOREM SnapshotsTell == Spec => []SnapshotTellsTheRun
<1>1. Init => Snapshots
  <2> SUFFICES ASSUME Init PROVE Snapshots
    OBVIOUS
  <2>1. open = Each({}) /\ files = Each({}) /\ log = Each(<< >>)
    BY DEF Init
  <2>2. DOMAIN << >> = {}
    OBVIOUS
  <2>3. QED
    BY <2>1, <2>2 DEF Each, Snapshots, Told
<1>2. Snapshots => SnapshotTellsTheRun
  BY DEF Snapshots, Told, Tells, SnapshotTellsTheRun
<1>3. QED
  BY <1>1, <1>2, TypeCorrect, PositionAlways, SnapshotsNext, PTL DEF Spec
====

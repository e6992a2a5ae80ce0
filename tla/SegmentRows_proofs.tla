-------------------------- MODULE SegmentRows_proofs --------------------------
(***************************************************************************)
(* Proofs about the rows of Segment, for every table, setup, preset and    *)
(* number of workers: SiblingsAgree, EveryRowArrives, ConvertedOrWarned,   *)
(* KeysStayApart and MetadataHasItsObject.                                 *)
(*                                                                         *)
(* The first two follow from one inductive invariant, Rows: what the cache *)
(* has is what the transferred records say (Cached); what is to be put are *)
(* records of this run (Puts); a transferred row has landed in the target  *)
(* or its put waits, in commands of which no processor that claims it has  *)
(* had its turn (Delivers).  That a row is logged once is ScanIsExact's    *)
(* invariant, Position, again.  Entries and Places, which the next two     *)
(* follow from, say of each row that was logged what has become of it;     *)
(* Files, for the last, relates a file to its metadata and its object,     *)
(* which two processors of a flush deliver one after the other.            *)
(*                                                                         *)
(* Each step of a worker is one of four kinds for that: it logs a row      *)
(* (Converts), executes a processor's commands (Executes), ends a flush    *)
(* (Finishes) or does none of it (Rests).                                  *)
(***************************************************************************)
EXTENDS Segment_proofs, Conversion_proofs

-----------------------------------------------------------------------------
(* What a worker has of its rows *)

\* Its pipelines are those of its setup.
Ready(s) == Assembles(setup) /\ pipelines[s] = Assembled(setup)

\* The parts of its state that hold data have their shape, and the rows it can come
\* to see are rows as v5 writes them.
Shape(s) ==
  /\ IsCommands(buffer[s]) /\ at[s] \in Nat \ {0}
  /\ stage[s] \in {"idle", "loaded", "scanning"} => at[s] = 1
  /\ stage[s] \in Going => Ready(s)
  /\ \A p \in DOMAIN page[s] : IsV5Row(page[s][p])

\* What it has logged it has taken.
Logged(s) ==
  /\ stage[s] \in {"idle", "loaded"} => DOMAIN log[s] = {}
  /\ \A p \in DOMAIN log[s] : p \in Pos /\ taken[s][p] # 0

Shapes ==
  /\ \A p \in DOMAIN source : IsV5Row(source[p])
  /\ DOMAIN pipelines = Segment /\ DOMAIN cache = Segment
  /\ buffer = [s \in Segment |-> buffer[s]]
  /\ DOMAIN at = Segment /\ DOMAIN log = Segment
  /\ \A s \in Segment : Shape(s) /\ Logged(s)

\* The live field of a record is what the cache has for its entry.
Cached(s) ==
  \A p \in Transferred(s) :
    LET entry == log[s][p] IN
    "live" \in Attrs(entry.out) =>
      entry.row.pk \in DOMAIN cache[s] /\ cache[s][entry.row.pk] = entry.out.attrs.live

\* The records to be put are those of rows of this run.
IsOf(s, r) == IsMetadata(r) \/ \E q \in Transferred(s) : r = log[s][q].out

PutKeys == {"PUT_RECORD", "AUDIT_LOG_PUT_RECORD"}

Puts(s) ==
  /\ \A p \in Transferred(s) : IsRecord(log[s][p].out)
  /\ \A key \in PutKeys : \A put \in ToSet(buffer[s][key]) : IsOf(s, put.record)

\* A row is in the target, or its put waits for a processor that has still its turn.
Landed(s, p, x) ==
  LET key == TargetKey(TableOf(x), log[s][p].out)
  IN key \in DOMAIN target /\ FromThisRun(key, target[key])

Turn(s, x) == \E i \in DOMAIN Order(s) : at[s] <= i /\ Order(s)[i] = x

Waits(s, p, x) ==
  /\ stage[s] \in {"scanning", "flushing"}
  /\ [record |-> log[s][p].out] \in ToSet(buffer[s][Claimed(x)])
  /\ Turn(s, x)

Delivers(s) ==
  result[s] \notin {"failed", "died"} =>
    \A p \in Transferred(s) : \A x \in Putters(s, p) : Landed(s, p, x) \/ Waits(s, p, x)

Rows == Shapes /\ \A s \in Segment : Cached(s) /\ Puts(s) /\ Delivers(s)

-----------------------------------------------------------------------------
(* Steps *)

\* A row is logged, converted or not.
Converting(s, p, entry, commands) ==
  /\ p \in DOMAIN page[s] /\ taken'[s][p] # 0
  /\ log' = [log EXCEPT ![s] = Over([q \in {p} |-> entry], @)]
  /\ UNCHANGED <<setup, pipelines, at, target, source>>
  /\ stage[s] = "scanning"
  /\ \/ stage'[s] \in {"scanning", "flushing"} /\ result'[s] = result[s]
     \/ stage'[s] = "closing" /\ result'[s] = "failed"
  /\ \A t \in Segment \ {s} : cache'[t] = cache[t]
  /\ DOMAIN cache' = Segment /\ Agrees(cache[s], cache'[s])
  /\ entry.disposition # "transferred" => UNCHANGED buffer
  /\ entry.disposition = "transferred" =>
       /\ IsRecord(entry.out) /\ IsCommands(commands)
       /\ buffer' = [buffer EXCEPT ![s] = Folded(@, commands)]
       /\ "live" \in Attrs(entry.out) =>
            entry.row.pk \in DOMAIN cache'[s] /\ cache'[s][entry.row.pk] = entry.out.attrs.live
       /\ \A key \in PutKeys : \A put \in ToSet(commands[key]) :
            put.record = entry.out \/ IsMetadata(put.record)
       /\ \A n \in DOMAIN pipelines[s] : pipelines[s][n].name = entry.pipeline =>
            \A x \in ToSet(pipelines[s][n].processors) :
              PutsRecord(x, entry.out, setup.config) =>
                [record |-> entry.out] \in ToSet(commands[Claimed(x)])

Converts(s) == \E p, entry, commands : Converting(s, p, entry, commands)

\* What a run is given is what the lemmas about pipelines ask for.
LEMMA SetupGives ==
  ASSUME setup \in Setups
  PROVE  GivesPipelines(setup)
BY SetupAssumption DEF GivesPipelines

\* The first of the pipelines that accept a row is one of them.
LEMMA ClaimIs ==
  ASSUME NEW ps, IsPipelines(ps), NEW r, Claim(ps, r) # 0
  PROVE  Claim(ps, r) \in DOMAIN ps
<1>1. PICK n \in Nat : DOMAIN ps = 1..n
  BY DEF IsPipelines
<1>2. /\ Claims(ps, r) \subseteq 1..n /\ Claims(ps, r) # {}
      /\ Claim(ps, r) = CHOOSE m \in Claims(ps, r) : \A k \in Claims(ps, r) : m <= k
  BY <1>1 DEF Claim, Claims
<1>3. IsFiniteSet(Claims(ps, r))
  <2>1. IsFiniteSet(1..n)
    BY FS_Interval
  <2> QED
    BY <1>2, <2>1, FS_Subset
<1>4. \A m \in Claims(ps, r) : m \in Nat
  BY <1>2
<1>5. \E m \in Claims(ps, r) : \A k \in Claims(ps, r) : m <= k
  <2> DEFINE R == Claims(ps, r)
  <2>1. (\A m \in R : m \in Nat) /\ IsFiniteSet(R) /\ R # {}
    BY <1>2, <1>3, <1>4
  <2> HIDE DEF R
  <2>2. \E m \in R : \A k \in R : m <= k
    BY <2>1, FirstExists
  <2> QED
    BY <2>2 DEF R
<1>6. Claim(ps, r) \in Claims(ps, r)
  BY <1>2, <1>5
<1> QED
  BY <1>1, <1>2, <1>6

\* Decompression changes neither the key of a row nor its envelope, nor adds to it.
LEMMA ScannedRow ==
  ASSUME NEW scanner, NEW r, IsV5Row(r)
  PROVE  /\ IsV5Row(Scanned(scanner, r)) /\ Scanned(scanner, r).pk = r.pk
         /\ Scanned(scanner, r).in = r.in
<1> DEFINE a == [r EXCEPT !.zip = "none"]
           b == [a EXCEPT !.attrs = NoAttrs]
           R(attrs, zip) == [pk |-> r.pk, sk |-> r.sk, type |-> r.type, gsi1 |-> r.gsi1,
                             gsiTenant |-> r.gsiTenant, in |-> r.in, attrs |-> attrs,
                             index |-> r.index, zip |-> zip]
<1>1. r = R(r.attrs, r.zip)
  BY DEF IsV5Row, IsRecord
<1>2. a = R(r.attrs, "none")
  BY <1>1
<1>3. b = R(NoAttrs, "none")
  <2> HIDE DEF a
  <2> QED
    BY <1>2
<1>4. Scanned(scanner, r) \in {r, a, b}
  BY DEF Scanned, Unpacked
<1>5. DOMAIN NoAttrs = {}
  BY DEF NoAttrs
<1> HIDE DEF a, b
<1> QED
  BY <1>1, <1>2, <1>3, <1>4, <1>5 DEF IsV5Row, IsRecord, Attrs

\* The next row is one of the page.
LEMMA NextPosHeld ==
  ASSUME TypeOK, NEW s \in Segment, page[s] # << >>
  PROVE  NextPos(s) \in DOMAIN page[s]
BY NextPosExists

\* A row that is dropped, converted or thrown over is logged, and what a converted one
\* puts is folded into the commands.
LEMMA ConvertsRow ==
  ASSUME TypeOK, Rows, NEW s \in Segment,
         DropRow(s) \/ (\E reads \in BOOLEAN : ConvertRow(s, reads)) \/ RowThrows(s)
  PROVE  Converts(s)
<1> DEFINE p == NextPos(s)
           row == Scanned(Scanner(s), page[s][p])
<1>0. /\ stage \in [Segment -> {"idle", "loaded", "scanning", "flushing", "closing", "ended"}]
      /\ result \in [Segment -> {"", "ok", "failed", "died"}]
      /\ taken \in [Segment -> [Pos -> Nat]] /\ DOMAIN cache = Segment
  BY DEF TypeOK, Rows, Shapes
<1>1. stage[s] = "scanning" /\ page[s] # << >> /\ Take(s, p)
  BY DEF DropRow, ConvertRow, RowThrows
<1>2. p \in DOMAIN page[s] /\ p \in Pos
  BY <1>1, NextPosHeld DEF TypeOK, IsPage, Of
<1>3. taken'[s][p] # 0
  <2>1. taken'[s] = [taken[s] EXCEPT ![p] = @ + 1] /\ taken[s] \in [Pos -> Nat]
    BY <1>0, <1>1 DEF Take
  <2> HIDE DEF p
  <2> QED
    BY <1>2, <2>1
<1>4. IsV5Row(row)
  BY <1>2, ScannedRow DEF Rows, Shapes, Shape
<1> HIDE DEF p
<1>5. CASE DropRow(s)
  <2> DEFINE entry == [row |-> row, pipeline |-> "none", disposition |-> "unmatched", out |-> row]
  <2>1. log' = [log EXCEPT ![s] = Over([q \in {p} |-> entry], @)]
    BY <1>5 DEF DropRow, Record, p
  <2>2. UNCHANGED <<setup, pipelines, at, target, source, cache, buffer, result>>
    BY <1>5 DEF DropRow, tables, setting, memory
  <2>3. stage'[s] \in {"scanning", "flushing"}
    BY <1>0, <1>1, <1>5 DEF DropRow, Counted
  <2>4. Agrees(cache[s], cache'[s])
    BY <2>2 DEF Agrees
  <2>5. entry.disposition # "transferred"
    OBVIOUS
  <2> HIDE DEF entry
  <2> QED
    BY <1>0, <1>1, <1>2, <1>3, <2>1, <2>2, <2>3, <2>4, <2>5 DEF Converts, Converting
<1>6. CASE RowThrows(s)
  <2> DEFINE pipeline == pipelines[s][Claim(pipelines[s], row)]
             entry == [row |-> row, pipeline |-> pipeline.name, disposition |-> "threw", out |-> row]
  <2>1. log' = [log EXCEPT ![s] = Over([q \in {p} |-> entry], @)]
    BY <1>6 DEF RowThrows, Record, p
  <2>2. UNCHANGED <<setup, pipelines, at, target, source, cache, buffer>>
    BY <1>6 DEF RowThrows, tables, setting, memory, flush
  <2>3. stage'[s] = "closing" /\ result'[s] = "failed"
    BY <1>0, <1>6 DEF RowThrows
  <2>4. Agrees(cache[s], cache'[s])
    BY <2>2 DEF Agrees
  <2>5. entry.disposition # "transferred"
    OBVIOUS
  <2> HIDE DEF entry
  <2> QED
    BY <1>0, <1>1, <1>2, <1>3, <2>1, <2>2, <2>3, <2>4, <2>5 DEF Converts, Converting
<1>7. ASSUME NEW reads \in BOOLEAN, ConvertRow(s, reads)
      PROVE  Converts(s)
  <2> DEFINE n == Claim(pipelines[s], row)
             pipeline == pipelines[s][n]
             env == Env(s, p, reads)
             ctx == Converted(pipeline, row, env, cache[s], warned[s], setup.config)
             entry == [row |-> row, pipeline |-> pipeline.name,
                       disposition |-> IF pipeline.blackhole THEN "blackholed" ELSE "transferred",
                       out |-> ctx.record]
  <2>1. log' = [log EXCEPT ![s] = Over([q \in {p} |-> entry], @)]
    BY <1>7 DEF ConvertRow, Record, p
  <2>2. UNCHANGED <<setup, pipelines, at, target, source, result>>
    BY <1>7 DEF ConvertRow, tables, setting
  <2>3. stage'[s] \in {"scanning", "flushing"}
    BY <1>0, <1>1, <1>7 DEF ConvertRow, Counted
  <2>4. cache' = [cache EXCEPT ![s] = ctx.cache]
    BY <1>7 DEF ConvertRow, p
  <2>5. buffer' = [buffer EXCEPT ![s] = IF pipeline.blackhole THEN @ ELSE Folded(@, ctx.commands)]
    BY <1>7 DEF ConvertRow, p
  <2>6. n # 0
    BY <1>7 DEF ConvertRow, p
  <2>7. Ready(s) /\ setup \in Setups
    BY <1>1 DEF Rows, Shapes, Shape, Going, TypeOK
  <2>8. IsPipelines(pipelines[s]) /\ NamesUnique(pipelines[s])
    BY <2>7, SetupGives, AssembledPipelines DEF Ready
  <2> HIDE DEF row, env
  <2>9. n \in DOMAIN pipelines[s]
    BY <2>6, <2>8, ClaimIs
  <2> HIDE DEF n
  <2>10. IsPipeline(pipeline)
    BY <2>8, <2>9 DEF IsPipelines
  <2>11. \A k \in DOMAIN pipelines[s] : pipelines[s][k].name = pipeline.name => k = n
    BY <2>8, <2>9 DEF NamesUnique
  <2> HIDE DEF pipeline
  <2>12. /\ IsContext(ctx) /\ Agrees(cache[s], ctx.cache)
         /\ "live" \in Attrs(ctx.record) =>
              row.pk \in DOMAIN ctx.cache /\ ctx.cache[row.pk] = ctx.record.attrs.live
         /\ \A x \in ToSet(pipeline.processors) : Emitted(ctx, x, setup.config)
         /\ \A key \in PutKeys : \A put \in ToSet(ctx.commands[key]) :
              put.record = ctx.record \/ IsMetadata(put.record)
    BY <1>4, <2>10, ConvertedRow DEF IsPipeline, IsV5Row, PutKeys
  <2> HIDE DEF ctx
  <2>13. /\ entry.out = ctx.record /\ entry.row = row /\ entry.pipeline = pipeline.name
         /\ entry.disposition = "transferred" <=> ~ pipeline.blackhole
    OBVIOUS
  <2> HIDE DEF entry
  <2>14. cache'[s] = ctx.cache /\ DOMAIN cache' = Segment /\ \A t \in Segment \ {s} : cache'[t] = cache[t]
    BY <1>0, <2>4
  <2>15. IsRecord(ctx.record) /\ IsCommands(ctx.commands)
    BY <2>12 DEF IsContext
  <2>16. \A k \in DOMAIN pipelines[s] : pipelines[s][k].name = entry.pipeline =>
           \A x \in ToSet(pipelines[s][k].processors) :
             PutsRecord(x, entry.out, setup.config) =>
               [record |-> entry.out] \in ToSet(ctx.commands[Claimed(x)])
    BY <2>11, <2>12, <2>13 DEF Emitted, pipeline
  <2>17. /\ entry.disposition # "transferred" => UNCHANGED buffer
         /\ entry.disposition = "transferred" => buffer' = [buffer EXCEPT ![s] = Folded(@, ctx.commands)]
    BY <2>5, <2>13 DEF Rows, Shapes
  <2> QED
    BY <1>1, <1>2, <1>3, <2>1, <2>2, <2>3, <2>12, <2>13, <2>14, <2>15, <2>16, <2>17 DEF Converts, Converting
<1> QED
  BY <1>5, <1>6, <1>7

-----------------------------------------------------------------------------
(* Puts *)

\* Of a row put several times the last put stays, and rows that are not put stay.
LEMMA PutResult ==
  ASSUME NEW t, NEW x, NEW puts, IsSeq(puts), NEW some \in SUBSET DOMAIN puts
  PROVE  LET u == Put(t, x, puts, some)
             RowOf(n) == TargetKey(TableOf(x), puts[n].record)
         IN /\ DOMAIN t \subseteq DOMAIN u
            /\ \A k \in DOMAIN u :
                 \/ k \in DOMAIN t /\ u[k] = t[k] /\ \A n \in some : RowOf(n) # k
                 \/ \E n \in some : RowOf(n) = k /\ u[k] = Stored(x, puts[n].record)
            /\ \A n \in some : RowOf(n) \in DOMAIN u
<1> DEFINE RowOf(n) == TargetKey(TableOf(x), puts[n].record)
           last == {n \in some : \A m \in some : RowOf(m) = RowOf(n) => m <= n}
           put == [k \in {RowOf(n) : n \in last} |->
                     Stored(x, puts[CHOOSE n \in last : RowOf(n) = k].record)]
<1>1. Put(t, x, puts, some) = Over(put, t)
  BY DEF Put
<1>2. DOMAIN puts = 1..Len(puts) /\ Len(puts) \in Nat
  BY SeqHas DEF IsSeq
<1>3. ASSUME NEW n \in some PROVE \E m \in last : RowOf(m) = RowOf(n)
  <2> DEFINE R == {m \in some : RowOf(m) = RowOf(n)}
  <2>1. R \subseteq 1..Len(puts) /\ n \in R
    BY <1>2
  <2>2. IsFiniteSet(1..Len(puts))
    BY <1>2, FS_Interval
  <2>3. IsFiniteSet(R) /\ R # {} /\ \A r \in R : r \in Nat
    BY <2>1, <2>2, FS_Subset
  <2>4. PICK m \in R : \A q \in R : q <= m
    <3> HIDE DEF R
    <3> QED
      BY <2>3, LastExists
  <2> QED
    BY <2>4
<1>4. ASSUME NEW k \in {RowOf(n) : n \in last}
      PROVE  \E n \in some : RowOf(n) = k /\ put[k] = Stored(x, puts[n].record)
  <2> DEFINE c == CHOOSE n \in last : RowOf(n) = k
  <2>1. c \in last /\ RowOf(c) = k
    OBVIOUS
  <2>2. put[k] = Stored(x, puts[c].record)
    OBVIOUS
  <2> QED
    BY <2>1, <2>2
<1>5. DOMAIN put = {RowOf(n) : n \in last}
  OBVIOUS
<1>6. \A n \in some : RowOf(n) \in DOMAIN put
  BY <1>3, <1>5
<1>7. \A k \in DOMAIN put : \E n \in some : RowOf(n) = k /\ put[k] = Stored(x, puts[n].record)
  BY <1>4, <1>5
<1> DEFINE u == Over(put, t)
<1> HIDE DEF put, last, RowOf
<1>8. /\ DOMAIN u = DOMAIN put \union DOMAIN t
      /\ \A k \in DOMAIN u : u[k] = IF k \in DOMAIN put THEN put[k] ELSE t[k]
  BY DEF Over
<1> HIDE DEF u
<1>9. /\ DOMAIN t \subseteq DOMAIN u
      /\ \A k \in DOMAIN u :
           \/ k \in DOMAIN t /\ u[k] = t[k] /\ \A n \in some : RowOf(n) # k
           \/ \E n \in some : RowOf(n) = k /\ u[k] = Stored(x, puts[n].record)
      /\ \A n \in some : RowOf(n) \in DOMAIN u
  BY <1>6, <1>7, <1>8
<1> QED
  BY <1>1, <1>9 DEF u, RowOf

\* A flush puts some of what one processor claims, or all of it.
Executes(s) ==
  /\ stage[s] = "flushing" /\ at[s] \in DOMAIN Order(s)
  /\ UNCHANGED <<setup, log, cache, buffer, pipelines, source>>
  /\ \E some \in SUBSET DOMAIN Pending(s) :
       /\ Perform(s, some)
       /\ \/ /\ some = DOMAIN Pending(s) /\ at' = [at EXCEPT ![s] = @ + 1]
             /\ stage'[s] = stage[s] /\ result'[s] = result[s]
          \/ stage'[s] = "closing" /\ result'[s] = "failed" /\ at' = at

\* The order of the processors names processors, those of every pipeline among them.
LEMMA OrderIs ==
  ASSUME TypeOK, Shapes, NEW s \in Segment, stage[s] \in Going
  PROVE  /\ Order(s) \in Seq(Processors) /\ DOMAIN Order(s) = 1..Len(Order(s))
         /\ Len(Order(s)) \in Nat /\ \A i \in DOMAIN Order(s) : Order(s)[i] \in Processors
         /\ \A n \in DOMAIN pipelines[s] :
              ToSet(pipelines[s][n].processors) \subseteq ToSet(Order(s))
<1>1. Ready(s) /\ setup \in Setups
  BY DEF Shapes, Shape, TypeOK
<1>2. IsPipelines(pipelines[s])
  BY <1>1, SetupGives, AssembledPipelines DEF Ready
<1>3. /\ Order(s) \in Seq(Processors)
      /\ \A n \in DOMAIN pipelines[s] :
           ToSet(pipelines[s][n].processors) \subseteq ToSet(Order(s))
  BY <1>2, OrderHas DEF Order
<1> QED
  BY <1>3, LenProperties, ElementOfSeq

\* One processor of a flush, done or given up.
LEMMA ExecutesFlush ==
  ASSUME TypeOK, Shapes, NEW s \in Segment, Execute(s) \/ ExecuteFails(s)
  PROVE  Executes(s)
<1>0. /\ stage \in [Segment -> {"idle", "loaded", "scanning", "flushing", "closing", "ended"}]
      /\ result \in [Segment -> {"", "ok", "failed", "died"}]
  BY DEF TypeOK
<1>1. stage[s] = "flushing" /\ at[s] <= Len(Order(s))
  BY DEF Execute, ExecuteFails
<1>2. at[s] \in Nat \ {0}
  BY DEF Shapes, Shape
<1>3. at[s] \in DOMAIN Order(s)
  BY <1>1, <1>2, OrderIs DEF Going
<1>4. CASE Execute(s)
  BY <1>0, <1>1, <1>3, <1>4 DEF Execute, Executes, setting, memory, history
<1>5. CASE ExecuteFails(s)
  <2>1. PICK n \in 0..Batch(Len(Pending(s))) :
          LET its == {i \in DOMAIN Pending(s) : Batch(i) = n}
              before == {i \in DOMAIN Pending(s) : Batch(i) < n}
          IN \E some \in SUBSET its : Perform(s, before \union some)
    BY <1>5 DEF ExecuteFails
  <2>2. \E some \in SUBSET DOMAIN Pending(s) : Perform(s, some)
    BY <2>1
  <2>3. UNCHANGED <<setup, log, cache, buffer, pipelines, source, at>>
        /\ stage'[s] = "closing" /\ result'[s] = "failed"
    BY <1>0, <1>5 DEF ExecuteFails, setting, memory, history, flush
  <2> QED
    BY <1>1, <1>3, <2>2, <2>3 DEF Executes
<1> QED
  BY <1>4, <1>5

\* What is put comes from rows of this run.
LEMMA PutFromThisRun ==
  ASSUME Rows, NEW s \in Segment, NEW x, NEW key \in PutKeys,
         NEW put \in ToSet(buffer[s][key]), NEW table
  PROVE  FromThisRun(TargetKey(table, put.record), Stored(x, put.record))
<1>1. IsOf(s, put.record)
  BY DEF Rows, Puts
<1>2. CASE IsMetadata(put.record)
  BY <1>2 DEF FromThisRun, IsMetadata, TargetKey
<1>3. ASSUME NEW q \in Transferred(s), put.record = log[s][q].out
      PROVE  FromThisRun(TargetKey(table, put.record), Stored(x, put.record))
  <2> DEFINE r == log[s][q].out
  <2>1. IsRecord(r)
    BY DEF Rows, Puts
  <2> HIDE DEF r
  <2>2. Stored(x, r).attrs = r.attrs
    BY <2>1 DEF Stored, IsRecord
  <2>3. TargetKey(table, r).pk = r.pk /\ TargetKey(table, r).sk = r.sk
    BY DEF TargetKey
  <2>4. put.record = r
    BY <1>3 DEF r
  <2> QED
    BY <2>2, <2>3, <2>4 DEF FromThisRun, r
<1> QED
  BY <1>1, <1>2, <1>3 DEF IsOf

\* What was in the target stays there or is replaced by what a row of this run became.
Keeps ==
  \A key \in DOMAIN target :
    key \in DOMAIN target' /\ (target'[key] = target[key] \/ FromThisRun(key, target'[key]))

\* A flush loses nothing of this run, and puts all that waits for its processor when it is
\* not given up.
LEMMA ExecutesKeeps ==
  ASSUME TypeOK, Rows, NEW s \in Segment, Executes(s)
  PROVE  /\ Keeps
         /\ result'[s] # "failed" =>
              \A p \in Transferred(s), x \in Processors \ {"S3Processor"} :
                /\ x = Processor(s) /\ [record |-> log[s][p].out] \in ToSet(Pending(s))
                => LET key == TargetKey(TableOf(x), log[s][p].out)
                   IN key \in DOMAIN target' /\ FromThisRun(key, target'[key])
<1> DEFINE x == Processor(s)
           puts == buffer[s][Claimed(x)]
<1>1. PICK some \in SUBSET DOMAIN puts :
        /\ Perform(s, some)
        /\ some = DOMAIN puts \/ result'[s] = "failed"
  BY DEF Executes, Pending
<1>2. x \in Processors
  BY OrderIs DEF Executes, Processor, Rows, Going
<1>3. CASE x = "S3Processor"
  <2>1. target' = target
    BY <1>1, <1>3 DEF Perform
  <2> QED
    BY <1>3, <2>1 DEF Keeps
<1>4. CASE x # "S3Processor"
  <2>1. target' = Put(target, x, puts, some)
    BY <1>1, <1>4 DEF Perform, Pending
  <2>2. Claimed(x) \in PutKeys /\ Claimed(x) \in CommandKeys
    BY <1>2, <1>4 DEF Claimed, PutKeys, Processors, CommandKeys
  <2>3. IsSeq(puts)
    BY <2>2 DEF Rows, Shapes, Shape, IsCommands
  <2> DEFINE RowOf(n) == TargetKey(TableOf(x), puts[n].record)
  <2> HIDE DEF x
  <2>4. /\ DOMAIN target \subseteq DOMAIN target'
        /\ \A k \in DOMAIN target' :
             \/ k \in DOMAIN target /\ target'[k] = target[k] /\ \A n \in some : RowOf(n) # k
             \/ \E n \in some : RowOf(n) = k /\ target'[k] = Stored(x, puts[n].record)
        /\ \A n \in some : RowOf(n) \in DOMAIN target'
    <3> DEFINE u == Put(target, x, puts, some)
    <3>1. some \in SUBSET DOMAIN puts
      OBVIOUS
    <3> HIDE DEF puts
    <3>2. /\ DOMAIN target \subseteq DOMAIN u
          /\ \A k \in DOMAIN u :
               \/ k \in DOMAIN target /\ u[k] = target[k] /\ \A n \in some : RowOf(n) # k
               \/ \E n \in some : RowOf(n) = k /\ u[k] = Stored(x, puts[n].record)
          /\ \A n \in some : RowOf(n) \in DOMAIN u
      BY <2>3, <3>1, PutResult
    <3> HIDE DEF u
    <3>3. target' = u
      BY <2>1 DEF u
    <3> QED
      BY <3>2, <3>3
  <2>5. \A n \in some : puts[n] \in ToSet(puts)
    BY DEF ToSet
  <2>6. \A n \in some : FromThisRun(RowOf(n), Stored(x, puts[n].record))
    BY <2>2, <2>5, PutFromThisRun
  <2>7. Keeps
    BY <2>4, <2>6 DEF Keeps
  <2>8. ASSUME result'[s] # "failed", NEW p \in Transferred(s),
               [record |-> log[s][p].out] \in ToSet(puts)
        PROVE  LET key == TargetKey(TableOf(x), log[s][p].out)
               IN key \in DOMAIN target' /\ FromThisRun(key, target'[key])
    <3>1. PICK n \in some : puts[n] = [record |-> log[s][p].out]
      BY <1>1, <2>8 DEF ToSet
    <3>2. RowOf(n) = TargetKey(TableOf(x), log[s][p].out)
      BY <3>1
    <3> HIDE DEF RowOf
    <3> QED
      BY <2>4, <2>6, <3>2
  <2> QED
    BY <2>7, <2>8 DEF x, Pending
<1> QED
  BY <1>3, <1>4

-----------------------------------------------------------------------------
(* What a step leaves *)

\* The steps that log, put and flush nothing.
Rests(s) ==
  /\ UNCHANGED <<setup, log, cache, buffer, at, target>>
  /\ DOMAIN pipelines' = Segment /\ \A t \in Segment \ {s} : pipelines'[t] = pipelines[t]
  /\ stage'[s] # "idle" /\ (stage'[s] = "loaded" => stage[s] = "idle")
  /\ stage'[s] \in {"loaded", "scanning"} => at[s] = 1
  /\ stage'[s] \in Going => Ready(s)'
  /\ \/ stage[s] \in {"idle", "loaded"}
     \/ /\ UNCHANGED pipelines
        /\ \/ result'[s] \in {"failed", "died"}
           \/ /\ result[s] \notin {"failed", "died"} \/ result'[s] = result[s]
              /\ \/ {stage[s], stage'[s]} \subseteq {"scanning", "flushing"}
                 \/ buffer[s] = NoCommands \/ stage[s] = "closing"

\* A flush is over.
Finishes(s) ==
  /\ UNCHANGED <<setup, log, cache, pipelines, target, source>>
  /\ stage[s] = "flushing" /\ stage'[s] = "scanning" /\ result'[s] = result[s]
  /\ at[s] > Len(Order(s))
  /\ buffer' = [buffer EXCEPT ![s] = NoCommands] /\ at' = [at EXCEPT ![s] = 1]

\* The steps around the rows are of that kind.
LEMMA RestsStep ==
  ASSUME TypeOK, Shapes, NEW s \in Segment, Position(s),
         \/ LoadPreset(s) \/ Preload(s) \/ ReadPage(s) \/ ScanFails(s) \/ SkipRow(s)
         \/ EndScan(s) \/ Close(s) \/ Die(s)
  PROVE  Rests(s)
<1> USE DEF tables, setting, memory, scan, flush, snapshots, history, Rests
<1>0. /\ stage \in [Segment -> {"idle", "loaded", "scanning", "flushing", "closing", "ended"}]
      /\ result \in [Segment -> {"", "ok", "failed", "died"}]
      /\ DOMAIN pipelines = Segment
      /\ stage[s] \in {"idle", "loaded", "scanning"} => at[s] = 1
      /\ stage[s] \in Going => Ready(s)
      /\ stage[s] \in Going \union {"idle"} => result[s] = ""
  BY DEF TypeOK, Shapes, Shape, Position, Early
<1>1. UNCHANGED <<setup, log, cache, buffer, at, target>>
  BY DEF LoadPreset, Preload, ReadPage, ScanFails, SkipRow, EndScan, Close, Die
<1>2. UNCHANGED pipelines => Ready(s)' = Ready(s)
  BY <1>1 DEF Ready
<1>3. CASE LoadPreset(s)
  <2>1. stage[s] = "idle" /\ stage'[s] \in {"loaded", "ended"}
    BY <1>0, <1>3 DEF LoadPreset
  <2>2. stage'[s] = "loaded" => Ready(s)'
    BY <1>0, <1>1, <1>3 DEF LoadPreset, Ready
  <2>3. DOMAIN pipelines' = Segment /\ \A t \in Segment \ {s} : pipelines'[t] = pipelines[t]
    BY <1>0, <1>3 DEF LoadPreset
  <2> QED
    BY <1>0, <1>1, <2>1, <2>2, <2>3 DEF Going
<1>4. CASE Preload(s)
  <2>1. stage[s] = "loaded" /\ stage'[s] \in {"closing", "scanning"} /\ UNCHANGED pipelines
    BY <1>0, <1>4 DEF Preload
  <2> QED
    BY <1>0, <1>1, <1>2, <2>1 DEF Going
<1>5. CASE ReadPage(s) \/ SkipRow(s)
  <2>1. stage[s] = "scanning" /\ UNCHANGED <<pipelines, stage, result>>
    BY <1>5 DEF ReadPage, SkipRow
  <2> QED
    BY <1>0, <1>1, <1>2, <2>1 DEF Going
<1>6. CASE ScanFails(s)
  <2>1. /\ stage[s] = "scanning" /\ stage'[s] = "closing" /\ result'[s] = "failed"
        /\ UNCHANGED pipelines
    BY <1>0, <1>6 DEF ScanFails
  <2> QED
    BY <1>0, <1>1, <1>2, <2>1 DEF Going
<1>7. CASE EndScan(s)
  <2>1. /\ stage[s] = "scanning" /\ UNCHANGED pipelines
        /\ \/ stage'[s] = "flushing" /\ result'[s] = result[s]
           \/ stage'[s] = "closing" /\ buffer[s] = NoCommands
    BY <1>0, <1>7 DEF EndScan
  <2> QED
    BY <1>0, <1>1, <1>2, <2>1 DEF Going
<1>8. CASE Close(s)
  <2>1. /\ stage[s] = "closing" /\ stage'[s] = "ended" /\ result'[s] = result[s]
        /\ UNCHANGED pipelines
    BY <1>0, <1>8 DEF Close
  <2> QED
    BY <1>0, <1>1, <1>2, <2>1 DEF Going
<1>9. CASE Die(s)
  <2>1. stage'[s] = "ended" /\ result'[s] = "died" /\ UNCHANGED pipelines
    BY <1>0, <1>9 DEF Die
  <2> QED
    BY <1>0, <1>1, <1>2, <2>1 DEF Going
<1> QED
  BY <1>3, <1>4, <1>5, <1>6, <1>7, <1>8, <1>9

\* FlushDone ends a flush.
LEMMA FinishesStep ==
  ASSUME TypeOK, NEW s \in Segment, FlushDone(s)
  PROVE  Finishes(s)
BY DEF TypeOK, FlushDone, Finishes, tables, setting, history, scan

\* Every step of a worker is one of these four.
LEMMA RowsStep ==
  ASSUME TypeOK, Rows, NEW s \in Segment, Position(s), Work(s) \/ Die(s)
  PROVE  Converts(s) \/ Rests(s) \/ Executes(s) \/ Finishes(s)
<1>1. Shapes
  BY DEF Rows
<1> QED
  BY <1>1, ConvertsRow, RestsStep, ExecutesFlush, FinishesStep DEF Work

\* What is logged stays logged.
Grows ==
  \A t \in Segment : \A q \in Transferred(t) : q \in Transferred(t)' /\ log'[t][q] = log[t][q]

\* A row is logged once, so that logging another one forgets none.
LEMMA ConvertsGrows ==
  ASSUME TypeOK, Shapes, NEW s \in Segment, Position(s), Converts(s)
  PROVE  Grows /\ DOMAIN log' = Segment
<1>1. PICK p, entry, commands : Converting(s, p, entry, commands)
  BY DEF Converts
<1>2. p \notin DOMAIN log[s]
  BY <1>1 DEF Converting, Shapes, Logged, Position, Held
<1>3. /\ DOMAIN log' = Segment /\ log'[s] = Over([q \in {p} |-> entry], log[s])
      /\ \A t \in Segment \ {s} : log'[t] = log[t]
  BY <1>1 DEF Converting, Shapes
<1>4. \A q \in DOMAIN log[s] : q \in DOMAIN log'[s] /\ log'[s][q] = log[s][q]
  BY <1>2, <1>3 DEF Over
<1> QED
  BY <1>3, <1>4 DEF Grows, Transferred

\* And what is in the target stays or is replaced.
LEMMA StepKeeps ==
  ASSUME TypeOK, Rows, NEW s \in Segment, Position(s),
         Converts(s) \/ Rests(s) \/ Executes(s) \/ Finishes(s)
  PROVE  Grows /\ Keeps /\ setup' = setup /\ DOMAIN log' = Segment
<1>1. CASE Executes(s)
  BY <1>1, ExecutesKeeps DEF Executes, Grows, Transferred, Rows, Shapes
<1>2. CASE Converts(s)
  <2>1. Shapes /\ target' = target /\ setup' = setup
    BY <1>2 DEF Rows, Converts, Converting
  <2> QED
    BY <1>2, <2>1, ConvertsGrows DEF Keeps
<1>3. CASE Rests(s) \/ Finishes(s)
  BY <1>3 DEF Rests, Finishes, Grows, Keeps, Transferred, Rows, Shapes
<1> QED
  BY <1>1, <1>2, <1>3

\* What has landed is never lost nor replaced by what is not of this run.
LEMMA LandedStays ==
  ASSUME Grows, Keeps, NEW t \in Segment, NEW p \in Transferred(t), NEW x, Landed(t, p, x)
  PROVE  Landed(t, p, x)'
<1>1. log'[t][p] = log[t][p]
  BY DEF Grows
<1> DEFINE key == TargetKey(TableOf(x), log[t][p].out)
<1>2. key \in DOMAIN target'
  BY DEF Landed, Keeps
<1>3. FromThisRun(key, target'[key])
  BY DEF Landed, Keeps
<1>4. key' = key
  BY <1>1
<1> HIDE DEF key
<1>5. CASE IsMetadata(key)
  BY <1>2, <1>4, <1>5 DEF Landed, FromThisRun, key
<1>6. ASSUME NEW u \in Segment, NEW q \in Transferred(u),
             log[u][q].out.pk = key.pk, log[u][q].out.sk = key.sk,
             target'[key].attrs = log[u][q].out.attrs
      PROVE  Landed(t, p, x)'
  <2>1. q \in Transferred(u)' /\ log'[u][q] = log[u][q]
    BY DEF Grows
  <2>2. FromThisRun(key, target[key])'
    BY <1>4, <1>6, <2>1 DEF FromThisRun
  <2> QED
    BY <1>2, <1>4, <2>2 DEF Landed, key
<1> QED
  BY <1>3, <1>5, <1>6 DEF FromThisRun

-----------------------------------------------------------------------------
(* The invariant, step by step *)

\* The commands of the shard are those it had and those of the row.
LEMMA FoldedHas ==
  ASSUME NEW a, IsCommands(a), NEW b, IsCommands(b)
  PROVE  /\ IsCommands(Folded(a, b))
         /\ \A key \in CommandKeys : ToSet(Folded(a, b)[key]) = ToSet(a[key]) \union ToSet(b[key])
<1>1. \A key \in CommandKeys : /\ IsSeq(a[key] \o b[key])
                               /\ ToSet(a[key] \o b[key]) = ToSet(a[key]) \union ToSet(b[key])
  BY ConcatIsSeq DEF IsCommands
<1> DEFINE f == Folded(a, b)
<1>2. f = [key \in CommandKeys |-> f[key]] /\ \A key \in CommandKeys : f[key] = a[key] \o b[key]
  BY DEF Folded
<1> HIDE DEF f
<1> QED
  BY <1>1, <1>2 DEF IsCommands, f

\* A shard without commands has nothing to be put.
LEMMA NoCommandsAre ==
  IsCommands(NoCommands) /\ \A key \in CommandKeys : ToSet(NoCommands[key]) = {}
BY EmptyIsSeq DEF NoCommands, IsCommands

\* Keys of puts are keys of commands.
LEMMA CommandKeysAre == PutKeys \subseteq CommandKeys
BY DEF PutKeys, CommandKeys

\* The rows of a page are rows of the source.
LEMMA PageRows ==
  ASSUME TypeOK, Shapes, NEW s \in Segment, Work(s) \/ Die(s)
  PROVE  \A p \in DOMAIN page'[s] : IsV5Row(page'[s][p])
<1>0. DOMAIN page = Segment /\ \A p \in DOMAIN page[s] : IsV5Row(page[s][p])
  BY DEF TypeOK, Shapes, Shape
<1>1. CASE ReadPage(s)
  <2>1. PICK n \in 0..PageLimit : page' = [page EXCEPT ![s] = [p \in FirstOf(Beyond(s), n) |-> source[p]]]
    BY <1>1 DEF ReadPage
  <2>2. page'[s] = [p \in FirstOf(Beyond(s), n) |-> source[p]]
    BY <1>0, <2>1
  <2>3. FirstOf(Beyond(s), n) \subseteq DOMAIN source
    BY DEF FirstOf, Beyond
  <2> QED
    BY <2>2, <2>3 DEF Shapes
<1>2. CASE Taking(s)
  <2>1. Take(s, NextPos(s))
    BY <1>2 DEF Taking, SkipRow, DropRow, ConvertRow, RowThrows
  <2>2. page'[s] = Restrict(page[s], DOMAIN page[s] \ {NextPos(s)})
    BY <1>0, <2>1 DEF Take
  <2> QED
    BY <1>0, <2>2 DEF Restrict
<1>3. CASE Aside(s) \/ Preload(s)
  <2>1. page' = page
    BY <1>3, AsideStep DEF Preload, Sits, scan
  <2> QED
    BY <1>0, <2>1
<1> QED
  BY <1>1, <1>2, <1>3 DEF Work, Aside, Taking

\* A row that was taken stays taken.
LEMMA TakenGrows ==
  ASSUME TypeOK, NEW s \in Segment, Work(s) \/ Die(s)
  PROVE  \A p \in Pos : taken[s][p] # 0 => taken'[s][p] # 0
<1>0. taken \in [Segment -> [Pos -> Nat]]
  BY DEF TypeOK
<1>1. CASE Takes(s)
  <2>1. taken' = [taken EXCEPT ![s][NextPos(s)] = @ + 1]
    BY <1>1 DEF Takes
  <2>2. taken'[s] = [taken[s] EXCEPT ![NextPos(s)] = @ + 1]
    BY <1>0, <2>1
  <2> DEFINE n == NextPos(s)
  <2> HIDE DEF n
  <2>3. taken'[s] = [taken[s] EXCEPT ![n] = @ + 1] /\ taken[s] \in [Pos -> Nat]
    BY <1>0, <2>2 DEF n
  <2> QED
    BY <2>3
<1>2. CASE Sits(s) \/ Preload(s) \/ ReadPage(s)
  <2>1. taken' = taken
    BY <1>2 DEF Sits, Preload, ReadPage, history
  <2> QED
    BY <2>1
<1> QED
  BY <1>1, <1>2, WorkerStep

\* Only rows that were taken are logged.
LEMMA LoggedStep ==
  ASSUME TypeOK, Rows, NEW s \in Segment, Position(s), Work(s) \/ Die(s)
  PROVE  Logged(s)'
<1>1. Shapes /\ Logged(s)
  BY DEF Rows, Shapes
<1>2. \A p \in Pos : taken[s][p] # 0 => taken'[s][p] # 0
  BY TakenGrows
<1>3. CASE Converts(s)
  <2>1. PICK p, entry, commands : Converting(s, p, entry, commands)
    BY <1>3 DEF Converts
  <2>2. p \in Pos /\ taken'[s][p] # 0
    BY <2>1 DEF Converting, TypeOK, IsPage, Of
  <2>3. log'[s] = Over([q \in {p} |-> entry], log[s])
    BY <1>1, <2>1 DEF Converting, Shapes
  <2>4. DOMAIN log'[s] = {p} \union DOMAIN log[s]
    BY <2>3 DEF Over
  <2>5. stage'[s] \notin {"idle", "loaded"}
    BY <2>1 DEF Converting
  <2> QED
    BY <1>1, <1>2, <2>2, <2>4, <2>5 DEF Logged
<1>4. CASE Rests(s)
  BY <1>1, <1>2, <1>4 DEF Rests, Logged
<1>5. CASE Executes(s)
  BY <1>1, <1>2, <1>5 DEF Executes, Logged
<1>6. CASE Finishes(s)
  BY <1>1, <1>2, <1>6 DEF Finishes, Logged
<1> QED
  BY <1>3, <1>4, <1>5, <1>6, RowsStep

\* What a step does to the other workers' part: nothing.
LEMMA OthersRows ==
  ASSUME TypeOK, Rows, NEW s \in Segment, Position(s), Work(s) \/ Die(s)
  PROVE  /\ DOMAIN pipelines' = Segment /\ DOMAIN cache' = Segment
         /\ buffer' = [t \in Segment |-> buffer'[t]] /\ DOMAIN at' = Segment
         /\ DOMAIN log' = Segment /\ setup' = setup
         /\ \A t \in Segment \ {s} :
              /\ pipelines'[t] = pipelines[t] /\ cache'[t] = cache[t] /\ buffer'[t] = buffer[t]
              /\ at'[t] = at[t] /\ log'[t] = log[t]
<1>0. Shapes
  BY DEF Rows
<1> DEFINE P == /\ DOMAIN pipelines' = Segment /\ DOMAIN cache' = Segment
                /\ buffer' = [t \in Segment |-> buffer'[t]] /\ DOMAIN at' = Segment
                /\ DOMAIN log' = Segment /\ setup' = setup
                /\ \A t \in Segment \ {s} :
                     /\ pipelines'[t] = pipelines[t] /\ cache'[t] = cache[t]
                     /\ buffer'[t] = buffer[t] /\ at'[t] = at[t] /\ log'[t] = log[t]
<1>1. CASE Converts(s)
  <2>1. PICK p, entry, commands : Converting(s, p, entry, commands)
    BY <1>1 DEF Converts
  <2>2. /\ DOMAIN pipelines' = Segment /\ DOMAIN cache' = Segment /\ DOMAIN at' = Segment
        /\ setup' = setup
        /\ \A t \in Segment \ {s} :
             pipelines'[t] = pipelines[t] /\ cache'[t] = cache[t] /\ at'[t] = at[t]
    BY <1>0, <2>1 DEF Converting, Shapes
  <2>3. DOMAIN log' = Segment /\ \A t \in Segment \ {s} : log'[t] = log[t]
    BY <1>0, <2>1 DEF Converting, Shapes
  <2>4. UNCHANGED buffer \/ buffer' = [buffer EXCEPT ![s] = Folded(@, commands)]
    BY <2>1 DEF Converting
  <2>5. buffer = [t \in Segment |-> buffer[t]]
    BY <1>0 DEF Shapes
  <2>6. buffer' = [t \in Segment |-> buffer'[t]] /\ \A t \in Segment \ {s} : buffer'[t] = buffer[t]
    BY <2>4, <2>5
  <2> QED
    BY <2>2, <2>3, <2>6
<1>2. CASE Rests(s)
  BY <1>0, <1>2 DEF Rests, Shapes
<1>3. CASE Executes(s)
  <2>1. UNCHANGED <<setup, log, cache, buffer, pipelines>>
        /\ (at' = at \/ at' = [at EXCEPT ![s] = @ + 1])
    BY <1>3 DEF Executes
  <2> QED
    BY <1>0, <2>1 DEF Shapes
<1>4. CASE Finishes(s)
  <2>1. /\ UNCHANGED <<setup, log, cache, pipelines>>
        /\ buffer' = [buffer EXCEPT ![s] = NoCommands] /\ at' = [at EXCEPT ![s] = 1]
    BY <1>4 DEF Finishes
  <2>2. buffer = [t \in Segment |-> buffer[t]] /\ DOMAIN at = Segment
    BY <1>0 DEF Shapes
  <2>3. buffer' = [t \in Segment |-> buffer'[t]] /\ \A t \in Segment \ {s} : buffer'[t] = buffer[t]
    BY <2>1, <2>2
  <2> QED
    BY <1>0, <2>1, <2>2, <2>3 DEF Shapes
<1> QED
  BY <1>1, <1>2, <1>3, <1>4, RowsStep

\* A worker's own data keep their shape.
LEMMA ShapeStep ==
  ASSUME TypeOK, Rows, NEW s \in Segment, Position(s), Work(s) \/ Die(s)
  PROVE  Shape(s)'
<1>0. Shapes /\ Shape(s)
  BY DEF Rows, Shapes
<1>1. \A p \in DOMAIN page'[s] : IsV5Row(page'[s][p])
  BY <1>0, PageRows
<1>2. CASE Converts(s)
  <2>1. PICK p, entry, commands : Converting(s, p, entry, commands)
    BY <1>2 DEF Converts
  <2>2. /\ stage[s] = "scanning" /\ stage'[s] \in {"scanning", "flushing", "closing"}
        /\ UNCHANGED <<setup, pipelines, at>>
    BY <2>1 DEF Converting
  <2>3. /\ entry.disposition # "transferred" => buffer' = buffer
        /\ entry.disposition = "transferred" =>
             IsCommands(commands) /\ buffer' = [buffer EXCEPT ![s] = Folded(@, commands)]
    BY <2>1 DEF Converting
  <2>4. buffer'[s] = buffer[s] \/ (IsCommands(commands) /\ buffer'[s] = Folded(buffer[s], commands))
    BY <1>0, <2>3 DEF Shapes
  <2>5. IsCommands(buffer'[s])
    BY <1>0, <2>4, FoldedHas DEF Shape
  <2> QED
    BY <1>0, <1>1, <2>2, <2>5 DEF Shape, Going, Ready
<1>3. CASE Rests(s)
  <2>1. stage'[s] \in {"loaded", "scanning"} => at[s] = 1
    BY <1>3 DEF Rests
  <2> QED
    BY <1>0, <1>1, <1>3, <2>1 DEF Rests, Shape
<1>4. CASE Executes(s)
  <2>1. /\ UNCHANGED <<setup, buffer, pipelines>> /\ stage[s] = "flushing"
        /\ \/ stage'[s] = "flushing" /\ at' = [at EXCEPT ![s] = @ + 1]
           \/ stage'[s] = "closing" /\ at' = at
    BY <1>4 DEF Executes
  <2>2. at'[s] \in Nat \ {0}
    BY <1>0, <2>1 DEF Shapes, Shape
  <2> QED
    BY <1>0, <1>1, <2>1, <2>2 DEF Shape, Going, Ready
<1>5. CASE Finishes(s)
  <2>1. /\ UNCHANGED <<setup, pipelines>> /\ stage[s] = "flushing" /\ stage'[s] = "scanning"
        /\ buffer'[s] = NoCommands /\ at'[s] = 1
    BY <1>0, <1>5 DEF Finishes, Shapes
  <2> QED
    BY <1>0, <1>1, <2>1, NoCommandsAre DEF Shape, Going, Ready
<1> QED
  BY <1>2, <1>3, <1>4, <1>5, RowsStep

\* And so does the rest.
LEMMA ShapesStep ==
  ASSUME TypeOK, Rows, NEW s \in Segment, Position(s), Work(s) \/ Die(s)
  PROVE  Shapes'
<1>1. Shapes
  BY DEF Rows
<1>2. Shape(s)' /\ Logged(s)'
  BY ShapeStep, LoggedStep
<1>3. ASSUME NEW t \in Segment \ {s} PROVE Shape(t)' /\ Logged(t)'
  <2>1. /\ stage'[t] = stage[t] /\ page'[t] = page[t] /\ taken'[t] = taken[t]
    BY OthersKept
  <2>2. /\ pipelines'[t] = pipelines[t] /\ buffer'[t] = buffer[t] /\ at'[t] = at[t]
        /\ log'[t] = log[t] /\ setup' = setup
    BY OthersRows
  <2>3. Shape(t) /\ Logged(t)
    BY <1>1 DEF Shapes
  <2> QED
    BY <2>1, <2>2, <2>3 DEF Shape, Logged, Ready
<1>4. source' = source
  BY WorkerStep DEF Sits, Takes, Preload, ReadPage, tables
<1> QED
  BY <1>1, <1>2, <1>3, <1>4, OthersRows DEF Shapes

\* The live fields.
LEMMA CachedStep ==
  ASSUME TypeOK, Rows, NEW s \in Segment, Position(s), Work(s) \/ Die(s)
  PROVE  Cached(s)'
<1>0. Shapes /\ Cached(s)
  BY DEF Rows
<1>1. CASE Converts(s)
  <2>1. PICK p, entry, commands : Converting(s, p, entry, commands)
    BY <1>1 DEF Converts
  <2>2. log'[s] = Over([q \in {p} |-> entry], log[s])
    BY <1>0, <2>1 DEF Converting, Shapes
  <2>3. /\ DOMAIN log'[s] = {p} \union DOMAIN log[s] /\ log'[s][p] = entry
        /\ \A q \in DOMAIN log[s] \ {p} : log'[s][q] = log[s][q]
    BY <2>2 DEF Over
  <2>4. /\ Agrees(cache[s], cache'[s])
        /\ entry.disposition = "transferred" /\ "live" \in Attrs(entry.out) =>
             entry.row.pk \in DOMAIN cache'[s] /\ cache'[s][entry.row.pk] = entry.out.attrs.live
    BY <2>1 DEF Converting
  <2>5. ASSUME NEW q \in Transferred(s)', "live" \in Attrs(log'[s][q].out)
        PROVE  /\ log'[s][q].row.pk \in DOMAIN cache'[s]
               /\ cache'[s][log'[s][q].row.pk] = log'[s][q].out.attrs.live
    <3>1. q \in DOMAIN log'[s] /\ log'[s][q].disposition = "transferred"
      BY DEF Transferred
    <3>2. CASE q = p
      BY <2>3, <2>4, <2>5, <3>1, <3>2
    <3>3. CASE q # p
      <4>1. q \in Transferred(s) /\ log'[s][q] = log[s][q]
        BY <2>3, <3>1, <3>3 DEF Transferred
      <4> QED
        BY <1>0, <2>4, <2>5, <4>1 DEF Cached, Agrees
    <3> QED
      BY <3>2, <3>3
  <2> QED
    BY <2>5 DEF Cached, Transferred
<1>2. CASE Rests(s) \/ Executes(s) \/ Finishes(s)
  <2>1. UNCHANGED <<log, cache>>
    BY <1>2 DEF Rests, Executes, Finishes
  <2> QED
    BY <1>0, <2>1 DEF Cached, Transferred
<1> QED
  BY <1>1, <1>2, RowsStep

\* The records to be put.
LEMMA IsOfStays ==
  ASSUME Grows, NEW t \in Segment, NEW r, IsOf(t, r)
  PROVE  IsOf(t, r)'
BY DEF IsOf, Grows

\* A row that is converted is logged with the step that folds its commands.
LEMMA PutsStep ==
  ASSUME TypeOK, Rows, NEW s \in Segment, Position(s), Work(s) \/ Die(s)
  PROVE  Puts(s)'
<1>0. Shapes /\ Puts(s) /\ Shape(s)
  BY DEF Rows, Shapes
<1>1. Grows
  BY RowsStep, StepKeeps
<1>2. CASE Converts(s)
  <2>1. PICK p, entry, commands : Converting(s, p, entry, commands)
    BY <1>2 DEF Converts
  <2>2. log'[s] = Over([q \in {p} |-> entry], log[s])
    BY <1>0, <2>1 DEF Converting, Shapes
  <2>3. /\ DOMAIN log'[s] = {p} \union DOMAIN log[s] /\ log'[s][p] = entry
        /\ \A q \in DOMAIN log[s] \ {p} : log'[s][q] = log[s][q]
    BY <2>2 DEF Over
  <2>4. entry.disposition = "transferred" =>
          /\ IsRecord(entry.out) /\ IsCommands(commands)
          /\ buffer' = [buffer EXCEPT ![s] = Folded(@, commands)]
          /\ \A key \in PutKeys : \A put \in ToSet(commands[key]) :
               put.record = entry.out \/ IsMetadata(put.record)
    BY <2>1 DEF Converting
  <2>5. entry.disposition # "transferred" => buffer' = buffer
    BY <2>1 DEF Converting
  <2>6. \A q \in Transferred(s)' : IsRecord(log'[s][q].out)
    BY <1>0, <2>3, <2>4 DEF Puts, Transferred
  <2>7. ASSUME NEW key \in PutKeys, NEW put \in ToSet(buffer'[s][key])
        PROVE  IsOf(s, put.record)'
    <3>1. CASE put \in ToSet(buffer[s][key])
      BY <1>0, <1>1, <3>1, IsOfStays DEF Puts
    <3>2. CASE put \notin ToSet(buffer[s][key])
      <4>1. entry.disposition = "transferred"
        BY <2>5, <3>2
      <4>2. buffer'[s] = Folded(buffer[s], commands) /\ IsCommands(buffer[s])
        BY <1>0, <2>4, <4>1 DEF Shapes, Shape
      <4>3. put \in ToSet(commands[key])
        BY <2>4, <3>2, <4>1, <4>2, FoldedHas, CommandKeysAre
      <4>4. p \in Transferred(s)' /\ log'[s][p].out = entry.out
        BY <2>3, <4>1 DEF Transferred
      <4> QED
        BY <2>4, <4>1, <4>3, <4>4 DEF IsOf
    <3> QED
      BY <3>1, <3>2
  <2> QED
    BY <2>6, <2>7 DEF Puts
<1>3. CASE Rests(s) \/ Executes(s)
  <2>1. UNCHANGED <<log, buffer>>
    BY <1>3 DEF Rests, Executes
  <2> QED
    BY <1>0, <2>1 DEF Puts, IsOf, Transferred
<1>4. CASE Finishes(s)
  <2>1. log' = log /\ buffer'[s] = NoCommands
    BY <1>0, <1>4 DEF Finishes, Shapes
  <2>2. \A key \in PutKeys : ToSet(buffer'[s][key]) = {}
    BY <2>1, NoCommandsAre, CommandKeysAre
  <2> QED
    BY <1>0, <2>1, <2>2 DEF Puts, Transferred
<1> QED
  BY <1>2, <1>3, <1>4, RowsStep

-----------------------------------------------------------------------------
(* Rows arrive *)

\* S3Processor puts no record.
LEMMA PuttersAre ==
  ASSUME NEW s \in Segment, NEW p, NEW x \in Putters(s, p)
  PROVE  x \in Processors \ {"S3Processor"}
BY DEF Putters, PutsRecord

\* Who puts a row is settled when it is logged.
LEMMA PuttersStay ==
  ASSUME NEW s \in Segment, NEW p, setup' = setup, pipelines'[s] = pipelines[s],
         log'[s][p] = log[s][p]
  PROVE  Putters(s, p)' = Putters(s, p)
BY DEF Putters

\* The row that was converted waits, and so do those before it.
LEMMA ConvertsDelivers ==
  ASSUME TypeOK, Rows, NEW s \in Segment, Position(s), Converts(s)
  PROVE  Delivers(s)'
<1>0. Shapes /\ Shape(s) /\ Delivers(s)
  BY DEF Rows, Shapes
<1>1. PICK p, entry, commands : Converting(s, p, entry, commands)
  BY DEF Converts
<1>2. Grows /\ Keeps
  BY StepKeeps
<1>3. /\ log'[s] = Over([q \in {p} |-> entry], log[s])
      /\ UNCHANGED <<setup, pipelines, at, target>> /\ stage[s] = "scanning" /\ at[s] = 1
  BY <1>0, <1>1 DEF Converting, Shapes, Shape
<1>4. /\ DOMAIN log'[s] = {p} \union DOMAIN log[s] /\ log'[s][p] = entry
      /\ \A q \in DOMAIN log[s] \ {p} : log'[s][q] = log[s][q]
  BY <1>3 DEF Over
<1> SUFFICES ASSUME result'[s] \notin {"failed", "died"},
                    NEW q \in Transferred(s)', NEW x \in Putters(s, q)'
             PROVE  Landed(s, q, x)' \/ Waits(s, q, x)'
  BY DEF Delivers
<1>5. stage'[s] \in {"scanning", "flushing"} /\ result'[s] = result[s]
  BY <1>1 DEF Converting
<1>6. /\ entry.disposition # "transferred" => buffer' = buffer
      /\ entry.disposition = "transferred" =>
           IsCommands(commands) /\ buffer' = [buffer EXCEPT ![s] = Folded(@, commands)]
  BY <1>1 DEF Converting
<1>7. /\ entry.disposition # "transferred" => buffer' = buffer
      /\ entry.disposition = "transferred" =>
           IsCommands(commands) /\ buffer'[s] = Folded(buffer[s], commands)
  BY <1>0, <1>6 DEF Shapes
<1>8. x \in Processors /\ Claimed(x) \in CommandKeys
  BY PuttersAre DEF Putters, Claimed, CommandKeys, Processors
<1>9. ToSet(buffer[s][Claimed(x)]) \subseteq ToSet(buffer'[s][Claimed(x)])
  BY <1>0, <1>7, <1>8, FoldedHas DEF Shape
<1>10. Order(s)' = Order(s)
  BY <1>3 DEF Order
<1>11. CASE q = p
  <2>1. entry.disposition = "transferred"
    BY <1>4, <1>11 DEF Transferred
  <2>2. PICK n \in DOMAIN pipelines[s] :
          /\ pipelines[s][n].name = entry.pipeline /\ x \in ToSet(pipelines[s][n].processors)
          /\ PutsRecord(x, entry.out, setup.config)
    BY <1>3, <1>4, <1>11 DEF Putters
  <2>3. [record |-> entry.out] \in ToSet(commands[Claimed(x)])
    BY <1>1, <2>1, <2>2 DEF Converting
  <2>4. [record |-> entry.out] \in ToSet(buffer'[s][Claimed(x)])
    BY <1>0, <1>7, <1>8, <2>1, <2>3, FoldedHas DEF Shape
  <2>5. x \in ToSet(Order(s)) /\ DOMAIN Order(s) = 1..Len(Order(s)) /\ Len(Order(s)) \in Nat
    BY <1>0, <1>3, <2>2, OrderIs DEF Going
  <2>6. Turn(s, x)'
    BY <1>3, <1>10, <2>5 DEF Turn, ToSet
  <2> QED
    BY <1>4, <1>5, <1>11, <2>4, <2>6 DEF Waits
<1>12. CASE q # p
  <2>1. q \in Transferred(s) /\ log'[s][q] = log[s][q]
    BY <1>4, <1>12 DEF Transferred
  <2>2. x \in Putters(s, q)
    BY <1>3, <2>1, PuttersStay
  <2>3. Landed(s, q, x) \/ Waits(s, q, x)
    BY <1>0, <1>5, <2>1, <2>2 DEF Delivers
  <2>4. ASSUME Waits(s, q, x) PROVE Waits(s, q, x)'
    BY <1>3, <1>5, <1>9, <1>10, <2>1, <2>4 DEF Waits, Turn
  <2> QED
    BY <1>2, <2>1, <2>3, <2>4, LandedStays
<1> QED
  BY <1>11, <1>12

\* A flush puts what waits for its processor.
LEMMA ExecutesDelivers ==
  ASSUME TypeOK, Rows, NEW s \in Segment, Position(s), Executes(s)
  PROVE  Delivers(s)'
<1>0. Shapes /\ Shape(s) /\ Delivers(s)
  BY DEF Rows, Shapes
<1>1. Grows /\ Keeps
  BY StepKeeps
<1>2. /\ UNCHANGED <<setup, log, buffer, pipelines>> /\ stage[s] = "flushing"
      /\ at[s] \in DOMAIN Order(s)
  BY DEF Executes
<1> SUFFICES ASSUME result'[s] \notin {"failed", "died"},
                    NEW p \in Transferred(s)', NEW x \in Putters(s, p)'
             PROVE  Landed(s, p, x)' \/ Waits(s, p, x)'
  BY DEF Delivers
<1>3. at' = [at EXCEPT ![s] = @ + 1] /\ stage'[s] = "flushing" /\ result'[s] = result[s]
  BY <1>2 DEF Executes
<1>4. at'[s] = at[s] + 1 /\ at[s] \in Nat
  BY <1>0, <1>3 DEF Shapes, Shape
<1>5. p \in Transferred(s) /\ x \in Putters(s, p) /\ Order(s)' = Order(s)
  BY <1>2, PuttersStay DEF Transferred, Order
<1>6. Landed(s, p, x) \/ Waits(s, p, x)
  BY <1>0, <1>3, <1>5 DEF Delivers
<1>7. ASSUME Waits(s, p, x) PROVE Landed(s, p, x)' \/ Waits(s, p, x)'
  <2>1. PICK i \in DOMAIN Order(s) : at[s] <= i /\ Order(s)[i] = x
    BY <1>7 DEF Waits, Turn
  <2>2. [record |-> log[s][p].out] \in ToSet(buffer[s][Claimed(x)])
    BY <1>7 DEF Waits
  <2>3. CASE i = at[s]
    <3>1. x = Processor(s)
      BY <2>1, <2>3 DEF Processor
    <3>2. [record |-> log[s][p].out] \in ToSet(Pending(s))
      BY <2>2, <3>1 DEF Pending
    <3>3. x \in Processors \ {"S3Processor"}
      BY <1>5, PuttersAre
    <3>4. LET key == TargetKey(TableOf(x), log[s][p].out)
          IN key \in DOMAIN target' /\ FromThisRun(key, target'[key])
      BY <1>5, <3>1, <3>2, <3>3, ExecutesKeeps
    <3>5. Landed(s, p, x)'
      BY <1>2, <3>4 DEF Landed, FromThisRun, Transferred
    <3> QED
      BY <3>5
  <2>4. CASE i # at[s]
    <3>1. i \in Nat
      BY <1>0, <1>2, <2>1, OrderIs DEF Going
    <3>2. at'[s] <= i
      BY <1>4, <2>1, <2>4, <3>1
    <3>3. Turn(s, x)'
      BY <1>5, <2>1, <3>2 DEF Turn
    <3> QED
      BY <1>2, <1>3, <2>2, <3>3 DEF Waits
  <2> QED
    BY <2>3, <2>4
<1> QED
  BY <1>1, <1>5, <1>6, <1>7, LandedStays

\* After a flush nothing waits.
LEMMA FinishesDelivers ==
  ASSUME TypeOK, Rows, NEW s \in Segment, Position(s), Finishes(s)
  PROVE  Delivers(s)'
<1>0. Shapes /\ Shape(s) /\ Delivers(s)
  BY DEF Rows, Shapes
<1>1. Grows /\ Keeps
  BY StepKeeps
<1>2. /\ UNCHANGED <<setup, log, pipelines>> /\ stage[s] = "flushing" /\ result'[s] = result[s]
      /\ at[s] > Len(Order(s))
  BY DEF Finishes
<1> SUFFICES ASSUME result'[s] \notin {"failed", "died"},
                    NEW p \in Transferred(s)', NEW x \in Putters(s, p)'
             PROVE  Landed(s, p, x)'
  BY DEF Delivers
<1>3. p \in Transferred(s) /\ x \in Putters(s, p)
  BY <1>2, PuttersStay DEF Transferred
<1>4. Landed(s, p, x) \/ Waits(s, p, x)
  BY <1>0, <1>2, <1>3 DEF Delivers
<1>5. ~ Waits(s, p, x)
  <2>1. DOMAIN Order(s) = 1..Len(Order(s)) /\ Len(Order(s)) \in Nat /\ at[s] \in Nat
    BY <1>0, <1>2, OrderIs DEF Going, Shape
  <2>2. ~ Turn(s, x)
    BY <1>2, <2>1 DEF Turn
  <2> QED
    BY <2>2 DEF Waits
<1> QED
  BY <1>1, <1>3, <1>4, <1>5, LandedStays

\* Before the scan there is nothing to deliver, and what leaves the scan well has
\* nothing that waits.
LEMMA RestsDelivers ==
  ASSUME TypeOK, Rows, NEW s \in Segment, Position(s), Rests(s)
  PROVE  Delivers(s)'
<1>0. Shapes /\ Shape(s) /\ Logged(s) /\ Delivers(s)
  BY DEF Rows, Shapes
<1>1. Grows /\ Keeps
  BY StepKeeps
<1>2. UNCHANGED <<setup, log, buffer, at, target>>
  BY DEF Rests
<1> SUFFICES ASSUME result'[s] \notin {"failed", "died"},
                    NEW p \in Transferred(s)', NEW x \in Putters(s, p)'
             PROVE  Landed(s, p, x)' \/ Waits(s, p, x)'
  BY DEF Delivers
<1>3. p \in Transferred(s)
  BY <1>2 DEF Transferred
<1>4. stage[s] \notin {"idle", "loaded"}
  BY <1>0, <1>3 DEF Logged, Transferred
<1>5. /\ UNCHANGED pipelines /\ result[s] \notin {"failed", "died"}
      /\ \/ {stage[s], stage'[s]} \subseteq {"scanning", "flushing"}
         \/ buffer[s] = NoCommands \/ stage[s] = "closing"
  BY <1>4 DEF Rests
<1>6. x \in Putters(s, p) /\ Order(s)' = Order(s)
  BY <1>2, <1>5, PuttersStay DEF Order
<1>7. Landed(s, p, x) \/ Waits(s, p, x)
  BY <1>0, <1>3, <1>5, <1>6 DEF Delivers
<1>8. ASSUME Waits(s, p, x) PROVE Waits(s, p, x)'
  <2>1. Claimed(x) \in CommandKeys
    BY <1>6, PuttersAre DEF Claimed, CommandKeys, Processors
  <2>2. buffer[s] # NoCommands /\ stage[s] # "closing"
    BY <1>8, <2>1, NoCommandsAre DEF Waits
  <2>3. stage'[s] \in {"scanning", "flushing"}
    BY <1>5, <2>2
  <2> QED
    BY <1>2, <1>6, <1>8, <2>3 DEF Waits, Turn
<1> QED
  BY <1>1, <1>3, <1>7, <1>8, LandedStays

\* Every step of a worker delivers its rows.
LEMMA DeliversStep ==
  ASSUME TypeOK, Rows, NEW s \in Segment, Position(s), Work(s) \/ Die(s)
  PROVE  Delivers(s)'
BY RowsStep, ConvertsDelivers, RestsDelivers, ExecutesDelivers, FinishesDelivers

\* What a step of one worker does to the rows of another.
LEMMA OthersStep ==
  ASSUME TypeOK, Rows, NEW s \in Segment, Position(s), Work(s) \/ Die(s),
         NEW t \in Segment \ {s}
  PROVE  Cached(t)' /\ Puts(t)' /\ Delivers(t)'
<1>0. Cached(t) /\ Puts(t) /\ Delivers(t)
  BY DEF Rows
<1>1. /\ pipelines'[t] = pipelines[t] /\ cache'[t] = cache[t] /\ buffer'[t] = buffer[t]
      /\ at'[t] = at[t] /\ log'[t] = log[t] /\ setup' = setup
  BY OthersRows
<1>2. stage'[t] = stage[t] /\ result'[t] = result[t]
  BY OthersKept
<1>3. Grows /\ Keeps
  BY RowsStep, StepKeeps
<1>4. Transferred(t)' = Transferred(t)
  BY <1>1 DEF Transferred
<1>5. Cached(t)'
  BY <1>0, <1>1, <1>4 DEF Cached
<1>6. Puts(t)'
  BY <1>0, <1>1, <1>3, <1>4, IsOfStays DEF Puts
<1>7. Delivers(t)'
  <2> SUFFICES ASSUME result'[t] \notin {"failed", "died"},
                      NEW p \in Transferred(t)', NEW x \in Putters(t, p)'
               PROVE  Landed(t, p, x)' \/ Waits(t, p, x)'
    BY DEF Delivers
  <2>1. p \in Transferred(t) /\ x \in Putters(t, p) /\ Order(t)' = Order(t)
    BY <1>1, <1>4, PuttersStay DEF Order
  <2>2. Landed(t, p, x) \/ Waits(t, p, x)
    BY <1>0, <1>2, <2>1 DEF Delivers
  <2>3. Waits(t, p, x) => Waits(t, p, x)'
    BY <1>1, <1>2, <2>1 DEF Waits, Turn
  <2> QED
    BY <1>3, <2>1, <2>2, <2>3, LandedStays
<1> QED
  BY <1>5, <1>6, <1>7

-----------------------------------------------------------------------------
(* The invariant *)

\* A run begins, the first or another, with nothing logged and nothing to be put.
Anew ==
  /\ stage = Each("idle") /\ result = Each("") /\ pipelines = Each(<< >>)
  /\ cache = Each(<< >>) /\ page = Each(<< >>) /\ buffer = Each(NoCommands)
  /\ at = Each(1) /\ log = Each(<< >>)
  /\ \A p \in DOMAIN source : IsV5Row(source[p])

\* The invariant holds when a run begins.
LEMMA AnewRows == Anew => Rows
<1> SUFFICES ASSUME Anew PROVE Rows
  OBVIOUS
<1>1. DOMAIN << >> = {}
  OBVIOUS
<1>2. /\ DOMAIN pipelines = Segment /\ DOMAIN cache = Segment /\ DOMAIN at = Segment
      /\ DOMAIN log = Segment /\ buffer = [s \in Segment |-> buffer[s]]
  BY DEF Anew, Each
<1>3. ASSUME NEW s \in Segment
      PROVE  Shape(s) /\ Logged(s) /\ Cached(s) /\ Puts(s) /\ Delivers(s)
  <2>1. /\ stage[s] = "idle" /\ page[s] = << >> /\ buffer[s] = NoCommands /\ at[s] = 1
        /\ log[s] = << >>
    BY DEF Anew, Each
  <2>2. Transferred(s) = {}
    BY <1>1, <2>1 DEF Transferred
  <2>3. Shape(s) /\ Logged(s)
    BY <1>1, <2>1, NoCommandsAre DEF Shape, Logged, Going
  <2>4. \A key \in PutKeys : ToSet(buffer[s][key]) = {}
    BY <2>1, NoCommandsAre, CommandKeysAre
  <2> QED
    BY <2>2, <2>3, <2>4 DEF Cached, Puts, Delivers
<1> QED
  BY <1>2, <1>3 DEF Anew, Rows, Shapes

\* Another edition of a row is a row of v5.
LEMMA PublishRows ==
  ASSUME TypeOK, Rows, Publish
  PROVE  Rows'
<1>1. /\ UNCHANGED <<setup, stage, result, pipelines, cache, page, buffer, at, log, taken, target>>
      /\ source' = Over(setup.edit, source)
  BY DEF Publish, setting, memory, scan, flush, history
<1>2. \A p \in DOMAIN source' : IsV5Row(source'[p])
  <2>1. \A p \in DOMAIN setup.edit : IsV5Row(setup.edit[p])
    BY SetupAssumption DEF TypeOK
  <2> QED
    BY <1>1, <2>1 DEF Over, Rows, Shapes
<1>3. \A s \in Segment : Transferred(s)' = Transferred(s)
  BY <1>1 DEF Transferred
<1>4. Shapes'
  BY <1>1, <1>2 DEF Rows, Shapes, Shape, Logged, Ready
<1>5. ASSUME NEW s \in Segment PROVE Cached(s)' /\ Puts(s)' /\ Delivers(s)'
  <2>1. Cached(s) /\ Puts(s) /\ Delivers(s)
    BY DEF Rows
  <2>2. Cached(s)' /\ Puts(s)'
    BY <1>1, <1>3, <2>1 DEF Cached, Puts, IsOf
  <2>3. \A p : Putters(s, p)' = Putters(s, p)
    BY <1>1 DEF Putters
  <2>4. \A p, x : Landed(s, p, x)' = Landed(s, p, x)
    BY <1>1, <1>3 DEF Landed, FromThisRun
  <2>5. \A p, x : Waits(s, p, x)' = Waits(s, p, x)
    BY <1>1 DEF Waits, Turn, Order
  <2> QED
    BY <1>1, <1>3, <2>1, <2>2, <2>3, <2>4, <2>5 DEF Delivers
<1> QED
  BY <1>4, <1>5 DEF Rows

\* And when nothing happens.
LEMMA StutterRows ==
  ASSUME Rows, UNCHANGED vars
  PROVE  Rows'
<1>1. UNCHANGED <<setup, source, stage, result, pipelines, cache, page, buffer, at, log, taken,
                  target>>
  BY DEF vars, tables, setting, memory, scan, flush, history
<1>2. Shapes'
  BY <1>1 DEF Rows, Shapes, Shape, Logged, Ready
<1>3. ASSUME NEW s \in Segment PROVE Cached(s)' /\ Puts(s)' /\ Delivers(s)'
  <2>1. Cached(s) /\ Puts(s) /\ Delivers(s)
    BY DEF Rows
  <2>2. \A t \in Segment : Transferred(t)' = Transferred(t)
    BY <1>1 DEF Transferred
  <2>3. Cached(s)' /\ Puts(s)'
    BY <1>1, <2>1, <2>2 DEF Cached, Puts, IsOf
  <2>4. \A p : Putters(s, p)' = Putters(s, p)
    BY <1>1 DEF Putters
  <2>5. \A p, x : Landed(s, p, x)' = Landed(s, p, x)
    BY <1>1, <2>2 DEF Landed, FromThisRun
  <2>6. \A p, x : Waits(s, p, x)' = Waits(s, p, x)
    BY <1>1 DEF Waits, Turn, Order
  <2> QED
    BY <1>1, <2>1, <2>2, <2>3, <2>4, <2>5, <2>6 DEF Delivers
<1> QED
  BY <1>2, <1>3 DEF Rows

\* Every step keeps it.
LEMMA RowsNext == TypeOK /\ (\A s \in Segment : Position(s)) /\ Rows /\ [Next]_vars => Rows'
<1> SUFFICES ASSUME TypeOK, \A s \in Segment : Position(s), Rows, [Next]_vars
             PROVE  Rows'
  OBVIOUS
<1>1. ASSUME NEW s \in Segment, Work(s) \/ Die(s) PROVE Rows'
  <2>1. Shapes' /\ Cached(s)' /\ Puts(s)' /\ Delivers(s)'
    BY <1>1, ShapesStep, CachedStep, PutsStep, DeliversStep
  <2>2. \A t \in Segment \ {s} : Cached(t)' /\ Puts(t)' /\ Delivers(t)'
    BY <1>1, OthersStep
  <2> QED
    BY <2>1, <2>2 DEF Rows
<1>2. CASE Publish
  BY <1>2, PublishRows
<1>3. CASE Rerun
  <2>1. Anew'
    BY <1>3 DEF Rerun, Anew, Each, tables, Rows, Shapes
  <2> QED
    BY <2>1, AnewRows, PTL
<1>4. CASE Finished \/ UNCHANGED vars
  BY <1>4, StutterRows DEF Finished
<1> QED
  BY <1>1, <1>2, <1>3, <1>4 DEF Next

\* The invariant of the rows always holds.
LEMMA RowsAlways == Spec => []Rows
<1>1. Init => Rows
  <2> SUFFICES ASSUME Init PROVE Rows
    OBVIOUS
  <2>1. Anew
    BY SetupAssumption DEF Init, Anew
  <2> QED
    BY <2>1, AnewRows
<1> QED
  BY <1>1, RowsNext, TypeCorrect, PositionAlways, PTL DEF Spec

\* addLiveField and its cache: for any number of workers, any setup and any editor, the
\* records of an entry that a worker has transferred say the same of what is published.
THEOREM SiblingsAlwaysAgree == Spec => []SiblingsAgree
<1>1. Rows => SiblingsAgree
  <2> SUFFICES ASSUME NEW s \in Segment, Cached(s), NEW p \in Transferred(s),
                      NEW q \in Transferred(s), log[s][p].row.pk = log[s][q].row.pk,
                      "live" \in Attrs(log[s][p].out), "live" \in Attrs(log[s][q].out)
               PROVE  log[s][p].out.attrs.live = log[s][q].out.attrs.live
    BY DEF SiblingsAgree, Rows
  <2> QED
    BY DEF Cached
<1> QED
  BY <1>1, RowsAlways, PTL

\* The flushes of runShard, the shard's commands and the processors: a worker that
\* succeeds has each row it transferred in the tables of its pipeline's processors, and
\* what is under the row's key comes from this run.
THEOREM RowsArrive == Spec => []EveryRowArrives
<1>1. Rows /\ (\A s \in Segment : Position(s)) => EveryRowArrives
  <2> SUFFICES ASSUME NEW s \in Segment, Delivers(s), Position(s), result[s] = "ok",
                      NEW p \in Transferred(s), NEW x \in Putters(s, p)
               PROVE  Landed(s, p, x)
    BY DEF EveryRowArrives, Rows, Landed
  <2>1. stage[s] \notin {"scanning", "flushing"}
    BY DEF Position, Early, Going
  <2> QED
    BY <2>1 DEF Delivers, Waits
<1> QED
  BY <1>1, RowsAlways, PositionAlways, PTL

-----------------------------------------------------------------------------
(* Entries *)

\* Of an entry of the log: it is one of those that ConvertedOrWarned speaks of.
IsEntry(e) ==
  e.disposition = "transferred" /\ e.pipeline = "CmsEntries"
    /\ {"modelId", "values"} \subseteq Attrs(e.row)

\* Each of its rich texts is rendered, moved or warned of, or its model was warned of.
Settles(e, fields, warnings) ==
  LET model == e.row.attrs.modelId
  IN IF model \in DOMAIN fields THEN TextsKept(e.row, fields[model], e.out.attrs.values, warnings)
     ELSE <<"model", model>> \in warnings \/ model \in InternalModels

\* What a worker has of its entries; it has none before it has its models.
Texts(s) == \A p \in DOMAIN log[s] : IsEntry(log[s][p]) => Settles(log[s][p], models[s], warned[s])

Entries ==
  /\ DOMAIN models = Segment /\ DOMAIN warned = Segment
  /\ KeepsValues(setup) => \A s \in Segment : Texts(s)

\* A worker's entries stay settled when it logs another, settled, and warns of more.
LEMMA TextsStay ==
  ASSUME NEW s, Texts(s), models'[s] = models[s], warned[s] \subseteq warned'[s],
         \A p \in DOMAIN log'[s] :
           \/ p \in DOMAIN log[s] /\ log'[s][p] = log[s][p]
           \/ IsEntry(log'[s][p]) => Settles(log'[s][p], models'[s], warned'[s])
  PROVE  Texts(s)'
<1> SUFFICES ASSUME NEW p \in DOMAIN log'[s], IsEntry(log'[s][p])
             PROVE  Settles(log'[s][p], models'[s], warned'[s])
  BY DEF Texts
<1>1. CASE p \in DOMAIN log[s] /\ log'[s][p] = log[s][p]
  <2>1. Settles(log[s][p], models[s], warned[s])
    BY <1>1 DEF Texts
  <2> DEFINE e == log[s][p]
             fields == models[s][e.row.attrs.modelId]
             values == e.out.attrs.values
  <2>2. ASSUME TextsKept(e.row, fields, values, warned[s])
        PROVE  TextsKept(e.row, fields, values, warned'[s])
    BY <2>2 DEF TextsKept, RenderedOrWarned
  <2> QED
    BY <1>1, <2>1, <2>2 DEF Settles
<1> QED
  BY <1>1

\* What ConvertRow logs of an entry is settled.
LEMMA EntryLogged ==
  ASSUME TypeOK, Rows, KeepsValues(setup), NEW s \in Segment, NEW reads, ConvertRow(s, reads),
         DOMAIN warned = Segment,
         NEW e, IsEntry(e), log' = [log EXCEPT ![s] = Over([q \in {NextPos(s)} |-> e], @)]
  PROVE  Settles(e, models[s], warned'[s])
<1> DEFINE p == NextPos(s)
           from == page[s][p]
           row == Scanned(Scanner(s), from)
           n == Claim(pipelines[s], row)
           pipeline == pipelines[s][n]
           env == Env(s, p, reads)
           ctx == Converted(pipeline, row, env, cache[s], warned[s], setup.config)
           entry == [row |-> row, pipeline |-> pipeline.name,
                     disposition |-> IF pipeline.blackhole THEN "blackholed" ELSE "transferred",
                     out |-> ctx.record]
<1>1. /\ stage[s] = "scanning" /\ page[s] # << >> /\ n # 0
      /\ Yields(Scanner(s), from)
      /\ warned' = [warned EXCEPT ![s] = ctx.warned]
      /\ log' = [log EXCEPT ![s] = Over([q \in {p} |-> entry], @)]
  BY DEF ConvertRow, Record
<1>2. p \in DOMAIN page[s] /\ DOMAIN log = Segment
  BY <1>1, NextPosHeld DEF Rows, Shapes
<1>3. IsV5Row(from) /\ IsV5Row(row) /\ row.in = from.in
  BY <1>2, ScannedRow DEF Rows, Shapes, Shape
<1>4. e = entry
  <2> HIDE DEF entry, p
  <2>1. /\ log'[s] = Over([q \in {p} |-> entry], log[s])
        /\ log'[s] = Over([q \in {p} |-> e], log[s])
    BY <1>1, <1>2 DEF p
  <2>2. Over([q \in {p} |-> entry], log[s])[p] = entry /\ Over([q \in {p} |-> e], log[s])[p] = e
    BY DEF Over
  <2> QED
    BY <2>1, <2>2
<1>5. Ready(s) /\ setup \in Setups
  BY <1>1 DEF Rows, Shapes, Shape, Going, TypeOK
<1>6. IsPipelines(pipelines[s])
  BY <1>5, SetupGives, AssembledPipelines DEF Ready
<1>7. env.models = models[s]
  BY DEF Env
<1> HIDE DEF row, env, from
<1>8. n \in DOMAIN pipelines[s]
  BY <1>1, <1>6, ClaimIs
<1> HIDE DEF n
<1>9. e.row = row /\ e.out = ctx.record /\ pipeline.name = "CmsEntries"
      /\ {"modelId", "values"} \subseteq Attrs(row)
  BY <1>4 DEF IsEntry
<1>10. PICK j : /\ EntryTransformers(pipeline.transformers, j)
                /\ \/ pipeline.transformers[1] = "wrapInData"
                   \/ \A k \in DOMAIN pipelines[s] : pipelines[s][k].scanner = "OsScanner"
  <2>1. /\ GivesPipelines(setup) /\ Assembles(setup) /\ setup.asked \in DOMAIN builtIn(setup.config)
        /\ \A c \in ToSet(setup.customizers) : "CmsEntries" \in c.uses =>
             ToSet(c.transformers) \intersect Moving = {}
    BY <1>5, SetupGives DEF Ready, KeepsValues, Moving
  <2>2. pipelines[s] = Assembled(setup)
    BY <1>5 DEF Ready
  <2> QED
    BY <1>8, <1>9, <2>1, <2>2, AssembledEntries
<1>11. row.in = "data" \/ pipeline.transformers[1] = "wrapInData"
  <2>1. SUFFICES ASSUME \A k \in DOMAIN pipelines[s] : pipelines[s][k].scanner = "OsScanner"
                 PROVE  row.in = "data"
    BY <1>10
  <2>2. 1 \in DOMAIN pipelines[s]
    <3>1. PICK m \in Nat : DOMAIN pipelines[s] = 1..m
      BY <1>6 DEF IsPipelines
    <3> QED
      BY <1>8, <3>1
  <2>3. Scanner(s) = "OsScanner"
    BY <2>1, <2>2 DEF Scanner
  <2> QED
    BY <1>1, <1>3, <2>3 DEF Yields, IsV5Row
<1>12. pipeline.processors \in Seq(Processors)
  BY <1>6, <1>8 DEF IsPipelines, IsPipeline
<1>13. IsRecord(row) /\ IsValues(row.attrs.values)
  BY <1>3, <1>9 DEF IsV5Row
<1> HIDE DEF pipeline
<1>14. Settled(ctx, row, models[s])
  BY <1>7, <1>9, <1>10, <1>11, <1>12, <1>13, EntryIsSettled
<1>15. warned'[s] = ctx.warned
  BY <1>1
<1> HIDE DEF ctx
<1> QED
  BY <1>9, <1>14, <1>15 DEF Settles, Settled, Past

\* A conversion takes no warning back.
LEMMA WarningsStay ==
  ASSUME TypeOK, Rows, NEW s \in Segment, NEW reads, ConvertRow(s, reads), DOMAIN warned = Segment
  PROVE  warned[s] \subseteq warned'[s]
<1> DEFINE row == Scanned(Scanner(s), page[s][NextPos(s)])
           pipeline == pipelines[s][Claim(pipelines[s], row)]
           ctx == Converted(pipeline, row, Env(s, NextPos(s), reads), cache[s], warned[s], setup.config)
<1>1. /\ stage[s] = "scanning" /\ page[s] # << >> /\ Claim(pipelines[s], row) # 0
      /\ warned' = [warned EXCEPT ![s] = ctx.warned]
  BY DEF ConvertRow
<1>2. IsRecord(row)
  BY <1>1, NextPosHeld, ScannedRow DEF Rows, Shapes, Shape, IsV5Row
<1>3. Ready(s) /\ setup \in Setups
  BY <1>1 DEF Rows, Shapes, Shape, Going, TypeOK
<1>4. IsPipelines(pipelines[s])
  BY <1>3, SetupGives, AssembledPipelines DEF Ready
<1> HIDE DEF row
<1>5. IsPipeline(pipeline)
  BY <1>1, <1>4, ClaimIs DEF IsPipelines
<1> HIDE DEF pipeline
<1>6. warned[s] \subseteq ctx.warned
  BY <1>2, <1>5, ConvertedRow DEF IsPipeline
<1> HIDE DEF ctx
<1> QED
  BY <1>1, <1>6

\* What a step leaves of models and warnings: those of the other workers, and of its own
\* worker's the warnings, and the models unless there is no entry.
Remembers(s) ==
  /\ DOMAIN models' = Segment /\ DOMAIN warned' = Segment
  /\ \A t \in Segment \ {s} : models'[t] = models[t] /\ warned'[t] = warned[t]
  /\ warned[s] \subseteq warned'[s]
  /\ models'[s] = models[s] \/ DOMAIN log'[s] = {}

\* No step of a worker, and not its death, makes it forget.
LEMMA RemembersStep ==
  ASSUME TypeOK, Rows, DOMAIN models = Segment, DOMAIN warned = Segment, NEW s \in Segment,
         Work(s) \/ Die(s)
  PROVE  Remembers(s)
<1> USE DEF setting, memory, Remembers
<1>1. CASE LoadPreset(s)
  <2>1. /\ models' = models
        /\ \/ warned' = warned
           \/ \E w : warned' = [warned EXCEPT ![s] = @ \union w]
    BY <1>1 DEF LoadPreset
  <2> QED
    BY <2>1
<1>2. CASE Preload(s)
  <2>1. PICK failed : /\ models' = [models EXCEPT ![s] = preloadModels(source, setup.json, failed)]
                      /\ warned' = [warned EXCEPT ![s] = @ \union failed]
    BY <1>2 DEF Preload
  <2>2. stage[s] = "loaded" /\ log' = log
    BY <1>2 DEF Preload
  <2>3. DOMAIN log'[s] = {}
    BY <2>2 DEF Rows, Shapes, Logged
  <2> QED
    BY <2>1, <2>3
<1>3. ASSUME NEW reads, ConvertRow(s, reads) PROVE Remembers(s)
  <2>1. models' = models /\ \E w : warned' = [warned EXCEPT ![s] = w]
    BY <1>3 DEF ConvertRow
  <2>2. warned[s] \subseteq warned'[s]
    BY <1>3, WarningsStay
  <2> QED
    BY <2>1, <2>2
<1>4. CASE FlushDone(s)
  <2>1. models' = models /\ \E w : warned' = [warned EXCEPT ![s] = @ \union w]
    BY <1>4 DEF FlushDone
  <2> QED
    BY <2>1
<1>5. CASE \/ ReadPage(s) \/ ScanFails(s) \/ SkipRow(s) \/ DropRow(s) \/ RowThrows(s)
           \/ Execute(s) \/ ExecuteFails(s) \/ EndScan(s) \/ Close(s) \/ Die(s)
  <2>1. UNCHANGED <<models, warned>>
    BY <1>5 DEF ReadPage, ScanFails, SkipRow, DropRow, RowThrows, Execute, ExecuteFails, EndScan,
                Close, Die
  <2> QED
    BY <2>1
<1> QED
  BY <1>1, <1>2, <1>3, <1>4, <1>5 DEF Work

\* What a step logs of an entry is settled.
LEMMA LogsStep ==
  ASSUME TypeOK, Rows, Entries, KeepsValues(setup), NEW s \in Segment, Position(s),
         Work(s) \/ Die(s), NEW p \in DOMAIN log'[s]
  PROVE  \/ p \in DOMAIN log[s] /\ log'[s][p] = log[s][p]
         \/ IsEntry(log'[s][p]) => Settles(log'[s][p], models'[s], warned'[s])
<1> DEFINE n == NextPos(s)
           row == Scanned(Scanner(s), page[s][n])
           New(e) == log' = [log EXCEPT ![s] = Over([q \in {n} |-> e], @)]
<1>0. DOMAIN log = Segment /\ DOMAIN warned = Segment
  BY DEF Rows, Shapes, Entries
<1>1. ASSUME NEW e, New(e)
      PROVE  (p \in DOMAIN log[s] /\ log'[s][p] = log[s][p]) \/ log'[s][p] = e
  <2> HIDE DEF n
  <2>1. log'[s] = Over([q \in {n} |-> e], log[s])
    BY <1>0, <1>1
  <2> QED
    BY <2>1 DEF Over
<1>2. ASSUME NEW reads, ConvertRow(s, reads)
      PROVE  \/ p \in DOMAIN log[s] /\ log'[s][p] = log[s][p]
             \/ IsEntry(log'[s][p]) => Settles(log'[s][p], models'[s], warned'[s])
  <2>1. models' = models /\ \E e : New(e)
    BY <1>2 DEF ConvertRow, Record, setting
  <2>2. PICK e : New(e)
    BY <2>1
  <2>3. IsEntry(e) => Settles(e, models[s], warned'[s])
    BY <1>0, <1>2, <2>2, EntryLogged
  <2> HIDE DEF New
  <2> QED
    BY <1>1, <2>1, <2>2, <2>3
<1>3. CASE DropRow(s)
  <2> DEFINE e == [row |-> row, pipeline |-> "none", disposition |-> "unmatched", out |-> row]
  <2>1. New(e)
    BY <1>3 DEF DropRow, Record
  <2>2. ~ IsEntry(e)
    BY DEF IsEntry
  <2> HIDE DEF New, e
  <2> QED
    BY <1>1, <2>1, <2>2
<1>4. CASE RowThrows(s)
  <2> DEFINE e == [row |-> row, pipeline |-> pipelines[s][Claim(pipelines[s], row)].name,
                   disposition |-> "threw", out |-> row]
  <2>1. New(e)
    BY <1>4 DEF RowThrows, Record
  <2>2. ~ IsEntry(e)
    BY DEF IsEntry
  <2> HIDE DEF New, e
  <2> QED
    BY <1>1, <2>1, <2>2
<1>5. CASE \/ LoadPreset(s) \/ Preload(s) \/ ReadPage(s) \/ ScanFails(s) \/ SkipRow(s)
           \/ Execute(s) \/ ExecuteFails(s) \/ FlushDone(s) \/ EndScan(s) \/ Close(s) \/ Die(s)
  <2>1. log' = log
    BY <1>5 DEF LoadPreset, Preload, ReadPage, ScanFails, SkipRow, Execute, ExecuteFails, FlushDone,
                EndScan, Close, Die, history
  <2> QED
    BY <2>1
<1> QED
  BY <1>2, <1>3, <1>4, <1>5 DEF Work

\* Every step keeps the entries settled.
LEMMA EntriesNext ==
  TypeOK /\ (\A s \in Segment : Position(s)) /\ Rows /\ Entries /\ [Next]_vars => Entries'
<1> SUFFICES ASSUME TypeOK, \A s \in Segment : Position(s), Rows, Entries, [Next]_vars
             PROVE  Entries'
  OBVIOUS
<1>0. DOMAIN models = Segment /\ DOMAIN warned = Segment
      /\ (KeepsValues(setup) => \A t \in Segment : Texts(t))
  BY DEF Entries
<1>1. ASSUME NEW s \in Segment, Work(s) \/ Die(s) PROVE Entries'
  <2>1. Remembers(s)
    BY <1>0, <1>1, RemembersStep
  <2>2. setup' = setup /\ \A t \in Segment \ {s} : log'[t] = log[t]
    BY <1>1, OthersRows
  <2>3. ASSUME KeepsValues(setup), NEW t \in Segment PROVE Texts(t)'
    <3>1. CASE t # s
      <4>1. Texts(t) /\ models'[t] = models[t] /\ warned'[t] = warned[t] /\ log'[t] = log[t]
        BY <1>0, <2>1, <2>2, <2>3, <3>1 DEF Remembers
      <4> QED
        BY <4>1, TextsStay
    <3>2. CASE t = s /\ models'[s] = models[s]
      <4>1. Texts(s) /\ warned[s] \subseteq warned'[s]
        BY <1>0, <2>1, <2>3 DEF Remembers
      <4>2. \A p \in DOMAIN log'[s] :
              \/ p \in DOMAIN log[s] /\ log'[s][p] = log[s][p]
              \/ IsEntry(log'[s][p]) => Settles(log'[s][p], models'[s], warned'[s])
        BY <1>1, <2>3, LogsStep
      <4> QED
        BY <3>2, <4>1, <4>2, TextsStay
    <3>3. CASE t = s /\ DOMAIN log'[s] = {}
      BY <3>3 DEF Texts
    <3> QED
      BY <2>1, <3>1, <3>2, <3>3 DEF Remembers
  <2> QED
    BY <2>1, <2>2, <2>3 DEF Entries, Remembers, KeepsValues
<1>2. CASE Publish \/ Finished \/ UNCHANGED vars
  <2>1. UNCHANGED <<setup, log, models, warned>>
    BY <1>2 DEF Publish, Finished, vars, setting, memory, history
  <2> QED
    BY <1>0, <2>1 DEF Entries, Texts, KeepsValues
<1>3. CASE Rerun
  <2>1. \A t \in Segment : DOMAIN log'[t] = {}
    <3>1. \A t \in Segment : log'[t] = << >>
      BY <1>3 DEF Rerun, Each
    <3>2. DOMAIN << >> = {}
      OBVIOUS
    <3> QED
      BY <3>1, <3>2
  <2>2. DOMAIN models' = Segment /\ DOMAIN warned' = Segment
    BY <1>3 DEF Rerun, Each
  <2> QED
    BY <2>1, <2>2 DEF Entries, Texts
<1> QED
  BY <1>1, <1>2, <1>3 DEF Next

\* transformRichText with what comes before and after it: for any models, any values and
\* any customizers that leave values where they are, each rich text with a root of an entry
\* that was transferred is still there, at its place and then rendered or warned of, or
\* where fixBrokenStorageKeys has moved it; or the entry's model was warned of.
THEOREM EntriesAreConverted == Spec => []ConvertedOrWarned
<1>1. Init => Entries
  <2> SUFFICES ASSUME Init PROVE Entries
    OBVIOUS
  <2>1. \A t \in Segment : DOMAIN log[t] = {}
    <3>1. \A t \in Segment : log[t] = << >>
      BY DEF Init, Each
    <3>2. DOMAIN << >> = {}
      OBVIOUS
    <3> QED
      BY <3>1, <3>2
  <2>2. DOMAIN models = Segment /\ DOMAIN warned = Segment
    BY DEF Init, Each
  <2> QED
    BY <2>1, <2>2 DEF Entries, Texts
<1>2. Entries => ConvertedOrWarned
  BY DEF Entries, Texts, IsEntry, Settles, TextsKept, ConvertedOrWarned, Transferred
<1> QED
  BY <1>1, <1>2, EntriesNext, TypeCorrect, PositionAlways, RowsAlways, PTL DEF Spec

-----------------------------------------------------------------------------
(* What became of a row *)

\* What ConvertRow makes of the next row of a page.
RowOf(s) == Scanned(Scanner(s), page[s][NextPos(s)])

PipelineOf(s) == pipelines[s][Claim(pipelines[s], RowOf(s))]

Made(s, reads) ==
  Converted(PipelineOf(s), RowOf(s), Env(s, NextPos(s), reads), cache[s], warned[s], setup.config)

\* An entry of the log that a step makes of a row that is transferred.
Enters(s, p, e) ==
  \E reads \in BOOLEAN :
    /\ ConvertRow(s, reads) /\ p = NextPos(s)
    /\ e = [row |-> RowOf(s), pipeline |-> PipelineOf(s).name, disposition |-> "transferred",
            out |-> Made(s, reads).record]
    /\ ~ PipelineOf(s).blackhole

\* What a step does to the log of its worker.
LEMMA LogGrows ==
  ASSUME DOMAIN log = Segment, NEW s \in Segment, Work(s) \/ Die(s), NEW p \in DOMAIN log'[s]
  PROVE  \/ p \in DOMAIN log[s] /\ log'[s][p] = log[s][p]
         \/ log'[s][p].disposition # "transferred"
         \/ Enters(s, p, log'[s][p])
<1> DEFINE n == NextPos(s)
           row == RowOf(s)
           New(e) == log' = [log EXCEPT ![s] = Over([q \in {n} |-> e], @)]
<1>1. ASSUME NEW e, New(e)
      PROVE  (p \in DOMAIN log[s] /\ log'[s][p] = log[s][p]) \/ (p = n /\ log'[s][p] = e)
  <2> HIDE DEF n
  <2>1. log'[s] = Over([q \in {n} |-> e], log[s])
    BY <1>1
  <2> QED
    BY <2>1 DEF Over
<1>2. ASSUME NEW reads \in BOOLEAN, ConvertRow(s, reads)
      PROVE  \/ p \in DOMAIN log[s] /\ log'[s][p] = log[s][p]
             \/ log'[s][p].disposition # "transferred"
             \/ Enters(s, p, log'[s][p])
  <2> DEFINE e == [row |-> row, pipeline |-> PipelineOf(s).name,
                   disposition |-> IF PipelineOf(s).blackhole THEN "blackholed" ELSE "transferred",
                   out |-> Made(s, reads).record]
  <2>1. New(e)
    BY <1>2 DEF ConvertRow, Record, RowOf, PipelineOf, Made
  <2>2. \/ e.disposition = "blackholed"
        \/ /\ ~ PipelineOf(s).blackhole
           /\ e = [row |-> RowOf(s), pipeline |-> PipelineOf(s).name, disposition |-> "transferred",
                   out |-> Made(s, reads).record]
    OBVIOUS
  <2> HIDE DEF New, e
  <2>3. (p \in DOMAIN log[s] /\ log'[s][p] = log[s][p]) \/ (p = n /\ log'[s][p] = e)
    BY <1>1, <2>1
  <2>4. CASE e.disposition = "blackholed"
    BY <2>3, <2>4
  <2>5. CASE /\ ~ PipelineOf(s).blackhole
             /\ e = [row |-> RowOf(s), pipeline |-> PipelineOf(s).name,
                     disposition |-> "transferred", out |-> Made(s, reads).record]
    BY <1>2, <2>3, <2>5 DEF Enters
  <2> QED
    BY <2>2, <2>4, <2>5
<1>3. CASE DropRow(s)
  <2> DEFINE e == [row |-> row, pipeline |-> "none", disposition |-> "unmatched", out |-> row]
  <2>1. New(e)
    BY <1>3 DEF DropRow, Record, RowOf
  <2>2. e.disposition # "transferred"
    OBVIOUS
  <2> HIDE DEF New, e
  <2> QED
    BY <1>1, <2>1, <2>2
<1>4. CASE RowThrows(s)
  <2> DEFINE e == [row |-> row, pipeline |-> PipelineOf(s).name, disposition |-> "threw", out |-> row]
  <2>1. New(e)
    BY <1>4 DEF RowThrows, Record, RowOf, PipelineOf
  <2>2. e.disposition # "transferred"
    OBVIOUS
  <2> HIDE DEF New, e
  <2> QED
    BY <1>1, <2>1, <2>2
<1>5. CASE \/ LoadPreset(s) \/ Preload(s) \/ ReadPage(s) \/ ScanFails(s) \/ SkipRow(s)
           \/ Execute(s) \/ ExecuteFails(s) \/ FlushDone(s) \/ EndScan(s) \/ Close(s) \/ Die(s)
  <2>1. log' = log
    BY <1>5 DEF LoadPreset, Preload, ReadPage, ScanFails, SkipRow, Execute, ExecuteFails, FlushDone,
                EndScan, Close, Die, history
  <2> QED
    BY <2>1
<1> QED
  BY <1>2, <1>3, <1>4, <1>5 DEF Work

-----------------------------------------------------------------------------
(* Places *)

\* The rows of the source table, and of the pages, are those that the run was given.
Given ==
  /\ runs \in 1..setup.runs
  /\ \A p \in DOMAIN source : source[p] \in V5Rows(setup)
  /\ \A s \in Segment : \A p \in DOMAIN page[s] : page[s][p] \in V5Rows(setup)

\* A transferred row is where it belongs.
AtPlace(p, e) ==
  e.disposition = "transferred" =>
    /\ IsKey(e.row.pk) /\ e.row.pk.space \notin {"KV", "ROLE", "AUDIT_LOG"}
    /\ Placed(e.row, e.out, Fresh(runs, p))
    /\ Stays(e.row, e.out) \/ e.row \in V5Rows(setup)

Places == Given /\ (KeepsKeys(setup) => \A s \in Segment : \A p \in DOMAIN log[s] : AtPlace(p, log[s][p]))

\* Decompression changes no key.
LEMMA ScannedKeys ==
  ASSUME NEW scanner, NEW r, IsV5Row(r)
  PROVE  /\ Scanned(scanner, r).pk = r.pk
         /\ scanner = "DdbScanner" => Scanned(scanner, r) = r
BY ScannedRow DEF Scanned

\* What ConvertRow logs of a row that is transferred is where it belongs.
LEMMA EntersPlace ==
  ASSUME TypeOK, Rows, Given, KeepsKeys(setup), NEW s \in Segment, NEW p, NEW e, Enters(s, p, e)
  PROVE  AtPlace(p, e)
<1> DEFINE from == page[s][p]
           row == RowOf(s)
           pipeline == PipelineOf(s)
           n == Claim(pipelines[s], row)
<1>1. PICK reads \in BOOLEAN :
        /\ ConvertRow(s, reads) /\ p = NextPos(s)
        /\ e = [row |-> row, pipeline |-> pipeline.name, disposition |-> "transferred",
                out |-> Made(s, reads).record]
  BY DEF Enters
<1> DEFINE env == Env(s, p, reads)
           ctx == Made(s, reads)
<1>2. stage[s] = "scanning" /\ page[s] # << >> /\ n # 0
  BY <1>1 DEF ConvertRow, RowOf
<1>3. p \in DOMAIN page[s]
  BY <1>1, <1>2, NextPosHeld
<1>4. IsV5Row(from) /\ from \in V5Rows(setup)
  BY <1>3 DEF Rows, Shapes, Shape, Given
<1>5. IsKey(from.pk) /\ from.pk.space \notin {"KV", "ROLE", "AUDIT_LOG"}
  BY <1>4 DEF IsV5Row, KeepsKeys
<1>6. row = Scanned(Scanner(s), from)
  BY <1>1 DEF RowOf
<1>7. /\ IsRecord(row) /\ row.pk = from.pk
      /\ Scanner(s) = "DdbScanner" => row = from
  BY <1>4, <1>6, ScannedRow, ScannedKeys DEF IsV5Row
<1>8. Ready(s) /\ setup \in Setups
  BY <1>2 DEF Rows, Shapes, Shape, Going, TypeOK
<1>9. IsPipelines(pipelines[s])
  BY <1>8, SetupGives, AssembledPipelines DEF Ready
<1>10. pipeline = pipelines[s][n]
  BY DEF PipelineOf
<1>11. ctx = Converted(pipeline, row, env, cache[s], warned[s], setup.config)
       /\ env.fresh = Fresh(runs, p)
  BY <1>1 DEF Made, Env
<1> HIDE DEF env, from, row
<1>12. n \in DOMAIN pipelines[s]
  BY <1>2, <1>9, ClaimIs
<1> HIDE DEF n, pipeline
<1>13. \/ \A i \in DOMAIN pipelines[s] : /\ pipelines[s][i].scanner = "DdbScanner"
                                         /\ Placing(pipelines[s][i].transformers)
       \/ \A i \in DOMAIN pipelines[s] : /\ Placing(pipelines[s][i].transformers)
                                         /\ PlainFrom(pipelines[s][i].transformers, 1)
  <2>1. /\ GivesPipelines(setup) /\ Assembles(setup) /\ setup.asked \in DOMAIN builtIn(setup.config)
        /\ \A c \in ToSet(setup.customizers) : ToSet(c.transformers) \intersect Replacing = {}
    BY <1>8, SetupGives DEF Ready, KeepsKeys
  <2>2. pipelines[s] = Assembled(setup)
    BY <1>8 DEF Ready
  <2> QED
    BY <2>1, <2>2, AssembledForms
<1>14. /\ Placing(pipeline.transformers)
       /\ Scanner(s) = "DdbScanner" \/ PlainFrom(pipeline.transformers, 1)
  <2>1. 1 \in DOMAIN pipelines[s]
    <3>1. PICK m \in Nat : DOMAIN pipelines[s] = 1..m
      BY <1>9 DEF IsPipelines
    <3> QED
      BY <1>12, <3>1
  <2> QED
    BY <1>10, <1>12, <1>13, <2>1 DEF Scanner
<1>15. pipeline.processors \in Seq(Processors)
  BY <1>9, <1>10, <1>12 DEF IsPipelines, IsPipeline
<1>16. /\ Placed(row, ctx.record, env.fresh)
       /\ PlainFrom(pipeline.transformers, 1) => Stays(row, ctx.record)
  <2> HIDE DEF ctx
  <2> QED
    BY <1>7, <1>11, <1>14, <1>15, RowIsPlaced
<1> HIDE DEF ctx
<1>17. e.row = row /\ e.out = ctx.record
  BY <1>1 DEF ctx
<1> QED
  BY <1>4, <1>5, <1>7, <1>11, <1>14, <1>16, <1>17 DEF AtPlace

\* The rows stay those that were given.
LEMMA GivenNext ==
  ASSUME TypeOK, Rows, Given, [Next]_vars
  PROVE  Given' /\ setup' = setup
<1> USE DEF tables, scan
<1>1. ASSUME NEW s \in Segment, Work(s) \/ Die(s) PROVE Given' /\ setup' = setup
  <2>1. UNCHANGED <<setup, runs, source>>
    BY <1>1 DEF Work, LoadPreset, Preload, ReadPage, ScanFails, SkipRow, DropRow, ConvertRow,
                RowThrows, Execute, ExecuteFails, FlushDone, EndScan, Close, Die
  <2>2. \/ page' = page
        \/ \E P \in SUBSET DOMAIN source : page' = [page EXCEPT ![s] = [p \in P |-> source[p]]]
        \/ \E P \in SUBSET DOMAIN page[s] : page' = [page EXCEPT ![s] = [p \in P |-> page[s][p]]]
    <3>1. CASE ReadPage(s)
      <4>1. PICK n : page' = [page EXCEPT ![s] = [p \in FirstOf(Beyond(s), n) |-> source[p]]]
        BY <3>1 DEF ReadPage
      <4>2. FirstOf(Beyond(s), n) \in SUBSET DOMAIN source
        BY DEF FirstOf, Beyond
      <4> HIDE DEF tables, scan
      <4> QED
        BY <4>1, <4>2
    <3>2. ASSUME NEW p, Take(s, p)
          PROVE  \E P \in SUBSET DOMAIN page[s] : page' = [page EXCEPT ![s] = [q \in P |-> page[s][q]]]
      <4> DEFINE P == DOMAIN page[s] \intersect (DOMAIN page[s] \ {p})
      <4>1. page' = [page EXCEPT ![s] = [q \in P |-> page[s][q]]]
        BY <3>2 DEF Take, Restrict, TypeOK
      <4>2. P \in SUBSET DOMAIN page[s]
        OBVIOUS
      <4> HIDE DEF P
      <4> QED
        BY <4>1, <4>2
    <3>3. CASE SkipRow(s) \/ DropRow(s) \/ (\E reads \in BOOLEAN : ConvertRow(s, reads)) \/ RowThrows(s)
      <4>1. \E p : Take(s, p)
        BY <3>3 DEF SkipRow, DropRow, ConvertRow, RowThrows
      <4> QED
        BY <3>2, <4>1
    <3>4. CASE \/ LoadPreset(s) \/ Preload(s) \/ ScanFails(s)
               \/ Execute(s) \/ ExecuteFails(s) \/ FlushDone(s) \/ EndScan(s) \/ Close(s) \/ Die(s)
      BY <3>4 DEF LoadPreset, Preload, ScanFails, Execute, ExecuteFails, FlushDone, EndScan, Close, Die
    <3> QED
      BY <1>1, <3>1, <3>3, <3>4 DEF Work
  <2>3. DOMAIN page = Segment
    BY DEF TypeOK
  <2>4. ASSUME NEW t \in Segment, NEW p \in DOMAIN page'[t] PROVE page'[t][p] \in V5Rows(setup)
    <3>1. \/ p \in DOMAIN page[t] /\ page'[t][p] = page[t][p]
          \/ p \in DOMAIN source /\ page'[t][p] = source[p]
      BY <2>2, <2>3, <2>4
    <3> QED
      BY <3>1 DEF Given
  <2> QED
    BY <2>1, <2>4 DEF Given
<1>2. CASE Publish
  <2>1. /\ UNCHANGED <<setup, runs, page>> /\ source' = Over(setup.edit, source)
    BY <1>2 DEF Publish
  <2>2. ASSUME NEW p \in DOMAIN source' PROVE source'[p] \in V5Rows(setup)
    <3>1. \/ p \in DOMAIN setup.edit /\ source'[p] = setup.edit[p]
          \/ p \in DOMAIN source /\ source'[p] = source[p]
      BY <2>1, <2>2 DEF Over
    <3> QED
      BY <3>1 DEF Given, V5Rows
  <2> QED
    BY <2>1, <2>2 DEF Given
<1>3. CASE Rerun
  <2>1. /\ setup' = setup /\ source' = source /\ runs' = runs + 1 /\ runs < setup.runs
        /\ \A t \in Segment : page'[t] = << >>
    BY <1>3 DEF Rerun, Each
  <2>2. DOMAIN << >> = {}
    OBVIOUS
  <2>3. setup.runs \in Nat
    BY SetupAssumption DEF TypeOK
  <2>4. runs' \in 1..setup'.runs
    BY <2>1, <2>3 DEF Given
  <2> QED
    BY <2>1, <2>2, <2>4 DEF Given
<1>4. CASE Finished \/ UNCHANGED vars
  <2>1. UNCHANGED <<setup, runs, source, page>>
    BY <1>4 DEF Finished, vars
  <2> QED
    BY <2>1 DEF Given
<1> QED
  BY <1>1, <1>2, <1>3, <1>4 DEF Next

\* Every step keeps the rows where they belong.
LEMMA PlacesNext ==
  TypeOK /\ (\A s \in Segment : Position(s)) /\ Rows /\ Places /\ [Next]_vars => Places'
<1> SUFFICES ASSUME TypeOK, \A s \in Segment : Position(s), Rows, Places, [Next]_vars PROVE Places'
  OBVIOUS
<1>0. Given /\ Given' /\ setup' = setup /\ DOMAIN log = Segment
  BY GivenNext DEF Places, Rows, Shapes
<1>1. ASSUME NEW s \in Segment, Work(s) \/ Die(s) PROVE Places'
  <2>1. runs' = runs /\ \A t \in Segment \ {s} : log'[t] = log[t]
    <3>1. \A t \in Segment \ {s} : log'[t] = log[t]
      BY <1>1, OthersRows
    <3>2. runs' = runs
      BY <1>1 DEF Work, LoadPreset, Preload, ReadPage, ScanFails, SkipRow, DropRow, ConvertRow,
                  RowThrows, Execute, ExecuteFails, FlushDone, EndScan, Close, Die
    <3> QED
      BY <3>1, <3>2
  <2>2. ASSUME KeepsKeys(setup), NEW t \in Segment, NEW p \in DOMAIN log'[t]
        PROVE  AtPlace(p, log'[t][p])
    <3>1. CASE p \in DOMAIN log[t] /\ log'[t][p] = log[t][p]
      BY <2>2, <3>1 DEF Places
    <3>2. CASE ~ (p \in DOMAIN log[t] /\ log'[t][p] = log[t][p])
      <4>1. t = s
        BY <2>1, <2>2, <3>2
      <4>2. log'[s][p].disposition # "transferred" \/ Enters(s, p, log'[s][p])
        BY <1>0, <1>1, <2>2, <3>2, <4>1, LogGrows
      <4>3. ASSUME log'[s][p].disposition # "transferred" PROVE AtPlace(p, log'[s][p])
        BY <4>3 DEF AtPlace
      <4>4. ASSUME Enters(s, p, log'[s][p]) PROVE AtPlace(p, log'[s][p])
        BY <1>0, <2>2, <4>4, EntersPlace
      <4> QED
        BY <4>1, <4>2, <4>3, <4>4
    <3> QED
      BY <3>1, <3>2
  <2>3. ASSUME KeepsKeys(setup), NEW t \in Segment, NEW p \in DOMAIN log'[t]
        PROVE  AtPlace(p, log[t][p])'
    BY <1>0, <2>1, <2>2, <2>3 DEF AtPlace
  <2> QED
    BY <1>0, <2>3 DEF Places
<1>2. CASE Publish \/ Finished \/ UNCHANGED vars
  <2>1. UNCHANGED <<log, runs>>
    BY <1>2 DEF Publish, Finished, vars, history
  <2> QED
    BY <1>0, <2>1 DEF Places, AtPlace
<1>3. CASE Rerun
  <2>1. \A t \in Segment : DOMAIN log'[t] = {}
    <3>1. \A t \in Segment : log'[t] = << >>
      BY <1>3 DEF Rerun, Each
    <3>2. DOMAIN << >> = {}
      OBVIOUS
    <3> QED
      BY <3>1, <3>2
  <2> QED
    BY <1>0, <2>1 DEF Places
<1> QED
  BY <1>1, <1>2, <1>3 DEF Next

\* At the start.
LEMMA PlacesInit == Init => Places
<1> SUFFICES ASSUME Init PROVE Places
  OBVIOUS
<1>1. \A t \in Segment : DOMAIN log[t] = {} /\ DOMAIN page[t] = {}
  <2>1. \A t \in Segment : log[t] = << >> /\ page[t] = << >>
    BY DEF Init, Each
  <2>2. DOMAIN << >> = {}
    OBVIOUS
  <2> QED
    BY <2>1, <2>2
<1>2. runs \in 1..setup.runs
  <2>1. setup.runs \in Nat \ {0} /\ runs = 1
    BY SetupAssumption DEF Init
  <2> QED
    BY <2>1
<1>3. \A p \in DOMAIN source : source[p] \in V5Rows(setup)
  BY DEF Init, V5Rows
<1> QED
  BY <1>1, <1>2, <1>3 DEF Places, Given

\* And at all times.
LEMMA PlacesAlways == Spec => []Places
BY PlacesInit, PlacesNext, TypeCorrect, PositionAlways, RowsAlways, PTL DEF Spec

\* Rows at one place of the target.
LEMMA PlacesApart ==
  ASSUME TypeOK, \A s \in Segment : Position(s), Rows, Places, KeepsKeys(setup),
         NEW s \in Segment, NEW t \in Segment, NEW p \in Transferred(s), NEW q \in Transferred(t),
         log[s][p].out.pk = log[t][q].out.pk, log[s][p].out.sk = log[t][q].out.sk
  PROVE  SameButLocale(log[s][p].row, log[t][q].row)
<1> DEFINE a == log[s][p].row
           b == log[t][q].row
           x == log[s][p].out
           y == log[t][q].out
           Spaces == {"KV", "ROLE", "AUDIT_LOG"}
<1>1. /\ IsKey(a.pk) /\ a.pk.space \notin Spaces /\ Placed(a, x, Fresh(runs, p))
      /\ Stays(a, x) \/ a \in V5Rows(setup)
      /\ IsKey(b.pk) /\ b.pk.space \notin Spaces /\ Placed(b, y, Fresh(runs, q))
      /\ Stays(b, y) \/ b \in V5Rows(setup)
  BY DEF Places, AtPlace, Transferred
<1>2. x.pk = y.pk /\ x.sk = y.sk
  OBVIOUS
<1>3. ASSUME Stays(a, x), Stays(b, y) PROVE SameButLocale(a, b)
  <2> HIDE DEF a, b, x, y
  <2>1. a.sk = b.sk /\ a.pk.tenant = b.pk.tenant /\ a.pk.id = b.pk.id
    BY <1>1, <1>2, <1>3 DEF Stays
  <2>2. a.pk.space = b.pk.space
    BY <1>1, <1>2, <1>3 DEF Stays
  <2>3. ASSUME NEW k, IsKey(k), NEW l, IsKey(l), k.space = l.space, k.tenant = l.tenant, k.id = l.id
        PROVE  [k EXCEPT !.locale = "", !.twice = FALSE] = [l EXCEPT !.locale = "", !.twice = FALSE]
    BY <2>3 DEF IsKey
  <2> QED
    BY <1>1, <2>1, <2>2, <2>3 DEF SameButLocale
<1>4. ASSUME Stays(a, x) PROVE x.pk.space \notin {"KV", "AUDIT_LOG"}
  BY <1>1, <1>4 DEF Stays
<1>5. ASSUME Stays(b, y) PROVE y.pk.space \notin {"KV", "AUDIT_LOG"}
  BY <1>1, <1>5 DEF Stays
<1>6. CASE x.pk.space = "AUDIT_LOG"
  <2>1. x.sk = Fresh(runs, p) /\ y.sk = Fresh(runs, q)
    BY <1>1, <1>2, <1>4, <1>5, <1>6 DEF Placed
  <2>2. p \in Pos /\ q \in Pos /\ runs \in 1..setup.runs /\ setup \in Setups
    BY DEF Rows, Shapes, Logged, Transferred, Places, Given, TypeOK
  <2>3. p = q
    BY <1>2, <2>1, <2>2, FreshAssumption
  <2>4. taken[s][p] # 0 /\ taken[t][p] # 0
    BY <2>3 DEF Rows, Shapes, Logged, Transferred
  <2>5. SegmentOf[p] = s /\ SegmentOf[p] = t
    BY <2>2, <2>4 DEF Position, TakenOnce
  <2> QED
    BY <2>3, <2>5 DEF SameButLocale
<1>7. CASE x.pk.space = "KV"
  <2>1. PICK f \in {"isFmSettings", "isMailerSettings"} :
          Passes(f, a) /\ x.pk.tenant = TenantOf(wrapInData(a)) /\ x.pk.id = SettingsName(f)
    BY <1>1, <1>4, <1>7 DEF Placed
  <2>2. PICK g \in {"isFmSettings", "isMailerSettings"} :
          Passes(g, b) /\ y.pk.tenant = TenantOf(wrapInData(b)) /\ y.pk.id = SettingsName(g)
    BY <1>1, <1>2, <1>5, <1>7 DEF Placed
  <2>3. f = g
    BY <1>2, <2>1, <2>2 DEF SettingsName
  <2>4. a \in V5Rows(setup) /\ b \in V5Rows(setup)
    BY <1>1, <1>2, <1>4, <1>5, <1>7
  <2> HIDE DEF a, b, x, y
  <2> QED
    BY <1>2, <2>1, <2>2, <2>3, <2>4 DEF KeepsKeys, a, b
<1>8. CASE x.pk.space \notin {"KV", "AUDIT_LOG"}
  <2>1. Stays(a, x) /\ Stays(b, y)
    BY <1>1, <1>2, <1>8 DEF Placed
  <2> QED
    BY <1>3, <2>1
<1> QED
  BY <1>6, <1>7, <1>8

\* KeysStayApart: whatever the tables, the setup, the segments and the rows of an editor
\* are, as far as KeepsKeys asks it of them, rows that go to one place of the target are
\* one row in several locales.  removeLocale and fixCmePk forget no more of a key than
\* that, no other transformer moves a record but those of settings, roles and audit logs,
\* and what these make lies at places that no other row reaches.
THEOREM KeysAlwaysApart == Spec => []KeysStayApart
<1>1. TypeOK /\ (\A s \in Segment : Position(s)) /\ Rows /\ Places => KeysStayApart
  <2> SUFFICES ASSUME TypeOK, \A s \in Segment : Position(s), Rows, Places, KeepsKeys(setup),
                      NEW s \in Segment, NEW t \in Segment, NEW p \in Written(s), NEW q \in Written(t),
                      Destination(log[s][p]) = Destination(log[t][q])
               PROVE  SameButLocale(log[s][p].row, log[t][q].row)
    BY DEF KeysStayApart
  <2>1. p \in Transferred(s) /\ q \in Transferred(t)
    BY DEF Written
  <2>2. log[s][p].out.pk = log[t][q].out.pk /\ log[s][p].out.sk = log[t][q].out.sk
    BY DEF Destination, TargetKey
  <2> QED
    BY <2>1, <2>2, PlacesApart
<1> QED
  BY <1>1, TypeCorrect, PositionAlways, RowsAlways, PlacesAlways, PTL

-----------------------------------------------------------------------------
(* Files *)

\* What became of a row that is a file.
IsFileEntry(e) ==
  e.disposition = "transferred" /\ e.pipeline = "FileManagerFiles" /\ HasFile(e.out)

\* The metadata of a file that the run was given.
IsDescription(r) == \E f \in V5Rows(setup) : HasFile(f) /\ r = Metadata(wrapInData(f))

\* What the processors of a file have to do for it: to put its metadata, to copy its object.
FileProcessors == {"DdbProcessor", "S3Processor"}

Due(out, x) ==
  IF x # "S3Processor" THEN {[record |-> Metadata(out)]}
  ELSE IF "text@key" \in Attrs(out) THEN {[from |-> OldKey(out), to |-> NewKey(out)]} ELSE {}

Provided(x, command) ==
  IF x = "S3Processor" THEN command.from \in setup.objects => command.to \in bucket
  ELSE TargetKey("main", command.record) \in DOMAIN target

Pends(s, x, command) ==
  /\ stage[s] \in {"scanning", "flushing"}
  /\ command \in ToSet(buffer[s][Claimed(x)])
  /\ Turn(s, x)

\* The metadata in the target, and those to be put there, are of files of this run.
DescriptionsStored ==
  \A key \in DOMAIN target : key.table = "main" /\ IsMetadata(key) =>
    target[key].pk = key.pk /\ IsDescription(target[key])

Describing(s) ==
  \A put \in ToSet(buffer[s]["PUT_RECORD"]) : IsMetadata(put.record) => IsDescription(put.record)

\* A file became the same file.
KnowsFiles(s) ==
  \A p \in DOMAIN log[s] : IsFileEntry(log[s][p]) => IsDescription(Metadata(log[s][p].out))

\* What is due to a file is provided, or the worker is still to do it.
FilesDue(s) ==
  result[s] \notin {"failed", "died"} =>
    \A p \in DOMAIN log[s] : IsFileEntry(log[s][p]) =>
      \A x \in FileProcessors : \A command \in Due(log[s][p].out, x) :
        Provided(x, command) \/ Pends(s, x, command)

FilesOf(s) == Describing(s) /\ KnowsFiles(s) /\ FilesDue(s)

FilesKept == DescriptionsStored /\ \A s \in Segment : FilesOf(s)

Files == KeepsFiles(setup) => FilesKept

\* Where metadata are put, and what object they name.
LEMMA MetadataIs ==
  ASSUME NEW r
  PROVE  LET m == Metadata(r)
         IN /\ m.pk = Key("KV", "global", "", r.attrs.id.id) /\ m.sk = "A" /\ IsMetadata(m)
            /\ m.attrs.value.bucketKey = NewKey(r)
<1> DEFINE value == [bucketKey |-> NewKey(r), id |-> r.attrs.id.id, tenant |-> TenantOf(r)]
           m == KeyValue("global", r.attrs.id.id, value)
<1>1. value.bucketKey = NewKey(r)
  OBVIOUS
<1> HIDE DEF value
<1>2. m.pk = Key("KV", "global", "", r.attrs.id.id) /\ m.sk = "A"
  BY DEF KeyValue, NewRecord
<1>3. m.attrs.value = value
  BY KeyValueIs
<1> DEFINE k == Key("KV", "global", "", r.attrs.id.id)
<1>4. k.space = "KV" /\ k.tenant = "global"
  BY DEF Key
<1> HIDE DEF k, m
<1>5. IsMetadata(m)
  BY <1>2, <1>4 DEF IsMetadata, k
<1>6. Metadata(r) = m
  BY DEF Metadata, m, value
<1> QED
  BY <1>1, <1>2, <1>3, <1>5, <1>6 DEF m

\* Rows of one file have one key of metadata.
LEMMA MetadataKeys ==
  ASSUME NEW a, NEW b, Metadata(a).pk = Metadata(b).pk
  PROVE  a.attrs.id.id = b.attrs.id.id
<1> DEFINE k(id) == Key("KV", "global", "", id)
<1>1. \A id : k(id).id = id
  BY DEF Key
<1> HIDE DEF k
<1>2. k(a.attrs.id.id) = k(b.attrs.id.id)
  BY MetadataIs DEF k
<1> QED
  BY <1>1, <1>2

\* What a row that is transferred has put, and what it is due when it is a file.
LEMMA FileMade ==
  ASSUME TypeOK, Rows, Given, KeepsFiles(setup), NEW s \in Segment, NEW reads \in BOOLEAN,
         ConvertRow(s, reads), ~ PipelineOf(s).blackhole
  PROVE  LET d == Made(s, reads)
         IN /\ IsCommands(d.commands)
            /\ \A put \in ToSet(d.commands["PUT_RECORD"]) :
                 IsMetadata(put.record) => IsDescription(put.record)
            /\ PipelineOf(s).name = "FileManagerFiles" /\ HasFile(d.record) =>
                 /\ IsDescription(Metadata(d.record))
                 /\ \A x \in FileProcessors : /\ Due(d.record, x) \subseteq ToSet(d.commands[Claimed(x)])
                                              /\ x \in ToSet(Order(s))
<1> DEFINE p == NextPos(s)
           from == page[s][p]
           row == RowOf(s)
           pipeline == PipelineOf(s)
           n == Claim(pipelines[s], row)
           env == Env(s, p, reads)
           d == Made(s, reads)
           w == wrapInData(row)
<1>0. KeepsKeys(setup) /\ setup.asked = "v5-to-v6-ddb"
  BY DEF KeepsFiles
<1>1. stage[s] = "scanning" /\ page[s] # << >> /\ n # 0
  BY DEF ConvertRow, RowOf
<1>2. p \in DOMAIN page[s]
  BY <1>1, NextPosHeld
<1>3. IsV5Row(from) /\ from \in V5Rows(setup)
  BY <1>2 DEF Rows, Shapes, Shape, Given
<1>4. row = Scanned(Scanner(s), from)
  BY DEF RowOf
<1>5. Ready(s) /\ setup \in Setups
  BY <1>1 DEF Rows, Shapes, Shape, Going, TypeOK
<1>6. IsPipelines(pipelines[s]) /\ pipelines[s] = Assembled(setup)
  BY <1>5, SetupGives, AssembledPipelines DEF Ready
<1>7. pipeline = pipelines[s][n]
  BY DEF PipelineOf
<1>8. d = Converted(pipeline, row, env, cache[s], warned[s], setup.config)
  BY DEF Made
<1>9. Enters(s, p, [row |-> row, pipeline |-> pipeline.name, disposition |-> "transferred",
                    out |-> d.record])
  BY DEF Enters
<1> HIDE DEF env, from, row, p
<1>10. n \in DOMAIN pipelines[s]
  BY <1>1, <1>6, ClaimIs
<1> HIDE DEF n, pipeline, d
<1>11. IsPipeline(pipeline) /\ 1 \in DOMAIN pipelines[s]
  <2>1. PICK m \in Nat : DOMAIN pipelines[s] = 1..m /\ \A i \in 1..m : IsPipeline(pipelines[s][i])
    BY <1>6 DEF IsPipelines
  <2> QED
    BY <1>7, <1>10, <2>1
<1>12. \A i \in DOMAIN pipelines[s] : pipelines[s][i].scanner = "DdbScanner" /\ FileForm(pipelines[s][i])
  <2>1. GivesPipelines(setup) /\ Assembles(setup)
    BY <1>5, SetupGives DEF Ready
  <2>2. ASSUME NEW c \in ToSet(setup.customizers)
        PROVE  ToSet(c.transformers) \intersect ({"createMetadata"} \union Unfiling) = {}
    <3>1. /\ ToSet(c.transformers) \intersect Replacing = {}
          /\ ToSet(c.transformers) \intersect {"createMetadata", "coreFields", "updateFlpIds"} = {}
      BY <1>0 DEF KeepsKeys, KeepsFiles
    <3> QED
      BY <3>1 DEF Unfiling
  <2>3. LET as == Assembled(setup)
        IN \A i \in DOMAIN as : as[i].scanner = "DdbScanner" /\ FileForm(as[i])
    BY <1>0, <2>1, <2>2, AssembledFiles
  <2> QED
    BY <1>6, <2>3
<1>13. FileForm(pipeline) /\ Scanner(s) = "DdbScanner"
  BY <1>7, <1>10, <1>11, <1>12 DEF Scanner
<1>14. row = from /\ IsRecord(row)
  BY <1>3, <1>4, <1>13, ScannedKeys DEF IsV5Row
<1>15. /\ w.in = "data" /\ w.attrs = row.attrs /\ w.type = row.type
       /\ HasFile(w) <=> HasFile(row)
  BY <1>14 DEF wrapInData, IsRecord, HasFile, Attrs
<1>16. pipeline.processors \in Seq(Processors) /\ IsSeq(pipeline.transformers)
  BY <1>11 DEF IsPipeline
<1>17. IsContext(d)
  BY <1>8, <1>14, <1>16, ConvertedRow
<1>18. ~ IsMetadata(d.record)
  <2>1. AtPlace(p, [row |-> row, pipeline |-> pipeline.name, disposition |-> "transferred",
                    out |-> d.record])
    BY <1>0, <1>9, EntersPlace
  <2>2. /\ IsKey(row.pk) /\ row.pk.space \notin {"KV", "ROLE", "AUDIT_LOG"}
        /\ Placed(row, d.record, Fresh(runs, p))
    BY <2>1 DEF AtPlace
  <2>3. TenantOf(w) # "global"
    BY <1>3, <1>14 DEF KeepsFiles
  <2> QED
    BY <2>2, <2>3 DEF Placed, Stays, IsMetadata
<1>19. HasFile(w) => IsDescription(Metadata(w))
  BY <1>3, <1>14, <1>15 DEF IsDescription
<1>20. CASE pipeline.name # "FileManagerFiles"
  <2>1. "createMetadata" \notin ToSet(pipeline.transformers)
    BY <1>13, <1>20 DEF FileForm
  <2>2. \A put \in ToSet(d.commands["PUT_RECORD"]) : put.record = d.record
    BY <1>8, <1>14, <1>16, <2>1, OthersPutRows
  <2> QED
    BY <1>17, <1>18, <1>20, <2>2 DEF IsContext, d, pipeline
<1>21. CASE pipeline.name = "FileManagerFiles"
  <2>1. FileTransformers(pipeline.transformers) /\ pipeline.processors = <<"DdbProcessor", "S3Processor">>
    BY <1>13, <1>21 DEF FileForm
  <2>2. SameFile(w, d.record) /\ Described(d, w) /\ PutsOnly(d, w)
    BY <1>8, <1>14, <1>16, <2>1, FileIsDescribed
  <2>3. \A put \in ToSet(d.commands["PUT_RECORD"]) :
          IsMetadata(put.record) => IsDescription(put.record)
    BY <1>18, <1>19, <2>2 DEF PutsOnly
  <2>4. FileProcessors \subseteq ToSet(Order(s))
    <3>1. FileProcessors \subseteq ToSet(pipeline.processors)
      BY <2>1 DEF FileProcessors, ToSet
    <3>2. ToSet(pipeline.processors) \subseteq ToSet(Order(s))
      BY <1>1, <1>7, <1>10, OrderIs DEF Rows, Going
    <3> QED
      BY <3>1, <3>2
  <2>5. ASSUME HasFile(d.record)
        PROVE  /\ IsDescription(Metadata(d.record))
               /\ \A x \in FileProcessors : Due(d.record, x) \subseteq ToSet(d.commands[Claimed(x)])
    <3>1. HasFile(w)
      BY <2>2, <2>5 DEF SameFile
    <3>2. /\ OldKey(d.record) = OldKey(w) /\ NewKey(d.record) = NewKey(w)
          /\ "text@key" \in Attrs(d.record) <=> "text@key" \in Attrs(w)
          /\ Metadata(d.record) = Metadata(w)
      BY <1>15, <2>2, <3>1, SameMetadata
    <3>3. Claimed("DdbProcessor") = "PUT_RECORD" /\ Claimed("S3Processor") = "S3_COPY"
      BY DEF Claimed
    <3>4. Due(d.record, "DdbProcessor") \subseteq ToSet(d.commands["PUT_RECORD"])
      BY <2>2, <3>1, <3>2 DEF Due, Described
    <3>5. Due(d.record, "S3Processor") \subseteq ToSet(d.commands["S3_COPY"])
      BY <2>2, <3>1, <3>2 DEF Due, Described
    <3> QED
      BY <1>19, <3>1, <3>2, <3>3, <3>4, <3>5 DEF FileProcessors
  <2> QED
    BY <1>17, <2>3, <2>4, <2>5 DEF IsContext, d
<1> QED
  BY <1>20, <1>21

\* What a step does to the commands of its worker.
LEMMA BufferStep ==
  ASSUME TypeOK, Rows, NEW s \in Segment, Work(s) \/ Die(s)
  PROVE  \/ buffer'[s] = buffer[s] \/ buffer'[s] = NoCommands
         \/ \E reads \in BOOLEAN :
              /\ ConvertRow(s, reads) /\ ~ PipelineOf(s).blackhole
              /\ buffer'[s] = Folded(buffer[s], Made(s, reads).commands)
<1>0. buffer = [t \in Segment |-> buffer[t]]
  BY DEF Rows, Shapes
<1>1. ASSUME NEW reads \in BOOLEAN, ConvertRow(s, reads)
      PROVE  \/ buffer'[s] = buffer[s]
             \/ /\ ~ PipelineOf(s).blackhole
                /\ buffer'[s] = Folded(buffer[s], Made(s, reads).commands)
  <2> DEFINE b == PipelineOf(s).blackhole
             f == Folded(buffer[s], Made(s, reads).commands)
  <2>1. buffer' = [buffer EXCEPT ![s] = IF b THEN @ ELSE f]
    BY <1>1 DEF ConvertRow, RowOf, PipelineOf, Made
  <2> HIDE DEF b, f
  <2>2. buffer'[s] = IF b THEN buffer[s] ELSE f
    BY <1>0, <2>1
  <2> QED
    BY <2>2 DEF b, f
<1>2. CASE FlushDone(s)
  BY <1>0, <1>2 DEF FlushDone
<1>3. CASE \/ LoadPreset(s) \/ Preload(s) \/ ReadPage(s) \/ ScanFails(s) \/ SkipRow(s)
           \/ DropRow(s) \/ RowThrows(s)
           \/ Execute(s) \/ ExecuteFails(s) \/ EndScan(s) \/ Close(s) \/ Die(s)
  <2>1. buffer' = buffer
    BY <1>3 DEF LoadPreset, Preload, ReadPage, ScanFails, SkipRow, DropRow, RowThrows, Execute,
                ExecuteFails, EndScan, Close, Die, flush
  <2> QED
    BY <2>1
<1> QED
  BY <1>1, <1>2, <1>3 DEF Work

\* No step takes an object from the target bucket.
LEMMA BucketGrows ==
  ASSUME [Next]_vars
  PROVE  bucket \subseteq bucket'
<1> USE DEF tables
<1>1. ASSUME NEW s \in Segment, Work(s) \/ Die(s) PROVE bucket \subseteq bucket'
  <2>1. CASE Execute(s) \/ ExecuteFails(s)
    <3>1. \E some : Perform(s, some)
      BY <2>1 DEF Execute, ExecuteFails
    <3> QED
      BY <3>1 DEF Perform, Copied
  <2>2. CASE \/ LoadPreset(s) \/ Preload(s) \/ ReadPage(s) \/ ScanFails(s) \/ SkipRow(s)
             \/ DropRow(s) \/ (\E reads \in BOOLEAN : ConvertRow(s, reads)) \/ RowThrows(s)
             \/ FlushDone(s) \/ EndScan(s) \/ Close(s) \/ Die(s)
    BY <2>2 DEF LoadPreset, Preload, ReadPage, ScanFails, SkipRow, DropRow, ConvertRow, RowThrows,
                FlushDone, EndScan, Close, Die
  <2> QED
    BY <1>1, <2>1, <2>2 DEF Work
<1>2. CASE Publish \/ Rerun \/ Finished \/ UNCHANGED vars
  BY <1>2 DEF Publish, Rerun, Finished, vars
<1> QED
  BY <1>1, <1>2 DEF Next

\* What is provided stays so.
LEMMA ProvidedStays ==
  ASSUME DOMAIN target \subseteq DOMAIN target', bucket \subseteq bucket', setup' = setup,
         NEW x, NEW command, Provided(x, command)
  PROVE  Provided(x, command)'
BY DEF Provided

\* What a flush does with the commands of one processor.
LEMMA ExecutesProvides ==
  ASSUME TypeOK, Rows, NEW s \in Segment, Executes(s), result'[s] \notin {"failed", "died"},
         NEW x \in FileProcessors, x = Processor(s),
         NEW command \in ToSet(buffer[s][Claimed(x)])
  PROVE  Provided(x, command)'
<1> DEFINE puts == Pending(s)
<1>1. Perform(s, DOMAIN puts) /\ setup' = setup
  BY DEF Executes
<1>2. PICK n \in DOMAIN puts : puts[n] = command
  BY DEF Pending, ToSet
<1>3. CASE x = "S3Processor"
  <2>1. bucket' = Copied(setup.objects, bucket, puts, DOMAIN puts)
    BY <1>1, <1>3 DEF Perform
  <2> HIDE DEF puts
  <2> QED
    BY <1>1, <1>2, <1>3, <2>1 DEF Copied, Provided
<1>4. CASE x = "DdbProcessor"
  <2>1. target' = Put(target, x, puts, DOMAIN puts) /\ TableOf(x) = "main"
    BY <1>1, <1>4 DEF Perform, TableOf
  <2>2. IsSeq(puts)
    BY <1>4 DEF Rows, Shapes, Shape, IsCommands, Pending, Claimed, CommandKeys
  <2> HIDE DEF puts
  <2>3. TargetKey(TableOf(x), puts[n].record) \in DOMAIN Put(target, x, puts, DOMAIN puts)
    BY <2>2, PutResult
  <2> QED
    BY <1>2, <1>4, <2>1, <2>3 DEF Provided
<1> QED
  BY <1>3, <1>4 DEF FileProcessors

\* What a worker is still to do for a file it does, unless it fails or dies.
LEMMA PendsStep ==
  ASSUME TypeOK, Rows, NEW s \in Segment, Position(s), Work(s) \/ Die(s),
         result'[s] \notin {"failed", "died"},
         NEW x \in FileProcessors, NEW command, Pends(s, x, command)
  PROVE  Provided(x, command)' \/ Pends(s, x, command)'
<1>0. Shapes /\ Shape(s)
  BY DEF Rows, Shapes
<1>1. /\ stage[s] \in {"scanning", "flushing"} /\ command \in ToSet(buffer[s][Claimed(x)])
      /\ Turn(s, x) /\ Claimed(x) \in CommandKeys
  BY DEF Pends, FileProcessors, Claimed, CommandKeys
<1>2. CASE Converts(s)
  <2>1. PICK p, entry, commands : Converting(s, p, entry, commands)
    BY <1>2 DEF Converts
  <2>2. /\ stage'[s] \in {"scanning", "flushing"} /\ at' = at /\ pipelines' = pipelines
        /\ entry.disposition # "transferred" => buffer' = buffer
        /\ entry.disposition = "transferred" =>
             IsCommands(commands) /\ buffer' = [buffer EXCEPT ![s] = Folded(@, commands)]
    BY <2>1 DEF Converting
  <2>3. \/ buffer'[s] = buffer[s]
        \/ IsCommands(commands) /\ buffer'[s] = Folded(buffer[s], commands)
    BY <1>0, <2>2 DEF Shapes
  <2>4. command \in ToSet(buffer'[s][Claimed(x)])
    BY <1>0, <1>1, <2>3, FoldedHas DEF Shape
  <2>5. Turn(s, x)'
    BY <1>1, <2>2 DEF Turn, Order
  <2> QED
    BY <2>2, <2>4, <2>5 DEF Pends
<1>3. CASE Executes(s)
  <2>1. /\ UNCHANGED <<buffer, pipelines>> /\ stage[s] = "flushing" /\ stage'[s] = "flushing"
        /\ at' = [at EXCEPT ![s] = @ + 1]
    BY <1>3 DEF Executes
  <2>2. at'[s] = at[s] + 1 /\ at[s] \in Nat
    BY <1>0, <2>1 DEF Shapes, Shape
  <2>3. PICK i \in DOMAIN Order(s) : at[s] <= i /\ Order(s)[i] = x
    BY <1>1 DEF Turn
  <2>4. CASE i = at[s]
    BY <1>1, <1>3, <2>3, <2>4, ExecutesProvides DEF Processor
  <2>5. CASE i # at[s]
    <3>1. i \in Nat
      BY <1>0, <2>1, <2>3, OrderIs DEF Going
    <3>2. at'[s] <= i /\ Order(s)' = Order(s)
      BY <2>1, <2>2, <2>3, <2>5, <3>1 DEF Order
    <3> QED
      BY <1>1, <2>1, <2>3, <3>2 DEF Pends, Turn
  <2> QED
    BY <2>4, <2>5
<1>4. CASE Finishes(s)
  <2>1. DOMAIN Order(s) = 1..Len(Order(s)) /\ Len(Order(s)) \in Nat /\ at[s] \in Nat
    BY <1>0, <1>4, OrderIs DEF Going, Shape, Finishes
  <2>2. ~ Turn(s, x)
    BY <1>4, <2>1 DEF Turn, Finishes
  <2> QED
    BY <1>1, <2>2
<1>5. CASE Rests(s)
  <2>1. buffer[s] # NoCommands
    BY <1>1, NoCommandsAre
  <2>2. UNCHANGED <<buffer, at, pipelines>> /\ stage'[s] \in {"scanning", "flushing"}
    BY <1>1, <1>5, <2>1 DEF Rests
  <2> QED
    BY <1>1, <2>2 DEF Pends, Turn, Order
<1> QED
  BY <1>2, <1>3, <1>4, <1>5, RowsStep

\* A worker that fails or dies stays so.
LEMMA ResultStays ==
  ASSUME TypeOK, Rows, NEW s \in Segment, Position(s), Work(s) \/ Die(s),
         result'[s] \notin {"failed", "died"}
  PROVE  result[s] \notin {"failed", "died"}
<1>1. CASE Converts(s) \/ Executes(s) \/ Finishes(s)
  BY <1>1 DEF Converts, Converting, Executes, Finishes, Position, Early, Going
<1>2. CASE Rests(s)
  BY <1>2 DEF Rests, Position, Early, Going
<1> QED
  BY <1>1, <1>2, RowsStep

\* What a worker has to put stays descriptions.
LEMMA DescribingStep ==
  ASSUME TypeOK, Rows, Given, KeepsFiles(setup), NEW s \in Segment, Describing(s),
         Work(s) \/ Die(s), setup' = setup
  PROVE  Describing(s)'
<1>1. "PUT_RECORD" \in CommandKeys
  BY DEF CommandKeys
<1>2. CASE buffer'[s] = buffer[s]
  BY <1>2 DEF Describing, IsDescription
<1>3. CASE buffer'[s] = NoCommands
  BY <1>1, <1>3, NoCommandsAre DEF Describing
<1>4. ASSUME NEW reads \in BOOLEAN, ConvertRow(s, reads), ~ PipelineOf(s).blackhole,
             buffer'[s] = Folded(buffer[s], Made(s, reads).commands)
      PROVE  Describing(s)'
  <2> DEFINE b == Made(s, reads).commands
  <2>1. /\ IsCommands(b)
        /\ \A put \in ToSet(b["PUT_RECORD"]) : IsMetadata(put.record) => IsDescription(put.record)
    BY <1>4, FileMade
  <2> HIDE DEF b
  <2>2. IsCommands(buffer[s])
    BY DEF Rows, Shapes, Shape
  <2>3. buffer'[s] = Folded(buffer[s], b)
    BY <1>4 DEF b
  <2>4. ToSet(buffer'[s]["PUT_RECORD"]) = ToSet(buffer[s]["PUT_RECORD"]) \union ToSet(b["PUT_RECORD"])
    BY <1>1, <2>1, <2>2, <2>3, FoldedHas
  <2>5. \A r : IsDescription(r)' = IsDescription(r)
    BY DEF IsDescription
  <2> QED
    BY <2>1, <2>4, <2>5 DEF Describing
<1> QED
  BY <1>2, <1>3, <1>4, BufferStep

\* And so do the metadata in the target.
LEMMA StoredStep ==
  ASSUME TypeOK, Rows, DescriptionsStored, NEW s \in Segment, Position(s), Describing(s),
         Work(s) \/ Die(s), setup' = setup
  PROVE  DescriptionsStored'
<1>1. \A r : IsDescription(r)' = IsDescription(r)
  BY DEF IsDescription
<1>2. CASE target' = target
  BY <1>1, <1>2 DEF DescriptionsStored
<1>3. CASE Executes(s) /\ Processor(s) # "S3Processor"
  <2> DEFINE x == Processor(s)
             puts == buffer[s][Claimed(x)]
  <2>1. PICK some \in SUBSET DOMAIN puts : Perform(s, some)
    BY <1>3 DEF Executes, Pending
  <2>2. target' = Put(target, x, puts, some)
    BY <1>3, <2>1 DEF Perform, Pending
  <2>3. x \in Processors \ {"S3Processor"}
    BY <1>3, OrderIs DEF Executes, Processor, Rows, Going
  <2>4. IsSeq(puts)
    BY <2>3 DEF Rows, Shapes, Shape, IsCommands, Claimed, CommandKeys, Processors
  <2> HIDE DEF x, puts
  <2> SUFFICES ASSUME NEW key \in DOMAIN target', key.table = "main", IsMetadata(key)
               PROVE  target'[key].pk = key.pk /\ IsDescription(target'[key])
    BY <1>1 DEF DescriptionsStored
  <2>5. \/ key \in DOMAIN target /\ target'[key] = target[key]
        \/ \E n \in some : TargetKey(TableOf(x), puts[n].record) = key
                           /\ target'[key] = Stored(x, puts[n].record)
    BY <2>2, <2>4, PutResult
  <2>6. ASSUME NEW n \in some, TargetKey(TableOf(x), puts[n].record) = key,
               target'[key] = Stored(x, puts[n].record)
        PROVE  target'[key].pk = key.pk /\ IsDescription(target'[key])
    <3>1. TableOf(x) = "main" /\ puts[n].record.pk = key.pk
      BY <2>6 DEF TargetKey
    <3>2. x = "DdbProcessor"
      BY <2>3, <3>1 DEF TableOf, Processors
    <3>3. target'[key] = puts[n].record
      BY <2>6, <3>2 DEF Stored
    <3>4. puts[n] \in ToSet(buffer[s]["PUT_RECORD"])
      BY <3>2 DEF puts, Claimed, ToSet
    <3> QED
      BY <3>1, <3>3, <3>4 DEF Describing, IsMetadata
  <2> QED
    BY <2>5, <2>6 DEF DescriptionsStored
<1> QED
  BY <1>2, <1>3, RowsStep DEF Converts, Converting, Rests, Finishes, Executes, Perform

\* A row that is logged, when it is a file.
LEMMA FileEnters ==
  ASSUME TypeOK, Rows, Given, KeepsFiles(setup), NEW s \in Segment, NEW p,
         Enters(s, p, log'[s][p]), IsFileEntry(log'[s][p])
  PROVE  /\ IsDescription(Metadata(log'[s][p].out))
         /\ \A x \in FileProcessors : \A command \in Due(log'[s][p].out, x) : Pends(s, x, command)'
<1> DEFINE out == log'[s][p].out
<1>1. PICK reads \in BOOLEAN :
        /\ ConvertRow(s, reads) /\ ~ PipelineOf(s).blackhole
        /\ log'[s][p] = [row |-> RowOf(s), pipeline |-> PipelineOf(s).name,
                         disposition |-> "transferred", out |-> Made(s, reads).record]
  BY DEF Enters
<1> DEFINE d == Made(s, reads)
<1>2. out = d.record /\ PipelineOf(s).name = "FileManagerFiles" /\ HasFile(out)
  BY <1>1 DEF IsFileEntry
<1>3. /\ IsCommands(d.commands) /\ IsDescription(Metadata(out))
      /\ \A x \in FileProcessors : /\ Due(out, x) \subseteq ToSet(d.commands[Claimed(x)])
                                   /\ x \in ToSet(Order(s))
  BY <1>1, <1>2, FileMade
<1>4. buffer'[s] = Folded(buffer[s], d.commands)
  <2> DEFINE b == PipelineOf(s).blackhole
             f == Folded(buffer[s], d.commands)
  <2>1. buffer' = [buffer EXCEPT ![s] = IF b THEN @ ELSE f]
    BY <1>1 DEF ConvertRow, RowOf, PipelineOf, Made
  <2>2. ~ b /\ buffer = [t \in Segment |-> buffer[t]]
    BY <1>1 DEF Rows, Shapes
  <2> HIDE DEF b, f
  <2>3. buffer'[s] = f
    BY <2>1, <2>2
  <2> QED
    BY <2>3 DEF f
<1>5. /\ stage[s] = "scanning" /\ stage'[s] \in {"scanning", "flushing"}
      /\ at' = at /\ pipelines' = pipelines
  BY <1>1 DEF ConvertRow, Counted, setting, TypeOK
<1> HIDE DEF d, out
<1>6. ASSUME NEW x \in FileProcessors, NEW command \in Due(out, x)
      PROVE  Pends(s, x, command)'
  <2>1. Claimed(x) \in CommandKeys
    BY DEF Claimed, CommandKeys, FileProcessors
  <2>2. IsCommands(buffer[s]) /\ at[s] = 1
    BY <1>5 DEF Rows, Shapes, Shape
  <2>3. command \in ToSet(buffer'[s][Claimed(x)])
    BY <1>3, <1>4, <2>1, <2>2, FoldedHas
  <2>4. x \in ToSet(Order(s)) /\ DOMAIN Order(s) = 1..Len(Order(s)) /\ Len(Order(s)) \in Nat
    BY <1>3, <1>5, OrderIs DEF Rows, Going
  <2>5. Turn(s, x)'
    BY <1>5, <2>2, <2>4 DEF Turn, Order, ToSet
  <2> QED
    BY <1>5, <2>3, <2>5 DEF Pends
<1> QED
  BY <1>3, <1>6 DEF out

\* A step of a worker leaves what is due to its files provided, or still to be done.
LEMMA OwnFilesStep ==
  ASSUME TypeOK, Rows, Given, KeepsFiles(setup), NEW s \in Segment, Position(s), FilesOf(s),
         Work(s) \/ Die(s), setup' = setup, DOMAIN target \subseteq DOMAIN target',
         bucket \subseteq bucket'
  PROVE  FilesOf(s)'
<1>1. Describing(s) /\ KnowsFiles(s) /\ FilesDue(s)
  BY DEF FilesOf
<1>2. Describing(s)'
  BY <1>1, DescribingStep
<1>3. DOMAIN log = Segment /\ \A r : IsDescription(r)' = IsDescription(r)
  BY DEF Rows, Shapes, IsDescription
<1>4. ASSUME NEW p \in DOMAIN log'[s], IsFileEntry(log'[s][p])
      PROVE  \/ p \in DOMAIN log[s] /\ log'[s][p] = log[s][p]
             \/ Enters(s, p, log'[s][p])
  BY <1>3, <1>4, LogGrows DEF IsFileEntry
<1>5. KnowsFiles(s)'
  <2> SUFFICES ASSUME NEW p \in DOMAIN log'[s], IsFileEntry(log'[s][p])
               PROVE  IsDescription(Metadata(log'[s][p].out))
    BY <1>3 DEF KnowsFiles
  <2> QED
    BY <1>1, <1>4, FileEnters DEF KnowsFiles
<1>6. FilesDue(s)'
  <2> SUFFICES ASSUME result'[s] \notin {"failed", "died"},
                      NEW p \in DOMAIN log'[s], IsFileEntry(log'[s][p]),
                      NEW x \in FileProcessors, NEW command \in Due(log'[s][p].out, x)
               PROVE  Provided(x, command)' \/ Pends(s, x, command)'
    BY DEF FilesDue
  <2>1. ASSUME p \in DOMAIN log[s], log'[s][p] = log[s][p]
        PROVE  Provided(x, command)' \/ Pends(s, x, command)'
    <3>1. Provided(x, command) \/ Pends(s, x, command)
      BY <1>1, <2>1, ResultStays DEF FilesDue
    <3> QED
      BY <3>1, ProvidedStays, PendsStep
  <2> QED
    BY <1>4, <2>1, FileEnters
<1> QED
  BY <1>2, <1>5, <1>6 DEF FilesOf

\* And those of a worker that does not step.
LEMMA FilesStay ==
  ASSUME NEW s \in Segment, FilesOf(s), setup' = setup, DOMAIN target \subseteq DOMAIN target',
         bucket \subseteq bucket', log'[s] = log[s], buffer'[s] = buffer[s], at'[s] = at[s],
         pipelines'[s] = pipelines[s], stage'[s] = stage[s], result'[s] = result[s]
  PROVE  FilesOf(s)'
<1>1. \A r : IsDescription(r)' = IsDescription(r)
  BY DEF IsDescription
<1>2. Describing(s)' /\ KnowsFiles(s)'
  BY <1>1 DEF FilesOf, Describing, KnowsFiles
<1>3. \A x, command : Pends(s, x, command)' = Pends(s, x, command)
  BY DEF Pends, Turn, Order
<1>4. \A x, command : Provided(x, command) => Provided(x, command)'
  BY ProvidedStays
<1>5. FilesDue(s)'
  BY <1>3, <1>4 DEF FilesOf, FilesDue
<1> QED
  BY <1>2, <1>5 DEF FilesOf

\* A run that begins knows of no files yet.
LEMMA FilesAnew ==
  ASSUME Anew, DescriptionsStored
  PROVE  FilesKept
<1> SUFFICES ASSUME NEW s \in Segment PROVE FilesOf(s)
  BY DEF FilesKept
<1>1. log[s] = << >> /\ buffer[s] = NoCommands
  BY DEF Anew, Each
<1>2. DOMAIN << >> = {}
  OBVIOUS
<1>3. ToSet(buffer[s]["PUT_RECORD"]) = {}
  BY <1>1, NoCommandsAre DEF CommandKeys
<1> QED
  BY <1>1, <1>2, <1>3 DEF FilesOf, Describing, KnowsFiles, FilesDue

\* Every step keeps what is said of the files.
LEMMA FilesNext ==
  TypeOK /\ (\A s \in Segment : Position(s)) /\ Rows /\ Places /\ Files /\ [Next]_vars => Files'
<1> SUFFICES ASSUME TypeOK, \A s \in Segment : Position(s), Rows, Given, FilesKept, [Next]_vars,
                    KeepsFiles(setup)
             PROVE  FilesKept'
  <2>1. TypeOK /\ Rows /\ Given /\ [Next]_vars => setup' = setup
    BY GivenNext
  <2> QED
    BY <2>1 DEF Files, Places
<1>0. setup' = setup /\ bucket \subseteq bucket' /\ DescriptionsStored /\ \A s \in Segment : FilesOf(s)
  BY GivenNext, BucketGrows DEF FilesKept
<1>1. ASSUME NEW s \in Segment, Work(s) \/ Die(s) PROVE FilesKept'
  <2>1. DOMAIN target \subseteq DOMAIN target'
    BY <1>1, RowsStep, StepKeeps DEF Keeps
  <2>2. DescriptionsStored'
    BY <1>0, <1>1, StoredStep DEF FilesOf
  <2>3. FilesOf(s)'
    BY <1>0, <1>1, <2>1, OwnFilesStep
  <2>4. ASSUME NEW t \in Segment \ {s} PROVE FilesOf(t)'
    <3>1. /\ log'[t] = log[t] /\ buffer'[t] = buffer[t] /\ at'[t] = at[t]
          /\ pipelines'[t] = pipelines[t] /\ stage'[t] = stage[t] /\ result'[t] = result[t]
      BY <1>1, OthersRows, OthersKept
    <3> QED
      BY <1>0, <2>1, <3>1, FilesStay
  <2> QED
    BY <2>2, <2>3, <2>4 DEF FilesKept
<1>2. CASE Publish \/ Finished \/ UNCHANGED vars
  <2>1. UNCHANGED <<target, log, buffer, at, pipelines, stage, result>>
    BY <1>2 DEF Publish, Finished, vars, tables, setting, flush, history
  <2>2. DescriptionsStored'
    BY <1>0, <2>1 DEF DescriptionsStored, IsDescription
  <2>3. \A s \in Segment : FilesOf(s)'
    BY <1>0, <2>1, FilesStay
  <2> QED
    BY <2>2, <2>3 DEF FilesKept
<1>3. CASE Rerun
  <2>1. Anew'
    BY <1>3 DEF Rerun, Anew, Each, tables, Rows, Shapes
  <2>2. DescriptionsStored'
    BY <1>0, <1>3 DEF Rerun, tables, DescriptionsStored, IsDescription
  <2> QED
    BY <2>1, <2>2, FilesAnew, PTL
<1> QED
  BY <1>1, <1>2, <1>3 DEF Next

\* And at all times.
LEMMA FilesAlways == Spec => []Files
<1>1. Init => Files
  <2> SUFFICES ASSUME Init PROVE FilesKept
    BY DEF Files
  <2>1. Anew
    BY SetupAssumption DEF Init, Anew
  <2>2. DOMAIN << >> = {}
    OBVIOUS
  <2>3. DescriptionsStored
    BY <2>2 DEF Init, DescriptionsStored
  <2> QED
    BY <2>1, <2>3, FilesAnew
<1> QED
  BY <1>1, FilesNext, TypeCorrect, PositionAlways, RowsAlways, PlacesAlways, PTL DEF Spec

\* createMetadata, the flushes and their processors: whatever the tables, the buckets and
\* the setup are, as far as KeepsFiles asks it of them, and however often the transfer is
\* run, a worker that succeeds has the metadata of each of its files in the table, and
\* they name an object that is in the target bucket if the source bucket had it.
THEOREM MetadataAlwaysHasItsObject == Spec => []MetadataHasItsObject
<1>1. TypeOK /\ Files /\ (\A s \in Segment : Position(s)) => MetadataHasItsObject
  <2> SUFFICES ASSUME TypeOK, \A s \in Segment : Position(s), FilesKept, KeepsFiles(setup),
                      NEW s \in Segment, result[s] = "ok", NEW p \in Transferred(s),
                      log[s][p].pipeline = "FileManagerFiles", HasFile(log[s][p].out)
               PROVE  LET out == log[s][p].out
                          key == TargetKey("main", Metadata(out))
                      IN /\ key \in DOMAIN target
                         /\ "text@key" \in Attrs(out) /\ OldKey(out) \in setup.objects =>
                              target[key].attrs.value.bucketKey \in bucket
    BY DEF Files, MetadataHasItsObject
  <2> DEFINE out == log[s][p].out
             m == Metadata(out)
             key == TargetKey("main", m)
             copy == [from |-> OldKey(out), to |-> NewKey(out)]
  <2>1. p \in DOMAIN log[s] /\ IsFileEntry(log[s][p])
    BY DEF Transferred, IsFileEntry
  <2>2. stage[s] \notin {"scanning", "flushing"}
    BY DEF Position, Early, Going
  <2>3. \A x \in FileProcessors : \A command \in Due(out, x) : Provided(x, command)
    BY <2>1, <2>2 DEF FilesKept, FilesOf, FilesDue, Pends
  <2>4. key \in DOMAIN target
    <3>1. Provided("DdbProcessor", [record |-> m])
      BY <2>3 DEF FileProcessors, Due
    <3> QED
      BY <3>1 DEF Provided
  <2>5. ASSUME "text@key" \in Attrs(out), OldKey(out) \in setup.objects
        PROVE  NewKey(out) \in bucket
    <3>1. Provided("S3Processor", copy)
      BY <2>3, <2>5 DEF FileProcessors, Due
    <3> QED
      BY <2>5, <3>1 DEF Provided
  <2>6. target[key].attrs.value.bucketKey = NewKey(out)
    <3>1. key.table = "main" /\ key.pk = m.pk
      BY DEF TargetKey
    <3>2. IsMetadata(m) /\ m.attrs.value.bucketKey = NewKey(out)
      BY MetadataIs
    <3>3. IsMetadata(key)
      BY <3>1, <3>2 DEF IsMetadata
    <3>4. PICK f \in V5Rows(setup) : HasFile(f) /\ m = Metadata(wrapInData(f))
      BY <2>1 DEF FilesKept, FilesOf, KnowsFiles, IsDescription
    <3>5. PICK g \in V5Rows(setup) : HasFile(g) /\ target[key] = Metadata(wrapInData(g))
      BY <2>4, <3>1, <3>3 DEF FilesKept, DescriptionsStored, IsDescription
    <3>6. target[key].pk = m.pk
      BY <2>4, <3>1, <3>3 DEF FilesKept, DescriptionsStored
    <3> HIDE DEF m, key, out
    <3>7. wrapInData(f).attrs.id.id = wrapInData(g).attrs.id.id
      BY <3>4, <3>5, <3>6, MetadataKeys
    <3>8. \A r \in V5Rows(setup) : wrapInData(r).attrs = r.attrs
      <4>1. \A r \in V5Rows(setup) : IsRecord(r)
        <5>1. /\ \A q \in DOMAIN setup.rows : IsV5Row(setup.rows[q])
              /\ \A q \in DOMAIN setup.edit : IsV5Row(setup.edit[q])
          BY SetupAssumption DEF TypeOK
        <5> QED
          BY <5>1 DEF V5Rows, IsV5Row
      <4> QED
        BY <4>1 DEF wrapInData, IsRecord
    <3>9. NewKey(wrapInData(f)) = NewKey(wrapInData(g))
      BY <3>4, <3>5, <3>7, <3>8 DEF KeepsFiles
    <3> QED
      BY <3>2, <3>4, <3>5, <3>9, MetadataIs
  <2> QED
    BY <2>4, <2>5, <2>6
<1> QED
  BY <1>1, TypeCorrect, FilesAlways, PositionAlways, PTL
================================================================================

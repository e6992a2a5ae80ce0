-------------------------------- MODULE Conversion --------------------------------
(***************************************************************************)
(* One row on its way through its pipeline: what the scanner makes of it,  *)
(* the context of its transformers, what the processors add at the end     *)
(* (extendContext, onEnd) and what they do with the commands (execute).    *)
(*                                                                         *)
(* A target is a function of keys [table, pk, sk].                         *)
(***************************************************************************)
EXTENDS Assembly

NoAttrs == << >>

-----------------------------------------------------------------------------
(* Scanners *)

\* OsRecordDecompressor: only what is compressed, and can be read, has data.
Unpacked(r) ==
  IF r.zip = "gzip" THEN [r EXCEPT !.zip = "none"] ELSE [r EXCEPT !.zip = "none", !.attrs = NoAttrs]

\* OsScanner yields no row without an index.
Yields(scanner, r) == scanner = "OsScanner" => r.index # NoIndex

Scanned(scanner, r) == IF scanner = "OsScanner" THEN Unpacked(r) ELSE r

\* querySourceRecord: OsProcessor decompresses what it can, and gives a row it
\* cannot decompress as it is.
Seen(scanner, source) ==
  IF scanner = "OsScanner"
  THEN [n \in DOMAIN source |-> IF source[n].zip = "none" THEN source[n] ELSE Unpacked(source[n])]
  ELSE source

-----------------------------------------------------------------------------
(* Records *)

\* What a processor takes out of the shard's commands.
Claimed(processor) ==
  CASE processor \in {"DdbProcessor", "OsProcessor"} -> "PUT_RECORD"
    [] processor = "AuditLogProcessor" -> "AUDIT_LOG_PUT_RECORD"
    [] processor = "S3Processor" -> "S3_COPY"

\* The processors that have the record itself put: OsProcessor and DdbProcessor any,
\* AuditLogProcessor what became an audit log, when there is a table for it.
PutsRecord(processor, r, config) ==
  \/ processor \in {"DdbProcessor", "OsProcessor"}
  \/ processor = "AuditLogProcessor" /\ config.auditTable /\ r.type = "auditLog.log"

\* onEnd
AtEnd(ctx, processor, config) ==
  IF PutsRecord(processor, ctx.record, config)
  THEN Emit(ctx, Claimed(processor), [record |-> ctx.record]) ELSE ctx

\* BaseTransformContextFactory.create: the cache and what was warned of are the
\* worker's, all else is new.
NewContext(r, cache, warned) ==
  [record |-> r, original |-> r, commands |-> NoCommands, cache |-> cache, warned |-> warned]

\* runRecord: all transformers, and then what each processor adds.
AllTransforms(ctx, transformers, env) ==
  FoldLeft(LAMBDA c, t : Transform(t, c, env), ctx, transformers)

AllEnds(ctx, processors, config) == FoldLeft(LAMBDA c, p : AtEnd(c, p, config), ctx, processors)

Converted(pipeline, r, env, cache, warned, config) ==
  AllEnds(AllTransforms(NewContext(r, cache, warned), pipeline.transformers, env),
          pipeline.processors, config)

-----------------------------------------------------------------------------
(* Rich texts: what they have become *)

\* Of values, what v of the row's has become: at its place, or where fixBrokenStorageKeys
\* moves it.
Became(v, row, fields, values) ==
  {w \in values : w.path \in {v.path, FixedPath(row.attrs.values, fields, v.path)}}

\* w, which was v, has the new format, or transformRichText has told why not.
RenderedOrWarned(v, w, row, warned) ==
  \/ w.format = "rendered"
  \/ v.format = "unrenderable" /\ TextWarning(row, v.path[Len(v.path)]) \in warned

-----------------------------------------------------------------------------
(* Commands *)

\* Fault: the shard keeps the commands of the last row only.
FoldedAnew(shard, commands) == commands

\* The shard's commands, and then those of one more row.
Folded(shard, commands) == [key \in CommandKeys |-> shard[key] \o commands[key]]

TableOf(processor) ==
  CASE processor = "DdbProcessor" -> "main"
    [] processor = "OsProcessor" -> "os"
    [] processor = "AuditLogProcessor" -> "audit"

TargetKey(table, r) == [table |-> table, pk |-> r.pk, sk |-> r.sk]

\* What is stored: OsProcessor compresses the data of its rows.
Stored(processor, r) == IF processor = "OsProcessor" THEN [r EXCEPT !.zip = "gzip"] ELSE r

\* The target after some of the puts, of which the last one of a row stays.
Put(target, processor, puts, some) ==
  LET RowOf(n) == TargetKey(TableOf(processor), puts[n].record)
      last == {n \in some : \A m \in some : RowOf(m) = RowOf(n) => m <= n}
      put == [k \in {RowOf(n) : n \in last} |->
                Stored(processor, puts[CHOOSE n \in last : RowOf(n) = k].record)]
  IN Over(put, target)

\* Copies of objects that the source does not have are skipped.
Copied(objects, bucket, copies, some) ==
  bucket \union {copies[n].to : n \in {m \in some : copies[m].from \in objects}}
==============================================================================

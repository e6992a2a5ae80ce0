---------------------------------- MODULE Stores ----------------------------------
(***************************************************************************)
(* The transformers that move what v5 keeps in a record to another store   *)
(* (src/src/transformers/file-manager, mailer, auditLogs): settings and    *)
(* the metadata of files to the key-value store, files to new S3 keys,     *)
(* audit logs to a table of their own.                                     *)
(*                                                                         *)
(* A command is [record] or [from, to].                                    *)
(***************************************************************************)
EXTENDS Rewriting

PutRecord(ctx, r) == Emit(ctx, "PUT_RECORD", [record |-> r])
CopyFile(ctx, from, to) == Emit(ctx, "S3_COPY", [from |-> from, to |-> to])

NoGsi == [locale |-> "", sk |-> "", name |-> ""]

NewRecord(pk, sk, type, tenant, attrs) ==
  [pk |-> pk, sk |-> sk, type |-> type, gsi1 |-> NoGsi, gsiTenant |-> tenant,
   in |-> "data", attrs |-> attrs, index |-> NoIndex, zip |-> "none"]

\* KV#scope:id.  A settings' id is its name, the id of metadata that of its file.
KeyValue(scope, id, value) ==
  NewRecord(Key("KV", scope, "", id), "A", "KeyValueStore", scope,
            [key |-> id, scope |-> scope, value |-> value])

-----------------------------------------------------------------------------
(* Settings *)

migrateFileManagerSettings(ctx) ==
  LET r == ctx.record IN
  IF ctx.original.type = "fm.settings" /\ r.in = "data"
  THEN [ctx EXCEPT !.record = KeyValue(TenantOf(r), "FileManager/General",
                                       Delete(r, {"tenant"}).attrs)]
  ELSE ctx

migrateMailerSettings(ctx) ==
  LET r == ctx.record
      o == ctx.original
  IN IF o.sk = "L" /\ AtRoot(o, "modelId") /\ o.attrs.modelId = "mailerSettings" /\ r.in = "data"
     THEN [ctx EXCEPT !.record = KeyValue(TenantOf(r), "Mailer/Settings/Transport",
                                          [values |-> r.attrs.values])]
     ELSE ctx

-----------------------------------------------------------------------------
(* Files: text@name, text@key, text@type, object@meta and object@metadata are
   among the values of an entry. *)

OldKey(r) ==
  [tenant |-> "", key |-> IF "text@key" \in Attrs(r) THEN r.attrs["text@key"] ELSE "undefined"]

NewKey(r) == [OldKey(r) EXCEPT !.tenant = TenantOf(r)]

copyFileToTarget(ctx) ==
  IF "text@key" \in Attrs(ctx.record)
  THEN CopyFile(ctx, OldKey(ctx.record), OldKey(ctx.record)) ELSE ctx

\* createMetadata puts records of its own, under these keys.
IsMetadata(r) == r.pk.space = "KV" /\ r.pk.tenant = "global"

\* The records that are files, and the metadata of one.  v5 gives every entry an id, so
\* that the entryId never stands in for it.
HasFile(r) == r.type = "cms.entry.l" /\ {"id", "text@name"} \subseteq Attrs(r)

Metadata(r) ==
  KeyValue("global", r.attrs.id.id,
           [bucketKey |-> NewKey(r), id |-> r.attrs.id.id, tenant |-> TenantOf(r)])

\* Fault: the object itself is not copied.
createMetadataOnly(ctx) ==
  LET r == ctx.record IN
  IF r.in = "data" /\ HasFile(r) THEN PutRecord(ctx, Metadata(r)) ELSE ctx

createMetadata(ctx) ==
  LET r == ctx.record
      copied == IF "text@key" \in Attrs(r) THEN CopyFile(ctx, OldKey(r), NewKey(r)) ELSE ctx
  IN IF r.in = "data" /\ HasFile(r) THEN PutRecord(copied, Metadata(r)) ELSE ctx

\* What is extracted from an image stands for the object it was read from.
NoMetadata == [tenant |-> "", key |-> ""]

ImageKey(r) == Key("IMAGE", "", "", r.attrs.id.id)

resolveFileKeyFromDb(r, source) ==
  LET existing == Found(source, Key("KV", "global", "", r.attrs.id.id), "A")
  IN IF existing = {} THEN OldKey(r)
     ELSE (CHOOSE kv \in existing : TRUE).attrs.value.bucketKey

\* Only what was read is cached: a read that fails leaves this record without.
extractImageMetadata(ctx, env) ==
  LET r == Delete(ctx.record, {"object@meta"})
      key == resolveFileKeyFromDb(r, env.source)
      With(m) == [ctx EXCEPT !.record = Set(r, "object@metadata", m)]
  IN IF ~ InData(r, "values") THEN ctx
     ELSE IF r.attrs["text@type"] # "image" THEN With(NoMetadata)
     ELSE IF ImageKey(r) \in DOMAIN ctx.cache THEN With(ctx.cache[ImageKey(r)])
     ELSE IF key \notin env.readable THEN With(NoMetadata)
     ELSE [With(key) EXCEPT !.cache = Over(Only(ImageKey(r), key), @)]

-----------------------------------------------------------------------------
(* Audit logs *)

Creator == {"createdBy", "createdOn"}

\* resolveCreatorFields: all of it from the row, or all of it from the payload.
\* payload is what its parts (the action's data, its after and its before) tell;
\* a payload that cannot be read is not there.
HasCreator(r) ==
  \/ Creator \subseteq Attrs(r)
  \/ "payload" \in Attrs(r) /\ Creator \subseteq r.attrs.payload

coreFieldsTransformer(ctx, fresh) ==
  IF HasCreator(ctx.record)
  THEN [ctx EXCEPT !.record.attrs =
          Over([id |-> fresh, createdBy |-> "known", createdOn |-> "known",
                expiresAt |-> "now + 60 days"], @)]
  ELSE [ctx EXCEPT !.warned = @ \union {<<"creator", ctx.record.pk.id>>}]

dataFieldsTransformer(r) == Set(r, "entityId", r.attrs.entryId)

storageShapeTransformer(r) ==
  IF Creator \subseteq Attrs(r)
  THEN NewRecord(Key("AUDIT_LOG", r.attrs.tenant, "", ""), r.attrs.id, "auditLog.log",
                 r.attrs.tenant,
                 Restrict(r.attrs, {"id", "tenant", "createdBy", "createdOn", "entityId",
                                    "expiresAt"}))
  ELSE r
==============================================================================

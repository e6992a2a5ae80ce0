-------------------------------- MODULE Rewriting --------------------------------
(***************************************************************************)
(* The transformers of the v5-to-v6 presets (src/src/transformers), as     *)
(* rewrites of one record.                                                 *)
(*                                                                         *)
(* A record is [pk, sk, type, gsi1, gsiTenant, in, attrs, index, zip]:     *)
(*   pk, gsi1   its keys taken apart: [space, tenant, locale, id, twice]   *)
(*              and [locale, sk, name]; "" where a key has no such part,   *)
(*              and twice for "#CME#CME#"                                  *)
(*   in         "root", or "data" once the attributes are in the envelope  *)
(*   attrs      the attributes that are not keys, and what an entry's      *)
(*              values say of a file or a folder: a function of names      *)
(*   index, zip the index and the compression of a row of the OpenSearch   *)
(*              table, NoIndex and "none" elsewhere                        *)
(* An id is [id, rev], with rev = 0 where it has no revision suffix, and   *)
(* an S3 key [tenant, key], with tenant = "" for a key as v5 wrote it.     *)
(*                                                                         *)
(* What a transformer sees and changes is a context [record, original,     *)
(* commands, cache, warned]; env = [source, models, readable, fresh,       *)
(* fileUrls] is what it can ask: the rows of the source table by position, *)
(* the preloaded models, the S3 keys that can be read, a new id, and       *)
(* whether the configuration names the hosts of the files.                 *)
(***************************************************************************)
EXTENDS Values, Functions

Attrs(r) == DOMAIN r.attrs

IsRecord(r) ==
  r = [pk |-> r.pk, sk |-> r.sk, type |-> r.type, gsi1 |-> r.gsi1, gsiTenant |-> r.gsiTenant,
       in |-> r.in, attrs |-> r.attrs, index |-> r.index, zip |-> r.zip]

\* record[a] and record.data[a].
AtRoot(r, a) == r.in = "root" /\ a \in Attrs(r)
InData(r, a) == r.in = "data" /\ a \in Attrs(r)

\* f, and g where f says nothing; and a function of one argument.
Over(f, g) ==
  [x \in DOMAIN f \union DOMAIN g |-> IF x \in DOMAIN f THEN f[x] ELSE g[x]]
Only(a, value) == [x \in {a} |-> value]

Set(r, a, value) == [r EXCEPT !.attrs = Over(Only(a, value), @)]
Delete(r, names) == [r EXCEPT !.attrs = Restrict(@, DOMAIN @ \ names)]

\* data.tenant || "root"
TenantOf(r) == IF InData(r, "tenant") THEN r.attrs.tenant ELSE "root"

NoIndex == [tenant |-> "", modelId |-> ""]

\* querySourceRecord: the first row the query returns; with a whole key there is
\* one at most.
Found(source, pk, sk) ==
  {source[n] : n \in {n \in DOMAIN source : source[n].pk = pk /\ source[n].sk = sk}}

Key(space, tenant, locale, id) ==
  [space |-> space, tenant |-> tenant, locale |-> locale, id |-> id, twice |-> FALSE]

IsKey(k) ==
  k = [space |-> k.space, tenant |-> k.tenant, locale |-> k.locale, id |-> k.id, twice |-> k.twice]

\* Commands are kept apart by their keys, in the order they come.
CommandKeys == {"PUT_RECORD", "AUDIT_LOG_PUT_RECORD", "S3_COPY"}

NoCommands == [key \in CommandKeys |-> << >>]

Emit(ctx, key, command) == [ctx EXCEPT !.commands[key] = Append(@, command)]

-----------------------------------------------------------------------------
(* All records *)

wrapInData(r) == [r EXCEPT !.in = "data"]

\* Whether the key starts with T#.
HasTenantKey(r) == r.pk.space \notin {"MIGRATION", "KV", "OTHER"}

addGsiTenant(r) ==
  IF r.gsiTenant # "" THEN r
  ELSE IF HasTenantKey(r) THEN [r EXCEPT !.gsiTenant = r.pk.tenant]
  ELSE IF InData(r, "tenant") THEN [r EXCEPT !.gsiTenant = r.attrs.tenant]
  ELSE r

\* Fault: the rest of the key goes with the locale.
removeLocaleGreedy(r) ==
  Delete([r EXCEPT !.pk.locale = "", !.pk.id = "", !.gsi1.locale = ""], {"locale"})

removeLocale(r) ==
  Delete([r EXCEPT !.pk.locale = "", !.gsi1.locale = ""], {"locale"})

removeAttributes(r) == IF r.in = "data" THEN Delete(r, {"webinyVersion"}) ELSE r

addTransferTimestamp(r) == Set(r, "_tt", "now")

-----------------------------------------------------------------------------
(* CMS entries *)

fixCmePk(r) == [r EXCEPT !.pk.twice = FALSE]

ModelIdMap ==
  [fmFile |-> "wbyFmFile", acoFolder |-> "wbyAcoFolder", acoFilter |-> "wbyAcoFilter",
   webinyTask |-> "wbyTask", webinyTaskLog |-> "wbyTaskLog",
   wby_recordLocking |-> "wbyRecordLock"]

NewModelId(m) == IF m \in DOMAIN ModelIdMap THEN ModelIdMap[m] ELSE m

\* Of the keys only GSI1_PK names a model here.
updateModelIds(r) ==
  LET keyed == [r EXCEPT !.gsi1.name = NewModelId(@)]
  IN IF InData(r, "modelId")
     THEN [keyed EXCEPT !.attrs.modelId = NewModelId(@)] ELSE keyed

StripRevision(i) == [i EXCEPT !.rev = 0]

\* The location of an entry is data.location; "object@location" and, for a
\* folder, "text@parentId" are among its values.
removeFolderRevision(r) ==
  LET moved == IF InData(r, "location") /\ r.attrs.location.rev = 1
               THEN [r EXCEPT !.attrs.location = StripRevision(@)] ELSE r
      bare == IF InData(r, "values") THEN Delete(moved, {"object@location"}) ELSE moved
  IN IF InData(r, "parentId") /\ InData(r, "modelId") /\ r.attrs.modelId = "wbyAcoFolder"
     THEN [bare EXCEPT !.attrs.parentId = StripRevision(@)] ELSE bare

updateOsIndex(r) ==
  IF InData(r, "modelId") /\ InData(r, "tenant")
  THEN [r EXCEPT !.index = [tenant |-> r.attrs.tenant, modelId |-> r.attrs.modelId]]
  ELSE r

\* INTERNAL_MODELS, in the letters v5 and v6 write them in: fixBrokenStorageKeys does not
\* care for upper and lower case.
InternalModels == {"fmFile", "wbyFmFile"}

\* The model a record's values are walked along.
ModelKnown(r, models) == InData(r, "modelId") /\ r.attrs.modelId \in DOMAIN models

\* One of the transformers of Values on the values of a record.
OnValues(Op(_, _), r, models) ==
  IF ModelKnown(r, models) /\ InData(r, "values")
  THEN [r EXCEPT !.attrs.values = Op(@, models[r.attrs.modelId])]
  ELSE r

\* A model that is missing is warned of once per process.
FixKeys(ctx, models) ==
  LET r == ctx.record IN
  IF ~ InData(r, "modelId") \/ r.attrs.modelId \in InternalModels THEN ctx
  ELSE [ctx EXCEPT !.record = OnValues(fixBrokenStorageKeys, r, models),
                   !.warned = IF ModelKnown(r, models) THEN @
                              ELSE @ \union {<<"model", r.attrs.modelId>>}]

\* What transformRichText warns of.
TextWarning(original, storageId) == <<"rich text", original.pk, original.sk, storageId>>

RenderTexts(ctx, models) ==
  LET r == ctx.record
      ids == IF ModelKnown(r, models) /\ InData(r, "values")
             THEN Unrendered(r.attrs.values, models[r.attrs.modelId]) ELSE {}
  IN [ctx EXCEPT !.record = OnValues(transformRichText, @, models),
                 !.warned = @ \union {TextWarning(ctx.original, i) : i \in ids}]

\* addLiveField.  0 stands for null, and the cache holds 0 for the sentinel.
PublishedVersion(r) == IF "version" \in Attrs(r) THEN r.attrs.version ELSE 0

ResolvePublishedVersion(ctx, source) ==
  LET published == Found(source, ctx.original.pk, "P")
  IN IF ctx.original.pk \in DOMAIN ctx.cache THEN ctx.cache[ctx.original.pk]
     ELSE IF \/ ctx.original.sk = "P"
             \/ /\ ctx.original.sk = "L"
                /\ "status" \in Attrs(ctx.record) /\ ctx.record.attrs.status = "published"
          THEN PublishedVersion(ctx.record)
     ELSE IF published = {} THEN 0
     ELSE PublishedVersion(CHOOSE p \in published : TRUE)

\* Fault: that an entry has no published revision is not cached.
RememberVersionFound(ctx, version) ==
  IF version = 0 THEN ctx.cache ELSE Over(Only(ctx.original.pk, version), ctx.cache)

RememberVersion(ctx, version) == Over(Only(ctx.original.pk, version), ctx.cache)

addLiveField(ctx, source) ==
  LET r == ctx.record
      version == ResolvePublishedVersion(ctx, source)
  IN IF ~ InData(r, "modelId") \/ r.attrs.modelId \in InternalModels THEN ctx
     ELSE [ctx EXCEPT !.record = Set(r, "live", version),
                      !.cache = RememberVersion(ctx, version)]

-----------------------------------------------------------------------------
(* CMS models, groups and teams, folder permissions *)

\* getLocale and extractDefaultLocale.
LocaleOr(locale) == IF locale = "" THEN "en-US" ELSE locale

SlugsOf(rows) == {r.attrs.slug : r \in {x \in rows : AtRoot(x, "slug")}}

\* The group of a model is [id, slug]; slug stands for its name in lower case,
\* which is taken when the group is not found.
transformModelGroup(ctx, source) ==
  LET r == ctx.record
      locale == IF AtRoot(ctx.original, "locale") THEN ctx.original.attrs.locale ELSE ""
      slugs == SlugsOf(Found(source, Key("CMG", TenantOf(r), LocaleOr(locale), ""),
                             r.attrs.group.id))
  IN IF ~ InData(r, "group") \/ r.attrs.group.id = "" THEN ctx
     ELSE IF slugs # {} THEN [ctx EXCEPT !.record = Set(r, "group", CHOOSE s \in slugs : TRUE)]
     ELSE [ctx EXCEPT !.record = Set(r, "group", r.attrs.group.slug),
                      !.warned = @ \union {<<"group", r.attrs.group.id>>}]

NewAttribute == [helpText |-> "note", placeholderText |-> "placeholder", multipleValues |-> "list"]

\* A name that is there already keeps its value; the old name goes in any case.
RenameIn(has) ==
  LET names == DOMAIN has
      Old(new) == {o \in names \intersect DOMAIN NewAttribute : NewAttribute[o] = new}
      kept == names \ DOMAIN NewAttribute
  IN [n \in kept \union {NewAttribute[o] : o \in names \intersect DOMAIN NewAttribute} |->
        IF n \in kept THEN has[n] ELSE has[CHOOSE o \in Old(n) : TRUE]]

\* The fields of a model, nested ones included, are a set; has holds what else
\* is said of a field.
renameFieldAttributes(r) ==
  IF InData(r, "fields")
  THEN Set(r, "fields", {[f EXCEPT !.has = RenameIn(@)] : f \in r.attrs.fields}) ELSE r

groupsToRoles(r) ==
  IF r.type # "security.group" THEN r
  ELSE [r EXCEPT !.type = "security.role",
                 !.pk.space = IF @ = "GROUP" THEN "ROLE" ELSE @,
                 !.gsi1.name = IF @ = "GROUPS" THEN "ROLES" ELSE @]

\* A permission is [name, form, locales, refs, inheritedFrom]: refs names models
\* or groups; form says whether it is a list or an object of lists by locale
\* (refs being those of the locales in locales).
PermissionRefs(p, r, source) ==
  LET own == IF LocaleOr(r.pk.locale) \in p.locales THEN p.refs ELSE {}
  IN IF p.form # "locales" THEN p.refs
     ELSE IF p.name = "cms.contentModel" THEN own
     ELSE IF p.name = "cms.contentModelGroup"
     THEN UNION {SlugsOf(Found(source, Key("GROUP", TenantOf(r), "", g), "A")) : g \in own}
     ELSE p.refs

\* NOTE: the groups are looked up under the keys of security groups.
transformPermissions(r, source) ==
  IF ~ InData(r, "permissions") THEN r
  ELSE Set(r, "permissions",
           {[p EXCEPT !.refs = PermissionRefs(p, r, source),
                      !.form = IF p.name \in {"cms.contentModel", "cms.contentModelGroup"}
                               THEN "list" ELSE @]
              : p \in {x \in r.attrs.permissions : x.name # "content.i18n"}})

StripAt(r, a) == IF InData(r, a) THEN [r EXCEPT !.attrs[a] = StripRevision(@)] ELSE r

updateFlpIds(r) ==
  LET s == StripAt(StripAt(r, "id"), "parentId")
  IN IF ~ InData(s, "permissions") THEN s
     ELSE Set(s, "permissions", {[p EXCEPT !.inheritedFrom = StripRevision(@)]
                                   : p \in s.attrs.permissions})
==============================================================================

--------------------------------- MODULE Presets ---------------------------------
(***************************************************************************)
(* The built-in presets (src/src/presets) and the predicates they route    *)
(* records by (src/src/domain/transform/filters.ts).                       *)
(*                                                                         *)
(* A pipeline is [name, scanner, processors, filters, blackhole,           *)
(* transformers].  A preset is the sequence of its pipelines in the order  *)
(* they are registered: the first that accepts a record takes it.          *)
(* UserFilter stands for the filters of customizers.                       *)
(***************************************************************************)
EXTENDS Stores

CONSTANT UserFilter(_, _)

Processors == {"DdbProcessor", "OsProcessor", "AuditLogProcessor", "S3Processor"}

PipelineType ==
  [name : STRING, scanner : {"DdbScanner", "OsScanner"}, processors : Seq(Processors),
   filters : SUBSET STRING, blackhole : BOOLEAN, transformers : Seq(STRING)]

-----------------------------------------------------------------------------
(* Filters *)

\* getPropertyFromRecord, for the model id; "" stands for undefined.
ModelIdOf(r) == IF "modelId" \in Attrs(r) THEN r.attrs.modelId ELSE ""
RootModelId(r) == IF AtRoot(r, "modelId") THEN r.attrs.modelId ELSE ""
DataModelId(r) == IF InData(r, "modelId") THEN r.attrs.modelId ELSE ""

byType(r, type) == r.type = type

\* byTypePrefix, over the types that start with cms.entry.
EntryTypes == {"cms.entry", "cms.entry.l", "cms.entry.p"}

isCmsGroup(r) == byType(r, "cms.group") \/ r.pk.space = "CMG"

isCmsEntry(r) == r.type \in EntryTypes \/ r.pk.space = "CME"

\* byIncludesModelId("acoSearchRecord"), over the ids that contain it.
SearchRecordModels == {"acoSearchRecord", "acoSearchRecord-auditLogs"}

isAcoSearchRecord(r) ==
  r.index.modelId \in SearchRecordModels \/ ModelIdOf(r) \in SearchRecordModels

TaskModels == {"webinyTask", "webinyTaskLog"}

isBackgroundTask(r) == RootModelId(r) \in TaskModels \/ r.gsi1.name \in TaskModels

isFmFile(r) == ModelIdOf(r) \in InternalModels

isFlpRecord(r) == r.pk.space = "FLP"

isBuiltInSecurityRole(r) ==
  (IF AtRoot(r, "slug") THEN r.attrs.slug ELSE r.gsi1.sk) \in {"full-access", "anonymous"}

isOsBackgroundTask(r) == DataModelId(r) \in TaskModels

isOsMailerSettings(r) == DataModelId(r) = "mailerSettings"

isAuditLogEntry(r) == ModelIdOf(r) = "acoSearchRecord-auditLogs" /\ r.sk = "L"

isMigrationRecord(r) == r.pk.space = "MIGRATION"

isFormBuilderRecord(r) == r.pk.space = "FB" \/ r.type \in {"fb.form.f", "fb.formSubmission"}

isAdminUser(r) == r.pk.space = "USER" /\ r.gsi1.name = "securityRole#full-access"

Passes(filter, r) ==
  CASE filter = "isMigrationRecord" -> isMigrationRecord(r)
    [] filter = "isAuditLogEntry" -> isAuditLogEntry(r)
    [] filter = "isAcoSearchRecord" -> isAcoSearchRecord(r)
    [] filter = "isCmsGroup" -> isCmsGroup(r)
    [] filter = "isBackgroundTask" -> isBackgroundTask(r)
    [] filter = "isFmSettings" -> byType(r, "fm.settings")
    [] filter = "isFmFile" -> isFmFile(r)
    [] filter = "isMailerSettings" -> r.sk = "L" /\ RootModelId(r) = "mailerSettings"
    [] filter = "isSecurityGroup" -> byType(r, "security.group") /\ ~ isBuiltInSecurityRole(r)
    [] filter = "isSecurityTeam" -> byType(r, "security.team")
    [] filter = "isCmsModel" -> byType(r, "cms.model")
    [] filter = "isFlpRecord" -> isFlpRecord(r)
    [] filter = "isCmsEntry" -> isCmsEntry(r)
    [] filter = "isFormBuilderRecord" -> isFormBuilderRecord(r)
    [] filter = "isAdminUser" -> isAdminUser(r)
    [] filter = "isOsBackgroundTask" -> isOsBackgroundTask(r)
    [] filter = "isOsMailerSettings" -> isOsMailerSettings(r)
    [] OTHER -> UserFilter(filter, r)

\* Pipeline.accepts: all filters have to agree, and no filter takes all.
Accepts(pipeline, r) == \A f \in pipeline.filters : Passes(f, r)

-----------------------------------------------------------------------------
(* Transformers *)

cmsEntryTransformers ==
  <<"wrapInData", "addGsiTenant", "removeLocale", "fixCmePk", "fixBrokenStorageKeys",
    "transformRichText", "updateModelIds", "removeFolderRevision", "removeAttributes">>

osCmsEntryTransformers ==
  <<"addGsiTenant", "removeLocale", "fixCmePk", "fixBrokenStorageKeys", "transformRichText",
    "updateModelIds", "updateOsIndex", "removeFolderRevision", "removeAttributes",
    "addTransferTimestamp">>

auditLogTransformers == <<"coreFields", "dataFields", "storageShape">>

\* The transformers that make another record.
Replacing == {"storageShape", "migrateFileManagerSettings", "migrateMailerSettings"}

\* The record of a context after a transformer that changes nothing else.
Rewritten(name, r, env) ==
  CASE name = "wrapInData" -> wrapInData(r)
    [] name = "addGsiTenant" -> addGsiTenant(r)
    [] name = "removeLocale" -> removeLocale(r)
    [] name = "removeAttributes" -> removeAttributes(r)
    [] name = "addTransferTimestamp" -> addTransferTimestamp(r)
    [] name = "fixCmePk" -> fixCmePk(r)
    [] name = "replaceFileUrls" ->
         IF env.fileUrls THEN OnValues(replaceFileUrls, r, env.models) ELSE r
    [] name = "updateModelIds" -> updateModelIds(r)
    [] name = "removeFolderRevision" -> removeFolderRevision(r)
    [] name = "updateOsIndex" -> updateOsIndex(r)
    [] name = "groupsToRoles" -> groupsToRoles(r)
    [] name = "transformPermissions" -> transformPermissions(r, env.source)
    [] name = "renameFieldAttributes" -> renameFieldAttributes(r)
    [] name = "updateFlpIds" -> updateFlpIds(r)
    [] name = "dataFields" -> dataFieldsTransformer(r)
    [] name = "storageShape" -> storageShapeTransformer(r)
    [] OTHER -> r

Transform(name, ctx, env) ==
  CASE name = "fixBrokenStorageKeys" -> FixKeys(ctx, env.models)
    [] name = "transformRichText" -> RenderTexts(ctx, env.models)
    [] name = "addLiveField" -> addLiveField(ctx, env.source)
    [] name = "transformModelGroup" -> transformModelGroup(ctx, env.source)
    [] name = "migrateFileManagerSettings" -> migrateFileManagerSettings(ctx)
    [] name = "migrateMailerSettings" -> migrateMailerSettings(ctx)
    [] name = "createMetadata" -> createMetadata(ctx)
    [] name = "extractImageMetadata" -> extractImageMetadata(ctx, env)
    [] name = "copyFileToTarget" -> copyFileToTarget(ctx)
    [] name = "coreFields" -> coreFieldsTransformer(ctx, env.fresh)
    [] OTHER -> [ctx EXCEPT !.record = Rewritten(name, @, env)]

-----------------------------------------------------------------------------
(* v5-to-v6-ddb *)

Pipeline(name, filter, transformers) ==
  [name |-> name, scanner |-> "DdbScanner", processors |-> <<"DdbProcessor">>,
   filters |-> {filter}, blackhole |-> FALSE, transformers |-> transformers]

Blackhole(name, filter) == [Pipeline(name, filter, << >>) EXCEPT !.blackhole = TRUE]

migrationRecords == Blackhole("MigrationRecords", "isMigrationRecord")

auditLogs(config) ==
  [Pipeline("AuditLogs", "isAuditLogEntry", auditLogTransformers) EXCEPT
     !.processors = <<"AuditLogProcessor">>, !.blackhole = ~ config.auditTable]

acoSearchRecordsPage == Blackhole("AcoSearchRecordsPage", "isAcoSearchRecord")

contentModelGroups ==
  Pipeline("ContentModelGroups", "isCmsGroup",
           <<"wrapInData", "addGsiTenant", "removeLocale", "removeAttributes">>)

backgroundTasks == Blackhole("BackgroundTasks", "isBackgroundTask")

fmSettings ==
  Pipeline("FileManagerSettings", "isFmSettings",
           <<"wrapInData", "migrateFileManagerSettings", "removeAttributes">>)

fmFiles ==
  [Pipeline("FileManagerFiles", "isFmFile",
            cmsEntryTransformers
              \o <<"createMetadata", "extractImageMetadata", "copyFileToTarget">>)
     EXCEPT !.processors = <<"DdbProcessor", "S3Processor">>]

mailerSettings ==
  Pipeline("MailerSettings", "isMailerSettings",
           <<"wrapInData", "migrateMailerSettings", "removeAttributes">>)

securityGroups ==
  Pipeline("SecurityGroups", "isSecurityGroup",
           <<"wrapInData", "addGsiTenant", "groupsToRoles", "transformPermissions",
             "removeAttributes">>)

securityTeams ==
  Pipeline("SecurityTeams", "isSecurityTeam",
           <<"wrapInData", "addGsiTenant", "removeAttributes">>)

cmsModels ==
  Pipeline("CmsModels", "isCmsModel",
           <<"wrapInData", "addGsiTenant", "removeLocale", "transformModelGroup",
             "renameFieldAttributes", "removeAttributes">>)

folderPermissions ==
  Pipeline("FolderPermissions", "isFlpRecord",
           <<"wrapInData", "addGsiTenant", "removeLocale", "removeAttributes", "updateFlpIds">>)

cmsEntries ==
  Pipeline("CmsEntries", "isCmsEntry",
           cmsEntryTransformers \o <<"addLiveField", "replaceFileUrls">>)

formBuilderRecords == Blackhole("FormBuilderRecords", "isFormBuilderRecord")

adminUsers == Pipeline("AdminUsers", "isAdminUser", << >>)

\* Fault: the catch-all is registered before the pipelines it must come after.
EntriesFirst(config) ==
  <<migrationRecords, cmsEntries, auditLogs(config), acoSearchRecordsPage, contentModelGroups,
    backgroundTasks, fmSettings, fmFiles, mailerSettings, securityGroups, securityTeams,
    cmsModels, folderPermissions, adminUsers, formBuilderRecords>>

v5_to_v6_ddb(config) ==
  <<migrationRecords, auditLogs(config), acoSearchRecordsPage, contentModelGroups,
    backgroundTasks, fmSettings, fmFiles, mailerSettings, securityGroups, securityTeams,
    cmsModels, folderPermissions, cmsEntries, adminUsers, formBuilderRecords>>

-----------------------------------------------------------------------------
(* The other presets *)

InOs(pipeline) ==
  [pipeline EXCEPT !.scanner = "OsScanner", !.processors = <<"OsProcessor">>]

v5_to_v6_os ==
  <<InOs(Blackhole("AcoSearchRecords", "isAcoSearchRecord")),
    InOs(Blackhole("BackgroundTasks", "isOsBackgroundTask")),
    InOs(Blackhole("MailerSettings", "isOsMailerSettings")),
    InOs(Pipeline("FileManagerFiles", "isFmFile", osCmsEntryTransformers)),
    InOs(Pipeline("CmsEntries", "isCmsEntry",
                  osCmsEntryTransformers \o <<"addLiveField", "replaceFileUrls">>))>>

Everything(name) == [Pipeline(name, "", << >>) EXCEPT !.filters = {}]

copy_ddb == <<Everything("Regular DynamoDB Table Data")>>

copy_os == <<InOs(Everything("OpenSearch DynamoDB Table Data"))>>

copy_files ==
  <<[Pipeline("S3 Files", "isFmFile", <<"copyFileToTarget">>) EXCEPT
       !.processors = <<"DdbProcessor", "S3Processor">>]>>
==============================================================================

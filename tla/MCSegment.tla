-------------------------------- MODULE MCSegment --------------------------------
(* Values for TLC: each setup is a table with a few rows and a preset.       *)
EXTENDS Segment

MCFresh(run, p) == "log " \o ToString(run) \o "." \o ToString(p)

\* The only filter of a customizer: it takes no revisions.
MCUserFilter(name, r) == r.sk # "REV"

MCPos == 1..8
MCSegmentOf == [p \in MCPos |-> IF p <= 6 THEN 1 ELSE 2]

-----------------------------------------------------------------------------
(* Rows *)

Row(space, tenant, locale, id, sk, type, attrs) ==
  [pk |-> Key(space, tenant, locale, id), sk |-> sk, type |-> type, gsi1 |-> NoGsi,
   gsiTenant |-> "", in |-> "root", attrs |-> attrs, index |-> NoIndex, zip |-> "none"]

Gsi(r, name) == [r EXCEPT !.gsi1.name = name]

Value(path, format, host) == [path |-> path, format |-> format, host |-> host]

\* A model with a title and a lead whose declared keys are wrong, rich texts in an object
\* and in an object whose own key is wrong, one of which cannot be rendered, a list of rich
\* texts, and a picture.
Old(type) == <<type, "old">>
Block == <<"object", "block">>
Body == <<"rich-text", "body">>
Note == <<"rich-text", "note">>
Notes == <<"rich-text", "notes">>
Picture == <<"file", "picture">>
Field(path, type, id) ==
  [path |-> path, type |-> type, id |-> id,
   has |-> [multipleValues |-> FALSE, helpText |-> "old", note |-> "new"]]
Lead == Field(<<Old("rich-text")>>, "rich-text", "lead")
ArticleFields ==
  {Lead, Field(<<Old("text")>>, "text", "title"), Field(<<Block>>, "object", "block"),
   Field(<<Block, Body>>, "rich-text", "body"), Field(<<Block, Note>>, "rich-text", "note"),
   Field(<<Notes>>, "rich-text", "notes"), Field(<<Old("object")>>, "object", "side"),
   Field(<<Old("object"), Body>>, "rich-text", "body"), Field(<<Picture>>, "file", "picture")}
ArticleValues ==
  {Value(Lead.path, "lexical", "source"), Value(<<Old("text")>>, "text", "none"),
   Value(<<Block>>, "text", "none"), Value(<<Block, Body>>, "lexical", "source"),
   Value(<<Block, Note>>, "unrenderable", "source"), Value(<<Notes>>, "rootless", "source"),
   Value(<<Old("object")>>, "text", "none"), Value(<<Old("object"), Body>>, "lexical", "source"),
   Value(<<Picture>>, "text", "source")}

Entry(tenant, locale, id, sk, model, status, version) ==
  [Gsi(Row("CME", tenant, locale, id, sk, IF sk = "L" THEN "cms.entry.l" ELSE "cms.entry",
           [modelId |-> model, tenant |-> tenant, locale |-> locale, status |-> status,
            version |-> version, values |-> ArticleValues, webinyVersion |-> "5"]), model)
     EXCEPT !.pk.twice = TRUE]

Model(tenant, id, group) ==
  Row("CM", tenant, "en-US", "", id, "cms.model",
      [modelId |-> id, tenant |-> tenant, locale |-> "en-US", fields |-> ArticleFields,
       group |-> group])

File(id, sk, name, type) ==
  [Gsi(Row("CME", "root", "en-US", id, sk, IF sk = "L" THEN "cms.entry.l" ELSE "cms.entry",
           ("text@key" :> name) @@ ("text@name" :> name) @@ ("text@type" :> type) @@
           ("object@meta" :> "v5") @@
           [modelId |-> "fmFile", tenant |-> "root", id |-> [id |-> id, rev |-> 1],
            values |-> {}]), "fmFile") EXCEPT !.pk.twice = TRUE]

Object(name) == [tenant |-> "", key |-> name]

Audit(id, sk, attrs) ==
  Row("CME", "root", "en-US", id, sk, "cms.entry.l",
      attrs @@ [modelId |-> "acoSearchRecord-auditLogs", tenant |-> "root", entryId |-> id])

Plain(space, id, sk, type, attrs) == Row(space, "root", "", id, sk, type, attrs)

OsRow(r, zip) ==
  [r EXCEPT !.in = "data", !.zip = zip,
            !.index = [tenant |-> "root", modelId |-> r.attrs.modelId]]

-----------------------------------------------------------------------------
(* Setups *)

Config == [auditTable |-> TRUE, fileUrls |-> TRUE, snapshot |-> TRUE, segments |-> 1]

Setup(asked, rows) ==
  [asked |-> asked, user |-> << >>, files |-> << >>,
   registered |-> {"DdbScanner", "OsScanner", "DdbProcessor", "S3Processor", "OsProcessor",
                   "AuditLogProcessor"},
   customizers |-> << >>, config |-> Config, total |-> 1, runs |-> 1, json |-> << >>, failing |-> {},
   objects |-> {}, rows |-> rows, edit |-> << >>, own |-> << >>]

\* An entry is published while it is scanned.
Published ==
  [Setup("v5-to-v6-ddb",
         1 :> Model("root", "article", [id |-> "g1", slug |-> "blog"]) @@
         2 :> Entry("root", "en-US", "e1", "L", "article", "draft", 1) @@
         4 :> Entry("root", "en-US", "e1", "REV", "article", "draft", 1) @@
         5 :> Entry("root", "en-US", "e2", "L", "article", "published", 3))
     EXCEPT !.edit = 2 :> Entry("root", "en-US", "e1", "L", "article", "published", 1) @@
                     3 :> Entry("root", "en-US", "e1", "P", "article", "published", 1),
            !.own = 1 :> "CmsModels" @@ 2 :> "CmsEntries" @@ 3 :> "CmsEntries" @@
                    4 :> "CmsEntries" @@ 5 :> "CmsEntries"]

\* Two tenants, two locales, more models than a query returns.
TenantRow(id) == [Gsi(Plain("T", id, "A", "tenancy.tenant", [id |-> id]), "TENANTS") EXCEPT !.in = "data"]
Tenants ==
  [Setup("v5-to-v6-ddb",
         1 :> TenantRow("acme") @@
         2 :> [Row("I18N", "acme", "", "", "D", "i18n.locale", [code |-> "de-DE"]) EXCEPT !.in = "data"] @@
         3 :> Model("acme", "page", [id |-> "g1", slug |-> "blog"]) @@
         4 :> [Model("acme", "article", [id |-> "g1", slug |-> "blog"]) EXCEPT !.pk.locale = "de-DE"] @@
         5 :> Entry("acme", "de-DE", "e1", "L", "article", "draft", 1))
     EXCEPT !.failing = {<<"tenants", "">>, <<"locale", "acme">>, <<"models", "acme">>},
            !.own = 1 :> "none" @@ 2 :> "none" @@ 3 :> "CmsModels" @@ 4 :> "CmsModels" @@
                    5 :> "CmsEntries"]

\* Two workers; one entry is there in two locales.
Segments ==
  [Setup("v5-to-v6-ddb",
         4 :> Entry("root", "de-DE", "e1", "L", "page", "draft", 1) @@
         5 :> Entry("root", "en-US", "e1", "L", "page", "draft", 1) @@
         7 :> Entry("root", "en-US", "e3", "L", "page", "draft", 1))
     EXCEPT !.total = 2, !.config.segments = 2, !.json = "page" :> ArticleFields,
            !.own = 4 :> "CmsEntries" @@ 5 :> "CmsEntries" @@ 7 :> "CmsEntries"]

\* Rows that broader pipelines would take as well.
SearchRecords ==
  [Setup("v5-to-v6-ddb",
         1 :> Plain("MIGRATION", "5.40", "A", "none", << >>) @@
         2 :> Audit("a1", "L", [createdBy |-> "known", createdOn |-> "known"]) @@
         3 :> Audit("a2", "L", [payload |-> {"createdBy"}]) @@
         4 :> Audit("a3", "REV", << >>) @@
         5 :> Gsi(Row("CME", "root", "en-US", "t1", "L", "cms.entry.l",
                      [modelId |-> "webinyTask", tenant |-> "root"]), "webinyTask") @@
         6 :> Row("CMG", "root", "en-US", "", "g1", "cms.group", [slug |-> "blog", tenant |-> "root"]))
     EXCEPT !.own = 1 :> "MigrationRecords" @@ 2 :> "AuditLogs" @@ 3 :> "AuditLogs" @@
                    4 :> "AcoSearchRecordsPage" @@ 5 :> "BackgroundTasks" @@ 6 :> "ContentModelGroups"]

\* Files, one of whose objects is gone, and settings.
Files ==
  [Setup("v5-to-v6-ddb",
         1 :> File("f1", "L", "a.png", "image") @@
         2 :> File("f1", "REV", "a.png", "image") @@
         3 :> File("f2", "L", "b.pdf", "pdf") @@
         4 :> Plain("FM", "", "A", "fm.settings", [tenant |-> "root", srcPrefix |-> "/files"]) @@
         5 :> Row("CME", "root", "en-US", "m1", "L", "cms.entry.l",
                  [modelId |-> "mailerSettings", tenant |-> "root", values |-> {}]))
     EXCEPT !.objects = {Object("a.png")},
            !.own = 1 :> "FileManagerFiles" @@ 2 :> "FileManagerFiles" @@ 3 :> "FileManagerFiles" @@
                    4 :> "FileManagerSettings" @@ 5 :> "MailerSettings"]

Permissions ==
  {[name |-> "content.i18n", form |-> "list", locales |-> {}, refs |-> {}],
   [name |-> "cms.contentModel", form |-> "locales", locales |-> {"en-US"}, refs |-> {"article"}],
   [name |-> "cms.contentModelGroup", form |-> "locales", locales |-> {"en-US"}, refs |-> {"g1"}]}
SecurityGroup(id, slug) ==
  [Gsi(Plain("GROUP", id, "A", "security.group",
             [tenant |-> "root", slug |-> slug, permissions |-> Permissions]), "GROUPS")
     EXCEPT !.gsi1.sk = slug]

\* Settings of the security and the folders.
Access ==
  [Setup("v5-to-v6-ddb",
         1 :> SecurityGroup("r1", "editors") @@
         2 :> SecurityGroup("r2", "full-access") @@
         3 :> Plain("TEAM", "t1", "A", "security.team", [tenant |-> "root", slug |-> "crew"]) @@
         4 :> Row("FLP", "root", "en-US", "d1", "A", "folder.permission",
                  [tenant |-> "root", id |-> [id |-> "d1", rev |-> 1],
                   permissions |-> {[inheritedFrom |-> [id |-> "d0", rev |-> 1]]}]) @@
         5 :> Gsi(Plain("USER", "u1", "A", "adminUsers.user", << >>), "securityRole#full-access") @@
         6 :> Plain("FB", "b1", "A", "fb.form.f", << >>))
     EXCEPT !.own = 1 :> "SecurityGroups" @@ 2 :> "none" @@ 3 :> "SecurityTeams" @@
                    4 :> "FolderPermissions" @@ 5 :> "AdminUsers" @@ 6 :> "FormBuilderRecords"]

\* The table of an OpenSearch installation.
OsRows ==
  1 :> OsRow(Entry("root", "en-US", "e1", "L", "article", "draft", 1), "gzip") @@
  2 :> OsRow(Entry("root", "en-US", "e1", "P", "article", "published", 1), "broken") @@
  3 :> [Plain("OTHER", "x", "A", "none", << >>) EXCEPT !.in = "data"] @@
  4 :> OsRow(Row("CME", "root", "en-US", "t1", "L", "", [modelId |-> "webinyTask", tenant |-> "root"]), "gzip") @@
  5 :> OsRow(File("f1", "L", "a.png", "image"), "gzip") @@
  6 :> OsRow(Row("CME", "root", "en-US", "m1", "L", "",
                 [modelId |-> "mailerSettings", tenant |-> "root"]), "gzip")
OpenSearch ==
  [Setup("v5-to-v6-os", OsRows) EXCEPT
     !.json = "article" :> ArticleFields,
     !.own = 1 :> "CmsEntries" @@ 4 :> "BackgroundTasks" @@ 5 :> "FileManagerFiles" @@
             6 :> "MailerSettings"]

Copies ==
  {Setup("copy-ddb", 1 :> TenantRow("acme")),
   Setup("copy-os", 1 :> OsRows[1] @@ 2 :> OsRows[2] @@ 3 :> OsRows[3]),
   [Setup("copy-files", 1 :> File("f1", "L", "a.png", "image") @@ 2 :> TenantRow("acme"))
      EXCEPT !.objects = {Object("a.png")}]}

\* Presets and customizers of a user.
\* The preset of the user copies files with no processor that would.
Mine == Preset("mine", <<[copy_ddb[1] EXCEPT !.transformers = <<"copyFileToTarget">>]>>)
Customizer == [name |-> "no revisions", uses |-> {"CmsEntries", "FileManagerFiles"},
               filters |-> {"noRevisions"}, transformers |-> <<"addTransferTimestamp">>]
Revisions == 1 :> File("f1", "REV", "a.png", "image") @@
             2 :> Entry("root", "en-US", "e2", "L", "article", "draft", 1)
Users ==
  {[Setup(n, Revisions) EXCEPT !.user = "my-preset" :> Mine] :
     n \in ListedPresets([Setup("", << >>) EXCEPT !.user = "my-preset" :> Mine]) \union
           {"my-preset", "no-preset"}} \union
  {[Setup("./p.ts", Revisions) EXCEPT !.files = "./p.ts" :> p] :
     p \in {Mine, [Mine EXCEPT !.name = ""], Preset("both", copy_ddb \o copy_os),
            Preset("twice", copy_ddb \o copy_ddb), Preset("empty", << >>)}} \union
  {[Setup("v5-to-v6-ddb", Revisions) EXCEPT
      !.customizers = <<Customizer, [Customizer EXCEPT !.uses = {"Entries"}]>>],
   [Setup("v5-to-v6-ddb", Revisions) EXCEPT !.registered = {"DdbScanner", "DdbProcessor"}],
   [Setup("copy-ddb", Revisions) EXCEPT !.total = 2]}

MCSetups ==
  Copies \union Users \union
  {[x EXCEPT !.runs = 2] :
     x \in {Published, Tenants, Segments, SearchRecords, Files, Access, OpenSearch}}

\* One entry whose only value is a rich text under a wrong key.
MCMisplaced ==
  {[Setup("v5-to-v6-ddb",
          1 :> [Entry("root", "en-US", "e1", "L", "article", "draft", 1) EXCEPT
                  !.attrs.values = {Value(Lead.path, "lexical", "source")}])
      EXCEPT !.json = "article" :> {Lead}]}
==============================================================================

---------------------------------- MODULE Models ----------------------------------
(***************************************************************************)
(* What ModelPreloaderHook reads before a worker scans: the default locale *)
(* of each tenant (TenantLocales) and the models of the tenants in that    *)
(* locale (ModelProvider).  Models are kept by their id alone: the one of  *)
(* the first tenant is the one of all.                                     *)
(*                                                                         *)
(* failed is the set of queries that fail, as <<what, tenant>>; each of     *)
(* them is only warned of.                                                 *)
(***************************************************************************)
EXTENDS Presets, SequencesExt

CONSTANT QueryLimit  \* what one response of a query holds

ASSUME ModelsAssumption == QueryLimit \in Nat \ {0}

\* DynamoDbClient.query sends one request: what does not fit is not read.
Query(rows) == {n \in rows : Cardinality({m \in rows : m < n}) < QueryLimit}

With(source, pk) == {n \in DOMAIN source : source[n].pk = pk}

-----------------------------------------------------------------------------
(* TenantLocales *)

fetchTenants(source, failed) ==
  IF <<"tenants", "">> \in failed THEN {}
  ELSE {n \in Query({m \in DOMAIN source : source[m].gsi1.name = "TENANTS"}) :
          InData(source[n], "id")}

fetchDefaultLocale(source, tenant, failed) ==
  LET rows == {n \in With(source, Key("I18N", tenant, "", "")) : source[n].sk = "D"}
  IN IF <<"locale", tenant>> \in failed \/ rows = {} THEN "en-US"
     ELSE source[CHOOSE n \in rows : \A m \in rows : n <= m].attrs.code

\* The tenants in the order they are read; root is there in any case, at the end
\* if it was not read.
TenantsInOrder(source, failed) ==
  LET rows == fetchTenants(source, failed)
      read == [n \in 1..Cardinality(rows) |->
                 source[CHOOSE m \in rows : Cardinality({k \in rows : k < m}) = n - 1].attrs.id]
  IN IF "root" \in ToSet(read) THEN read ELSE Append(read, "root")

tenantLocales(source, failed) ==
  [t \in ToSet(TenantsInOrder(source, failed)) |->
     IF \E n \in fetchTenants(source, failed) : source[n].attrs.id = t
     THEN fetchDefaultLocale(source, t, failed) ELSE "en-US"]

-----------------------------------------------------------------------------
(* ModelProvider *)

ModelRows(source, tenant, locale, failed) ==
  IF <<"models", tenant>> \in failed THEN {}
  ELSE Query(With(source, Key("CM", tenant, locale, "")))

\* The models of a tenant: the first row of an id counts.
ModelsOf(source, rows) ==
  [m \in {source[n].attrs.modelId : n \in rows} |->
     source[CHOOSE n \in rows : /\ source[n].attrs.modelId = m
                                /\ \A k \in rows : source[k].attrs.modelId = m => n <= k]
       .attrs.fields]

\* Those of modelsDir replace what was read.
preloadModels(source, json, failed) ==
  LET locales == tenantLocales(source, failed)
      Add(models, t) ==
        Over(models, ModelsOf(source, ModelRows(source, t, locales[t], failed)))
  IN Over(json, FoldLeft(Add, << >>, TenantsInOrder(source, failed)))
==============================================================================

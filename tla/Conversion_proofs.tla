---------------------------- MODULE Conversion_proofs ----------------------------
(***************************************************************************)
(* Lemmas about the operators that rows go through, for every row and      *)
(* every preset: what each transformer changes of a record and of its      *)
(* context (Rewriting, Models, Stores), what a pipeline of them makes of   *)
(* it and what its processors put (Conversion), which pipelines a setup    *)
(* gives (Presets, Assembly), which order of the processors, that the      *)
(* pipelines of entries leave no rich text in the old format, and where a  *)
(* row goes.                                                               *)
(*                                                                         *)
(* Transformers, processors, customizers and pipelines are folded over.  A *)
(* fold of the library is defined by recursion over sets; here it is shown *)
(* to run through steps c[0], c[1], ... with c[i] made of c[i - 1], and    *)
(* what every step keeps is kept by induction over i, for which a set of   *)
(* numbers stands for the property (SetInduction).                         *)
(***************************************************************************)
EXTENDS Conversion, TLAPS, NaturalsInduction, WellFoundedInduction, SequenceTheorems

-----------------------------------------------------------------------------
(* Induction and folds *)

\* A set of numbers with 0, and with each number the next, has them all.
LEMMA SetInduction ==
  ASSUME NEW S \in SUBSET Nat, 0 \in S, \A n \in S : n + 1 \in S
  PROVE  S = Nat
<1> SUFFICES ASSUME Nat \ S # {} PROVE FALSE
  OBVIOUS
<1>1. IsWellFoundedOn(OpToRel(<, Nat), Nat)
  BY NatLessThanWellFounded
<1>2. PICK m \in Nat \ S : \A k \in Nat \ S : ~ (<<k, m>> \in OpToRel(<, Nat))
  BY <1>1, WFMin
<1>3. m # 0 /\ m - 1 \in Nat /\ m - 1 + 1 = m
  OBVIOUS
<1>4. m - 1 \notin S
  BY <1>3
<1>5. <<m - 1, m>> \in OpToRel(<, Nat)
  BY <1>3 DEF OpToRel
<1> QED
  BY <1>2, <1>3, <1>4, <1>5

\* What is folded here: no prover takes an operator as a parameter, so they are named.
Act(how, acc, item, env) ==
  CASE how = "transform" -> Transform(item, acc, env)
    [] how = "end" -> AtEnd(acc, item, env)
    [] how = "once" -> Once(acc, item)
    [] how = "order" -> AllOnce(acc, item.processors)
    [] how = "extend" -> Extended(acc, item, env)

\* The equation of a fold over the first n items.
IsFold(F, n, how, start, items, env) ==
  F = [S \in SUBSET (1..n) |->
         IF S = {} THEN start ELSE Act(how, F[S \ {Max(S)}], items[Max(S)], env)]

\* The greatest of some of the first k + 1 numbers is k + 1, when it is among them.
LEMMA LastOf ==
  ASSUME NEW k \in Nat, NEW S \in SUBSET (1..(k + 1)), k + 1 \in S
  PROVE  Max(S) = k + 1
<1>1. \A y \in S : k + 1 >= y
  OBVIOUS
<1>2. \A x \in S : (\A y \in S : x >= y) => x = k + 1
  OBVIOUS
<1> QED
  BY <1>1, <1>2 DEF Max

\* The recursive equation by which the library defines a fold has a solution.
LEMMA FoldExists ==
  ASSUME NEW n \in Nat, NEW how, NEW start, NEW items, NEW env
  PROVE  \E F : IsFold(F, n, how, start, items, env)
<1> DEFINE N == {k \in Nat : \E F : IsFold(F, k, how, start, items, env)}
<1>1. 0 \in N
  <2>1. IsFold([S \in {{}} |-> start], 0, how, start, items, env)
    BY DEF IsFold
  <2> QED
    BY <2>1
<1>2. ASSUME NEW k \in N PROVE k + 1 \in N
  <2>1. k \in Nat
    OBVIOUS
  <2>2. PICK F : IsFold(F, k, how, start, items, env)
    OBVIOUS
  <2> DEFINE G == [S \in SUBSET (1..(k + 1)) |->
                     IF k + 1 \in S THEN Act(how, F[S \ {k + 1}], items[k + 1], env) ELSE F[S]]
             E(S) == IF S = {} THEN start ELSE Act(how, G[S \ {Max(S)}], items[Max(S)], env)
  <2>3. ASSUME NEW S \in SUBSET (1..(k + 1)) PROVE G[S] = E(S)
    <3>1. CASE k + 1 \in S
      <4>1. Max(S) = k + 1
        BY <2>1, <3>1, LastOf
      <4>2. S \ {k + 1} \in SUBSET (1..(k + 1)) /\ k + 1 \notin S \ {k + 1} /\ S # {}
        BY <3>1
      <4>3. G[S \ {k + 1}] = F[S \ {k + 1}]
        BY <4>2
      <4> QED
        BY <3>1, <4>1, <4>2, <4>3
    <3>2. CASE k + 1 \notin S
      <4>0. \A x \in S : x \in 1..k
        BY <2>1, <3>2
      <4>1. S \in SUBSET (1..k) /\ S \ {Max(S)} \in SUBSET (1..(k + 1)) /\ k + 1 \notin S \ {Max(S)}
        <5> DEFINE m == Max(S)
        <5> HIDE DEF m
        <5> QED
          BY <3>2, <4>0
      <4>2. G[S] = F[S] /\ G[S \ {Max(S)}] = F[S \ {Max(S)}]
        BY <3>2, <4>1
      <4>3. F[S] = IF S = {} THEN start ELSE Act(how, F[S \ {Max(S)}], items[Max(S)], env)
        BY <2>2, <4>1 DEF IsFold
      <4> QED
        BY <4>2, <4>3
    <3> QED
      BY <3>1, <3>2
  <2>4. G = [S \in SUBSET (1..(k + 1)) |-> G[S]]
    OBVIOUS
  <2>5. IsFold(G, k + 1, how, start, items, env)
    <3> HIDE DEF G
    <3> QED
      BY <2>3, <2>4 DEF IsFold
  <2> HIDE DEF G
  <2> QED
    BY <2>1, <2>5
<1>3. N \in SUBSET Nat
  OBVIOUS
<1>4. N = Nat
  <2> HIDE DEF N
  <2> QED
    BY <1>1, <1>2, <1>3, SetInduction
<1> QED
  BY <1>4

\* A fold is what its last step yields.
Steps(c, n, how, start, items, env) ==
  /\ c[0] = start
  /\ \A i \in 1..n : c[i] = Act(how, c[i - 1], items[i], env)

\* And a solution is reached step by step.
LEMMA FoldSteps ==
  ASSUME NEW n \in Nat, NEW how, NEW start, NEW items, NEW env,
         NEW F, IsFold(F, n, how, start, items, env)
  PROVE  \E c : Steps(c, n, how, start, items, env) /\ c[n] = F[1..n]
<1> DEFINE c == [i \in 0..n |-> F[1..i]]
<1>1. c[0] = start
  BY DEF IsFold
<1>2. ASSUME NEW i \in 1..n PROVE c[i] = Act(how, c[i - 1], items[i], env)
  <2>1. i - 1 \in Nat /\ i - 1 + 1 = i /\ i \in 1..i /\ i - 1 \in 0..n
    OBVIOUS
  <2>2. Max(1..i) = i
    BY <2>1, LastOf
  <2>3. (1..i) \ {i} = 1..(i - 1) /\ 1..i \in SUBSET (1..n) /\ 1..i # {}
    OBVIOUS
  <2>4. F[1..i] = Act(how, F[1..(i - 1)], items[i], env)
    BY <2>2, <2>3 DEF IsFold
  <2> QED
    BY <2>1, <2>4
<1> HIDE DEF c
<1>3. c[n] = F[1..n]
  BY DEF c
<1> QED
  BY <1>1, <1>2, <1>3 DEF Steps
\* The folds of the model: a row through its transformers and its processors, the
\* order of the processors, and what customizers add to a pipeline.
LEMMA TransformSteps ==
  ASSUME NEW n \in Nat, NEW items, DOMAIN items = 1..n, NEW start, NEW env
  PROVE  \E c : Steps(c, n, "transform", start, items, env) /\ c[n] = AllTransforms(start, items, env)
<1> DEFINE Is(F) == F = [S \in SUBSET (1..n) |->
                           IF S = {} THEN start ELSE Transform(items[Max(S)], F[S \ {Max(S)}], env)]
<1>1. \A F : Is(F) <=> IsFold(F, n, "transform", start, items, env)
  BY DEF IsFold, Act
<1>2. \E F : Is(F)
  BY <1>1, FoldExists
<1>3. AllTransforms(start, items, env) = (CHOOSE F : Is(F))[1..n]
  BY Zenon DEF AllTransforms, FoldLeft, MapThenFoldSet
<1>4. PICK F : Is(F) /\ F[1..n] = AllTransforms(start, items, env)
  <2> HIDE DEF Is
  <2> QED
    BY <1>2, <1>3
<1>5. IsFold(F, n, "transform", start, items, env)
  BY <1>1, <1>4
<1> HIDE DEF Is
<1>6. PICK c : Steps(c, n, "transform", start, items, env) /\ c[n] = F[1..n]
  BY <1>5, FoldSteps
<1> QED
  BY <1>4, <1>6

\* The processors of a row, one after the other.
LEMMA EndSteps ==
  ASSUME NEW n \in Nat, NEW items, DOMAIN items = 1..n, NEW start, NEW env
  PROVE  \E c : Steps(c, n, "end", start, items, env) /\ c[n] = AllEnds(start, items, env)
<1> DEFINE Is(F) == F = [S \in SUBSET (1..n) |->
                           IF S = {} THEN start ELSE AtEnd(F[S \ {Max(S)}], items[Max(S)], env)]
<1>1. \A F : Is(F) <=> IsFold(F, n, "end", start, items, env)
  BY DEF IsFold, Act
<1>2. \E F : Is(F)
  BY <1>1, FoldExists
<1>3. AllEnds(start, items, env) = (CHOOSE F : Is(F))[1..n]
  BY Zenon DEF AllEnds, FoldLeft, MapThenFoldSet
<1>4. PICK F : Is(F) /\ F[1..n] = AllEnds(start, items, env)
  <2> HIDE DEF Is
  <2> QED
    BY <1>2, <1>3
<1>5. IsFold(F, n, "end", start, items, env)
  BY <1>1, <1>4
<1> HIDE DEF Is
<1>6. PICK c : Steps(c, n, "end", start, items, env) /\ c[n] = F[1..n]
  BY <1>5, FoldSteps
<1> QED
  BY <1>4, <1>6

\* The processors of a pipeline, each once.
LEMMA OnceSteps ==
  ASSUME NEW n \in Nat, NEW items, DOMAIN items = 1..n, NEW start
  PROVE  \E c : Steps(c, n, "once", start, items, {}) /\ c[n] = AllOnce(start, items)
<1> DEFINE Is(F) == F = [S \in SUBSET (1..n) |->
                           IF S = {} THEN start ELSE Once(F[S \ {Max(S)}], items[Max(S)])]
<1>1. \A F : Is(F) <=> IsFold(F, n, "once", start, items, {})
  BY DEF IsFold, Act
<1>2. \E F : Is(F)
  BY <1>1, FoldExists
<1>3. AllOnce(start, items) = (CHOOSE F : Is(F))[1..n]
  BY Zenon DEF AllOnce, FoldLeft, MapThenFoldSet
<1>4. PICK F : Is(F) /\ F[1..n] = AllOnce(start, items)
  <2> HIDE DEF Is
  <2> QED
    BY <1>2, <1>3
<1>5. IsFold(F, n, "once", start, items, {})
  BY <1>1, <1>4
<1> HIDE DEF Is
<1>6. PICK c : Steps(c, n, "once", start, items, {}) /\ c[n] = F[1..n]
  BY <1>5, FoldSteps
<1> QED
  BY <1>4, <1>6

\* The pipelines of a preset, one after the other.
LEMMA OrderSteps ==
  ASSUME NEW n \in Nat, NEW items, DOMAIN items = 1..n
  PROVE  \E c : Steps(c, n, "order", << >>, items, {}) /\ c[n] = collectProcessorOrder(items)
<1> DEFINE Is(F) == F = [S \in SUBSET (1..n) |->
                           IF S = {} THEN << >> ELSE AllOnce(F[S \ {Max(S)}], items[Max(S)].processors)]
<1>1. \A F : Is(F) <=> IsFold(F, n, "order", << >>, items, {})
  BY DEF IsFold, Act
<1>2. \E F : Is(F)
  BY <1>1, FoldExists
<1>3. collectProcessorOrder(items) = (CHOOSE F : Is(F))[1..n]
  BY Zenon DEF collectProcessorOrder, FoldLeft, MapThenFoldSet
<1>4. PICK F : Is(F) /\ F[1..n] = collectProcessorOrder(items)
  <2> HIDE DEF Is
  <2> QED
    BY <1>2, <1>3
<1>5. IsFold(F, n, "order", << >>, items, {})
  BY <1>1, <1>4
<1> HIDE DEF Is
<1>6. PICK c : Steps(c, n, "order", << >>, items, {}) /\ c[n] = F[1..n]
  BY <1>5, FoldSteps
<1> QED
  BY <1>4, <1>6

\* The customizers of a pipeline, one after the other.
LEMMA ExtendSteps ==
  ASSUME NEW n \in Nat, NEW items, DOMAIN items = 1..n, NEW start, NEW env
  PROVE  \E c : Steps(c, n, "extend", start, items, env) /\ c[n] = AllExtended(start, items, env)
<1> DEFINE Is(F) == F = [S \in SUBSET (1..n) |->
                           IF S = {} THEN start ELSE Extended(F[S \ {Max(S)}], items[Max(S)], env)]
<1>1. \A F : Is(F) <=> IsFold(F, n, "extend", start, items, env)
  BY DEF IsFold, Act
<1>2. \E F : Is(F)
  BY <1>1, FoldExists
<1>3. AllExtended(start, items, env) = (CHOOSE F : Is(F))[1..n]
  BY Zenon DEF AllExtended, FoldLeft, MapThenFoldSet
<1>4. PICK F : Is(F) /\ F[1..n] = AllExtended(start, items, env)
  <2> HIDE DEF Is
  <2> QED
    BY <1>2, <1>3
<1>5. IsFold(F, n, "extend", start, items, env)
  BY <1>1, <1>4
<1> HIDE DEF Is
<1>6. PICK c : Steps(c, n, "extend", start, items, env) /\ c[n] = F[1..n]
  BY <1>5, FoldSteps
<1> QED
  BY <1>4, <1>6

-----------------------------------------------------------------------------
(* Records *)

\* Attributes but those of a set are as they were.
KeptBut(names, r, s) ==
  \A a : a \notin names =>
    /\ a \in Attrs(s) <=> a \in Attrs(r)
    /\ a \in Attrs(r) => s.attrs[a] = r.attrs[a]

\* A record with the same attributes.
LEMMA KeptFields ==
  ASSUME NEW r, NEW s, NEW names, s.attrs = r.attrs
  PROVE  KeptBut(names, r, s)
BY DEF KeptBut, Attrs

\* An attribute is set.
LEMMA SetRecord ==
  ASSUME NEW r, IsRecord(r), NEW a, NEW v
  PROVE  /\ IsRecord(Set(r, a, v)) /\ KeptBut({a}, r, Set(r, a, v))
         /\ Set(r, a, v).in = r.in
         /\ a \in Attrs(Set(r, a, v)) /\ Set(r, a, v).attrs[a] = v
<1> DEFINE more == Over(Only(a, v), r.attrs)
<1>1. /\ DOMAIN more = {a} \union DOMAIN r.attrs
      /\ more[a] = v /\ \A b \in DOMAIN r.attrs : b # a => more[b] = r.attrs[b]
  BY DEF Over, Only
<1> HIDE DEF more
<1>2. Set(r, a, v) = [r EXCEPT !.attrs = more]
  BY DEF Set, more
<1>3. IsRecord(Set(r, a, v)) /\ Set(r, a, v).attrs = more /\ Set(r, a, v).in = r.in
  BY <1>2 DEF IsRecord
<1> QED
  BY <1>1, <1>3 DEF KeptBut, Attrs

\* Attributes are deleted.
LEMMA DeleteRecord ==
  ASSUME NEW r, IsRecord(r), NEW names
  PROVE  /\ IsRecord(Delete(r, names)) /\ KeptBut(names, r, Delete(r, names))
         /\ Delete(r, names).in = r.in
         /\ Attrs(Delete(r, names)) = Attrs(r) \ names
<1> DEFINE less == Restrict(r.attrs, DOMAIN r.attrs \ names)
<1>1. /\ DOMAIN less = DOMAIN r.attrs \ names
      /\ \A b \in DOMAIN less : less[b] = r.attrs[b]
  BY DEF Restrict
<1> HIDE DEF less
<1>2. Delete(r, names) = [r EXCEPT !.attrs = less]
  BY DEF Delete, less
<1>3. IsRecord(Delete(r, names)) /\ Delete(r, names).attrs = less /\ Delete(r, names).in = r.in
  BY <1>2 DEF IsRecord
<1> QED
  BY <1>1, <1>3 DEF KeptBut, Attrs

\* One attribute is changed where it is.
LEMMA PatchRecord ==
  ASSUME NEW r, IsRecord(r), NEW a, NEW v
  PROVE  LET s == [r EXCEPT !.attrs[a] = v]
         IN /\ IsRecord(s) /\ KeptBut({a}, r, s) /\ s.in = r.in /\ Attrs(s) = Attrs(r)
            /\ a \in Attrs(r) => s.attrs[a] = v
<1> DEFINE other == [r.attrs EXCEPT ![a] = v]
<1>1. /\ DOMAIN other = DOMAIN r.attrs
      /\ \A b \in DOMAIN other : other[b] = IF b = a THEN v ELSE r.attrs[b]
  OBVIOUS
<1> HIDE DEF other
<1>2. [r EXCEPT !.attrs[a] = v] = [r EXCEPT !.attrs = other]
  BY DEF IsRecord, other
<1>3. LET s == [r EXCEPT !.attrs = other] IN IsRecord(s) /\ s.attrs = other /\ s.in = r.in
  BY DEF IsRecord
<1> QED
  BY <1>1, <1>2, <1>3 DEF KeptBut, Attrs

\* What a rewriting may change, but for those that make a new record.
Touched(name) ==
  CASE name = "removeLocale" -> {"locale"}
    [] name = "removeAttributes" -> {"webinyVersion"}
    [] name = "addTransferTimestamp" -> {"_tt"}
    [] name \in {"transformRichText", "replaceFileUrls", "fixBrokenStorageKeys"} -> {"values"}
    [] name = "updateModelIds" -> {"modelId"}
    [] name = "removeFolderRevision" -> {"location", "object@location", "parentId"}
    [] name = "transformPermissions" -> {"permissions"}
    [] name = "renameFieldAttributes" -> {"fields"}
    [] name = "updateFlpIds" -> {"id", "parentId", "permissions"}
    [] name = "dataFields" -> {"entityId"}
    [] name = "addLiveField" -> {"live"}
    [] name = "transformModelGroup" -> {"group"}
    [] name = "extractImageMetadata" -> {"object@meta", "object@metadata"}
    [] name = "coreFields" -> {"id", "createdBy", "createdOn", "expiresAt"}
    [] OTHER -> {}

\* Two changes after each other.
LEMMA KeptThen ==
  ASSUME NEW r, NEW s, NEW t, NEW A, NEW B, NEW C,
         KeptBut(A, r, s), KeptBut(B, s, t), A \union B \subseteq C
  PROVE  KeptBut(C, r, t)
BY DEF KeptBut

\* The rewriting of a record changes what Touched says and nothing else.
Rewrites(names, r, s) == IsRecord(s) /\ KeptBut(names, r, s)

\* The revision is stripped off an id.
LEMMA StripAtRecord ==
  ASSUME NEW r, IsRecord(r), NEW a
  PROVE  Rewrites({a}, r, StripAt(r, a)) /\ StripAt(r, a).in = r.in
BY PatchRecord, KeptFields DEF StripAt, Rewrites

\* removeFolderRevision
LEMMA FolderRecord ==
  ASSUME NEW r, IsRecord(r)
  PROVE  Rewrites({"location", "object@location", "parentId"}, r, removeFolderRevision(r))
<1> DEFINE moved == IF InData(r, "location") /\ r.attrs.location.rev = 1
                    THEN [r EXCEPT !.attrs.location = StripRevision(@)] ELSE r
           bare == IF InData(r, "values") THEN Delete(moved, {"object@location"}) ELSE moved
           last == IF InData(r, "parentId") /\ InData(r, "modelId") /\ r.attrs.modelId = "wbyAcoFolder"
                   THEN [bare EXCEPT !.attrs.parentId = StripRevision(@)] ELSE bare
<1>1. Rewrites({"location"}, r, moved)
  BY PatchRecord, KeptFields DEF Rewrites
<1>2. Rewrites({"object@location"}, moved, bare)
  <2> HIDE DEF moved
  <2> QED
    BY <1>1, DeleteRecord, KeptFields DEF Rewrites
<1>3. Rewrites({"parentId"}, bare, last)
  <2> HIDE DEF bare
  <2> QED
    BY <1>2, PatchRecord, KeptFields DEF Rewrites
<1>4. removeFolderRevision(r) = last
  BY DEF removeFolderRevision
<1> HIDE DEF moved, bare, last
<1>5. KeptBut({"location", "object@location"}, r, bare)
  BY <1>1, <1>2, KeptThen DEF Rewrites
<1>6. KeptBut({"location", "object@location", "parentId"}, r, last)
  BY <1>3, <1>5, KeptThen DEF Rewrites
<1> QED
  BY <1>3, <1>4, <1>6 DEF Rewrites

\* updateFlpIds
LEMMA FlpRecord ==
  ASSUME NEW r, IsRecord(r)
  PROVE  Rewrites({"id", "parentId", "permissions"}, r, updateFlpIds(r))
<1> DEFINE one == StripAt(r, "id")
           two == StripAt(one, "parentId")
           value == {[p EXCEPT !.inheritedFrom = StripRevision(@)] : p \in two.attrs.permissions}
           last == IF ~ InData(two, "permissions") THEN two ELSE Set(two, "permissions", value)
<1>0. updateFlpIds(r) = last
  BY DEF updateFlpIds
<1>1. Rewrites({"id"}, r, one)
  BY StripAtRecord
<1> HIDE DEF one
<1>2. Rewrites({"parentId"}, one, two)
  BY <1>1, StripAtRecord DEF Rewrites
<1> HIDE DEF two, value
<1>3. Rewrites({"permissions"}, two, last)
  BY <1>2, SetRecord, KeptFields DEF Rewrites
<1> HIDE DEF last
<1>4. KeptBut({"id", "parentId"}, r, two)
  BY <1>1, <1>2, KeptThen DEF Rewrites
<1>5. KeptBut({"id", "parentId", "permissions"}, r, last)
  BY <1>3, <1>4, KeptThen DEF Rewrites
<1> QED
  BY <1>0, <1>3, <1>5 DEF Rewrites

\* What works on the values of an entry leaves its other attributes.
LEMMA ValuesRecord ==
  ASSUME NEW r, IsRecord(r), NEW models
  PROVE  /\ Rewrites({"values"}, r, OnValues(transformRichText, r, models))
         /\ Rewrites({"values"}, r, OnValues(replaceFileUrls, r, models))
         /\ Rewrites({"values"}, r, OnValues(fixBrokenStorageKeys, r, models))
<1>1. Rewrites({"values"}, r, OnValues(transformRichText, r, models))
  BY PatchRecord, KeptFields DEF Rewrites, OnValues
<1>2. Rewrites({"values"}, r, OnValues(replaceFileUrls, r, models))
  BY PatchRecord, KeptFields DEF Rewrites, OnValues
<1>3. Rewrites({"values"}, r, OnValues(fixBrokenStorageKeys, r, models))
  BY PatchRecord, KeptFields DEF Rewrites, OnValues
<1> QED
  BY <1>1, <1>2, <1>3

\* updateModelIds
LEMMA ModelIdsRecord ==
  ASSUME NEW r, IsRecord(r)
  PROVE  Rewrites({"modelId"}, r, updateModelIds(r))
<1> DEFINE keyed == [r EXCEPT !.gsi1.name = NewModelId(@)]
<1>1. IsRecord(keyed) /\ KeptBut({}, r, keyed)
  BY KeptFields DEF IsRecord
<1> HIDE DEF keyed
<1>2. Rewrites({"modelId"}, keyed, [keyed EXCEPT !.attrs.modelId = NewModelId(@)])
  BY <1>1, PatchRecord DEF Rewrites
<1>3. updateModelIds(r) \in {keyed, [keyed EXCEPT !.attrs.modelId = NewModelId(@)]}
  BY DEF updateModelIds, keyed
<1>4. CASE updateModelIds(r) = keyed
  BY <1>1, <1>4 DEF Rewrites, KeptBut
<1>5. CASE updateModelIds(r) = [keyed EXCEPT !.attrs.modelId = NewModelId(@)]
  BY <1>1, <1>2, <1>5, KeptThen DEF Rewrites
<1> QED
  BY <1>3, <1>4, <1>5

\* The rewritings that make no new record change what Touched says.
LEMMA RewrittenRecord ==
  ASSUME NEW r, IsRecord(r), NEW name, name \notin Replacing, NEW env
  PROVE  Rewrites(Touched(name), r, Rewritten(name, r, env))
<1> DEFINE t == Rewritten(name, r, env)
<1>0. KeptBut(Touched(name), r, r)
  BY KeptFields
<1>1. CASE name = "wrapInData"
  BY <1>0, <1>1, KeptFields DEF Rewrites, Rewritten, Touched, IsRecord, wrapInData
<1>2. CASE name = "addGsiTenant"
  BY <1>0, <1>2, KeptFields DEF Rewrites, Rewritten, Touched, IsRecord, addGsiTenant
<1>3. CASE name = "fixCmePk"
  BY <1>0, <1>3, KeptFields DEF Rewrites, Rewritten, Touched, IsRecord, fixCmePk
<1>4. CASE name = "updateOsIndex"
  BY <1>0, <1>4, KeptFields DEF Rewrites, Rewritten, Touched, IsRecord, updateOsIndex
<1>5. CASE name = "groupsToRoles"
  BY <1>0, <1>5, KeptFields DEF Rewrites, Rewritten, Touched, IsRecord, groupsToRoles
<1>6. CASE name = "removeAttributes"
  BY <1>0, <1>6, DeleteRecord, KeptFields DEF Rewrites, Rewritten, Touched, removeAttributes
<1>7. CASE name = "addTransferTimestamp"
  BY <1>0, <1>7, SetRecord, KeptFields DEF Rewrites, Rewritten, Touched, addTransferTimestamp
<1>8. CASE name = "replaceFileUrls"
  BY <1>0, <1>8, ValuesRecord, KeptFields DEF Rewrites, Rewritten, Touched
<1>9. CASE name = "updateModelIds"
  BY <1>0, <1>9, ModelIdsRecord, KeptFields DEF Rewrites, Rewritten, Touched
<1>10. CASE name = "removeFolderRevision"
  BY <1>0, <1>10, FolderRecord, KeptFields DEF Rewrites, Rewritten, Touched
<1>11. CASE name = "transformPermissions"
  BY <1>0, <1>11, SetRecord, KeptFields DEF Rewrites, Rewritten, Touched, transformPermissions
<1>12. CASE name = "renameFieldAttributes"
  BY <1>0, <1>12, SetRecord, KeptFields DEF Rewrites, Rewritten, Touched, renameFieldAttributes
<1>13. CASE name = "updateFlpIds"
  BY <1>0, <1>13, FlpRecord, KeptFields DEF Rewrites, Rewritten, Touched
<1>14. CASE name = "dataFields"
  BY <1>0, <1>14, SetRecord, KeptFields DEF Rewrites, Rewritten, Touched, dataFieldsTransformer
<1>15. CASE name = "removeLocale"
  <2> DEFINE keyed == [r EXCEPT !.pk.locale = "", !.gsi1.locale = ""]
  <2>1. IsRecord(keyed) /\ KeptBut({}, r, keyed)
    <3> DEFINE pk == [r.pk EXCEPT !.locale = ""]
               gsi1 == [r.gsi1 EXCEPT !.locale = ""]
    <3>1. keyed = [r EXCEPT !.pk = pk, !.gsi1 = gsi1]
      BY DEF IsRecord
    <3> HIDE DEF pk, gsi1, keyed
    <3>2. IsRecord(keyed) /\ keyed.attrs = r.attrs
      BY <3>1 DEF IsRecord
    <3> QED
      BY <3>2, KeptFields
  <2>2. t = Delete(keyed, {"locale"})
    BY <1>15 DEF Rewritten, removeLocale
  <2> HIDE DEF keyed
  <2>3. IsRecord(t) /\ KeptBut({"locale"}, keyed, t)
    BY <2>1, <2>2, DeleteRecord
  <2>4. KeptBut({"locale"}, r, t)
    BY <2>1, <2>3, KeptThen
  <2> QED
    BY <1>15, <2>3, <2>4 DEF Rewrites, Touched
<1>16. ASSUME name \notin {"wrapInData", "addGsiTenant", "fixCmePk", "updateOsIndex", "groupsToRoles",
                     "removeAttributes", "addTransferTimestamp",
                     "replaceFileUrls", "updateModelIds", "removeFolderRevision",
                     "transformPermissions", "renameFieldAttributes", "updateFlpIds",
                     "dataFields", "removeLocale"}
      PROVE  t = r
  BY <1>16 DEF Rewritten, Replacing
<1> QED
  BY <1>0, <1>1, <1>2, <1>3, <1>4, <1>5, <1>6, <1>7, <1>8, <1>9, <1>10, <1>11, <1>12, <1>13, <1>14, <1>15, <1>16 DEF Rewrites

-----------------------------------------------------------------------------
(* Sequences of anything *)

IsSeq(q) == q \in Seq(ToSet(q))

\* What a sequence of some set has.
LEMMA SeqHas ==
  ASSUME NEW S, NEW q \in Seq(S)
  PROVE  IsSeq(q) /\ Len(q) \in Nat /\ DOMAIN q = 1..Len(q) /\ ToSet(q) \subseteq S
<1>1. Len(q) \in Nat /\ DOMAIN q = 1..Len(q) /\ \A i \in 1..Len(q) : q[i] \in S
  BY LenProperties, ElementOfSeq
<1>2. q = [i \in 1..Len(q) |-> q[i]] /\ \A i \in 1..Len(q) : q[i] \in ToSet(q)
  BY <1>1 DEF ToSet
<1>3. q \in [1..Len(q) -> ToSet(q)]
  BY <1>2
<1>4. q \in Seq(ToSet(q))
  BY <1>1, <1>3, IsASeq
<1> QED
  BY <1>1, <1>4 DEF IsSeq, ToSet

\* The empty sequence.
LEMMA EmptyIsSeq == IsSeq(<< >>) /\ ToSet(<< >>) = {}
BY DEF IsSeq, ToSet

\* A sequence and one more.
LEMMA AppendIsSeq ==
  ASSUME NEW q, IsSeq(q), NEW e
  PROVE  IsSeq(Append(q, e)) /\ ToSet(Append(q, e)) = ToSet(q) \union {e}
<1> DEFINE S == ToSet(q) \union {e}
<1>0. q \in Seq(ToSet(q))
  BY DEF IsSeq
<1>1. q \in Seq(ToSet(q)) /\ Len(q) \in Nat /\ DOMAIN q = 1..Len(q)
  BY <1>0, SeqHas
<1>2. q \in Seq(S)
  BY <1>1, SeqMonotonic
<1>3. /\ Append(q, e) \in Seq(S) /\ Len(Append(q, e)) = Len(q) + 1
      /\ \A i \in 1..Len(q) : Append(q, e)[i] = q[i]
      /\ Append(q, e)[Len(q) + 1] = e
  BY <1>1, <1>2, AppendProperties
<1>4. DOMAIN Append(q, e) = 1..(Len(q) + 1)
  BY <1>3
<1>5. \A i \in 1..Len(q) : i \in 1..(Len(q) + 1)
  BY <1>1
<1>6. Len(q) + 1 \in 1..(Len(q) + 1)
  BY <1>1
<1>7. \A i \in 1..(Len(q) + 1) : i \in 1..Len(q) \/ i = Len(q) + 1
  BY <1>1
<1>8. ToSet(Append(q, e)) = S
  BY <1>1, <1>3, <1>4, <1>5, <1>6, <1>7 DEF ToSet
<1>9. IsSeq(Append(q, e))
  BY <1>3, SeqHas
<1> QED
  BY <1>8, <1>9

\* A sequence after another.
LEMMA ConcatIsSeq ==
  ASSUME NEW p, IsSeq(p), NEW q, IsSeq(q)
  PROVE  /\ IsSeq(p \o q) /\ ToSet(p \o q) = ToSet(p) \union ToSet(q)
         /\ Len(p \o q) = Len(p) + Len(q)
         /\ \A i \in 1..Len(p) : (p \o q)[i] = p[i]
         /\ \A i \in 1..Len(q) : (p \o q)[Len(p) + i] = q[i]
<1> DEFINE S == ToSet(p) \union ToSet(q)
<1>0. p \in Seq(ToSet(p)) /\ q \in Seq(ToSet(q))
  BY DEF IsSeq
<1>1. /\ p \in Seq(ToSet(p)) /\ Len(p) \in Nat /\ DOMAIN p = 1..Len(p)
      /\ q \in Seq(ToSet(q)) /\ Len(q) \in Nat /\ DOMAIN q = 1..Len(q)
  BY <1>0, SeqHas
<1>2. p \in Seq(S) /\ q \in Seq(S)
  BY <1>1, SeqMonotonic
<1>3. /\ p \o q \in Seq(S) /\ Len(p \o q) = Len(p) + Len(q)
      /\ \A i \in 1..(Len(p) + Len(q)) :
           (p \o q)[i] = IF i <= Len(p) THEN p[i] ELSE q[i - Len(p)]
  BY <1>2, ConcatProperties
<1>4. DOMAIN (p \o q) = 1..(Len(p) + Len(q))
  BY <1>3
<1>5. /\ \A i \in 1..Len(p) : i \in 1..(Len(p) + Len(q)) /\ (p \o q)[i] = p[i]
      /\ \A i \in 1..Len(q) : /\ Len(p) + i \in 1..(Len(p) + Len(q))
                              /\ (p \o q)[Len(p) + i] = q[i]
  <2>1. \A i \in 1..Len(p) : i \in 1..(Len(p) + Len(q)) /\ i <= Len(p)
    BY <1>1
  <2>2. \A i \in 1..Len(q) : /\ Len(p) + i \in 1..(Len(p) + Len(q)) /\ ~(Len(p) + i <= Len(p))
                            /\ Len(p) + i - Len(p) = i
    BY <1>1
  <2> QED
    BY <1>3, <2>1, <2>2
<1>6. \A i \in 1..(Len(p) + Len(q)) : i \in 1..Len(p) \/ i - Len(p) \in 1..Len(q)
  BY <1>1
<1>7. \A i \in 1..(Len(p) + Len(q)) : (p \o q)[i] \in S
  <2>1. \A i \in 1..(Len(p) + Len(q)) : i <= Len(p) => i \in 1..Len(p)
    BY <1>1
  <2>2. \A i \in 1..(Len(p) + Len(q)) : ~(i <= Len(p)) => i - Len(p) \in 1..Len(q)
    BY <1>1
  <2> QED
    BY <1>1, <1>3, <2>1, <2>2 DEF ToSet
<1>8. ToSet(p \o q) = S
  <2>1. ToSet(p \o q) \subseteq S
    BY <1>4, <1>7 DEF ToSet
  <2>2. ToSet(p) \subseteq ToSet(p \o q)
    BY <1>1, <1>4, <1>5 DEF ToSet
  <2>3. ToSet(q) \subseteq ToSet(p \o q)
    BY <1>1, <1>4, <1>5 DEF ToSet
  <2> QED
    BY <2>1, <2>2, <2>3
<1>9. IsSeq(p \o q)
  BY <1>3, SeqHas
<1> QED
  BY <1>3, <1>5, <1>8, <1>9

-----------------------------------------------------------------------------
(* Contexts *)

IsCommands(k) == k = [key \in CommandKeys |-> k[key]] /\ \A key \in CommandKeys : IsSeq(k[key])

IsContext(c) ==
  /\ c = [record |-> c.record, original |-> c.original, commands |-> c.commands,
          cache |-> c.cache, warned |-> c.warned]
  /\ IsRecord(c.record) /\ IsCommands(c.commands)

\* g says what f says.
Agrees(f, g) == \A x \in DOMAIN f : x \in DOMAIN g /\ g[x] = f[x]

\* A command is added under one key.
Adds(c, d, key, command) ==
  /\ ToSet(d.commands[key]) = ToSet(c.commands[key]) \union {command}
  /\ \A other \in CommandKeys : other # key => d.commands[other] = c.commands[other]

\* A command is added to those of a row.
LEMMA EmitContext ==
  ASSUME NEW c, IsContext(c), NEW key \in CommandKeys, NEW command
  PROVE  LET d == Emit(c, key, command)
         IN /\ IsContext(d) /\ Adds(c, d, key, command)
            /\ d.record = c.record /\ d.original = c.original
            /\ d.cache = c.cache /\ d.warned = c.warned
<1> DEFINE k == [c.commands EXCEPT ![key] = Append(@, command)]
<1>1. IsSeq(c.commands[key])
  BY DEF IsContext, IsCommands
<1>2. IsSeq(Append(c.commands[key], command))
      /\ ToSet(Append(c.commands[key], command)) = ToSet(c.commands[key]) \union {command}
  BY <1>1, AppendIsSeq
<1>3. /\ DOMAIN c.commands = CommandKeys /\ k = [x \in CommandKeys |-> k[x]]
      /\ k[key] = Append(c.commands[key], command)
      /\ \A other \in CommandKeys : other # key => k[other] = c.commands[other]
  BY DEF IsContext, IsCommands
<1>4. IsCommands(k)
  <2> HIDE DEF k
  <2> QED
    BY <1>2, <1>3 DEF IsContext, IsCommands
<1>5. Emit(c, key, command) = [c EXCEPT !.commands = k]
  BY DEF Emit, IsContext
<1> HIDE DEF k
<1>6. LET d == [c EXCEPT !.commands = k]
      IN /\ d = [record |-> c.record, original |-> c.original, commands |-> k,
                 cache |-> c.cache, warned |-> c.warned]
         /\ d.commands = k
  BY DEF IsContext
<1> QED
  BY <1>2, <1>3, <1>4, <1>5, <1>6 DEF IsContext, Adds

\* A step of a row on its way: what it started from stays, what is cached stays cached,
\* and records to be put are metadata.
Goes(c, d) ==
  /\ IsContext(d) /\ d.original = c.original
  /\ Agrees(c.cache, d.cache)
  /\ \A put \in ToSet(d.commands["PUT_RECORD"]) :
       put \in ToSet(c.commands["PUT_RECORD"]) \/ IsMetadata(put.record)
  /\ d.commands["AUDIT_LOG_PUT_RECORD"] = c.commands["AUDIT_LOG_PUT_RECORD"]

\* The live field of the record is what the cache has for its entry.
LiveIsCached(c) ==
  "live" \in Attrs(c.record) =>
    c.original.pk \in DOMAIN c.cache /\ c.cache[c.original.pk] = c.record.attrs.live

\* Where the record is another but the cache and all else is the same.
LEMMA SameButRecord ==
  ASSUME NEW c, IsContext(c), NEW r, IsRecord(r)
  PROVE  LET d == [c EXCEPT !.record = r]
         IN /\ Goes(c, d) /\ d.record = r /\ d.cache = c.cache /\ d.warned = c.warned
            /\ d.commands = c.commands
BY DEF IsContext, Goes, Agrees

\* Nothing happens.
LEMMA SameContext ==
  ASSUME NEW c, IsContext(c)
  PROVE  Goes(c, c)
BY DEF Goes, Agrees

\* A record of a store.
LEMMA NewRecordIs ==
  ASSUME NEW pk, NEW sk, NEW type, NEW tenant, NEW attrs
  PROVE  LET r == NewRecord(pk, sk, type, tenant, attrs)
         IN IsRecord(r) /\ r.pk = pk /\ r.attrs = attrs /\ r.in = "data"
BY DEF NewRecord, IsRecord

\* A record of the key-value store.
LEMMA KeyValueIs ==
  ASSUME NEW scope, NEW id, NEW value
  PROVE  LET r == KeyValue(scope, id, value)
         IN IsRecord(r) /\ r.pk = Key("KV", scope, "", id) /\ Attrs(r) = {"key", "scope", "value"}
            /\ r.attrs.value = value
BY DEF KeyValue, NewRecord, IsRecord, Attrs

\* A file is to be copied.
LEMMA CopyFileContext ==
  ASSUME NEW c, IsContext(c), NEW from, NEW to
  PROVE  LET d == CopyFile(c, from, to)
         IN Goes(c, d) /\ d.record = c.record /\ d.cache = c.cache /\ d.warned = c.warned
<1>1. "S3_COPY" \in CommandKeys /\ "PUT_RECORD" \in CommandKeys
      /\ "AUDIT_LOG_PUT_RECORD" \in CommandKeys
  BY DEF CommandKeys
<1> QED
  BY <1>1, EmitContext DEF CopyFile, Goes, Adds, Agrees

\* The metadata of a file is to be put.
LEMMA PutMetadata ==
  ASSUME NEW c, IsContext(c), NEW r, IsMetadata(r)
  PROVE  LET d == PutRecord(c, r)
         IN Goes(c, d) /\ d.record = c.record /\ d.cache = c.cache /\ d.warned = c.warned
<1>1. "PUT_RECORD" \in CommandKeys /\ "AUDIT_LOG_PUT_RECORD" \in CommandKeys
  BY DEF CommandKeys
<1>2. LET d == PutRecord(c, r)
      IN /\ IsContext(d) /\ Adds(c, d, "PUT_RECORD", [record |-> r])
         /\ d.record = c.record /\ d.original = c.original
         /\ d.cache = c.cache /\ d.warned = c.warned
  BY <1>1, EmitContext DEF PutRecord
<1> QED
  BY <1>1, <1>2 DEF Goes, Adds, Agrees

\* Two steps after each other.
LEMMA GoesOn ==
  ASSUME NEW c, NEW d, NEW e, Goes(c, d), Goes(d, e)
  PROVE  Goes(c, e)
BY DEF Goes, Agrees

\* createMetadata
LEMMA MetadataContext ==
  ASSUME NEW c, IsContext(c)
  PROVE  /\ Goes(c, createMetadata(c)) /\ createMetadata(c).record = c.record
         /\ createMetadata(c).cache = c.cache /\ createMetadata(c).warned = c.warned
<1> DEFINE r == c.record
           copied == IF "text@key" \in Attrs(r) THEN CopyFile(c, OldKey(r), NewKey(r)) ELSE c
           kv == Metadata(r)
<1>1. /\ Goes(c, copied) /\ copied.record = c.record
      /\ copied.cache = c.cache /\ copied.warned = c.warned
  BY CopyFileContext, SameContext
<1>2. IsMetadata(kv)
  BY DEF Metadata, KeyValue, NewRecord, IsMetadata, Key
<1>3. createMetadata(c) \in {c, PutRecord(copied, kv)}
  BY DEF createMetadata
<1> HIDE DEF copied, kv
<1>4. LET d == PutRecord(copied, kv)
      IN Goes(copied, d) /\ d.record = c.record /\ d.cache = c.cache /\ d.warned = c.warned
  BY <1>1, <1>2, PutMetadata DEF Goes
<1> QED
  BY <1>1, <1>3, <1>4, GoesOn, SameContext

\* extractImageMetadata
LEMMA ImageContext ==
  ASSUME NEW c, IsContext(c), NEW env
  PROVE  LET d == extractImageMetadata(c, env)
         IN /\ Goes(c, d) /\ d.warned = c.warned
            /\ Rewrites({"object@meta", "object@metadata"}, c.record, d.record)
<1> DEFINE r == Delete(c.record, {"object@meta"})
           key == resolveFileKeyFromDb(r, env.source)
           With(m) == [c EXCEPT !.record = Set(r, "object@metadata", m)]
           cache == Over(Only(ImageKey(r), key), c.cache)
           kept == [With(key) EXCEPT !.cache = cache]
           d == extractImageMetadata(c, env)
<1>1. IsRecord(r) /\ KeptBut({"object@meta"}, c.record, r)
  BY DeleteRecord DEF IsContext
<1>2. \/ d = c \/ \E m : d = With(m)
      \/ ImageKey(r) \notin DOMAIN c.cache /\ d = kept
  BY DEF extractImageMetadata
<1> HIDE DEF r, key
<1>3. ASSUME NEW m
      PROVE  /\ IsRecord(Set(r, "object@metadata", m))
             /\ KeptBut({"object@meta", "object@metadata"}, c.record, Set(r, "object@metadata", m))
             /\ Goes(c, With(m)) /\ With(m).record = Set(r, "object@metadata", m)
             /\ With(m).warned = c.warned
  <2>1. /\ IsRecord(Set(r, "object@metadata", m))
        /\ KeptBut({"object@metadata"}, r, Set(r, "object@metadata", m))
    BY <1>1, SetRecord
  <2>2. KeptBut({"object@meta", "object@metadata"}, c.record, Set(r, "object@metadata", m))
    BY <1>1, <2>1, KeptThen
  <2> QED
    BY <2>1, <2>2, SameButRecord
<1>4. CASE d = c
  BY <1>4, SameContext, KeptFields DEF Rewrites, IsContext
<1>5. ASSUME NEW m, d = With(m)
      PROVE  /\ Goes(c, d) /\ d.warned = c.warned
             /\ Rewrites({"object@meta", "object@metadata"}, c.record, d.record)
  BY <1>3, <1>5 DEF Rewrites
<1>6. CASE ImageKey(r) \notin DOMAIN c.cache /\ d = kept
  <2>1. Agrees(c.cache, cache)
    BY <1>6 DEF Agrees, Over, Only
  <2>2. /\ Goes(c, With(key)) /\ With(key).record = Set(r, "object@metadata", key)
        /\ With(key).warned = c.warned
    BY <1>3
  <2> HIDE DEF With, cache
  <2>3. Goes(c, kept) /\ kept.record = With(key).record /\ kept.warned = c.warned
    BY <2>1, <2>2 DEF Goes, IsContext
  <2> QED
    BY <1>3, <1>6, <2>2, <2>3 DEF Rewrites
<1> QED
  BY <1>2, <1>4, <1>5, <1>6

\* addLiveField: the field is what the cache has, found there or put there.
LEMMA LiveContext ==
  ASSUME NEW c, IsContext(c), NEW source
  PROVE  LET d == addLiveField(c, source)
         IN /\ Goes(c, d) /\ Rewrites({"live"}, c.record, d.record) /\ d.warned = c.warned
            /\ d = c \/ LiveIsCached(d)
<1> DEFINE version == ResolvePublishedVersion(c, source)
           r == Set(c.record, "live", version)
           cache == Over(Only(c.original.pk, version), c.cache)
           d == addLiveField(c, source)
           e == [c EXCEPT !.record = r, !.cache = cache]
<1>1. d = c \/ d = e
  BY DEF addLiveField, RememberVersion
<1>2. c.original.pk \in DOMAIN c.cache => version = c.cache[c.original.pk]
  BY DEF ResolvePublishedVersion
<1> HIDE DEF version
<1>3. Agrees(c.cache, cache) /\ c.original.pk \in DOMAIN cache /\ cache[c.original.pk] = version
  BY <1>2 DEF Agrees, Over, Only
<1>4. IsRecord(r) /\ KeptBut({"live"}, c.record, r) /\ r.attrs.live = version
  BY SetRecord DEF IsContext
<1> HIDE DEF r, cache
<1>5. /\ Goes(c, e) /\ e.record = r /\ e.cache = cache /\ e.original = c.original
      /\ e.warned = c.warned
  <2>1. e = [record |-> r, original |-> c.original, commands |-> c.commands, cache |-> cache,
             warned |-> c.warned]
    <3> DEFINE half == [c EXCEPT !.record = r]
    <3>1. half = [record |-> r, original |-> c.original, commands |-> c.commands,
                  cache |-> c.cache, warned |-> c.warned]
      BY DEF IsContext
    <3>2. e = [half EXCEPT !.cache = cache]
      BY DEF IsContext
    <3> HIDE DEF half, e
    <3> QED
      BY <3>1, <3>2
  <2> HIDE DEF e
  <2> QED
    BY <1>3, <1>4, <2>1 DEF Goes, IsContext
<1>6. Goes(c, c) /\ Rewrites({"live"}, c.record, c.record)
  BY SameContext, KeptFields DEF Rewrites, IsContext
<1> HIDE DEF e
<1> QED
  BY <1>1, <1>3, <1>4, <1>5, <1>6 DEF Rewrites, LiveIsCached

\* fixBrokenStorageKeys: a model that is not known is warned of.
LEMMA FixKeysContext ==
  ASSUME NEW c, IsContext(c), NEW models
  PROVE  LET d == FixKeys(c, models)
         IN Goes(c, d) /\ Rewrites({"values"}, c.record, d.record) /\ c.warned \subseteq d.warned
<1> DEFINE r == OnValues(fixBrokenStorageKeys, c.record, models)
           warned == IF ModelKnown(c.record, models) THEN c.warned
                     ELSE c.warned \union {<<"model", c.record.attrs.modelId>>}
           half == [c EXCEPT !.record = r]
           e == [half EXCEPT !.warned = warned]
<1>1. Rewrites({"values"}, c.record, r)
  BY ValuesRecord DEF IsContext
<1>2. FixKeys(c, models) \in {c, e}
  BY DEF FixKeys, IsContext
<1>3. c.warned \subseteq warned
  OBVIOUS
<1> HIDE DEF r, warned
<1>4. Goes(c, half) /\ half.record = r /\ half.warned = c.warned
  BY <1>1, SameButRecord DEF Rewrites
<1> HIDE DEF half
<1>5. Goes(c, e) /\ e.record = r /\ e.warned = warned
  BY <1>4 DEF Goes, IsContext
<1> HIDE DEF e
<1> QED
  BY <1>1, <1>2, <1>3, <1>4, <1>5, SameContext, KeptFields DEF Rewrites, IsContext

\* transformRichText: what cannot be rendered is warned of.
LEMMA RenderTextsContext ==
  ASSUME NEW c, IsContext(c), NEW models
  PROVE  LET d == RenderTexts(c, models)
         IN /\ Goes(c, d) /\ d.record = OnValues(transformRichText, c.record, models)
            /\ Rewrites({"values"}, c.record, d.record)
            /\ c.warned \subseteq d.warned /\ d.commands = c.commands
<1> DEFINE q == c.record
           r == OnValues(transformRichText, q, models)
           ids == IF ModelKnown(q, models) /\ InData(q, "values")
                  THEN Unrendered(q.attrs.values, models[q.attrs.modelId]) ELSE {}
           warned == c.warned \union {TextWarning(c.original, i) : i \in ids}
           half == [c EXCEPT !.record = r]
           e == [half EXCEPT !.warned = warned]
<1>1. Rewrites({"values"}, q, r)
  BY ValuesRecord DEF IsContext
<1>2. RenderTexts(c, models) = e
  BY DEF RenderTexts, IsContext
<1>3. c.warned \subseteq warned
  OBVIOUS
<1> HIDE DEF r, warned, q
<1>4. Goes(c, half) /\ half.record = r /\ half.warned = c.warned /\ half.commands = c.commands
  BY <1>1, SameButRecord DEF Rewrites
<1> HIDE DEF half
<1>5. Goes(c, e) /\ e.record = r /\ e.warned = warned /\ e.commands = c.commands
  BY <1>4 DEF Goes, IsContext
<1> HIDE DEF e
<1> QED
  BY <1>1, <1>2, <1>3, <1>5 DEF q, r

\* transformModelGroup
LEMMA ModelGroupContext ==
  ASSUME NEW c, IsContext(c), NEW source
  PROVE  LET d == transformModelGroup(c, source)
         IN Goes(c, d) /\ Rewrites({"group"}, c.record, d.record) /\ c.warned \subseteq d.warned
<1> DEFINE With(v) == [c EXCEPT !.record = Set(c.record, "group", v)]
           slug == c.record.attrs.group.slug
           warned == c.warned \union {<<"group", c.record.attrs.group.id>>}
           d == transformModelGroup(c, source)
           e == [With(slug) EXCEPT !.warned = warned]
<1>1. d = c \/ (\E v : d = With(v)) \/ d = e
  BY DEF transformModelGroup, IsContext
<1>2. ASSUME NEW v
      PROVE  /\ Goes(c, With(v)) /\ Rewrites({"group"}, c.record, With(v).record)
             /\ With(v).warned = c.warned
  <2>1. Rewrites({"group"}, c.record, Set(c.record, "group", v))
    BY SetRecord DEF IsContext, Rewrites
  <2> QED
    BY <2>1, SameButRecord DEF Rewrites
<1>3. CASE d = c
  BY <1>3, SameContext, KeptFields DEF Rewrites, IsContext
<1>4. ASSUME NEW v, d = With(v)
      PROVE  Goes(c, d) /\ Rewrites({"group"}, c.record, d.record) /\ c.warned \subseteq d.warned
  BY <1>2, <1>4
<1>5. CASE d = e
  <2>1. /\ Goes(c, With(slug)) /\ Rewrites({"group"}, c.record, With(slug).record)
        /\ With(slug).warned = c.warned
    BY <1>2
  <2> HIDE DEF With, slug
  <2>2. Goes(c, e) /\ e.record = With(slug).record /\ c.warned \subseteq e.warned
    BY <2>1 DEF Goes, IsContext
  <2> QED
    BY <1>5, <2>1, <2>2
<1> QED
  BY <1>1, <1>3, <1>4, <1>5

\* coreFieldsTransformer
LEMMA CoreFieldsContext ==
  ASSUME NEW c, IsContext(c), NEW fresh
  PROVE  LET d == coreFieldsTransformer(c, fresh)
         IN /\ Goes(c, d) /\ Rewrites(Touched("coreFields"), c.record, d.record)
            /\ c.warned \subseteq d.warned
<1> DEFINE new == [id |-> fresh, createdBy |-> "known", createdOn |-> "known",
                   expiresAt |-> "now + 60 days"]
           attrs == Over(new, c.record.attrs)
           r == [c.record EXCEPT !.attrs = attrs]
           known == [c EXCEPT !.record = r]
           unknown == [c EXCEPT !.warned = @ \union {<<"creator", c.record.pk.id>>}]
<1>1. coreFieldsTransformer(c, fresh) \in {known, unknown}
  BY DEF coreFieldsTransformer, IsContext
<1>2. /\ DOMAIN attrs = Touched("coreFields") \union DOMAIN c.record.attrs
      /\ \A a \in DOMAIN c.record.attrs : a \notin Touched("coreFields") => attrs[a] = c.record.attrs[a]
  <2>1. DOMAIN new = Touched("coreFields")
    BY DEF Touched
  <2> HIDE DEF new
  <2> QED
    BY <2>1 DEF Over
<1> HIDE DEF attrs
<1>3. IsRecord(r) /\ r.attrs = attrs
  BY DEF IsContext, IsRecord
<1>4. Rewrites(Touched("coreFields"), c.record, r)
  BY <1>2, <1>3 DEF Rewrites, KeptBut, Attrs
<1> HIDE DEF r
<1>5. Goes(c, known) /\ known.record = r /\ known.warned = c.warned
  BY <1>3, SameButRecord
<1>6. Goes(c, unknown) /\ unknown.record = c.record /\ c.warned \subseteq unknown.warned
  BY DEF Goes, Agrees, IsContext
<1> HIDE DEF known, unknown
<1> QED
  BY <1>1, <1>4, <1>5, <1>6, KeptFields DEF Rewrites, IsContext

\* The migrations of settings leave a record or replace it.
LEMMA SettingsContext ==
  ASSUME NEW c, IsContext(c)
  PROVE  /\ Goes(c, migrateFileManagerSettings(c)) /\ Goes(c, migrateMailerSettings(c))
         /\ migrateFileManagerSettings(c).warned = c.warned
         /\ migrateMailerSettings(c).warned = c.warned
         /\ \/ migrateFileManagerSettings(c) = c
            \/ Attrs(migrateFileManagerSettings(c).record) = {"key", "scope", "value"}
         /\ \/ migrateMailerSettings(c) = c
            \/ Attrs(migrateMailerSettings(c).record) = {"key", "scope", "value"}
<1> DEFINE kv(scope, id, value) == [c EXCEPT !.record = KeyValue(scope, id, value)]
<1>1. ASSUME NEW scope, NEW id, NEW value
      PROVE  LET d == kv(scope, id, value)
             IN Goes(c, d) /\ d.warned = c.warned /\ Attrs(d.record) = {"key", "scope", "value"}
  <2> DEFINE r == KeyValue(scope, id, value)
  <2>1. IsRecord(r) /\ Attrs(r) = {"key", "scope", "value"}
    BY KeyValueIs
  <2> HIDE DEF r
  <2>2. LET d == [c EXCEPT !.record = r] IN Goes(c, d) /\ d.warned = c.warned /\ d.record = r
    BY <2>1, SameButRecord
  <2> QED
    BY <2>1, <2>2 DEF r
<1>2. \/ migrateFileManagerSettings(c) = c
      \/ \E scope, id, value : migrateFileManagerSettings(c) = kv(scope, id, value)
  BY DEF migrateFileManagerSettings
<1>3. \/ migrateMailerSettings(c) = c
      \/ \E scope, id, value : migrateMailerSettings(c) = kv(scope, id, value)
  BY DEF migrateMailerSettings
<1> HIDE DEF kv
<1> QED
  BY <1>1, <1>2, <1>3, SameContext

\* storageShapeTransformer leaves a record or replaces it.
LEMMA ShapeRecord ==
  ASSUME NEW r, IsRecord(r)
  PROVE  LET s == storageShapeTransformer(r)
         IN /\ IsRecord(s)
            /\ s = r \/ Attrs(s) = {"id", "tenant", "createdBy", "createdOn", "entityId", "expiresAt"}
BY DEF storageShapeTransformer, NewRecord, IsRecord, Restrict, Attrs

\* One transformer, on any context.
LEMMA TransformStep ==
  ASSUME NEW c, IsContext(c), NEW name, NEW env
  PROVE  LET d == Transform(name, c, env)
         IN /\ Goes(c, d) /\ c.warned \subseteq d.warned
            /\ LiveIsCached(c) => LiveIsCached(d)
            /\ name \notin Replacing => Rewrites(Touched(name), c.record, d.record)
<1> DEFINE d == Transform(name, c, env)
<1>1. ASSUME NEW T, "live" \notin T, Goes(c, d), Rewrites(T, c.record, d.record), LiveIsCached(c)
      PROVE  LiveIsCached(d)
  BY <1>1 DEF LiveIsCached, Goes, Agrees, Rewrites, KeptBut
<1>2. ASSUME NEW T, "live" \notin T, Goes(c, d), Rewrites(T, c.record, d.record),
             c.warned \subseteq d.warned, T = Touched(name)
      PROVE  /\ Goes(c, d) /\ c.warned \subseteq d.warned
             /\ LiveIsCached(c) => LiveIsCached(d)
             /\ Rewrites(Touched(name), c.record, d.record)
  BY <1>1, <1>2
<1>3. CASE name = "fixBrokenStorageKeys"
  <2>1. d = FixKeys(c, env.models) /\ Touched(name) = {"values"}
    BY <1>3 DEF Transform, Touched
  <2> QED
    BY <2>1, <1>2, FixKeysContext
<1>4. CASE name = "addLiveField"
  <2>1. d = addLiveField(c, env.source) /\ Touched(name) = {"live"}
    BY <1>4 DEF Transform, Touched
  <2> QED
    BY <2>1, LiveContext
<1>5. CASE name = "transformModelGroup"
  <2>1. d = transformModelGroup(c, env.source) /\ Touched(name) = {"group"}
    BY <1>5 DEF Transform, Touched
  <2> QED
    BY <2>1, <1>2, ModelGroupContext
<1>6. CASE name = "createMetadata"
  <2>1. d = createMetadata(c) /\ Touched(name) = {}
    BY <1>6 DEF Transform, Touched
  <2>2. Rewrites({}, c.record, d.record) /\ c.warned \subseteq d.warned /\ Goes(c, d)
    BY <2>1, MetadataContext, KeptFields DEF Rewrites, IsContext
  <2> QED
    BY <2>1, <2>2, <1>2
<1>7. CASE name = "extractImageMetadata"
  <2>1. d = extractImageMetadata(c, env) /\ Touched(name) = {"object@meta", "object@metadata"}
    BY <1>7 DEF Transform, Touched
  <2> QED
    BY <2>1, <1>2, ImageContext
<1>8. CASE name = "copyFileToTarget"
  <2>1. d = copyFileToTarget(c) /\ Touched(name) = {}
    BY <1>8 DEF Transform, Touched
  <2>2. Goes(c, d) /\ d.record = c.record /\ d.warned = c.warned
    BY <2>1, CopyFileContext, SameContext DEF copyFileToTarget
  <2>3. Rewrites({}, c.record, d.record) /\ c.warned \subseteq d.warned
    BY <2>2, KeptFields DEF Rewrites, IsContext
  <2> QED
    BY <2>1, <2>2, <2>3, <1>2
<1>9. CASE name = "coreFields"
  <2>1. d = coreFieldsTransformer(c, env.fresh) /\ "live" \notin Touched(name)
    BY <1>9 DEF Transform, Touched
  <2> QED
    BY <2>1, <1>2, <1>9, CoreFieldsContext
<1>10. CASE name \in {"migrateFileManagerSettings", "migrateMailerSettings"}
  <2>1. d = migrateFileManagerSettings(c) \/ d = migrateMailerSettings(c)
    BY <1>10 DEF Transform
  <2>2. Goes(c, d) /\ d.warned = c.warned /\ (d = c \/ Attrs(d.record) = {"key", "scope", "value"})
    BY <2>1, SettingsContext
  <2> QED
    BY <1>10, <2>2 DEF LiveIsCached, Replacing
<1>11. CASE name = "transformRichText"
  <2>1. d = RenderTexts(c, env.models) /\ Touched(name) = {"values"}
    BY <1>11 DEF Transform, Touched
  <2> QED
    BY <2>1, <1>2, RenderTextsContext
<1>12. CASE name \notin {"fixBrokenStorageKeys", "addLiveField", "transformModelGroup", "createMetadata",
                       "extractImageMetadata", "copyFileToTarget", "coreFields", "transformRichText",
                       "migrateFileManagerSettings", "migrateMailerSettings"}
  <2> DEFINE r == Rewritten(name, c.record, env)
  <2>1. d = [c EXCEPT !.record = r]
    BY <1>12 DEF Transform, IsContext
  <2>2. CASE name # "storageShape"
    <3>1. Rewrites(Touched(name), c.record, r) /\ "live" \notin Touched(name)
      BY <1>12, <2>2, RewrittenRecord DEF Replacing, IsContext, Touched
    <3> HIDE DEF r
    <3>2. Goes(c, d) /\ d.record = r /\ d.warned = c.warned
      BY <2>1, <3>1, SameButRecord DEF Rewrites
    <3> HIDE DEF d
    <3> QED
      BY <1>2, <3>1, <3>2 DEF d
  <2>3. CASE name = "storageShape"
    <3>1. r = storageShapeTransformer(c.record)
      BY <2>3 DEF Rewritten
    <3>2. IsRecord(r) /\ (r = c.record \/ "live" \notin Attrs(r))
      BY <3>1, ShapeRecord DEF IsContext
    <3> HIDE DEF r
    <3>3. Goes(c, d) /\ d.record = r /\ d.warned = c.warned /\ d.cache = c.cache
      BY <2>1, <3>2, SameButRecord
    <3> QED
      BY <2>3, <3>2, <3>3 DEF LiveIsCached, Goes, Replacing
  <2> QED
    BY <2>2, <2>3
<1> QED
  BY <1>3, <1>4, <1>5, <1>6, <1>7, <1>8, <1>9, <1>10, <1>11, <1>12

\* Every processor claims a key of commands.
LEMMA KeysClaimed ==
  ASSUME NEW p \in Processors
  PROVE  Claimed(p) \in CommandKeys
BY DEF Claimed, Processors, CommandKeys

\* What a processor adds at the end is the record, under the key it claims.
Ends(c, d) ==
  /\ IsContext(d) /\ d.record = c.record /\ d.original = c.original
  /\ d.cache = c.cache /\ d.warned = c.warned
  /\ \A key \in CommandKeys :
       /\ ToSet(c.commands[key]) \subseteq ToSet(d.commands[key])
       /\ ToSet(d.commands[key]) \subseteq ToSet(c.commands[key]) \union {[record |-> c.record]}
  /\ d.commands["S3_COPY"] = c.commands["S3_COPY"]

Emitted(c, p, config) ==
  PutsRecord(p, c.record, config) => [record |-> c.record] \in ToSet(c.commands[Claimed(p)])

\* onEnd of one processor.
LEMMA AtEndStep ==
  ASSUME NEW c, IsContext(c), NEW p \in Processors, NEW config
  PROVE  LET d == AtEnd(c, p, config) IN Ends(c, d) /\ Emitted(d, p, config)
<1> DEFINE e == Emit(c, Claimed(p), [record |-> c.record])
<1>1. Claimed(p) \in CommandKeys
  BY KeysClaimed
<1>2. /\ IsContext(e) /\ Adds(c, e, Claimed(p), [record |-> c.record])
      /\ e.record = c.record /\ e.original = c.original
      /\ e.cache = c.cache /\ e.warned = c.warned
  BY <1>1, EmitContext
<1> HIDE DEF e
<1>3. CASE PutsRecord(p, c.record, config)
  <2>1. AtEnd(c, p, config) = e
    BY <1>3 DEF AtEnd, e
  <2>2. Claimed(p) # "S3_COPY" /\ "S3_COPY" \in CommandKeys
    BY <1>3 DEF PutsRecord, Claimed, CommandKeys
  <2>3. Ends(c, e)
    BY <1>2, <2>2 DEF Ends, Adds
  <2>4. Emitted(e, p, config)
    BY <1>2 DEF Emitted, Adds
  <2> QED
    BY <2>1, <2>3, <2>4
<1>4. CASE ~ PutsRecord(p, c.record, config)
  BY <1>4 DEF AtEnd, Ends, Emitted
<1> QED
  BY <1>3, <1>4

\* Two processors after each other.
LEMMA EndsThen ==
  ASSUME NEW c, NEW d, NEW e, Ends(c, d), Ends(d, e)
  PROVE  Ends(c, e) /\ \A config : \A p \in Processors : Emitted(d, p, config) => Emitted(e, p, config)
<1>1. Ends(c, e)
  BY DEF Ends
<1>2. \A config : \A p \in Processors : Emitted(d, p, config) => Emitted(e, p, config)
  BY KeysClaimed DEF Ends, Emitted
<1> QED
  BY <1>1, <1>2

\* All transformers of a pipeline.
LEMMA Transformed ==
  ASSUME NEW c, IsContext(c), NEW ts, IsSeq(ts), NEW env
  PROVE  LET d == AllTransforms(c, ts, env)
         IN Goes(c, d) /\ c.warned \subseteq d.warned /\ (LiveIsCached(c) => LiveIsCached(d))
<1>1. Len(ts) \in Nat /\ DOMAIN ts = 1..Len(ts)
  BY SeqHas DEF IsSeq
<1> DEFINE n == Len(ts)
<1>2. PICK x : Steps(x, n, "transform", c, ts, env) /\ x[n] = AllTransforms(c, ts, env)
  BY <1>1, TransformSteps
<1> DEFINE Fine(d) ==
             Goes(c, d) /\ c.warned \subseteq d.warned /\ (LiveIsCached(c) => LiveIsCached(d))
           S == {i \in Nat : i <= n => Fine(x[i])}
<1>3. 0 \in S
  BY <1>2, SameContext DEF Steps
<1>4. ASSUME NEW i \in S PROVE i + 1 \in S
  <2>1. SUFFICES ASSUME i + 1 <= n PROVE Fine(x[i + 1])
    OBVIOUS
  <2>2. i \in Nat /\ i + 1 \in 1..n /\ i + 1 - 1 = i /\ i <= n
    BY <1>1, <2>1
  <2>3. Fine(x[i])
    BY <2>2
  <2>4. x[i + 1] = Transform(ts[i + 1], x[i], env)
    BY <1>2, <2>2 DEF Steps, Act
  <2>5. IsContext(x[i])
    BY <2>3 DEF Goes
  <2>6. /\ Goes(x[i], x[i + 1]) /\ x[i].warned \subseteq x[i + 1].warned
        /\ LiveIsCached(x[i]) => LiveIsCached(x[i + 1])
    BY <2>4, <2>5, TransformStep
  <2> QED
    BY <2>3, <2>6, GoesOn
<1>5. S = Nat
  <2>1. S \in SUBSET Nat
    OBVIOUS
  <2> HIDE DEF S
  <2> QED
    BY <1>3, <1>4, <2>1, SetInduction
<1>6. n <= n /\ n \in Nat
  BY <1>1
<1>7. Fine(x[n])
  BY <1>5, <1>6
<1> QED
  BY <1>2, <1>7

\* And what all processors add.
LEMMA Ended ==
  ASSUME NEW c, IsContext(c), NEW ps \in Seq(Processors), NEW config
  PROVE  LET d == AllEnds(c, ps, config)
         IN Ends(c, d) /\ \A p \in ToSet(ps) : Emitted(d, p, config)
<1>1. Len(ps) \in Nat /\ DOMAIN ps = 1..Len(ps) /\ \A i \in 1..Len(ps) : ps[i] \in Processors
  BY LenProperties, ElementOfSeq
<1> DEFINE n == Len(ps)
<1>2. PICK x : Steps(x, n, "end", c, ps, config) /\ x[n] = AllEnds(c, ps, config)
  BY <1>1, EndSteps
<1> DEFINE Fine(d, i) == Ends(c, d) /\ \A j \in 1..i : Emitted(d, ps[j], config)
           S == {i \in Nat : i <= n => Fine(x[i], i)}
<1>3. 0 \in S
  BY <1>2 DEF Steps, Ends
<1>4. ASSUME NEW i \in S PROVE i + 1 \in S
  <2>1. SUFFICES ASSUME i + 1 <= n PROVE Fine(x[i + 1], i + 1)
    OBVIOUS
  <2>2. i \in Nat /\ i + 1 \in 1..n /\ i + 1 - 1 = i /\ i <= n
    BY <1>1, <2>1
  <2>3. Fine(x[i], i)
    BY <2>2
  <2>4. x[i + 1] = AtEnd(x[i], ps[i + 1], config)
    BY <1>2, <2>2 DEF Steps, Act
  <2>5. IsContext(x[i]) /\ ps[i + 1] \in Processors
    BY <1>1, <2>2, <2>3 DEF Ends
  <2>6. Ends(x[i], x[i + 1]) /\ Emitted(x[i + 1], ps[i + 1], config)
    BY <2>4, <2>5, AtEndStep
  <2>7. /\ Ends(c, x[i + 1])
        /\ \A j \in 1..i : ps[j] \in Processors => Emitted(x[i + 1], ps[j], config)
    BY <2>3, <2>6, EndsThen
  <2>8. \A j \in 1..(i + 1) : (j \in 1..i \/ j = i + 1) /\ j \in 1..n
    BY <1>1, <2>2
  <2> QED
    BY <1>1, <2>6, <2>7, <2>8
<1>5. S = Nat
  <2>1. S \in SUBSET Nat
    OBVIOUS
  <2> HIDE DEF S
  <2> QED
    BY <1>3, <1>4, <2>1, SetInduction
<1>6. Fine(x[n], n)
  BY <1>1, <1>5
<1> QED
  BY <1>1, <1>2, <1>6 DEF ToSet

\* What becomes of a row: its context at the end.
THEOREM ConvertedRow ==
  ASSUME NEW pipeline, IsSeq(pipeline.transformers), pipeline.processors \in Seq(Processors),
         NEW r, IsRecord(r), NEW env, NEW cache, NEW warned, NEW config
  PROVE  LET c == Converted(pipeline, r, env, cache, warned, config)
         IN /\ IsContext(c) /\ Agrees(cache, c.cache) /\ warned \subseteq c.warned
            /\ "live" \notin Attrs(r) /\ "live" \in Attrs(c.record) =>
                 r.pk \in DOMAIN c.cache /\ c.cache[r.pk] = c.record.attrs.live
            /\ \A p \in ToSet(pipeline.processors) : Emitted(c, p, config)
            /\ \A key \in {"PUT_RECORD", "AUDIT_LOG_PUT_RECORD"} : \A put \in ToSet(c.commands[key]) :
                 put.record = c.record \/ (key = "PUT_RECORD" /\ IsMetadata(put.record))
<1> DEFINE b == NewContext(r, cache, warned)
           t == AllTransforms(b, pipeline.transformers, env)
           c == Converted(pipeline, r, env, cache, warned, config)
<1>1. /\ IsContext(b) /\ b.record = r /\ b.original = r /\ b.cache = cache /\ b.warned = warned
      /\ \A key \in CommandKeys : ToSet(b.commands[key]) = {}
  BY EmptyIsSeq DEF NewContext, NoCommands, IsContext, IsCommands
<1> HIDE DEF b
<1>2. Goes(b, t) /\ b.warned \subseteq t.warned /\ (LiveIsCached(b) => LiveIsCached(t))
  BY <1>1, Transformed
<1> HIDE DEF t
<1>3. c = AllEnds(t, pipeline.processors, config)
  BY DEF Converted, t, b
<1>4. IsContext(t)
  BY <1>2 DEF Goes
<1> HIDE DEF c
<1>5. Ends(t, c) /\ \A p \in ToSet(pipeline.processors) : Emitted(c, p, config)
  BY <1>3, <1>4, Ended
<1>6. "live" \notin Attrs(r) => LiveIsCached(t)
  BY <1>1, <1>2 DEF LiveIsCached
<1>7. IsContext(c) /\ Agrees(cache, c.cache) /\ warned \subseteq c.warned
  BY <1>1, <1>2, <1>5 DEF Ends, Goes
<1>8. "live" \notin Attrs(r) /\ "live" \in Attrs(c.record) =>
        r.pk \in DOMAIN c.cache /\ c.cache[r.pk] = c.record.attrs.live
  BY <1>1, <1>2, <1>5, <1>6 DEF Ends, Goes, LiveIsCached
<1>9. ASSUME NEW key \in {"PUT_RECORD", "AUDIT_LOG_PUT_RECORD"}, NEW put \in ToSet(c.commands[key])
      PROVE  put.record = c.record \/ (key = "PUT_RECORD" /\ IsMetadata(put.record))
  <2>1. key \in CommandKeys
    BY DEF CommandKeys
  <2>2. put \in ToSet(t.commands[key]) \/ put = [record |-> t.record]
    BY <1>5, <2>1 DEF Ends
  <2>3. put \in ToSet(t.commands[key]) => key = "PUT_RECORD" /\ IsMetadata(put.record)
    BY <1>1, <1>2, <2>1 DEF Goes
  <2> QED
    BY <1>5, <2>2, <2>3 DEF Ends
<1> QED
  BY <1>5, <1>7, <1>8, <1>9 DEF c

-----------------------------------------------------------------------------
(* Pipelines *)

\* A pipeline that a row can go through.
IsPipeline(q) ==
  /\ q = [name |-> q.name, scanner |-> q.scanner, processors |-> q.processors,
          filters |-> q.filters, blackhole |-> q.blackhole, transformers |-> q.transformers]
  /\ IsSeq(q.transformers) /\ q.processors \in Seq(Processors)

\* A function on 1..n is a sequence.
LEMMA TupleIsSeq ==
  ASSUME NEW n \in Nat, NEW t, t = [i \in 1..n |-> t[i]]
  PROVE  IsSeq(t)
<1>1. \A i \in 1..n : t[i] \in ToSet(t)
  BY DEF ToSet
<1>2. t \in [1..n -> ToSet(t)]
  BY <1>1
<1> QED
  BY <1>2, IsASeq DEF IsSeq

\* The lists of processors that the presets have.
LEMMA Processing ==
  ASSUME NEW ps, ps \in {<<"DdbProcessor">>, <<"OsProcessor">>, <<"AuditLogProcessor">>,
                         <<"DdbProcessor", "S3Processor">>}
  PROVE  ps \in Seq(Processors)
<1>1. {"DdbProcessor", "OsProcessor", "AuditLogProcessor", "S3Processor"} = Processors
  BY DEF Processors
<1>2. \A a \in Processors, b \in Processors : <<a>> \in Seq(Processors) /\ <<a, b>> \in Seq(Processors)
  OBVIOUS
<1> QED
  BY <1>1, <1>2

\* A pipeline of the presets.
LEMMA PipelineIs ==
  ASSUME NEW name, NEW filter, NEW ts, IsSeq(ts)
  PROVE  IsPipeline(Pipeline(name, filter, ts))
<1>1. <<"DdbProcessor">> \in Seq(Processors)
  BY Processing
<1> QED
  BY <1>1 DEF Pipeline, IsPipeline

\* A pipeline with other processors, another scanner or no effect.
LEMMA ChangedPipeline ==
  ASSUME NEW q, IsPipeline(q), NEW ps \in Seq(Processors), NEW v
  PROVE  /\ IsPipeline([q EXCEPT !.processors = ps])
         /\ IsPipeline([q EXCEPT !.blackhole = v]) /\ IsPipeline([q EXCEPT !.scanner = v])
<1> DEFINE R(scanner, processors, blackhole) ==
             [name |-> q.name, scanner |-> scanner, processors |-> processors,
              filters |-> q.filters, blackhole |-> blackhole, transformers |-> q.transformers]
<1>1. q = R(q.scanner, q.processors, q.blackhole)
  BY DEF IsPipeline
<1>2. [q EXCEPT !.processors = ps] = R(q.scanner, ps, q.blackhole)
  BY <1>1
<1>3. [q EXCEPT !.blackhole = v] = R(q.scanner, q.processors, v)
  BY <1>1
<1>4. [q EXCEPT !.scanner = v] = R(v, q.processors, q.blackhole)
  BY <1>1
<1> QED
  BY <1>2, <1>3, <1>4 DEF IsPipeline

\* A pipeline of records that are left out.
LEMMA BlackholeIs ==
  ASSUME NEW name, NEW filter
  PROVE  IsPipeline(Blackhole(name, filter))
BY EmptyIsSeq, PipelineIs, ChangedPipeline, Processing DEF Blackhole

\* The OpenSearch form of a pipeline.
LEMMA InOsIs ==
  ASSUME NEW q, IsPipeline(q)
  PROVE  IsPipeline(InOs(q))
<1> DEFINE o == [q EXCEPT !.scanner = "OsScanner"]
<1>1. <<"OsProcessor">> \in Seq(Processors) /\ IsPipeline(o)
  BY Processing, ChangedPipeline
<1>2. InOs(q) = [o EXCEPT !.processors = <<"OsProcessor">>]
  BY DEF InOs, IsPipeline
<1> HIDE DEF o
<1> QED
  BY <1>1, <1>2, ChangedPipeline

\* The transformers of the built-in presets are sequences.
LEMMA TransformersAre ==
  /\ IsSeq(cmsEntryTransformers) /\ IsSeq(osCmsEntryTransformers) /\ IsSeq(auditLogTransformers)
<1>1. ASSUME NEW t, t = cmsEntryTransformers PROVE t = [i \in 1..9 |-> t[i]]
  BY <1>1 DEF cmsEntryTransformers
<1>2. ASSUME NEW t, t = osCmsEntryTransformers PROVE t = [i \in 1..10 |-> t[i]]
  BY <1>2 DEF osCmsEntryTransformers
<1>3. ASSUME NEW t, t = auditLogTransformers PROVE t = [i \in 1..3 |-> t[i]]
  BY <1>3 DEF auditLogTransformers
<1> QED
  BY <1>1, <1>2, <1>3, TupleIsSeq

\* Lists of a few are sequences.
LEMMA ShortTuples ==
  ASSUME NEW a, NEW b, NEW c, NEW d, NEW e, NEW f
  PROVE  /\ IsSeq(<<a>>) /\ IsSeq(<<a, b>>) /\ IsSeq(<<a, b, c>>) /\ IsSeq(<<a, b, c, d>>)
         /\ IsSeq(<<a, b, c, d, e>>) /\ IsSeq(<<a, b, c, d, e, f>>)
<1>1. /\ <<a>> = [i \in 1..1 |-> <<a>>[i]] /\ <<a, b>> = [i \in 1..2 |-> <<a, b>>[i]]
      /\ <<a, b, c>> = [i \in 1..3 |-> <<a, b, c>>[i]]
      /\ <<a, b, c, d>> = [i \in 1..4 |-> <<a, b, c, d>>[i]]
      /\ <<a, b, c, d, e>> = [i \in 1..5 |-> <<a, b, c, d, e>>[i]]
      /\ <<a, b, c, d, e, f>> = [i \in 1..6 |-> <<a, b, c, d, e, f>>[i]]
  OBVIOUS
<1> QED
  BY <1>1, TupleIsSeq

\* The pipelines of the DynamoDB preset.
LEMMA DdbPipelines ==
  ASSUME NEW config
  PROVE  /\ IsPipeline(migrationRecords) /\ IsPipeline(auditLogs(config))
         /\ IsPipeline(acoSearchRecordsPage) /\ IsPipeline(contentModelGroups)
         /\ IsPipeline(backgroundTasks) /\ IsPipeline(fmSettings) /\ IsPipeline(fmFiles)
         /\ IsPipeline(mailerSettings) /\ IsPipeline(securityGroups) /\ IsPipeline(securityTeams)
         /\ IsPipeline(cmsModels) /\ IsPipeline(folderPermissions) /\ IsPipeline(cmsEntries)
         /\ IsPipeline(adminUsers) /\ IsPipeline(formBuilderRecords)
<1>1. IsPipeline(auditLogs(config))
  <2> DEFINE o == Pipeline("AuditLogs", "isAuditLogEntry", auditLogTransformers)
             a == [o EXCEPT !.processors = <<"AuditLogProcessor">>]
             none == ~ config.auditTable
  <2>1. auditLogs(config) = [a EXCEPT !.blackhole = none]
    BY DEF auditLogs
  <2>2. IsPipeline(o)
    BY TransformersAre, PipelineIs
  <2> HIDE DEF o
  <2>3. IsPipeline(a) /\ <<"DdbProcessor">> \in Seq(Processors)
    BY <2>2, ChangedPipeline, Processing
  <2> HIDE DEF a
  <2>4. \A v : IsPipeline([a EXCEPT !.blackhole = v])
    BY <2>3, ChangedPipeline
  <2> HIDE DEF none
  <2> QED
    BY <2>1, <2>4
<1>2. IsPipeline(fmFiles)
  <2> DEFINE ts == cmsEntryTransformers
                     \o <<"createMetadata", "extractImageMetadata", "copyFileToTarget">>
             o == Pipeline("FileManagerFiles", "isFmFile", ts)
  <2>1. IsSeq(ts)
    BY TransformersAre, ShortTuples, ConcatIsSeq
  <2> HIDE DEF ts
  <2>2. IsPipeline(o)
    BY <2>1, PipelineIs
  <2>3. fmFiles = [o EXCEPT !.processors = <<"DdbProcessor", "S3Processor">>]
    BY DEF fmFiles, ts
  <2> HIDE DEF o
  <2> QED
    BY <2>2, <2>3, ChangedPipeline, Processing
<1>3. IsPipeline(cmsEntries)
  BY TransformersAre, ShortTuples, ConcatIsSeq, PipelineIs DEF cmsEntries
<1>4. /\ IsPipeline(contentModelGroups) /\ IsPipeline(fmSettings) /\ IsPipeline(mailerSettings)
      /\ IsPipeline(securityGroups) /\ IsPipeline(securityTeams)
  BY ShortTuples, PipelineIs
     DEF contentModelGroups, fmSettings, mailerSettings, securityGroups, securityTeams
<1>5. IsPipeline(cmsModels) /\ IsPipeline(folderPermissions) /\ IsPipeline(adminUsers)
  BY ShortTuples, EmptyIsSeq, PipelineIs DEF cmsModels, folderPermissions, adminUsers
<1> QED
  BY <1>1, <1>2, <1>3, <1>4, <1>5, BlackholeIs
     DEF migrationRecords, acoSearchRecordsPage, backgroundTasks, formBuilderRecords

\* Pipelines in an order.
IsPipelines(ps) == \E n \in Nat : DOMAIN ps = 1..n /\ \A i \in 1..n : IsPipeline(ps[i])

\* The pipelines of the presets that come with the program.
LEMMA BuiltInIs ==
  ASSUME NEW config, NEW n \in DOMAIN builtIn(config)
  PROVE  IsPipelines(builtIn(config)[n].pipelines)
<1>1. ASSUME NEW t, t = v5_to_v6_ddb(config) PROVE IsPipelines(t)
  <2>1. DOMAIN t = 1..15 /\ 15 \in Nat
    BY <1>1 DEF v5_to_v6_ddb
  <2>2. \A i \in 1..15 :
          t[i] \in {migrationRecords, auditLogs(config), acoSearchRecordsPage,
                    contentModelGroups, backgroundTasks, fmSettings, fmFiles, mailerSettings,
                    securityGroups, securityTeams, cmsModels, folderPermissions, cmsEntries,
                    adminUsers, formBuilderRecords}
    BY <1>1 DEF v5_to_v6_ddb
  <2>3. \A i \in 1..15 : IsPipeline(t[i])
    BY <2>2, DdbPipelines
  <2> QED
    BY <2>1, <2>3 DEF IsPipelines
<1>2. ASSUME NEW t, t = v5_to_v6_os PROVE IsPipelines(t)
  <2> DEFINE a == Blackhole("AcoSearchRecords", "isAcoSearchRecord")
             b == Blackhole("BackgroundTasks", "isOsBackgroundTask")
             c == Blackhole("MailerSettings", "isOsMailerSettings")
             f == Pipeline("FileManagerFiles", "isFmFile", osCmsEntryTransformers)
             e == Pipeline("CmsEntries", "isCmsEntry",
                           osCmsEntryTransformers \o <<"addLiveField", "replaceFileUrls">>)
  <2>1. IsPipeline(a) /\ IsPipeline(b) /\ IsPipeline(c) /\ IsPipeline(f) /\ IsPipeline(e)
    BY BlackholeIs, TransformersAre, ShortTuples, ConcatIsSeq, PipelineIs
  <2>2. t = <<InOs(a), InOs(b), InOs(c), InOs(f), InOs(e)>>
    BY <1>2 DEF v5_to_v6_os
  <2> HIDE DEF a, b, c, f, e
  <2>3. DOMAIN t = 1..5 /\ 5 \in Nat /\ \A i \in 1..5 : \E q \in {a, b, c, f, e} : t[i] = InOs(q)
    BY <2>2
  <2> QED
    BY <2>1, <2>3, InOsIs DEF IsPipelines
<1>3. ASSUME NEW q, IsPipeline(q), NEW t, t = <<q>> PROVE IsPipelines(t)
  <2>1. DOMAIN t = 1..1 /\ 1 \in Nat /\ \A i \in 1..1 : t[i] = q
    BY <1>3
  <2> QED
    BY <1>3, <2>1 DEF IsPipelines
<1>4. ASSUME NEW name PROVE IsPipeline(Everything(name))
  <2> DEFINE o == Pipeline(name, "", << >>)
  <2>1. IsPipeline(o)
    BY EmptyIsSeq, PipelineIs
  <2>2. Everything(name) = [o EXCEPT !.filters = {}]
    BY DEF Everything
  <2> HIDE DEF o
  <2> QED
    BY <2>1, <2>2 DEF IsPipeline
<1>5. IsPipelines(copy_ddb) /\ IsPipelines(copy_os)
  BY <1>3, <1>4, InOsIs DEF copy_ddb, copy_os
<1>6. IsPipelines(copy_files)
  <2> DEFINE o == Pipeline("S3 Files", "isFmFile", <<"copyFileToTarget">>)
             f == [o EXCEPT !.processors = <<"DdbProcessor", "S3Processor">>]
  <2>1. IsPipeline(o)
    BY ShortTuples, PipelineIs
  <2>2. copy_files = <<f>>
    BY DEF copy_files
  <2> HIDE DEF o
  <2>3. IsPipeline(f)
    BY <2>1, ChangedPipeline, Processing
  <2> HIDE DEF f
  <2> QED
    BY <1>3, <2>2, <2>3
<1>7. n \in {"v5-to-v6-ddb", "v5-to-v6-os", "copy-ddb", "copy-os", "copy-files"}
  BY DEF builtIn
<1>8. builtIn(config)[n].pipelines \in
        {v5_to_v6_ddb(config), v5_to_v6_os, copy_ddb, copy_os, copy_files}
  BY <1>7 DEF builtIn, Preset
<1> QED
  BY <1>1, <1>2, <1>5, <1>6, <1>8

\* A user's pipelines.
LEMMA UserPipelines ==
  ASSUME NEW ps \in Seq(PipelineType)
  PROVE  IsPipelines(ps)
<1>1. Len(ps) \in Nat /\ DOMAIN ps = 1..Len(ps) /\ \A i \in 1..Len(ps) : ps[i] \in PipelineType
  BY LenProperties, ElementOfSeq
<1>2. ASSUME NEW q \in PipelineType PROVE IsPipeline(q)
  <2>1. /\ q = [name |-> q.name, scanner |-> q.scanner, processors |-> q.processors,
                filters |-> q.filters, blackhole |-> q.blackhole, transformers |-> q.transformers]
        /\ q.processors \in Seq(Processors) /\ q.transformers \in Seq(STRING)
    BY DEF PipelineType
  <2> QED
    BY <2>1, SeqHas DEF IsPipeline
<1> QED
  BY <1>1, <1>2 DEF IsPipelines

\* What a run is given, as far as its pipelines go.
GivesPipelines(setup) ==
  /\ \A n \in DOMAIN setup.user : setup.user[n].pipelines \in Seq(PipelineType)
  /\ \A n \in DOMAIN setup.files : setup.files[n].pipelines \in Seq(PipelineType)
  /\ setup.customizers \in Seq(CustomizerType)

\* The pipelines of the preset that a run asks for, wherever it is found.
LEMMA ResolvedPipelines ==
  ASSUME NEW setup, GivesPipelines(setup), Loads(setup)
  PROVE  IsPipelines(resolvePresetPath(setup).pipelines)
<1> DEFINE b == builtIn(setup.config)
           u == setup.user
           f == setup.files
           a == setup.asked
<1>1. a \in DOMAIN b \union DOMAIN u \union DOMAIN f
  BY DEF Loads, Known
<1>2. resolvePresetPath(setup) = Over(b, Over(u, f))[a]
  BY DEF resolvePresetPath
<1>3. \A n \in DOMAIN b : IsPipelines(b[n].pipelines)
  BY BuiltInIs
<1>4. (\A n \in DOMAIN u : IsPipelines(u[n].pipelines)) /\ (\A n \in DOMAIN f : IsPipelines(f[n].pipelines))
  BY UserPipelines DEF GivesPipelines
<1> HIDE DEF b, u, f, a
<1>5. \/ a \in DOMAIN b /\ Over(b, Over(u, f))[a] = b[a]
      \/ a \in DOMAIN u /\ Over(b, Over(u, f))[a] = u[a]
      \/ a \in DOMAIN f /\ Over(b, Over(u, f))[a] = f[a]
  BY <1>1 DEF Over
<1> QED
  BY <1>2, <1>3, <1>4, <1>5

\* What customizers append.
LEMMA ExtendedWith ==
  ASSUME NEW ts, IsSeq(ts), NEW customizers \in Seq(CustomizerType), NEW name
  PROVE  LET us == AllExtended(ts, customizers, name)
         IN /\ IsSeq(us) /\ Len(us) >= Len(ts)
            /\ \A i \in 1..Len(ts) : us[i] = ts[i]
            /\ \A i \in (Len(ts) + 1)..Len(us) :
                 \E c \in ToSet(customizers) : name \in c.uses /\ us[i] \in ToSet(c.transformers)
<1> DEFINE n == Len(customizers)
           More(us) == /\ IsSeq(us) /\ Len(us) >= Len(ts)
                       /\ \A i \in 1..Len(ts) : us[i] = ts[i]
                       /\ \A i \in (Len(ts) + 1)..Len(us) :
                            \E c \in ToSet(customizers) : name \in c.uses /\ us[i] \in ToSet(c.transformers)
<1>1. n \in Nat /\ DOMAIN customizers = 1..n /\ \A i \in 1..n : customizers[i] \in CustomizerType
  BY LenProperties, ElementOfSeq
<1>2. \A i \in 1..n : IsSeq(customizers[i].transformers) /\ customizers[i] \in ToSet(customizers)
  BY <1>1, SeqHas DEF CustomizerType, ToSet
<1>3. Len(ts) \in Nat
  BY SeqHas DEF IsSeq
<1>4. PICK x : Steps(x, n, "extend", ts, customizers, name) /\ x[n] = AllExtended(ts, customizers, name)
  BY <1>1, ExtendSteps
<1> HIDE DEF n
<1>5. ASSUME NEW us, More(us), NEW c \in ToSet(customizers), IsSeq(c.transformers), name \in c.uses
      PROVE  More(us \o c.transformers)
  <2> DEFINE vs == c.transformers
             ws == us \o vs
  <2>1. /\ Len(us) \in Nat /\ Len(vs) \in Nat /\ DOMAIN vs = 1..Len(vs) /\ IsSeq(us)
        /\ IsSeq(ws) /\ Len(ws) = Len(us) + Len(vs)
        /\ \A i \in 1..Len(us) : ws[i] = us[i]
        /\ \A i \in 1..Len(vs) : ws[Len(us) + i] = vs[i]
    BY <1>5, SeqHas, ConcatIsSeq DEF IsSeq
  <2>3. \A i \in (Len(us) + 1)..Len(ws) : ws[i] \in ToSet(vs)
    <3> SUFFICES ASSUME NEW i \in (Len(us) + 1)..Len(ws) PROVE ws[i] \in ToSet(vs)
      OBVIOUS
    <3>1. i - Len(us) \in 1..Len(vs) /\ Len(us) + (i - Len(us)) = i
      BY <2>1
    <3>2. ws[i] = vs[i - Len(us)]
      BY <2>1, <3>1
    <3> QED
      BY <2>1, <3>1, <3>2 DEF ToSet
  <2> HIDE DEF ws
  <2>4. Len(ws) >= Len(ts) /\ \A i \in 1..Len(ts) : i \in 1..Len(us)
    BY <1>3, <1>5, <2>1
  <2>5. ASSUME NEW i \in (Len(ts) + 1)..Len(ws)
        PROVE  \E k \in ToSet(customizers) : name \in k.uses /\ ws[i] \in ToSet(k.transformers)
    <3>1. CASE i <= Len(us)
      <4>1. i \in (Len(ts) + 1)..Len(us) /\ i \in 1..Len(us)
        BY <1>3, <2>1, <3>1
      <4> QED
        BY <1>5, <2>1, <4>1
    <3>2. CASE ~ (i <= Len(us))
      <4>1. i \in (Len(us) + 1)..Len(ws)
        BY <1>3, <2>1, <3>2
      <4> QED
        BY <1>5, <2>3, <4>1
    <3> QED
      BY <3>1, <3>2
  <2> QED
    BY <1>5, <2>1, <2>4, <2>5 DEF ws
<1> DEFINE S == {i \in Nat : i <= n => More(x[i])}
<1>6. 0 \in S
  <2>1. x[0] = ts
    BY <1>4 DEF Steps
  <2> QED
    BY <1>3, <2>1
<1>7. ASSUME NEW i \in S PROVE i + 1 \in S
  <2>1. SUFFICES ASSUME i + 1 <= n PROVE More(x[i + 1])
    OBVIOUS
  <2>2. i \in Nat /\ i + 1 \in 1..n /\ i + 1 - 1 = i /\ i <= n
    BY <1>1, <2>1
  <2>3. x[i + 1] = Extended(x[i], customizers[i + 1], name)
    BY <1>4, <2>2 DEF Steps, Act
  <2>4. More(x[i])
    BY <2>2
  <2>5. IsSeq(customizers[i + 1].transformers) /\ customizers[i + 1] \in ToSet(customizers)
    BY <1>2, <2>2
  <2> HIDE DEF More
  <2> QED
    BY <1>5, <2>3, <2>4, <2>5 DEF Extended
<1>8. S = Nat
  <2>1. S \in SUBSET Nat
    OBVIOUS
  <2> HIDE DEF S
  <2> QED
    BY <1>6, <1>7, <2>1, SetInduction
<1>9. n \in S /\ n <= n
  BY <1>1, <1>8
<1>10. More(x[n])
  BY <1>9
<1> QED
  BY <1>4, <1>10

\* build keeps all of a pipeline but its filters and its transformers.
LEMMA BuiltPipeline ==
  ASSUME NEW q, IsPipeline(q), NEW setup, setup.customizers \in Seq(CustomizerType)
  PROVE  LET b == build(q, setup)
         IN /\ IsPipeline(b) /\ b.name = q.name /\ b.processors = q.processors
            /\ b.scanner = q.scanner
            /\ b.transformers = AllExtended(q.transformers, setup.customizers, q.name)
<1> DEFINE fs == q.filters \union UNION {c.filters : c \in CustomizersOf(q.name, setup)}
           ts == AllExtended(q.transformers, setup.customizers, q.name)
           half == [q EXCEPT !.filters = fs]
           b == build(q, setup)
<1>1. IsSeq(ts)
  BY ExtendedWith DEF IsPipeline
<1>2. b = [half EXCEPT !.transformers = ts]
  BY DEF build, IsPipeline
<1> HIDE DEF fs, ts
<1>3. half = [name |-> q.name, scanner |-> q.scanner, processors |-> q.processors,
              filters |-> fs, blackhole |-> q.blackhole, transformers |-> q.transformers]
  BY DEF IsPipeline
<1> HIDE DEF half, b
<1>4. b = [name |-> q.name, scanner |-> q.scanner, processors |-> q.processors,
           filters |-> fs, blackhole |-> q.blackhole, transformers |-> ts]
  BY <1>2, <1>3
<1> QED
  BY <1>1, <1>4 DEF IsPipeline, b, ts

\* What a worker runs, when it gets that far.
LEMMA AssembledPipelines ==
  ASSUME NEW setup, GivesPipelines(setup), Assembles(setup)
  PROVE  IsPipelines(Assembled(setup)) /\ NamesUnique(Assembled(setup))
<1> DEFINE ps == resolvePresetPath(setup).pipelines
           as == Assembled(setup)
<1>1. IsPipelines(ps) /\ NamesUnique(ps)
  BY ResolvedPipelines DEF Assembles
<1>2. as = [n \in DOMAIN ps |-> build(ps[n], setup)]
  BY DEF Assembled
<1> HIDE DEF ps, as
<1>3. PICK n \in Nat : DOMAIN ps = 1..n /\ \A i \in 1..n : IsPipeline(ps[i])
  BY <1>1 DEF IsPipelines
<1>4. DOMAIN as = 1..n /\ \A i \in 1..n : IsPipeline(as[i]) /\ as[i].name = ps[i].name
  BY <1>2, <1>3, BuiltPipeline DEF GivesPipelines
<1>5. IsPipelines(as)
  BY <1>4 DEF IsPipelines
<1>6. NamesUnique(as)
  BY <1>1, <1>3, <1>4 DEF NamesUnique
<1> QED
  BY <1>5, <1>6 DEF as

-----------------------------------------------------------------------------
(* The order of the processors *)

\* A processor is taken up.
LEMMA OnceHas ==
  ASSUME NEW order \in Seq(Processors), NEW p \in Processors
  PROVE  Once(order, p) \in Seq(Processors) /\ ToSet(Once(order, p)) = ToSet(order) \union {p}
<1>1. Append(order, p) \in Seq(Processors)
  OBVIOUS
<1>2. IsSeq(order)
  BY SeqHas
<1>3. ToSet(Append(order, p)) = ToSet(order) \union {p}
  BY <1>2, AppendIsSeq
<1> QED
  BY <1>1, <1>3 DEF Once

\* The processors of a pipeline are taken up.
LEMMA AllOnceHas ==
  ASSUME NEW order \in Seq(Processors), NEW ps \in Seq(Processors)
  PROVE  /\ AllOnce(order, ps) \in Seq(Processors)
         /\ ToSet(AllOnce(order, ps)) = ToSet(order) \union ToSet(ps)
<1> DEFINE n == Len(ps)
<1>1. n \in Nat /\ DOMAIN ps = 1..n /\ \A i \in 1..n : ps[i] \in Processors
  BY LenProperties, ElementOfSeq
<1> HIDE DEF n
<1>2. PICK x : Steps(x, n, "once", order, ps, {}) /\ x[n] = AllOnce(order, ps)
  BY <1>1, OnceSteps
<1> DEFINE S == {i \in Nat : i <= n =>
                   /\ x[i] \in Seq(Processors)
                   /\ ToSet(x[i]) = ToSet(order) \union {ps[j] : j \in 1..i}}
<1>3. 0 \in S
  BY <1>2 DEF Steps
<1>4. ASSUME NEW i \in S PROVE i + 1 \in S
  <2>1. SUFFICES ASSUME i + 1 <= n
                 PROVE  /\ x[i + 1] \in Seq(Processors)
                        /\ ToSet(x[i + 1]) = ToSet(order) \union {ps[j] : j \in 1..(i + 1)}
    OBVIOUS
  <2>2. i \in Nat /\ i + 1 \in 1..n /\ i + 1 - 1 = i /\ i <= n
    BY <1>1, <2>1
  <2>3. x[i + 1] = Once(x[i], ps[i + 1])
    BY <1>2, <2>2 DEF Steps, Act
  <2>4. x[i] \in Seq(Processors) /\ ToSet(x[i]) = ToSet(order) \union {ps[j] : j \in 1..i}
    BY <2>2
  <2>5. x[i + 1] \in Seq(Processors) /\ ToSet(x[i + 1]) = ToSet(x[i]) \union {ps[i + 1]}
    <3>1. x[i] \in Seq(Processors) /\ ps[i + 1] \in Processors
      BY <1>1, <2>2, <2>4
    <3> QED
      BY <2>3, <3>1, OnceHas
  <2>6. {ps[j] : j \in 1..(i + 1)} = {ps[j] : j \in 1..i} \union {ps[i + 1]}
    BY <2>2
  <2> QED
    BY <2>4, <2>5, <2>6
<1>5. S = Nat
  <2>1. S \in SUBSET Nat
    OBVIOUS
  <2> HIDE DEF S
  <2> QED
    BY <1>3, <1>4, <2>1, SetInduction
<1>6. n \in S
  BY <1>1, <1>5
<1>7. ToSet(ps) = {ps[j] : j \in 1..n}
  BY <1>1 DEF ToSet
<1> QED
  BY <1>1, <1>2, <1>6, <1>7

\* Each processor of each pipeline has its turn in a flush.
THEOREM OrderHas ==
  ASSUME NEW ps, IsPipelines(ps)
  PROVE  /\ collectProcessorOrder(ps) \in Seq(Processors)
         /\ \A i \in DOMAIN ps : ToSet(ps[i].processors) \subseteq ToSet(collectProcessorOrder(ps))
<1>1. PICK n \in Nat : DOMAIN ps = 1..n /\ \A i \in 1..n : IsPipeline(ps[i])
  BY DEF IsPipelines
<1>2. PICK x : Steps(x, n, "order", << >>, ps, {}) /\ x[n] = collectProcessorOrder(ps)
  BY <1>1, OrderSteps
<1> DEFINE S == {i \in Nat : i <= n =>
                   /\ x[i] \in Seq(Processors)
                   /\ \A j \in 1..i : ToSet(ps[j].processors) \subseteq ToSet(x[i])}
<1>3. 0 \in S
  <2>1. << >> \in Seq(Processors) /\ x[0] = << >>
    BY <1>2 DEF Steps
  <2>2. x[0] \in Seq(Processors)
    BY <2>1
  <2>3. \A j \in 1..0 : ToSet(ps[j].processors) \subseteq ToSet(x[0])
    OBVIOUS
  <2> QED
    BY <2>2, <2>3
<1>4. ASSUME NEW i \in S PROVE i + 1 \in S
  <2>1. SUFFICES ASSUME i + 1 <= n
                 PROVE  /\ x[i + 1] \in Seq(Processors)
                        /\ \A j \in 1..(i + 1) : ToSet(ps[j].processors) \subseteq ToSet(x[i + 1])
    OBVIOUS
  <2>2. i \in Nat /\ i + 1 \in 1..n /\ i + 1 - 1 = i /\ i <= n
    BY <1>1, <2>1
  <2>3. x[i + 1] = AllOnce(x[i], ps[i + 1].processors)
    BY <1>2, <2>2 DEF Steps, Act
  <2>4. x[i] \in Seq(Processors) /\ \A j \in 1..i : ToSet(ps[j].processors) \subseteq ToSet(x[i])
    BY <2>2
  <2>5. ps[i + 1].processors \in Seq(Processors)
    BY <1>1, <2>2 DEF IsPipeline
  <2>6. /\ x[i + 1] \in Seq(Processors)
        /\ ToSet(x[i + 1]) = ToSet(x[i]) \union ToSet(ps[i + 1].processors)
    BY <2>3, <2>4, <2>5, AllOnceHas
  <2>7. \A j \in 1..(i + 1) : j \in 1..i \/ j = i + 1
    BY <2>2
  <2> QED
    BY <2>4, <2>6, <2>7
<1>5. S = Nat
  <2>1. S \in SUBSET Nat
    OBVIOUS
  <2> HIDE DEF S
  <2> QED
    BY <1>3, <1>4, <2>1, SetInduction
<1>6. n \in S /\ n <= n
  BY <1>5
<1>7. /\ x[n] \in Seq(Processors)
      /\ \A j \in 1..n : ToSet(ps[j].processors) \subseteq ToSet(x[n])
  BY <1>6
<1> QED
  BY <1>1, <1>2, <1>7
-----------------------------------------------------------------------------
(* What becomes of entries *)

\* What begins a sequence.
LEMMA Prefix ==
  ASSUME NEW p, IsSeq(p), NEW n \in 1..Len(p)
  PROVE  /\ IsSeq(SubSeq(p, 1, n)) /\ Len(SubSeq(p, 1, n)) = n
         /\ \A m \in 1..n : SubSeq(p, 1, n)[m] = p[m]
         /\ \A m \in 1..n : SubSeq(SubSeq(p, 1, n), 1, m) = SubSeq(p, 1, m)
<1> DEFINE S == ToSet(p)
           q == SubSeq(p, 1, n)
<1>1. p \in Seq(S) /\ Len(p) \in Nat
  BY SeqHas DEF IsSeq
<1> HIDE DEF S
<1>2. /\ q \in Seq(S) /\ Len(q) = n /\ \A m \in 1..n : q[m] = p[m]
  BY <1>1, SubSeqProperties
<1>3. ASSUME NEW m \in 1..n PROVE SubSeq(q, 1, m) = SubSeq(p, 1, m)
  <2>1. m \in 1..Len(p) /\ m \in 1..Len(q)
    BY <1>1, <1>2
  <2>2. /\ SubSeq(q, 1, m) \in Seq(S) /\ Len(SubSeq(q, 1, m)) = m
        /\ \A k \in 1..m : SubSeq(q, 1, m)[k] = q[k]
    BY <1>2, <2>1, SubSeqProperties
  <2>3. /\ SubSeq(p, 1, m) \in Seq(S) /\ Len(SubSeq(p, 1, m)) = m
        /\ \A k \in 1..m : SubSeq(p, 1, m)[k] = p[k]
    BY <1>1, <2>1, SubSeqProperties
  <2> HIDE DEF q
  <2> QED
    BY <1>2, <2>2, <2>3, SeqEqual
<1> QED
  BY <1>2, <1>3, SeqHas

\* Moving values to other keys keeps them a tree: a node takes along what is below it.
LEMMA FixedValues ==
  ASSUME NEW values, IsValues(values), NEW fields
  PROVE  /\ IsValues(fixBrokenStorageKeys(values, fields))
         /\ \A v \in values : \E w \in fixBrokenStorageKeys(values, fields) :
              w.path = FixedPath(values, fields, v.path) /\ w.format = v.format
<1> DEFINE At(prefix) == {f \in Moved(values, fields) : f.path = prefix}
           K(prefix, last) == IF At(prefix) = {} THEN last
                              ELSE CorrectKey(CHOOSE f \in At(prefix) : TRUE)
           New(p) == [n \in 1..Len(p) |-> K(SubSeq(p, 1, n), p[n])]
           fixed == fixBrokenStorageKeys(values, fields)
<1>0. \A v \in values : v = [path |-> v.path, format |-> v.format, host |-> v.host]
  BY DEF IsValues, IsNode
<1>1. fixed = {[v EXCEPT !.path = New(v.path)] : v \in values}
  BY <1>0 DEF fixBrokenStorageKeys, FixedPath
<1> HIDE DEF K, fixed
<1>2. \A v \in values : IsNode(v) /\ IsSeq(v.path)
  BY DEF IsValues, IsNode, IsSeq, ToSet
<1>3. ASSUME NEW p, IsSeq(p)
      PROVE  IsSeq(New(p)) /\ Len(New(p)) = Len(p)
  <2>1. Len(p) \in Nat
    BY <1>3, SeqHas DEF IsSeq
  <2>2. New(p) = [i \in 1..Len(p) |-> New(p)[i]] /\ DOMAIN New(p) = 1..Len(p)
    OBVIOUS
  <2> HIDE DEF New
  <2>3. IsSeq(New(p))
    BY <2>1, <2>2, TupleIsSeq
  <2>4. DOMAIN New(p) = 1..Len(New(p)) /\ Len(New(p)) \in Nat
    BY <2>3, SeqHas DEF IsSeq
  <2> QED
    BY <2>1, <2>2, <2>3, <2>4
<1>4. ASSUME NEW p, IsSeq(p), NEW n \in 1..Len(p)
      PROVE  New(SubSeq(p, 1, n)) = SubSeq(New(p), 1, n)
  <2> DEFINE q == SubSeq(p, 1, n)
  <2>1. /\ IsSeq(q) /\ Len(q) = n /\ \A m \in 1..n : q[m] = p[m]
        /\ \A m \in 1..n : SubSeq(q, 1, m) = SubSeq(p, 1, m)
    BY <1>4, Prefix
  <2> HIDE DEF q
  <2>2. Len(p) \in Nat /\ IsSeq(New(p)) /\ Len(New(p)) = Len(p)
    BY <1>3, <1>4, SeqHas DEF IsSeq
  <2>3. \A m \in 1..n : m \in 1..Len(p) /\ New(p)[m] = K(SubSeq(p, 1, m), p[m])
    BY <2>2
  <2>4. \A m \in 1..n : New(q)[m] = New(p)[m]
    BY <2>1, <2>3
  <2>5. New(q) = [m \in 1..n |-> New(q)[m]]
    BY <2>1
  <2> HIDE DEF New
  <2>6. n \in 1..Len(New(p))
    BY <2>2
  <2>7. /\ IsSeq(SubSeq(New(p), 1, n)) /\ Len(SubSeq(New(p), 1, n)) = n
        /\ \A m \in 1..n : SubSeq(New(p), 1, n)[m] = New(p)[m]
    BY <2>2, <2>6, Prefix
  <2>8. DOMAIN SubSeq(New(p), 1, n) = 1..n
    BY <2>7, SeqHas DEF IsSeq
  <2> DEFINE t == SubSeq(New(p), 1, n)
  <2>9. t = [m \in 1..n |-> t[m]]
    BY <2>7, <2>8, SeqHas DEF IsSeq
  <2> HIDE DEF t
  <2>10. \A m \in 1..n : t[m] = New(q)[m]
    BY <2>4, <2>7 DEF t
  <2>11. t = New(q)
    BY <2>5, <2>9, <2>10
  <2> QED
    BY <2>11 DEF t, q
<1> HIDE DEF New
<1>5. ASSUME NEW v \in values
      PROVE  LET w == [v EXCEPT !.path = New(v.path)] IN IsNode(w) /\ w.path = New(v.path)
  <2> DEFINE new == New(v.path)
  <2>0. v = [path |-> v.path, format |-> v.format, host |-> v.host]
    BY <1>2 DEF IsNode
  <2> HIDE DEF new
  <2>1. [v EXCEPT !.path = new] = [path |-> new, format |-> v.format, host |-> v.host]
    BY <2>0
  <2>2. New(v.path) \in Seq({New(v.path)[n] : n \in DOMAIN New(v.path)})
    BY <1>2, <1>3 DEF IsSeq, ToSet
  <2> QED
    BY <2>1, <2>2 DEF IsNode, new
<1>6. ASSUME NEW v \in values, NEW n \in 1..Len(New(v.path))
      PROVE  Holds(fixed, SubSeq(New(v.path), 1, n))
  <2>1. n \in 1..Len(v.path)
    BY <1>2, <1>3
  <2>2. PICK u \in values : u.path = SubSeq(v.path, 1, n)
    BY <2>1 DEF IsValues, Holds
  <2>3. New(u.path) = SubSeq(New(v.path), 1, n)
    BY <1>2, <1>4, <2>1, <2>2
  <2>4. [u EXCEPT !.path = New(u.path)] \in fixed
    BY <1>1
  <2> QED
    BY <1>5, <2>3, <2>4 DEF Holds
<1> QED
  <2>1. IsValues(fixed)
    BY <1>1, <1>5, <1>6 DEF IsValues
  <2>2. ASSUME NEW v \in values
        PROVE  \E w \in fixed : w.path = FixedPath(values, fields, v.path) /\ w.format = v.format
    <3> DEFINE new == New(v.path)
               w == [v EXCEPT !.path = new]
    <3>1. w \in fixed
      BY <1>1
    <3>2. new = FixedPath(values, fields, v.path)
      BY DEF New, K, FixedPath
    <3> HIDE DEF new
    <3>3. w.path = new /\ w.format = v.format
      BY <1>0
    <3> QED
      BY <3>1, <3>2, <3>3
  <2> QED
    BY <2>1, <2>2 DEF fixed

\* Nodes that are not of a tree any more, or not known to be.
Nodes(values) == \A v \in values : IsNode(v)

\* Of each rich text of V there is what it was, at its place or where it moved.
Comes(V, fields, values) ==
  \A v \in LexicalTexts(V, fields) : \E w \in values :
    w.path \in {v.path, FixedPath(V, fields, v.path)} /\ w.format = v.format

\* What the property says of the rich texts of a row with these fields.
TextsKept(row, fields, values, warned) ==
  \A v \in LexicalTexts(row.attrs.values, fields) :
    \E w \in Became(v, row, fields, values) :
      RenderedOrWarned(v, w, row, warned) \/ w.path # v.path

\* transformRichText renders or warns of each rich text that is at its place.
LEMMA RichTexts ==
  ASSUME NEW row, NEW fields, NEW values, IsValues(values),
         Comes(row.attrs.values, fields, values), NEW warned,
         \A i \in Unrendered(values, fields) : TextWarning(row, i) \in warned
  PROVE  LET t == transformRichText(values, fields) IN Nodes(t) /\ TextsKept(row, fields, t, warned)
<1> DEFINE V == row.attrs.values
           Done(v) == IF v.format = "lexical" /\ IsOfType(values, fields, v, "rich-text")
                      THEN [v EXCEPT !.format = "rendered"] ELSE v
           t == transformRichText(values, fields)
<1>1. t = {Done(v) : v \in values}
  BY DEF transformRichText
<1>2. ASSUME NEW v \in values
      PROVE  /\ IsNode(Done(v)) /\ Done(v).path = v.path
             /\ v.format = "lexical" /\ IsOfType(values, fields, v, "rich-text") =>
                  Done(v).format = "rendered"
  <2>1. IsNode(v)
    BY DEF IsValues
  <2> QED
    BY <2>1 DEF IsNode
<1> HIDE DEF Done, t
<1>3. ASSUME NEW v \in LexicalTexts(V, fields)
      PROVE  \E w \in Became(v, row, fields, t) :
               RenderedOrWarned(v, w, row, warned) \/ w.path # v.path
  <2>1. PICK u \in values : /\ u.path \in {v.path, FixedPath(V, fields, v.path)}
                            /\ u.format = v.format
    BY DEF Comes
  <2>2. Done(u) \in Became(v, row, fields, t) /\ Done(u).path = u.path
    BY <1>1, <1>2, <2>1 DEF Became
  <2>3. CASE u.path = v.path
    <3>1. PICK f \in fields : f.type = "rich-text" /\ f.path = u.path
      BY <2>3 DEF LexicalTexts
    <3>2. IsOfType(values, fields, u, "rich-text")
      BY <3>1 DEF IsOfType, FieldOf, Visited, IsValues
    <3>3. CASE v.format = "lexical"
      BY <1>2, <2>1, <2>2, <3>2, <3>3 DEF RenderedOrWarned
    <3>4. CASE v.format = "unrenderable"
      <4>1. u.path[Len(u.path)] \in Unrendered(values, fields)
        BY <2>1, <3>2, <3>4 DEF Unrendered
      <4> QED
        BY <2>2, <2>3, <3>4, <4>1 DEF RenderedOrWarned
    <3> QED
      BY <3>3, <3>4 DEF LexicalTexts
  <2> QED
    BY <2>2, <2>3
<1>4. Nodes(t)
  BY <1>1, <1>2 DEF Nodes
<1> QED
  BY <1>3, <1>4 DEF TextsKept, t

\* And no rewriting of what is in the values undoes it.
LEMMA TextsKeptStay ==
  ASSUME NEW row, NEW fields, NEW values, Nodes(values), NEW warned,
         TextsKept(row, fields, values, warned), NEW others, NEW more, warned \subseteq more
  PROVE  /\ TextsKept(row, fields, values, more)
         /\ Nodes(transformRichText(values, others))
         /\ TextsKept(row, fields, transformRichText(values, others), more)
         /\ Nodes(replaceFileUrls(values, others))
         /\ TextsKept(row, fields, replaceFileUrls(values, others), more)
<1> DEFINE T(v) == IF v.format = "lexical" /\ IsOfType(values, others, v, "rich-text")
                   THEN [v EXCEPT !.format = "rendered"] ELSE v
           U(v) == IF v.host = "source" /\ HasUrls(values, others, v)
                   THEN [v EXCEPT !.host = "target"] ELSE v
           t == transformRichText(values, others)
           u == replaceFileUrls(values, others)
<1>1. t = {T(v) : v \in values} /\ u = {U(v) : v \in values}
  BY DEF transformRichText, replaceFileUrls
<1>2. ASSUME NEW v \in values
      PROVE  /\ IsNode(T(v)) /\ T(v).path = v.path /\ T(v).format \in {v.format, "rendered"}
             /\ IsNode(U(v)) /\ U(v).path = v.path /\ U(v).format = v.format
  <2>1. IsNode(v)
    BY DEF Nodes
  <2> QED
    BY <2>1 DEF IsNode
<1> HIDE DEF T, U, t, u
<1>3. Nodes(t) /\ Nodes(u)
  BY <1>1, <1>2 DEF Nodes
<1>4. ASSUME NEW v \in LexicalTexts(row.attrs.values, fields)
      PROVE  /\ \E w \in Became(v, row, fields, values) :
                   RenderedOrWarned(v, w, row, more) \/ w.path # v.path
             /\ \E w \in Became(v, row, fields, t) :
                   RenderedOrWarned(v, w, row, more) \/ w.path # v.path
             /\ \E w \in Became(v, row, fields, u) :
                   RenderedOrWarned(v, w, row, more) \/ w.path # v.path
  <2>1. PICK w \in Became(v, row, fields, values) :
          RenderedOrWarned(v, w, row, warned) \/ w.path # v.path
    BY DEF TextsKept
  <2>2. /\ w \in values /\ T(w) \in Became(v, row, fields, t) /\ U(w) \in Became(v, row, fields, u)
        /\ T(w).path = w.path /\ U(w).path = w.path
    BY <1>1, <1>2 DEF Became
  <2>3. /\ RenderedOrWarned(v, w, row, more) \/ w.path # v.path
        /\ RenderedOrWarned(v, T(w), row, more) \/ T(w).path # v.path
        /\ RenderedOrWarned(v, U(w), row, more) \/ U(w).path # v.path
    BY <1>2, <2>1, <2>2 DEF RenderedOrWarned
  <2> QED
    BY <2>2, <2>3
<1> QED
  BY <1>3, <1>4 DEF TextsKept, t, u

\* The transformers that come before fixBrokenStorageKeys.
Leading == {"wrapInData", "addGsiTenant", "removeLocale", "fixCmePk"}

Moving == {"fixBrokenStorageKeys"} \union Replacing

\* The record of a context is an entry of the row's model.
IsEntryOf(c, row) ==
  /\ IsContext(c) /\ c.original = row
  /\ {"modelId", "values"} \subseteq Attrs(c.record) /\ c.record.attrs.modelId = row.attrs.modelId

\* An entry on its way to it, with the values of the row.
Leads(c, row) ==
  /\ IsEntryOf(c, row)
  /\ c.record.attrs.values = row.attrs.values /\ IsValues(row.attrs.values)

\* An entry that has passed it, in which each rich text is found again; an unknown model
\* was warned of.
Fixed(c, row, models) ==
  LET m == row.attrs.modelId
      values == c.record.attrs.values
  IN /\ IsEntryOf(c, row) /\ IsValues(values)
     /\ m \in DOMAIN models => Comes(row.attrs.values, models[m], values)
     /\ m \notin DOMAIN models /\ m \notin InternalModels => <<"model", m>> \in c.warned

\* An entry that has passed transformRichText.
Past(c, row, fields) ==
  /\ IsContext(c) /\ "values" \in Attrs(c.record)
  /\ Nodes(c.record.attrs.values) /\ TextsKept(row, fields, c.record.attrs.values, c.warned)

\* fixBrokenStorageKeys on an entry.
LEMMA FixKeysLeads ==
  ASSUME NEW c, NEW row, Leads(c, row), c.record.in = "data", NEW models
  PROVE  LET d == FixKeys(c, models) IN Fixed(d, row, models) /\ d.record.in = "data"
<1> DEFINE q == c.record
           V == row.attrs.values
           m == row.attrs.modelId
           r == OnValues(fixBrokenStorageKeys, q, models)
           more == IF ModelKnown(q, models) THEN c.warned
                   ELSE c.warned \union {<<"model", q.attrs.modelId>>}
           half == [c EXCEPT !.record = r]
           e == [half EXCEPT !.warned = more]
           d == FixKeys(c, models)
           Good(x) == /\ IsRecord(x) /\ Attrs(x) = Attrs(q) /\ x.in = "data"
                      /\ x.attrs.modelId = m /\ IsValues(x.attrs.values)
                      /\ m \in DOMAIN models => Comes(V, models[m], x.attrs.values)
<1>0. /\ IsContext(c) /\ c.original = row /\ IsRecord(q) /\ {"modelId", "values"} \subseteq Attrs(q)
      /\ q.attrs.modelId = m /\ q.attrs.values = V /\ IsValues(V) /\ q.in = "data"
  BY DEF Leads, IsEntryOf, IsContext
<1>1. d = c \/ d = e
  BY <1>0 DEF FixKeys
<1>2. m \notin DOMAIN models /\ m \notin InternalModels => d = e /\ <<"model", m>> \in more
  BY <1>0 DEF FixKeys, InData, ModelKnown
<1>3. Good(q)
  <2>1. Comes(V, models[m], V)
    BY DEF Comes, LexicalTexts
  <2> QED
    BY <1>0, <2>1
<1>4. Good(r)
  <2> DEFINE w == fixBrokenStorageKeys(V, models[m])
             s == [q EXCEPT !.attrs.values = w]
  <2>1. r = q \/ r = s
    BY <1>0 DEF OnValues, IsRecord
  <2>2. IsValues(w) /\ Comes(V, models[m], w)
    BY <1>0, FixedValues DEF Comes, LexicalTexts
  <2> HIDE DEF w, r, q
  <2>3. /\ IsRecord(s) /\ KeptBut({"values"}, q, s) /\ s.in = q.in /\ Attrs(s) = Attrs(q)
        /\ s.attrs.values = w
    BY <1>0, PatchRecord
  <2>4. s.attrs.modelId = m
    BY <1>0, <2>3 DEF KeptBut
  <2> HIDE DEF s
  <2> QED
    BY <1>0, <1>3, <2>1, <2>2, <2>3, <2>4
<1> HIDE DEF r, more
<1>5. IsContext(half) /\ half.record = r /\ half.original = row
  BY <1>0, <1>4, SameButRecord DEF Goes
<1> HIDE DEF half
<1>6. IsContext(e) /\ e.record = r /\ e.warned = more /\ e.original = row
  BY <1>5 DEF IsContext
<1> HIDE DEF e
<1> QED
  BY <1>0, <1>1, <1>2, <1>3, <1>4, <1>6 DEF Fixed, IsEntryOf

\* The transformers before it keep an entry on its way.
LEMMA LeadingStep ==
  ASSUME NEW c, NEW row, Leads(c, row), NEW name \in Leading, NEW env
  PROVE  LET d == Transform(name, c, env)
         IN /\ Leads(d, row)
            /\ c.record.in = "data" \/ name = "wrapInData" => d.record.in = "data"
<1> DEFINE d == Transform(name, c, env)
           q == c.record
           r == Rewritten(name, q, env)
<1>0. IsContext(c) /\ IsRecord(q)
  BY DEF Leads, IsEntryOf, IsContext
<1>1. d = [c EXCEPT !.record = r]
  BY <1>0 DEF Transform, Leading, IsContext
<1>2. Rewrites(Touched(name), q, r) /\ Touched(name) \subseteq {"locale"}
  BY <1>0, RewrittenRecord DEF Leading, Replacing, Touched
<1>3. q.in = "data" \/ name = "wrapInData" => r.in = "data"
  <2>1. CASE name = "removeLocale"
    <3> DEFINE pk == [q.pk EXCEPT !.locale = ""]
               gsi1 == [q.gsi1 EXCEPT !.locale = ""]
               keyed == [q EXCEPT !.pk = pk, !.gsi1 = gsi1]
    <3>1. r = Delete(keyed, {"locale"})
      BY <1>0, <2>1 DEF Rewritten, removeLocale, IsRecord
    <3>2. keyed = [q EXCEPT !.pk = pk, !.gsi1 = gsi1]
      OBVIOUS
    <3> HIDE DEF pk, gsi1, q, keyed
    <3>3. IsRecord(keyed) /\ keyed.in = q.in
      BY <1>0, <3>2 DEF IsRecord
    <3>4. r.in = q.in
      BY <3>1, <3>3, DeleteRecord
    <3> QED
      BY <2>1, <3>4
  <2>2. CASE name = "wrapInData"
    BY <1>0, <2>2 DEF Rewritten, wrapInData, IsRecord
  <2>3. CASE name \in {"addGsiTenant", "fixCmePk"}
    BY <1>0, <2>3 DEF Rewritten, addGsiTenant, fixCmePk, IsRecord
  <2> QED
    BY <2>1, <2>2, <2>3 DEF Leading
<1> HIDE DEF r
<1>4. Goes(c, d) /\ d.record = r /\ d.original = c.original
  BY <1>0, <1>1, <1>2, SameButRecord DEF Rewrites, Goes
<1> HIDE DEF d, q
<1>5. Leads(d, row)
  BY <1>2, <1>4 DEF Leads, IsEntryOf, Goes, Rewrites, KeptBut, q
<1> QED
  BY <1>3, <1>4, <1>5 DEF d, q

\* transformRichText on an entry of a known model.
LEMMA TextStep ==
  ASSUME NEW c, NEW row, NEW env, Fixed(c, row, env.models), c.record.in = "data",
         row.attrs.modelId \in DOMAIN env.models
  PROVE  Past(Transform("transformRichText", c, env), row, env.models[row.attrs.modelId])
<1> DEFINE q == c.record
           fields == env.models[row.attrs.modelId]
           values == q.attrs.values
           w == transformRichText(values, fields)
           r == [q EXCEPT !.attrs.values = w]
           d == Transform("transformRichText", c, env)
<1>0. /\ IsContext(c) /\ IsRecord(q) /\ {"modelId", "values"} \subseteq Attrs(q)
      /\ q.attrs.modelId = row.attrs.modelId /\ IsValues(values) /\ c.original = row
      /\ Comes(row.attrs.values, fields, values)
  BY DEF Fixed, IsEntryOf, IsContext
<1>1. d = RenderTexts(c, env.models)
  BY DEF Transform
<1>2. ModelKnown(q, env.models) /\ InData(q, "values")
  BY <1>0 DEF ModelKnown, InData
<1>3. OnValues(transformRichText, q, env.models) = r
  BY <1>0, <1>2 DEF OnValues
<1>4. IsContext(d) /\ d.record = r
  BY <1>0, <1>1, <1>3, RenderTextsContext DEF Goes
<1>5. \A i \in Unrendered(values, fields) : TextWarning(row, i) \in d.warned
  <2> DEFINE ids == IF ModelKnown(q, env.models) /\ InData(q, "values")
                    THEN Unrendered(q.attrs.values, env.models[q.attrs.modelId]) ELSE {}
             warned == c.warned \union {TextWarning(c.original, i) : i \in ids}
  <2>1. d.warned = warned
    BY <1>0, <1>1 DEF RenderTexts, IsContext
  <2>2. ids = Unrendered(values, fields)
    BY <1>0, <1>2
  <2> HIDE DEF ids, d
  <2> QED
    BY <1>0, <2>1, <2>2
<1> HIDE DEF fields, d, values
<1>6. Nodes(w) /\ TextsKept(row, fields, w, d.warned)
  BY <1>0, <1>5, RichTexts
<1> HIDE DEF w, q
<1>7. IsRecord(r) /\ Attrs(r) = Attrs(q) /\ r.attrs.values = w
  BY <1>0, PatchRecord
<1> HIDE DEF r
<1> QED
  BY <1>0, <1>4, <1>6, <1>7 DEF Past, fields, d

\* The transformers after it leave the rich texts as it has left them.
LEMMA LaterStep ==
  ASSUME NEW c, NEW row, NEW fields, Past(c, row, fields), NEW name, name \notin Moving, NEW env
  PROVE  Past(Transform(name, c, env), row, fields)
<1> DEFINE d == Transform(name, c, env)
           q == c.record
           values == q.attrs.values
<1>0. /\ IsContext(c) /\ IsRecord(q) /\ "values" \in Attrs(q)
      /\ Nodes(values) /\ TextsKept(row, fields, values, c.warned)
  BY DEF Past, IsContext
<1>1. IsContext(d) /\ Rewrites(Touched(name), q, d.record) /\ c.warned \subseteq d.warned
  BY <1>0, TransformStep DEF Moving, Goes
<1>2. CASE name \notin {"transformRichText", "replaceFileUrls"}
  <2>1. "values" \notin Touched(name)
    BY <1>2 DEF Touched, Moving
  <2>2. "values" \in Attrs(d.record) /\ d.record.attrs.values = values
    BY <1>0, <1>1, <2>1 DEF Rewrites, KeptBut
  <2> HIDE DEF d, values
  <2>3. TextsKept(row, fields, values, d.warned)
    BY <1>0, <1>1, TextsKeptStay
  <2> QED
    BY <1>0, <1>1, <2>2, <2>3 DEF Past, d
<1>3. CASE name \in {"transformRichText", "replaceFileUrls"}
  <2> DEFINE others == env.models[q.attrs.modelId]
             t == transformRichText(values, others)
             u == replaceFileUrls(values, others)
  <2>1. d.record \in {q, [q EXCEPT !.attrs.values = t], [q EXCEPT !.attrs.values = u]}
    <3>1. CASE name = "transformRichText"
      <4>1. d = RenderTexts(c, env.models)
        BY <3>1 DEF Transform
      <4>2. d.record = OnValues(transformRichText, q, env.models)
        BY <1>0, <4>1, RenderTextsContext
      <4>3. OnValues(transformRichText, q, env.models) \in {q, [q EXCEPT !.attrs.values = t]}
        BY <1>0 DEF OnValues, IsRecord
      <4> QED
        BY <4>2, <4>3
    <3>2. CASE name = "replaceFileUrls"
      <4>1. d.record = Rewritten(name, q, env)
        BY <1>0, <3>2 DEF Transform, IsContext
      <4>2. Rewritten(name, q, env) \in {q, [q EXCEPT !.attrs.values = u]}
        BY <1>0, <3>2 DEF Rewritten, OnValues, IsRecord
      <4> QED
        BY <4>1, <4>2
    <3> QED
      BY <1>3, <3>1, <3>2
  <2> HIDE DEF d, values, others
  <2>2. /\ TextsKept(row, fields, values, d.warned)
        /\ Nodes(t) /\ TextsKept(row, fields, t, d.warned)
        /\ Nodes(u) /\ TextsKept(row, fields, u, d.warned)
    BY <1>0, <1>1, TextsKeptStay
  <2> HIDE DEF t, u, q
  <2>3. ASSUME NEW v
        PROVE  LET s == [q EXCEPT !.attrs.values = v]
               IN IsRecord(s) /\ Attrs(s) = Attrs(q) /\ s.attrs.values = v
    BY <1>0, PatchRecord
  <2>4. /\ "values" \in Attrs(d.record) /\ Nodes(d.record.attrs.values)
        /\ TextsKept(row, fields, d.record.attrs.values, d.warned)
    BY <1>0, <2>1, <2>2, <2>3 DEF values
  <2> QED
    BY <1>1, <2>4 DEF Past, d
<1> QED
  BY <1>2, <1>3

\* Of an entry whose model is known each rich text is rendered, moved or warned of, and
\* another's model was warned of.
Settled(c, row, models) ==
  LET m == row.attrs.modelId
  IN IF m \in DOMAIN models THEN Past(c, row, models[m])
     ELSE <<"model", m>> \in c.warned \/ m \in InternalModels

\* Transformers of the form that the pipelines of entries have: some that leave the values
\* alone, fixBrokenStorageKeys, transformRichText, and what moves no values.
EntryTransformers(ts, j) ==
  /\ IsSeq(ts) /\ j \in 3..Len(ts)
  /\ \A i \in 1..(j - 2) : ts[i] \in Leading
  /\ ts[j - 1] = "fixBrokenStorageKeys" /\ ts[j] = "transformRichText"
  /\ \A i \in (j + 1)..Len(ts) : ts[i] \notin Moving

\* Through such transformers an entry is settled.
LEMMA EntryConverted ==
  ASSUME NEW c, NEW row, Leads(c, row), NEW ts, NEW j, EntryTransformers(ts, j),
         c.record.in = "data" \/ ts[1] = "wrapInData", NEW env
  PROVE  LET d == AllTransforms(c, ts, env)
         IN IsContext(d) /\ Settled(d, row, env.models)
<1> DEFINE n == Len(ts)
           m == row.attrs.modelId
<1>1. /\ n \in Nat /\ DOMAIN ts = 1..n /\ j \in Nat /\ 3 <= j /\ j <= n
      /\ \A i \in 1..(j - 2) : ts[i] \in Leading
      /\ ts[j - 1] = "fixBrokenStorageKeys" /\ ts[j] = "transformRichText"
      /\ \A i \in (j + 1)..n : ts[i] \notin Moving
  BY SeqHas DEF EntryTransformers, IsSeq
<1>2. PICK x : Steps(x, n, "transform", c, ts, env) /\ x[n] = AllTransforms(c, ts, env)
  BY <1>1, TransformSteps
<1>3. x[0] = c /\ \A i \in 1..n : x[i] = Transform(ts[i], x[i - 1], env)
  BY <1>2 DEF Steps, Act
<1> HIDE DEF n, m
<1> DEFINE S == {i \in Nat : i <= j - 2 =>
                   Leads(x[i], row) /\ (x[i].record.in = "data" \/ (i = 0 /\ ts[1] = "wrapInData"))}
<1>4. 0 \in S
  BY <1>3
<1>5. ASSUME NEW i \in S PROVE i + 1 \in S
  <2>1. SUFFICES ASSUME i + 1 <= j - 2
                 PROVE  Leads(x[i + 1], row) /\ x[i + 1].record.in = "data"
    OBVIOUS
  <2>2. i \in Nat /\ i + 1 \in 1..(j - 2) /\ i + 1 \in 1..n /\ i + 1 - 1 = i /\ i <= j - 2
    BY <1>1, <2>1
  <2>3. /\ Leads(x[i], row)
        /\ x[i].record.in = "data" \/ (i = 0 /\ ts[1] = "wrapInData")
    BY <2>2
  <2>4. x[i + 1] = Transform(ts[i + 1], x[i], env) /\ ts[i + 1] \in Leading
    BY <1>1, <1>3, <2>2
  <2>5. x[i].record.in = "data" \/ ts[i + 1] = "wrapInData"
    BY <2>3
  <2> HIDE DEF S
  <2>6. LET d == Transform(ts[i + 1], x[i], env)
        IN Leads(d, row) /\ d.record.in = "data"
    BY <2>3, <2>4, <2>5, LeadingStep
  <2> QED
    BY <2>4, <2>6
<1>6. S = Nat
  <2>1. S \in SUBSET Nat
    OBVIOUS
  <2> HIDE DEF S
  <2> QED
    BY <1>4, <1>5, <2>1, SetInduction
<1>7. Fixed(x[j - 1], row, env.models) /\ x[j - 1].record.in = "data"
  <2>1. /\ j - 2 \in Nat /\ j - 2 <= j - 2 /\ j - 2 # 0
        /\ j - 1 \in 1..n /\ j - 1 - 1 = j - 2
    BY <1>1
  <2>2. j - 2 \in S
    BY <1>6, <2>1
  <2>3. Leads(x[j - 2], row) /\ x[j - 2].record.in = "data"
    BY <2>1, <2>2
  <2>4. x[j - 1] = FixKeys(x[j - 2], env.models)
    BY <1>1, <1>3, <2>1 DEF Transform
  <2> HIDE DEF S
  <2> QED
    BY <2>3, <2>4, FixKeysLeads
<1> HIDE DEF S
<1> DEFINE T == {i \in Nat : j + i <= n => IsContext(x[j + i]) /\ Settled(x[j + i], row, env.models)}
<1>8. 0 \in T
  <2>1. x[j] = Transform("transformRichText", x[j - 1], env) /\ j + 0 = j
    BY <1>1, <1>3
  <2>2. IsContext(x[j - 1])
    BY <1>7 DEF Fixed, IsEntryOf
  <2>3. IsContext(x[j]) /\ x[j - 1].warned \subseteq x[j].warned
    BY <2>1, <2>2, TransformStep DEF Goes
  <2>4. m \in DOMAIN env.models => Past(x[j], row, env.models[m])
    BY <1>7, <2>1, TextStep DEF m
  <2>5. m \notin DOMAIN env.models /\ m \notin InternalModels => <<"model", m>> \in x[j].warned
    BY <1>7, <2>3 DEF Fixed, m
  <2> QED
    BY <2>1, <2>3, <2>4, <2>5 DEF Settled, m
<1>9. ASSUME NEW i \in T PROVE i + 1 \in T
  <2> DEFINE k == j + i
  <2>1. SUFFICES ASSUME k + 1 <= n
                 PROVE  IsContext(x[k + 1]) /\ Settled(x[k + 1], row, env.models)
    <3>1. j + (i + 1) = k + 1
      BY <1>1
    <3> QED
      BY <3>1
  <2>2. k \in Nat /\ k <= n /\ k + 1 \in 1..n /\ k + 1 \in (j + 1)..n /\ k + 1 - 1 = k
    BY <1>1, <2>1
  <2>3. IsContext(x[k]) /\ Settled(x[k], row, env.models)
    BY <2>2
  <2> HIDE DEF k
  <2>4. x[k + 1] = Transform(ts[k + 1], x[k], env) /\ ts[k + 1] \notin Moving
    <3>1. x[k + 1] = Transform(ts[k + 1], x[k + 1 - 1], env)
      BY <1>3, <2>2
    <3>2. ts[k + 1] \notin Moving
      BY <1>1, <2>2
    <3> QED
      BY <2>2, <3>1, <3>2
  <2>5. IsContext(x[k + 1]) /\ x[k].warned \subseteq x[k + 1].warned
    BY <2>3, <2>4, TransformStep DEF Goes
  <2> QED
    BY <2>3, <2>4, <2>5, LaterStep DEF Settled
<1>10. T = Nat
  <2>1. T \in SUBSET Nat
    OBVIOUS
  <2> HIDE DEF T
  <2> QED
    BY <1>8, <1>9, <2>1, SetInduction
<1>11. n - j \in T /\ j + (n - j) = n
  BY <1>1, <1>10
<1>12. n <= n
  BY <1>1
<1>13. IsContext(x[n]) /\ Settled(x[n], row, env.models)
  BY <1>11, <1>12
<1> HIDE DEF T
<1> QED
  BY <1>2, <1>13

\* What becomes of an entry: each of its rich texts is found again, rendered, or warned of,
\* or moved by fixBrokenStorageKeys before; or its model was warned of.
THEOREM EntryIsSettled ==
  ASSUME NEW pipeline, NEW j, EntryTransformers(pipeline.transformers, j),
         pipeline.processors \in Seq(Processors),
         NEW r, IsRecord(r), {"modelId", "values"} \subseteq Attrs(r), IsValues(r.attrs.values),
         r.in = "data" \/ pipeline.transformers[1] = "wrapInData",
         NEW env, NEW cache, NEW warned, NEW config
  PROVE  Settled(Converted(pipeline, r, env, cache, warned, config), r, env.models)
<1> DEFINE b == NewContext(r, cache, warned)
           t == AllTransforms(b, pipeline.transformers, env)
           c == Converted(pipeline, r, env, cache, warned, config)
<1>1. IsContext(b) /\ b.record = r /\ b.original = r
  BY EmptyIsSeq DEF NewContext, NoCommands, IsContext, IsCommands
<1>2. Leads(b, r)
  BY <1>1 DEF Leads, IsEntryOf
<1> HIDE DEF b
<1>3. IsContext(t) /\ Settled(t, r, env.models)
  BY <1>1, <1>2, EntryConverted
<1>4. c = AllEnds(t, pipeline.processors, config)
  BY DEF Converted, t, b
<1> HIDE DEF t, c
<1>5. Ends(t, c)
  BY <1>3, <1>4, Ended
<1> QED
  BY <1>3, <1>5 DEF Ends, Settled, Past, c

\* The lists of transformers that the presets have for entries.
DdbEntry == cmsEntryTransformers \o <<"addLiveField", "replaceFileUrls">>
OsEntry == osCmsEntryTransformers \o <<"addLiveField", "replaceFileUrls">>

\* With what a customizer may append they are of the form that settles entries.
LEMMA PresetTransformers ==
  ASSUME NEW us, IsSeq(us)
  PROVE  /\ Len(us) >= 11 /\ (\A i \in 1..11 : us[i] = DdbEntry[i])
              /\ (\A i \in 12..Len(us) : us[i] \notin Moving)
            => EntryTransformers(us, 6) /\ us[1] = "wrapInData"
         /\ Len(us) >= 12 /\ (\A i \in 1..12 : us[i] = OsEntry[i])
              /\ (\A i \in 13..Len(us) : us[i] \notin Moving)
            => EntryTransformers(us, 5)
         /\ IsSeq(DdbEntry) /\ Len(DdbEntry) = 11 /\ IsSeq(OsEntry) /\ Len(OsEntry) = 12
<1> DEFINE more == <<"addLiveField", "replaceFileUrls">>
           d == cmsEntryTransformers
           o == osCmsEntryTransformers
<1>1. /\ IsSeq(d) /\ Len(d) = 9 /\ IsSeq(o) /\ Len(o) = 10 /\ IsSeq(more) /\ Len(more) = 2
      /\ more[1] = "addLiveField" /\ more[2] = "replaceFileUrls"
  <2>1. Len(d) = 9
    BY DEF cmsEntryTransformers
  <2>2. Len(o) = 10
    BY DEF osCmsEntryTransformers
  <2> QED
    BY <2>1, <2>2, TransformersAre, ShortTuples
<1>2. /\ d[1] = "wrapInData" /\ d[2] = "addGsiTenant" /\ d[3] = "removeLocale" /\ d[4] = "fixCmePk"
      /\ d[5] = "fixBrokenStorageKeys" /\ d[6] = "transformRichText" /\ d[7] = "updateModelIds"
      /\ d[8] = "removeFolderRevision" /\ d[9] = "removeAttributes"
  BY DEF cmsEntryTransformers
<1>3. /\ o[1] = "addGsiTenant" /\ o[2] = "removeLocale" /\ o[3] = "fixCmePk"
      /\ o[4] = "fixBrokenStorageKeys" /\ o[5] = "transformRichText" /\ o[6] = "updateModelIds"
      /\ o[7] = "updateOsIndex" /\ o[8] = "removeFolderRevision" /\ o[9] = "removeAttributes"
      /\ o[10] = "addTransferTimestamp"
  BY DEF osCmsEntryTransformers
<1> HIDE DEF d, o, more
<1>4. /\ IsSeq(DdbEntry) /\ Len(DdbEntry) = 11
      /\ \A i \in 1..9 : DdbEntry[i] = d[i]
      /\ \A i \in 1..2 : DdbEntry[9 + i] = more[i]
  <2> DEFINE all == d \o more
  <2>1. DdbEntry = all
    BY DEF DdbEntry, d, more
  <2>2. /\ IsSeq(all) /\ Len(all) = Len(d) + Len(more)
        /\ \A i \in 1..Len(d) : all[i] = d[i]
        /\ \A i \in 1..Len(more) : all[Len(d) + i] = more[i]
    <3>1. IsSeq(d) /\ IsSeq(more)
      BY <1>1
    <3> QED
      BY ONLY <3>1, ConcatIsSeq
  <2> HIDE DEF all
  <2> QED
    BY <1>1, <2>1, <2>2
<1>5. /\ IsSeq(OsEntry) /\ Len(OsEntry) = 12
      /\ \A i \in 1..10 : OsEntry[i] = o[i]
      /\ \A i \in 1..2 : OsEntry[10 + i] = more[i]
  <2> DEFINE all == o \o more
  <2>1. OsEntry = all
    BY DEF OsEntry, o, more
  <2>2. /\ IsSeq(all) /\ Len(all) = Len(o) + Len(more)
        /\ \A i \in 1..Len(o) : all[i] = o[i]
        /\ \A i \in 1..Len(more) : all[Len(o) + i] = more[i]
    <3>1. IsSeq(o) /\ IsSeq(more)
      BY <1>1
    <3> QED
      BY ONLY <3>1, ConcatIsSeq
  <2> HIDE DEF all
  <2> QED
    BY <1>1, <2>1, <2>2
<1>6. DdbEntry[10] = "addLiveField" /\ DdbEntry[11] = "replaceFileUrls"
      /\ OsEntry[11] = "addLiveField" /\ OsEntry[12] = "replaceFileUrls"
  <2>1. 9 + 1 = 10 /\ 9 + 2 = 11 /\ 10 + 1 = 11 /\ 10 + 2 = 12 /\ 1 \in 1..2 /\ 2 \in 1..2
    OBVIOUS
  <2> QED
    BY <1>1, <1>4, <1>5, <2>1
<1>7. Len(us) \in Nat
  BY SeqHas DEF IsSeq
<1>8. ASSUME Len(us) >= 11, \A i \in 1..11 : us[i] = DdbEntry[i],
             \A i \in 12..Len(us) : us[i] \notin Moving
      PROVE  EntryTransformers(us, 6) /\ us[1] = "wrapInData"
  <2>1. \A i \in 1..4 : i \in 1..9 /\ i \in 1..11 /\ i \in {1, 2, 3, 4}
    OBVIOUS
  <2>2. \A i \in 1..4 : us[i] \in Leading
    BY <1>2, <1>4, <1>8, <2>1 DEF Leading
  <2>3. us[1] = "wrapInData" /\ us[5] = "fixBrokenStorageKeys" /\ us[6] = "transformRichText"
    BY <1>2, <1>4, <1>8
  <2>4. \A i \in 7..Len(us) : i \in {7, 8, 9, 10, 11} \/ i \in 12..Len(us)
    BY <1>7
  <2>5. us[7] \notin Moving /\ us[8] \notin Moving /\ us[9] \notin Moving
    BY <1>2, <1>4, <1>8 DEF Moving, Replacing
  <2>6. us[10] \notin Moving /\ us[11] \notin Moving
    BY <1>6, <1>8 DEF Moving, Replacing
  <2>7. \A i \in 7..Len(us) : us[i] \notin Moving
    BY <1>8, <2>4, <2>5, <2>6
  <2> QED
    BY <1>7, <1>8, <2>2, <2>3, <2>7 DEF EntryTransformers
<1>9. ASSUME Len(us) >= 12, \A i \in 1..12 : us[i] = OsEntry[i],
             \A i \in 13..Len(us) : us[i] \notin Moving
      PROVE  EntryTransformers(us, 5)
  <2>1. \A i \in 1..3 : i \in 1..10 /\ i \in 1..12 /\ i \in {1, 2, 3}
    OBVIOUS
  <2>2. \A i \in 1..3 : us[i] \in Leading
    BY <1>3, <1>5, <1>9, <2>1 DEF Leading
  <2>3. us[4] = "fixBrokenStorageKeys" /\ us[5] = "transformRichText"
    BY <1>3, <1>5, <1>9
  <2>4. \A i \in 6..Len(us) : i \in {6, 7, 8, 9, 10, 11, 12} \/ i \in 13..Len(us)
    BY <1>7
  <2>5. us[6] \notin Moving /\ us[7] \notin Moving /\ us[8] \notin Moving /\ us[9] \notin Moving
        /\ us[10] \notin Moving
    BY <1>3, <1>5, <1>9 DEF Moving, Replacing
  <2>6. us[11] \notin Moving /\ us[12] \notin Moving
    BY <1>6, <1>9 DEF Moving, Replacing
  <2>7. \A i \in 6..Len(us) : us[i] \notin Moving
    BY <1>9, <2>4, <2>5, <2>6
  <2> QED
    BY <1>7, <1>9, <2>2, <2>3, <2>7 DEF EntryTransformers
<1> QED
  BY <1>4, <1>5, <1>8, <1>9

\* The only pipelines called CmsEntries that the built-in presets have.
LEMMA EntryPipelines ==
  ASSUME NEW config, NEW n \in DOMAIN builtIn(config),
         NEW i \in DOMAIN builtIn(config)[n].pipelines,
         builtIn(config)[n].pipelines[i].name = "CmsEntries"
  PROVE  \/ builtIn(config)[n].pipelines[i].transformers = DdbEntry
         \/ /\ builtIn(config)[n].pipelines[i].transformers = OsEntry
            /\ \A k \in DOMAIN builtIn(config)[n].pipelines :
                 builtIn(config)[n].pipelines[k].scanner = "OsScanner"
<1> DEFINE e == Pipeline("CmsEntries", "isCmsEntry", OsEntry)
<1>1. ASSUME NEW name, NEW filter, NEW ts
      PROVE  /\ Pipeline(name, filter, ts).name = name
             /\ Pipeline(name, filter, ts).transformers = ts
             /\ Blackhole(name, filter).name = name
             /\ InOs(Pipeline(name, filter, ts)).name = name
             /\ InOs(Pipeline(name, filter, ts)).transformers = ts
             /\ InOs(Pipeline(name, filter, ts)).scanner = "OsScanner"
             /\ InOs(Blackhole(name, filter)).name = name
             /\ InOs(Blackhole(name, filter)).scanner = "OsScanner"
             /\ Everything(name).name = name /\ InOs(Everything(name)).name = name
  BY DEF Pipeline, Blackhole, InOs, Everything
<1>2. ASSUME NEW t, t = v5_to_v6_ddb(config), NEW k \in DOMAIN t, t[k].name = "CmsEntries"
      PROVE  t[k].transformers = DdbEntry
  <2>1. DOMAIN t = 1..15
    BY <1>2 DEF v5_to_v6_ddb
  <2>2. t[k] \in {migrationRecords, auditLogs(config), acoSearchRecordsPage,
                  contentModelGroups, backgroundTasks, fmSettings, fmFiles, mailerSettings,
                  securityGroups, securityTeams, cmsModels, folderPermissions, cmsEntries,
                  adminUsers, formBuilderRecords}
    BY <1>2, <2>1 DEF v5_to_v6_ddb
  <2>3. /\ migrationRecords.name # "CmsEntries" /\ acoSearchRecordsPage.name # "CmsEntries"
        /\ contentModelGroups.name # "CmsEntries" /\ backgroundTasks.name # "CmsEntries"
        /\ fmSettings.name # "CmsEntries" /\ mailerSettings.name # "CmsEntries"
        /\ securityGroups.name # "CmsEntries" /\ securityTeams.name # "CmsEntries"
        /\ cmsModels.name # "CmsEntries" /\ folderPermissions.name # "CmsEntries"
        /\ adminUsers.name # "CmsEntries" /\ formBuilderRecords.name # "CmsEntries"
    <3>1. \A x, y : Blackhole(x, y).name = x
      BY DEF Blackhole, Pipeline
    <3>2. \A x, y, ts : Pipeline(x, y, ts).name = x
      BY DEF Pipeline
    <3>3. migrationRecords.name # "CmsEntries"
      BY <3>1 DEF migrationRecords
    <3>4. acoSearchRecordsPage.name # "CmsEntries"
      BY <3>1 DEF acoSearchRecordsPage
    <3>5. contentModelGroups.name # "CmsEntries"
      BY <3>2 DEF contentModelGroups
    <3>6. backgroundTasks.name # "CmsEntries"
      BY <3>1 DEF backgroundTasks
    <3>7. fmSettings.name # "CmsEntries"
      BY <3>2 DEF fmSettings
    <3>8. mailerSettings.name # "CmsEntries"
      BY <3>2 DEF mailerSettings
    <3>9. securityGroups.name # "CmsEntries"
      BY <3>2 DEF securityGroups
    <3>10. securityTeams.name # "CmsEntries"
      BY <3>2 DEF securityTeams
    <3>11. cmsModels.name # "CmsEntries"
      BY <3>2 DEF cmsModels
    <3>12. folderPermissions.name # "CmsEntries"
      BY <3>2 DEF folderPermissions
    <3>13. adminUsers.name # "CmsEntries"
      BY <3>2 DEF adminUsers
    <3>14. formBuilderRecords.name # "CmsEntries"
      BY <3>1 DEF formBuilderRecords
    <3> QED
      BY <3>3, <3>4, <3>5, <3>6, <3>7, <3>8, <3>9, <3>10, <3>11, <3>12, <3>13, <3>14
  <2>4. auditLogs(config).name # "CmsEntries"
    BY DEF auditLogs, Pipeline
  <2>5. fmFiles.name # "CmsEntries"
    BY DEF fmFiles, Pipeline
  <2>6. t[k] = cmsEntries
    BY <1>2, <2>2, <2>3, <2>4, <2>5
  <2> QED
    BY <2>6 DEF cmsEntries, DdbEntry, Pipeline
<1>3. ASSUME NEW t, t = v5_to_v6_os, NEW k \in DOMAIN t
      PROVE  t[k].scanner = "OsScanner" /\ (t[k].name = "CmsEntries" => t[k].transformers = OsEntry)
  <2> DEFINE a == InOs(Blackhole("AcoSearchRecords", "isAcoSearchRecord"))
             b == InOs(Blackhole("BackgroundTasks", "isOsBackgroundTask"))
             c == InOs(Blackhole("MailerSettings", "isOsMailerSettings"))
             f == InOs(Pipeline("FileManagerFiles", "isFmFile", osCmsEntryTransformers))
             q == InOs(e)
  <2>1. t = <<a, b, c, f, q>>
    BY <1>3 DEF v5_to_v6_os, OsEntry
  <2>2. /\ a.name # "CmsEntries" /\ b.name # "CmsEntries" /\ c.name # "CmsEntries"
        /\ f.name # "CmsEntries" /\ q.transformers = OsEntry
        /\ a.scanner = "OsScanner" /\ b.scanner = "OsScanner" /\ c.scanner = "OsScanner"
        /\ f.scanner = "OsScanner" /\ q.scanner = "OsScanner"
    <3>1. \A x, y : InOs(Blackhole(x, y)).name = x /\ InOs(Blackhole(x, y)).scanner = "OsScanner"
      BY <1>1
    <3>2. \A x, y, ts : /\ InOs(Pipeline(x, y, ts)).name = x
                       /\ InOs(Pipeline(x, y, ts)).transformers = ts
                       /\ InOs(Pipeline(x, y, ts)).scanner = "OsScanner"
      BY <1>1
    <3>3. a.name # "CmsEntries" /\ b.name # "CmsEntries" /\ c.name # "CmsEntries"
          /\ a.scanner = "OsScanner" /\ b.scanner = "OsScanner" /\ c.scanner = "OsScanner"
      BY <3>1
    <3>4. f.name # "CmsEntries" /\ f.scanner = "OsScanner"
      BY <3>2
    <3>5. q.transformers = OsEntry /\ q.scanner = "OsScanner"
      BY <3>2
    <3> QED
      BY <3>3, <3>4, <3>5
  <2> HIDE DEF a, b, c, f, q
  <2>3. t[k] \in {a, b, c, f, q}
    BY <1>3, <2>1
  <2> QED
    BY <2>2, <2>3
<1>4. \A t \in {copy_ddb, copy_os, copy_files} : \A k \in DOMAIN t : t[k].name # "CmsEntries"
  <2> DEFINE a == Everything("Regular DynamoDB Table Data")
             b == InOs(Everything("OpenSearch DynamoDB Table Data"))
             c == [Pipeline("S3 Files", "isFmFile", <<"copyFileToTarget">>) EXCEPT
                     !.processors = <<"DdbProcessor", "S3Processor">>]
  <2>1. a.name # "CmsEntries" /\ b.name # "CmsEntries"
    <3>1. ASSUME NEW x, x # "CmsEntries"
          PROVE  Everything(x).name # "CmsEntries" /\ InOs(Everything(x)).name # "CmsEntries"
      BY <1>1, <3>1
    <3>2. "Regular DynamoDB Table Data" # "CmsEntries" /\ "OpenSearch DynamoDB Table Data" # "CmsEntries"
      OBVIOUS
    <3> QED
      BY <3>1, <3>2
  <2>2. c.name # "CmsEntries"
    BY DEF Pipeline
  <2>3. copy_ddb = <<a>> /\ copy_os = <<b>> /\ copy_files = <<c>>
    BY DEF copy_ddb, copy_os, copy_files
  <2> HIDE DEF a, b, c
  <2> QED
    BY <2>1, <2>2, <2>3
<1>5. n \in {"v5-to-v6-ddb", "v5-to-v6-os", "copy-ddb", "copy-os", "copy-files"}
  BY DEF builtIn
<1>6. builtIn(config)[n].pipelines \in
        {v5_to_v6_ddb(config), v5_to_v6_os, copy_ddb, copy_os, copy_files}
  BY <1>5 DEF builtIn, Preset
<1> DEFINE ps == builtIn(config)[n].pipelines
<1>7. i \in DOMAIN ps /\ ps[i].name = "CmsEntries"
  OBVIOUS
<1> HIDE DEF ps
<1> QED
  BY <1>2, <1>3, <1>4, <1>6, <1>7 DEF ps

\* The pipelines that a worker runs are those of the preset, with what customizers append.
LEMMA AssembledExtends ==
  ASSUME NEW setup, GivesPipelines(setup), Assembles(setup),
         setup.asked \in DOMAIN builtIn(setup.config)
  PROVE  LET ps == builtIn(setup.config)[setup.asked].pipelines
             as == Assembled(setup)
         IN /\ DOMAIN as = DOMAIN ps
            /\ \A i \in DOMAIN as :
                 LET ts == ps[i].transformers
                     us == as[i].transformers
                 IN /\ as[i].name = ps[i].name /\ as[i].scanner = ps[i].scanner
                    /\ as[i].processors = ps[i].processors
                    /\ IsSeq(ts) /\ IsSeq(us) /\ Len(us) >= Len(ts)
                    /\ \A k \in 1..Len(ts) : us[k] = ts[k]
                    /\ \A k \in (Len(ts) + 1)..Len(us) :
                         \E c \in ToSet(setup.customizers) :
                           ps[i].name \in c.uses /\ us[k] \in ToSet(c.transformers)
<1> DEFINE a == setup.asked
           b == builtIn(setup.config)
           ps == b[a].pipelines
           as == Assembled(setup)
<1>1. resolvePresetPath(setup) = b[a]
  <2>1. resolvePresetPath(setup) = Over(b, Over(setup.user, setup.files))[a]
    BY DEF resolvePresetPath
  <2> HIDE DEF b, a
  <2>2. a \in DOMAIN b
    BY DEF a, b
  <2> QED
    BY <2>1, <2>2 DEF Over
<1>2. as = [k \in DOMAIN ps |-> build(ps[k], setup)]
  BY <1>1 DEF Assembled
<1>3. IsPipelines(ps)
  BY BuiltInIs
<1> HIDE DEF as, ps
<1>4. \A k \in DOMAIN ps : IsPipeline(ps[k])
  BY <1>3 DEF IsPipelines
<1>5. setup.customizers \in Seq(CustomizerType)
  BY DEF GivesPipelines
<1>6. ASSUME NEW i \in DOMAIN ps
      PROVE  LET ts == ps[i].transformers
                 us == as[i].transformers
             IN /\ as[i].name = ps[i].name /\ as[i].scanner = ps[i].scanner
                /\ as[i].processors = ps[i].processors
                /\ IsSeq(ts) /\ IsSeq(us) /\ Len(us) >= Len(ts)
                /\ \A k \in 1..Len(ts) : us[k] = ts[k]
                /\ \A k \in (Len(ts) + 1)..Len(us) :
                     \E c \in ToSet(setup.customizers) :
                           ps[i].name \in c.uses /\ us[k] \in ToSet(c.transformers)
  <2> DEFINE ts == ps[i].transformers
             us == as[i].transformers
  <2>1. /\ as[i].name = ps[i].name /\ as[i].scanner = ps[i].scanner
        /\ as[i].processors = ps[i].processors /\ us = AllExtended(ts, setup.customizers, ps[i].name)
        /\ IsSeq(ts)
    BY <1>2, <1>4, <1>5, BuiltPipeline DEF IsPipeline
  <2> HIDE DEF us, ts
  <2>2. /\ IsSeq(us) /\ Len(us) >= Len(ts)
        /\ \A k \in 1..Len(ts) : us[k] = ts[k]
        /\ \A k \in (Len(ts) + 1)..Len(us) :
             \E c \in ToSet(setup.customizers) : ps[i].name \in c.uses /\ us[k] \in ToSet(c.transformers)
    BY <1>5, <2>1, ExtendedWith
  <2> QED
    BY <2>1, <2>2 DEF us, ts
<1>7. DOMAIN as = DOMAIN ps
  BY <1>2
<1> QED
  BY <1>6, <1>7 DEF as, ps

\* The pipeline of entries that a worker runs, whatever customizers append that moves no
\* values.
LEMMA AssembledEntries ==
  ASSUME NEW setup, GivesPipelines(setup), Assembles(setup),
         setup.asked \in DOMAIN builtIn(setup.config),
         \A c \in ToSet(setup.customizers) : "CmsEntries" \in c.uses =>
           ToSet(c.transformers) \intersect Moving = {},
         NEW i \in DOMAIN Assembled(setup), Assembled(setup)[i].name = "CmsEntries"
  PROVE  \E j : /\ EntryTransformers(Assembled(setup)[i].transformers, j)
                /\ \/ Assembled(setup)[i].transformers[1] = "wrapInData"
                   \/ \A k \in DOMAIN Assembled(setup) : Assembled(setup)[k].scanner = "OsScanner"
<1> DEFINE a == setup.asked
           b == builtIn(setup.config)
           ps == b[a].pipelines
           as == Assembled(setup)
           us == as[i].transformers
           ts == ps[i].transformers
<1>4. /\ i \in DOMAIN ps /\ DOMAIN as = DOMAIN ps
      /\ \A k \in DOMAIN ps : as[k].name = ps[k].name /\ as[k].scanner = ps[k].scanner
  BY AssembledExtends
<1>5. ps[i].name = "CmsEntries"
  BY <1>4 DEF as
<1>6. \/ ts = DdbEntry
      \/ ts = OsEntry /\ \A k \in DOMAIN ps : ps[k].scanner = "OsScanner"
  BY <1>4, <1>5, EntryPipelines
<1>7. /\ IsSeq(us) /\ Len(us) >= Len(ts) /\ \A k \in 1..Len(ts) : us[k] = ts[k]
      /\ \A k \in (Len(ts) + 1)..Len(us) : us[k] \notin Moving
  <2>1. /\ IsSeq(us) /\ Len(us) >= Len(ts)
        /\ \A k \in 1..Len(ts) : us[k] = ts[k]
        /\ \A k \in (Len(ts) + 1)..Len(us) :
             \E c \in ToSet(setup.customizers) : ps[i].name \in c.uses /\ us[k] \in ToSet(c.transformers)
    BY AssembledExtends
  <2> QED
    BY <1>5, <2>1
<1> HIDE DEF us, ts, ps
<1>8. CASE ts = DdbEntry
  <2>1. Len(DdbEntry) = 11
    BY <1>7, PresetTransformers
  <2>2. /\ Len(us) >= 11 /\ (\A k \in 1..11 : us[k] = DdbEntry[k])
        /\ (\A k \in 12..Len(us) : us[k] \notin Moving)
    <3>1. 11 + 1 = 12
      OBVIOUS
    <3> QED
      BY <1>7, <1>8, <2>1, <3>1
  <2>3. EntryTransformers(us, 6) /\ us[1] = "wrapInData"
    BY <1>7, <2>2, PresetTransformers
  <2> QED
    BY <2>3 DEF us, as
<1>9. CASE ts = OsEntry /\ \A k \in DOMAIN ps : ps[k].scanner = "OsScanner"
  <2>1. Len(OsEntry) = 12
    BY <1>7, PresetTransformers
  <2>2. /\ Len(us) >= 12 /\ (\A k \in 1..12 : us[k] = OsEntry[k])
        /\ (\A k \in 13..Len(us) : us[k] \notin Moving)
    <3>1. 12 + 1 = 13
      OBVIOUS
    <3> QED
      BY <1>7, <1>9, <2>1, <3>1
  <2>3. EntryTransformers(us, 5)
    BY <1>7, <2>2, PresetTransformers
  <2>4. \A k \in DOMAIN as : as[k].scanner = "OsScanner"
    BY <1>4, <1>9
  <2> QED
    BY <2>3, <2>4 DEF us, as
<1> QED
  BY <1>6, <1>8, <1>9

-----------------------------------------------------------------------------
(* Places *)

\* A record on its way to the place it had: the same sort key, tenant and id, in the space
\* that v6 has for the one of v5.
Stays(r, s) ==
  /\ s.sk = r.sk /\ (r.in = "data" => s.in = "data")
  /\ s.type = r.type \/ (r.type = "security.group" /\ s.type = "security.role")
  /\ IsKey(r.pk) =>
       /\ IsKey(s.pk) /\ s.pk.tenant = r.pk.tenant /\ s.pk.id = r.pk.id
       /\ s.pk.space = r.pk.space \/ (r.pk.space = "GROUP" /\ s.pk.space = "ROLE")

\* A record with the same key.
SameKeys(r, s) == s.pk = r.pk /\ s.sk = r.sk /\ s.type = r.type /\ s.in = r.in

\* A record that keeps its keys stays the record it is.
LEMMA SameKeysStay ==
  ASSUME NEW r, NEW s, SameKeys(r, s)
  PROVE  Stays(r, s)
BY DEF SameKeys, Stays

\* Two changes after each other.
LEMMA StaysThen ==
  ASSUME NEW r, NEW s, NEW t, Stays(r, s), Stays(s, t)
  PROVE  Stays(r, t)
BY DEF Stays

\* A key with another locale, or without the second prefix.
LEMMA KeyChanged ==
  ASSUME NEW k, IsKey(k), NEW v
  PROVE  /\ LET l == [k EXCEPT !.locale = v]
            IN IsKey(l) /\ l.tenant = k.tenant /\ l.id = k.id /\ l.space = k.space
         /\ LET l == [k EXCEPT !.twice = v]
            IN IsKey(l) /\ l.tenant = k.tenant /\ l.id = k.id /\ l.space = k.space
         /\ LET l == [k EXCEPT !.space = v]
            IN IsKey(l) /\ l.tenant = k.tenant /\ l.id = k.id /\ l.space = v
BY DEF IsKey

\* What changes attributes only.
LEMMA AttrsOnly ==
  ASSUME NEW r, IsRecord(r), NEW v
  PROVE  SameKeys(r, [r EXCEPT !.attrs = v])
BY DEF IsRecord, SameKeys

\* Setting or deleting attributes leaves a record's keys alone.
LEMMA AttrsKept ==
  ASSUME NEW r, IsRecord(r), NEW a, NEW v
  PROVE  /\ SameKeys(r, Set(r, a, v)) /\ SameKeys(r, Delete(r, a))
         /\ SameKeys(r, [r EXCEPT !.attrs[a] = v])
<1>1. SameKeys(r, Set(r, a, v))
  <2> DEFINE more == Over(Only(a, v), r.attrs)
  <2>1. Set(r, a, v) = [r EXCEPT !.attrs = more]
    BY DEF Set
  <2> HIDE DEF more
  <2> QED
    BY <2>1, AttrsOnly
<1>2. SameKeys(r, Delete(r, a))
  <2> DEFINE less == Restrict(r.attrs, DOMAIN r.attrs \ a)
  <2>1. Delete(r, a) = [r EXCEPT !.attrs = less]
    BY DEF Delete
  <2> HIDE DEF less
  <2> QED
    BY <2>1, AttrsOnly
<1>3. SameKeys(r, [r EXCEPT !.attrs[a] = v])
  <2> DEFINE other == [r.attrs EXCEPT ![a] = v]
  <2>1. [r EXCEPT !.attrs[a] = v] = [r EXCEPT !.attrs = other]
    BY DEF IsRecord
  <2> HIDE DEF other
  <2> QED
    BY <2>1, AttrsOnly
<1> QED
  BY <1>1, <1>2, <1>3

\* The rewritings that change attributes only.
LEMMA AttrsRewritten ==
  ASSUME NEW r, IsRecord(r), NEW env
  PROVE  /\ SameKeys(r, removeFolderRevision(r)) /\ SameKeys(r, updateFlpIds(r))
         /\ SameKeys(r, updateModelIds(r)) /\ SameKeys(r, removeAttributes(r))
         /\ SameKeys(r, addTransferTimestamp(r)) /\ SameKeys(r, dataFieldsTransformer(r))
         /\ SameKeys(r, transformPermissions(r, env.source)) /\ SameKeys(r, renameFieldAttributes(r))
         /\ SameKeys(r, OnValues(transformRichText, r, env.models))
         /\ SameKeys(r, OnValues(replaceFileUrls, r, env.models))
         /\ SameKeys(r, OnValues(fixBrokenStorageKeys, r, env.models))
<1>1. SameKeys(r, removeFolderRevision(r))
  <2> DEFINE moved == IF InData(r, "location") /\ r.attrs.location.rev = 1
                      THEN [r EXCEPT !.attrs.location = StripRevision(@)] ELSE r
             bare == IF InData(r, "values") THEN Delete(moved, {"object@location"}) ELSE moved
             last == IF InData(r, "parentId") /\ InData(r, "modelId") /\ r.attrs.modelId = "wbyAcoFolder"
                     THEN [bare EXCEPT !.attrs.parentId = StripRevision(@)] ELSE bare
  <2>0. \A q : SameKeys(q, q)
    BY DEF SameKeys
  <2>1. SameKeys(r, moved) /\ IsRecord(moved)
    BY <2>0, AttrsKept, PatchRecord
  <2> HIDE DEF moved
  <2>2. SameKeys(moved, bare) /\ IsRecord(bare)
    BY <2>0, <2>1, AttrsKept, DeleteRecord
  <2> HIDE DEF bare
  <2>3. SameKeys(bare, last)
    BY <2>0, <2>2, AttrsKept
  <2>4. removeFolderRevision(r) = last
    BY DEF removeFolderRevision, last, bare, moved
  <2> HIDE DEF last
  <2> QED
    BY <2>1, <2>2, <2>3, <2>4 DEF SameKeys
<1>2. SameKeys(r, updateFlpIds(r))
  <2> DEFINE one == StripAt(r, "id")
             two == StripAt(one, "parentId")
             value == {[p EXCEPT !.inheritedFrom = StripRevision(@)] : p \in two.attrs.permissions}
             last == IF ~ InData(two, "permissions") THEN two ELSE Set(two, "permissions", value)
  <2>0. ASSUME NEW q, IsRecord(q), NEW a PROVE SameKeys(q, StripAt(q, a)) /\ IsRecord(StripAt(q, a))
    <3>1. SameKeys(q, q)
      BY DEF SameKeys
    <3> QED
      BY <2>0, <3>1, AttrsKept, PatchRecord DEF StripAt
  <2>4. updateFlpIds(r) = last
    BY DEF updateFlpIds
  <2>1. SameKeys(r, one) /\ IsRecord(one)
    BY <2>0
  <2> HIDE DEF one
  <2>2. SameKeys(one, two) /\ IsRecord(two)
    BY <2>0, <2>1
  <2> HIDE DEF two, value
  <2>3. SameKeys(two, last)
    BY <2>2, AttrsKept DEF SameKeys
  <2> HIDE DEF last
  <2> QED
    BY <2>1, <2>2, <2>3, <2>4 DEF SameKeys
<1>3. SameKeys(r, updateModelIds(r))
  <2> DEFINE keyed == [r EXCEPT !.gsi1.name = NewModelId(@)]
             last == [keyed EXCEPT !.attrs.modelId = NewModelId(@)]
  <2>1. IsRecord(keyed) /\ SameKeys(r, keyed)
    BY DEF IsRecord, SameKeys
  <2>2. updateModelIds(r) \in {keyed, last}
    BY DEF updateModelIds
  <2> HIDE DEF keyed
  <2>3. SameKeys(keyed, last)
    BY <2>1, AttrsKept
  <2> HIDE DEF last
  <2> QED
    BY <2>1, <2>2, <2>3 DEF SameKeys
<1>4. SameKeys(r, r)
  BY DEF SameKeys
<1>5. /\ SameKeys(r, removeAttributes(r)) /\ SameKeys(r, addTransferTimestamp(r))
      /\ SameKeys(r, dataFieldsTransformer(r)) /\ SameKeys(r, transformPermissions(r, env.source))
      /\ SameKeys(r, renameFieldAttributes(r))
  BY <1>4, AttrsKept DEF removeAttributes, addTransferTimestamp, dataFieldsTransformer,
                         transformPermissions, renameFieldAttributes
<1>6. SameKeys(r, OnValues(transformRichText, r, env.models))
  BY <1>4, AttrsKept DEF OnValues
<1>7. SameKeys(r, OnValues(replaceFileUrls, r, env.models))
  BY <1>4, AttrsKept DEF OnValues
<1>8. SameKeys(r, OnValues(fixBrokenStorageKeys, r, env.models))
  BY <1>4, AttrsKept DEF OnValues
<1> QED
  BY <1>1, <1>2, <1>3, <1>5, <1>6, <1>7, <1>8

\* The rewritings leave a record at its place, but for those that make another.
LEMMA RewrittenStays ==
  ASSUME NEW r, IsRecord(r), NEW name, name \notin Replacing, NEW env
  PROVE  Stays(r, Rewritten(name, r, env))
<1> DEFINE t == Rewritten(name, r, env)
<1>0. Stays(r, r)
  BY SameKeysStay DEF SameKeys
<1>1. CASE name = "wrapInData"
  BY <1>1 DEF Rewritten, wrapInData, Stays, IsRecord
<1>2. CASE name = "addGsiTenant"
  BY <1>2 DEF Rewritten, addGsiTenant, Stays, IsRecord
<1>3. CASE name = "updateOsIndex"
  BY <1>3 DEF Rewritten, updateOsIndex, Stays, IsRecord
<1>4. CASE name = "fixCmePk"
  <2> DEFINE pk == [r.pk EXCEPT !.twice = FALSE]
  <2>1. t = [r EXCEPT !.pk = pk]
    BY <1>4 DEF Rewritten, fixCmePk, IsRecord
  <2>2. IsKey(r.pk) => /\ IsKey(pk) /\ pk.tenant = r.pk.tenant /\ pk.id = r.pk.id
                       /\ pk.space = r.pk.space
    BY KeyChanged
  <2> HIDE DEF pk
  <2>3. t.pk = pk /\ t.sk = r.sk /\ t.type = r.type /\ t.in = r.in
    BY <2>1 DEF IsRecord
  <2> QED
    BY <2>2, <2>3 DEF Stays
<1>5. CASE name = "removeLocale"
  <2> DEFINE pk == [r.pk EXCEPT !.locale = ""]
             gsi1 == [r.gsi1 EXCEPT !.locale = ""]
             keyed == [r EXCEPT !.pk = pk, !.gsi1 = gsi1]
  <2>1. t = Delete(keyed, {"locale"})
    BY <1>5 DEF Rewritten, removeLocale, IsRecord
  <2>2. IsKey(r.pk) => /\ IsKey(pk) /\ pk.tenant = r.pk.tenant /\ pk.id = r.pk.id
                       /\ pk.space = r.pk.space
    BY KeyChanged
  <2>3. keyed = [r EXCEPT !.pk = pk, !.gsi1 = gsi1]
    OBVIOUS
  <2> HIDE DEF pk, gsi1, keyed
  <2>4. IsRecord(keyed) /\ keyed.pk = pk /\ keyed.sk = r.sk /\ keyed.type = r.type /\ keyed.in = r.in
    BY <2>3 DEF IsRecord
  <2>5. SameKeys(keyed, t)
    BY <2>1, <2>4, AttrsKept
  <2> QED
    BY <2>2, <2>4, <2>5 DEF Stays, SameKeys
<1>6. CASE name = "groupsToRoles"
  <2> DEFINE pk == [r.pk EXCEPT !.space = IF @ = "GROUP" THEN "ROLE" ELSE @]
             gsi1 == [r.gsi1 EXCEPT !.name = IF @ = "GROUPS" THEN "ROLES" ELSE @]
             role == [r EXCEPT !.type = "security.role", !.pk = pk, !.gsi1 = gsi1]
  <2>1. t = r \/ (r.type = "security.group" /\ t = role)
    BY <1>6 DEF Rewritten, groupsToRoles, IsRecord
  <2>2. IsKey(r.pk) => /\ IsKey(pk) /\ pk.tenant = r.pk.tenant /\ pk.id = r.pk.id
                       /\ pk.space = r.pk.space \/ (r.pk.space = "GROUP" /\ pk.space = "ROLE")
    BY DEF IsKey
  <2>3. role = [r EXCEPT !.type = "security.role", !.pk = pk, !.gsi1 = gsi1]
    OBVIOUS
  <2> HIDE DEF pk, gsi1, role
  <2>4. role.pk = pk /\ role.sk = r.sk /\ role.type = "security.role" /\ role.in = r.in
    BY <2>3 DEF IsRecord
  <2> QED
    BY <1>0, <2>1, <2>2, <2>4 DEF Stays
<1>7. CASE name \in {"removeAttributes", "addTransferTimestamp",
                     "replaceFileUrls", "updateModelIds", "removeFolderRevision",
                     "transformPermissions", "renameFieldAttributes", "updateFlpIds", "dataFields"}
  <2>1. \/ t \in {r, removeAttributes(r), addTransferTimestamp(r), updateModelIds(r),
                  removeFolderRevision(r), transformPermissions(r, env.source),
                  renameFieldAttributes(r), updateFlpIds(r), dataFieldsTransformer(r)}
        \/ t = OnValues(replaceFileUrls, r, env.models)
    BY <1>7 DEF Rewritten
  <2>2. SameKeys(r, t)
    <3>1. SameKeys(r, r)
      BY DEF SameKeys
    <3> QED
      BY <2>1, <3>1, AttrsRewritten
  <2> QED
    BY <2>2, SameKeysStay
<1>8. CASE name \notin {"wrapInData", "addGsiTenant", "fixCmePk", "updateOsIndex", "groupsToRoles",
                     "removeAttributes", "addTransferTimestamp",
                     "replaceFileUrls", "updateModelIds", "removeFolderRevision",
                     "transformPermissions", "renameFieldAttributes", "updateFlpIds",
                     "dataFields", "removeLocale"}
  <2>1. t = r
    BY <1>8 DEF Rewritten, Replacing
  <2> QED
    BY <1>0, <2>1
<1> QED
  BY <1>1, <1>2, <1>3, <1>4, <1>5, <1>6, <1>7, <1>8

\* One transformer leaves a record at its place, but for those that make another.
LEMMA TransformStays ==
  ASSUME NEW c, IsContext(c), NEW name, name \notin Replacing, NEW env
  PROVE  Stays(c.record, Transform(name, c, env).record)
<1> DEFINE r == c.record
           d == Transform(name, c, env)
<1>0. IsRecord(r) /\ SameKeys(r, r)
  BY DEF IsContext, SameKeys
<1>1. ASSUME SameKeys(r, d.record) PROVE Stays(r, d.record)
  BY <1>1, SameKeysStay
<1>2. ASSUME NEW s PROVE [c EXCEPT !.record = s].record = s
  BY DEF IsContext
<1>3. CASE name = "fixBrokenStorageKeys"
  <2> DEFINE s == OnValues(fixBrokenStorageKeys, r, env.models)
  <2>1. d = FixKeys(c, env.models)
    BY <1>3 DEF Transform
  <2>2. d.record \in {r, s}
    BY <2>1 DEF FixKeys, IsContext
  <2>3. SameKeys(r, s)
    <3> DEFINE e == [source |-> << >>, models |-> env.models, fileUrls |-> TRUE]
    <3>1. e.models = env.models
      OBVIOUS
    <3>2. SameKeys(r, OnValues(fixBrokenStorageKeys, r, e.models))
      BY <1>0, AttrsRewritten
    <3> QED
      BY <3>1, <3>2
  <2> HIDE DEF s, d
  <2>4. SameKeys(r, d.record)
    BY <1>0, <2>2, <2>3
  <2> QED
    BY <1>1, <2>4 DEF d
<1>4. CASE name = "addLiveField"
  <2>1. d = addLiveField(c, env.source)
    BY <1>4 DEF Transform
  <2>2. d.record = r \/ \E v : d.record = Set(r, "live", v)
    BY <2>1 DEF addLiveField, IsContext
  <2> HIDE DEF d
  <2>3. SameKeys(r, d.record)
    BY <1>0, <2>2, AttrsKept
  <2> QED
    BY <1>1, <2>3 DEF d
<1>5. CASE name = "transformModelGroup"
  <2>1. d = transformModelGroup(c, env.source)
    BY <1>5 DEF Transform
  <2>2. d.record = r \/ \E v : d.record = Set(r, "group", v)
    BY <2>1 DEF transformModelGroup, IsContext
  <2> HIDE DEF d
  <2>3. SameKeys(r, d.record)
    BY <1>0, <2>2, AttrsKept
  <2> QED
    BY <1>1, <2>3 DEF d
<1>6. CASE name = "createMetadata"
  <2>1. d.record = r
    BY <1>6, MetadataContext DEF Transform
  <2> QED
    BY <1>0, <1>1, <2>1
<1>7. CASE name = "extractImageMetadata"
  <2> DEFINE s == Delete(r, {"object@meta"})
  <2>1. d = extractImageMetadata(c, env)
    BY <1>7 DEF Transform
  <2>2. d.record = r \/ \E v : d.record = Set(s, "object@metadata", v)
    BY <2>1 DEF extractImageMetadata, IsContext
  <2>3. SameKeys(r, s) /\ IsRecord(s)
    BY <1>0, AttrsKept, DeleteRecord
  <2> HIDE DEF d, s
  <2>4. \A v : SameKeys(s, Set(s, "object@metadata", v))
    BY <2>3, AttrsKept
  <2>5. SameKeys(r, d.record)
    BY <1>0, <2>2, <2>3, <2>4 DEF SameKeys
  <2> QED
    BY <1>1, <2>5 DEF d
<1>8. CASE name = "copyFileToTarget"
  <2>1. d.record = r
    BY <1>8, CopyFileContext DEF Transform, copyFileToTarget
  <2> QED
    BY <1>0, <1>1, <2>1
<1>9. CASE name = "coreFields"
  <2>1. d = coreFieldsTransformer(c, env.fresh)
    BY <1>9 DEF Transform
  <2>2. d.record = r \/ \E v : d.record = [r EXCEPT !.attrs = v]
    BY <2>1 DEF coreFieldsTransformer, IsContext
  <2> HIDE DEF d
  <2>3. \A v : SameKeys(r, [r EXCEPT !.attrs = v])
    BY <1>0, AttrsOnly
  <2>4. SameKeys(r, d.record)
    BY <1>0, <2>2, <2>3
  <2> QED
    BY <1>1, <2>4 DEF d
<1>10. CASE name = "transformRichText"
  <2> DEFINE e == [source |-> << >>, models |-> env.models, fileUrls |-> TRUE]
  <2>1. d.record = OnValues(transformRichText, r, e.models)
    BY <1>10, RenderTextsContext DEF Transform
  <2>2. SameKeys(r, OnValues(transformRichText, r, e.models))
    BY <1>0, AttrsRewritten
  <2> QED
    BY <1>1, <2>1, <2>2
<1>11. CASE name \notin {"fixBrokenStorageKeys", "addLiveField", "transformModelGroup", "createMetadata",
                       "extractImageMetadata", "copyFileToTarget", "coreFields", "transformRichText"}
  <2>1. d = [c EXCEPT !.record = Rewritten(name, c.record, env)]
    BY <1>11 DEF Transform, Replacing, IsContext
  <2>2. d.record = Rewritten(name, r, env)
    BY <1>2, <2>1
  <2> QED
    BY <1>0, <2>2, RewrittenStays
<1> QED
  BY <1>3, <1>4, <1>5, <1>6, <1>7, <1>8, <1>9, <1>10, <1>11

\* Transformers of a list, from some place on.
LEMMA StaysAlong ==
  ASSUME NEW n \in Nat, NEW x, NEW start, NEW ts, NEW env,
         Steps(x, n, "transform", start, ts, env),
         NEW k \in 0..n, IsContext(x[k]), \A i \in (k + 1)..n : ts[i] \notin Replacing
  PROVE  IsContext(x[n]) /\ Stays(x[k].record, x[n].record)
<1> DEFINE Fine(d) == IsContext(d) /\ Stays(x[k].record, d.record)
           S == {i \in Nat : k + i <= n => Fine(x[k + i])}
<1>1. 0 \in S
  <2>1. Stays(x[k].record, x[k].record)
    BY SameKeysStay DEF SameKeys
  <2> QED
    BY <2>1
<1>2. ASSUME NEW i \in S PROVE i + 1 \in S
  <2>1. SUFFICES ASSUME k + (i + 1) <= n PROVE Fine(x[k + (i + 1)])
    OBVIOUS
  <2> DEFINE j == k + i
  <2>2. /\ i \in Nat /\ k + (i + 1) = j + 1 /\ j + 1 \in (k + 1)..n /\ j + 1 \in 1..n
        /\ j + 1 - 1 = j /\ j <= n /\ j \in Nat
    BY <2>1
  <2>3. Fine(x[j])
    BY <2>2
  <2> HIDE DEF j
  <2>4. x[j + 1] = Transform(ts[j + 1], x[j], env)
    BY <2>2 DEF Steps, Act
  <2>5. ts[j + 1] \notin Replacing
    BY <2>2
  <2>6. IsContext(x[j + 1])
    BY <2>3, <2>4, TransformStep DEF Goes
  <2>7. Stays(x[j].record, x[j + 1].record)
    BY <2>3, <2>4, <2>5, TransformStays
  <2> QED
    BY <2>2, <2>3, <2>6, <2>7, StaysThen
<1>3. S = Nat
  <2>1. S \in SUBSET Nat
    OBVIOUS
  <2> HIDE DEF S
  <2> QED
    BY <1>1, <1>2, <2>1, SetInduction
<1>4. n - k \in Nat /\ k + (n - k) = n /\ n <= n
  OBVIOUS
<1>5. n - k \in S
  BY <1>3, <1>4
<1> QED
  BY <1>4, <1>5

\* A list whose transformers make no other record, from some place on.
PlainFrom(ts, k) == \A i \in k..Len(ts) : ts[i] \notin Replacing

Settings == {"migrateFileManagerSettings", "migrateMailerSettings"}

\* The lists of transformers that place a record where it belongs: those that make no other,
\* that of audit logs, and those of settings.
Placing(ts) ==
  /\ IsSeq(ts)
  /\ \/ PlainFrom(ts, 1)
     \/ /\ Len(ts) >= 3 /\ PlainFrom(ts, 4)
        /\ ts[1] = "coreFields" /\ ts[2] = "dataFields" /\ ts[3] = "storageShape"
     \/ /\ Len(ts) >= 2 /\ PlainFrom(ts, 3)
        /\ ts[1] = "wrapInData" /\ ts[2] \in Settings

\* And still are with more at the end that make no other record.
LEMMA MorePlaces ==
  ASSUME NEW ts, Placing(ts), NEW us, IsSeq(us), Len(us) >= Len(ts),
         \A i \in 1..Len(ts) : us[i] = ts[i],
         \A i \in (Len(ts) + 1)..Len(us) : us[i] \notin Replacing
  PROVE  Placing(us) /\ (PlainFrom(ts, 1) => PlainFrom(us, 1))
<1>1. Len(ts) \in Nat /\ Len(us) \in Nat
  BY SeqHas DEF Placing, IsSeq
<1>2. ASSUME NEW k \in {1, 3, 4}, PlainFrom(ts, k) PROVE PlainFrom(us, k)
  <2> SUFFICES ASSUME NEW i \in k..Len(us) PROVE us[i] \notin Replacing
    BY DEF PlainFrom
  <2>1. i \in (Len(ts) + 1)..Len(us) \/ (i \in 1..Len(ts) /\ i \in k..Len(ts))
    BY <1>1
  <2> QED
    BY <1>2, <2>1 DEF PlainFrom
<1>3. CASE PlainFrom(ts, 1)
  BY <1>2, <1>3 DEF Placing
<1>4. CASE /\ Len(ts) >= 3 /\ PlainFrom(ts, 4)
           /\ ts[1] = "coreFields" /\ ts[2] = "dataFields" /\ ts[3] = "storageShape"
  <2>1. Len(us) >= 3 /\ 1 \in 1..Len(ts) /\ 2 \in 1..Len(ts) /\ 3 \in 1..Len(ts)
    BY <1>1, <1>4
  <2>2. PlainFrom(us, 4)
    BY <1>2, <1>4
  <2>3. us[1] = "coreFields" /\ us[2] = "dataFields" /\ us[3] = "storageShape"
    BY <1>4, <2>1
  <2>4. Placing(us)
    BY <2>1, <2>2, <2>3 DEF Placing
  <2>5. PlainFrom(ts, 1) => PlainFrom(us, 1)
    BY <1>2
  <2> QED
    BY <2>4, <2>5
<1>5. CASE /\ Len(ts) >= 2 /\ PlainFrom(ts, 3)
           /\ ts[1] = "wrapInData" /\ ts[2] \in Settings
  <2>1. Len(us) >= 2 /\ 1 \in 1..Len(ts) /\ 2 \in 1..Len(ts)
    BY <1>1, <1>5
  <2>2. PlainFrom(us, 3)
    BY <1>2, <1>5
  <2>3. us[1] = "wrapInData" /\ us[2] \in Settings
    BY <1>5, <2>1
  <2>4. Placing(us)
    BY <2>1, <2>2, <2>3 DEF Placing
  <2>5. PlainFrom(ts, 1) => PlainFrom(us, 1)
    BY <1>2
  <2> QED
    BY <2>4, <2>5
<1> QED
  BY <1>3, <1>4, <1>5 DEF Placing

\* Lists of transformers that make no other record.
LEMMA PlainLists ==
  /\ \A ts : IsSeq(ts) /\ ToSet(ts) \intersect Replacing = {} => PlainFrom(ts, 1) /\ Placing(ts)
  /\ \A a, b : IsSeq(a) /\ ToSet(a) \intersect Replacing = {} /\ IsSeq(b)
                 /\ ToSet(b) \intersect Replacing = {}
       => IsSeq(a \o b) /\ ToSet(a \o b) \intersect Replacing = {}
<1>1. ASSUME NEW ts, IsSeq(ts), ToSet(ts) \intersect Replacing = {}
      PROVE  PlainFrom(ts, 1) /\ Placing(ts)
  <2>1. DOMAIN ts = 1..Len(ts)
    BY <1>1, SeqHas DEF IsSeq
  <2>2. \A i \in 1..Len(ts) : ts[i] \in ToSet(ts)
    BY <2>1 DEF ToSet
  <2>3. PlainFrom(ts, 1)
    BY <1>1, <2>2 DEF PlainFrom
  <2> QED
    BY <1>1, <2>3 DEF Placing
<1>2. ASSUME NEW a, IsSeq(a), ToSet(a) \intersect Replacing = {}, NEW b, IsSeq(b),
             ToSet(b) \intersect Replacing = {}
      PROVE  IsSeq(a \o b) /\ ToSet(a \o b) \intersect Replacing = {}
  <2>1. IsSeq(a \o b) /\ ToSet(a \o b) = ToSet(a) \union ToSet(b)
    BY <1>2, ConcatIsSeq
  <2> QED
    BY <1>2, <2>1
<1> QED
  BY <1>1, <1>2

\* Those of the presets.
LEMMA EntryListsPlain ==
  /\ ToSet(cmsEntryTransformers) \intersect Replacing = {}
  /\ ToSet(osCmsEntryTransformers) \intersect Replacing = {}
<1>1. ASSUME NEW t, t = cmsEntryTransformers PROVE ToSet(t) \intersect Replacing = {}
  <2>1. ToSet(t) = {"wrapInData", "addGsiTenant", "removeLocale", "fixCmePk", "fixBrokenStorageKeys",
                    "transformRichText", "updateModelIds", "removeFolderRevision", "removeAttributes"}
    <3>1. DOMAIN t = 1..9
      BY <1>1 DEF cmsEntryTransformers
    <3>2. \A i \in 1..9 : i \in {1, 2, 3, 4, 5, 6, 7, 8, 9}
      OBVIOUS
    <3>3. /\ t[1] = "wrapInData" /\ t[2] = "addGsiTenant" /\ t[3] = "removeLocale" /\ t[4] = "fixCmePk"
          /\ t[5] = "fixBrokenStorageKeys" /\ t[6] = "transformRichText" /\ t[7] = "updateModelIds"
          /\ t[8] = "removeFolderRevision" /\ t[9] = "removeAttributes"
      BY <1>1 DEF cmsEntryTransformers
    <3> QED
      BY <3>1, <3>2, <3>3 DEF ToSet
  <2> QED
    BY <2>1 DEF Replacing
<1>2. ASSUME NEW t, t = osCmsEntryTransformers PROVE ToSet(t) \intersect Replacing = {}
  <2>1. ToSet(t) = {"addGsiTenant", "removeLocale", "fixCmePk", "fixBrokenStorageKeys",
                    "transformRichText", "updateModelIds", "updateOsIndex", "removeFolderRevision",
                    "removeAttributes", "addTransferTimestamp"}
    <3>1. DOMAIN t = 1..10
      BY <1>2 DEF osCmsEntryTransformers
    <3>2. \A i \in 1..10 : i \in {1, 2, 3, 4, 5, 6, 7, 8, 9, 10}
      OBVIOUS
    <3>3. /\ t[1] = "addGsiTenant" /\ t[2] = "removeLocale" /\ t[3] = "fixCmePk"
          /\ t[4] = "fixBrokenStorageKeys" /\ t[5] = "transformRichText" /\ t[6] = "updateModelIds"
          /\ t[7] = "updateOsIndex" /\ t[8] = "removeFolderRevision" /\ t[9] = "removeAttributes"
          /\ t[10] = "addTransferTimestamp"
      BY <1>2 DEF osCmsEntryTransformers
    <3> QED
      BY <3>1, <3>2, <3>3 DEF ToSet
  <2> QED
    BY <2>1 DEF Replacing
<1> QED
  BY <1>1, <1>2

\* A few names.
LEMMA ShortPlain ==
  ASSUME NEW a, a \notin Replacing, NEW b, b \notin Replacing, NEW c, c \notin Replacing,
         NEW d, d \notin Replacing, NEW e, e \notin Replacing, NEW f, f \notin Replacing
  PROVE  /\ ToSet(<<a>>) \intersect Replacing = {} /\ ToSet(<<a, b>>) \intersect Replacing = {}
         /\ ToSet(<<a, b, c>>) \intersect Replacing = {}
         /\ ToSet(<<a, b, c, d>>) \intersect Replacing = {}
         /\ ToSet(<<a, b, c, d, e>>) \intersect Replacing = {}
         /\ ToSet(<<a, b, c, d, e, f>>) \intersect Replacing = {}
BY DEF ToSet

\* The fields of the pipelines of the presets.
LEMMA PipelineFields ==
  ASSUME NEW name, NEW filter, NEW ts
  PROVE  /\ Pipeline(name, filter, ts).name = name
         /\ Pipeline(name, filter, ts).transformers = ts
         /\ Pipeline(name, filter, ts).scanner = "DdbScanner"
         /\ Blackhole(name, filter).name = name
         /\ Blackhole(name, filter).transformers = << >>
         /\ Blackhole(name, filter).scanner = "DdbScanner"
         /\ InOs(Pipeline(name, filter, ts)).transformers = ts
         /\ InOs(Blackhole(name, filter)).transformers = << >>
         /\ Everything(name).transformers = << >>
         /\ InOs(Everything(name)).transformers = << >>
BY DEF Pipeline, Blackhole, InOs, Everything

\* A row has one place among the pipelines of the DynamoDB preset.
LEMMA DdbForms ==
  ASSUME NEW config
  PROVE  \A q \in {migrationRecords, auditLogs(config), acoSearchRecordsPage,
                   contentModelGroups, backgroundTasks, fmSettings, fmFiles, mailerSettings,
                   securityGroups, securityTeams, cmsModels, folderPermissions, cmsEntries,
                   adminUsers, formBuilderRecords} :
           q.scanner = "DdbScanner" /\ Placing(q.transformers)
<1> DEFINE Fine(q) == q.scanner = "DdbScanner" /\ Placing(q.transformers)
<1>1. ASSUME NEW name, NEW filter, NEW ts, IsSeq(ts), ToSet(ts) \intersect Replacing = {}
      PROVE  Fine(Pipeline(name, filter, ts))
  <2>1. Placing(ts)
    BY <1>1, PlainLists
  <2>2. Pipeline(name, filter, ts).transformers = ts /\ Pipeline(name, filter, ts).scanner = "DdbScanner"
    BY PipelineFields
  <2> QED
    BY <2>1, <2>2
<1>2. ASSUME NEW name, NEW filter PROVE Fine(Blackhole(name, filter))
  <2>1. Placing(<< >>)
    <3>1. IsSeq(<< >>) /\ ToSet(<< >>) \intersect Replacing = {}
      BY EmptyIsSeq
    <3> QED
      BY <3>1, PlainLists
  <2>2. Blackhole(name, filter).transformers = << >> /\ Blackhole(name, filter).scanner = "DdbScanner"
    BY PipelineFields
  <2> QED
    BY <2>1, <2>2
<1>3. Fine(migrationRecords) /\ Fine(acoSearchRecordsPage) /\ Fine(backgroundTasks)
      /\ Fine(formBuilderRecords)
  <2>1. Fine(migrationRecords)
    BY <1>2 DEF migrationRecords
  <2>2. Fine(acoSearchRecordsPage)
    BY <1>2 DEF acoSearchRecordsPage
  <2>3. Fine(backgroundTasks)
    BY <1>2 DEF backgroundTasks
  <2>4. Fine(formBuilderRecords)
    BY <1>2 DEF formBuilderRecords
  <2> QED
    BY <2>1, <2>2, <2>3, <2>4
<1>4. /\ "wrapInData" \notin Replacing /\ "addGsiTenant" \notin Replacing
      /\ "removeLocale" \notin Replacing /\ "removeAttributes" \notin Replacing
      /\ "groupsToRoles" \notin Replacing /\ "transformPermissions" \notin Replacing
      /\ "transformModelGroup" \notin Replacing /\ "renameFieldAttributes" \notin Replacing
      /\ "updateFlpIds" \notin Replacing /\ "addLiveField" \notin Replacing
      /\ "replaceFileUrls" \notin Replacing /\ "createMetadata" \notin Replacing
      /\ "extractImageMetadata" \notin Replacing /\ "copyFileToTarget" \notin Replacing
  BY DEF Replacing
<1>5. Fine(contentModelGroups)
  <2> DEFINE ts == <<"wrapInData", "addGsiTenant", "removeLocale", "removeAttributes">>
  <2>1. IsSeq(ts) /\ ToSet(ts) \intersect Replacing = {}
    BY <1>4, ShortTuples, ShortPlain
  <2> HIDE DEF ts, Fine
  <2>2. Fine(Pipeline("ContentModelGroups", "isCmsGroup", ts))
    BY <1>1, <2>1
  <2> QED
    BY <2>2 DEF contentModelGroups, ts
<1>6. Fine(securityGroups)
  <2> DEFINE ts == <<"wrapInData", "addGsiTenant", "groupsToRoles", "transformPermissions",
                     "removeAttributes">>
  <2>1. IsSeq(ts) /\ ToSet(ts) \intersect Replacing = {}
    BY <1>4, ShortTuples, ShortPlain
  <2> HIDE DEF ts, Fine
  <2>2. Fine(Pipeline("SecurityGroups", "isSecurityGroup", ts))
    BY <1>1, <2>1
  <2> QED
    BY <2>2 DEF securityGroups, ts
<1>7. Fine(securityTeams)
  <2> DEFINE ts == <<"wrapInData", "addGsiTenant", "removeAttributes">>
  <2>1. IsSeq(ts) /\ ToSet(ts) \intersect Replacing = {}
    BY <1>4, ShortTuples, ShortPlain
  <2> HIDE DEF ts, Fine
  <2>2. Fine(Pipeline("SecurityTeams", "isSecurityTeam", ts))
    BY <1>1, <2>1
  <2> QED
    BY <2>2 DEF securityTeams, ts
<1>8. Fine(cmsModels)
  <2> DEFINE ts == <<"wrapInData", "addGsiTenant", "removeLocale", "transformModelGroup",
                     "renameFieldAttributes", "removeAttributes">>
  <2>1. IsSeq(ts) /\ ToSet(ts) \intersect Replacing = {}
    BY <1>4, ShortTuples, ShortPlain
  <2> HIDE DEF ts, Fine
  <2>2. Fine(Pipeline("CmsModels", "isCmsModel", ts))
    BY <1>1, <2>1
  <2> QED
    BY <2>2 DEF cmsModels, ts
<1>9. Fine(folderPermissions)
  <2> DEFINE ts == <<"wrapInData", "addGsiTenant", "removeLocale", "removeAttributes", "updateFlpIds">>
  <2>1. IsSeq(ts) /\ ToSet(ts) \intersect Replacing = {}
    BY <1>4, ShortTuples, ShortPlain
  <2> HIDE DEF ts, Fine
  <2>2. Fine(Pipeline("FolderPermissions", "isFlpRecord", ts))
    BY <1>1, <2>1
  <2> QED
    BY <2>2 DEF folderPermissions, ts
<1>10. Fine(adminUsers)
  <2>1. IsSeq(<< >>) /\ ToSet(<< >>) \intersect Replacing = {}
    BY EmptyIsSeq
  <2> QED
    BY <1>1, <2>1 DEF adminUsers
<1>11. Fine(cmsEntries)
  <2> DEFINE a == cmsEntryTransformers
             b == <<"addLiveField", "replaceFileUrls">>
  <2>1. /\ IsSeq(a) /\ ToSet(a) \intersect Replacing = {}
        /\ IsSeq(b) /\ ToSet(b) \intersect Replacing = {}
    <3>1. IsSeq(a) /\ ToSet(a) \intersect Replacing = {}
      BY TransformersAre, EntryListsPlain
    <3>2. IsSeq(b)
      BY ShortTuples
    <3>3. ToSet(b) \intersect Replacing = {}
      <4>1. "addLiveField" \notin Replacing /\ "replaceFileUrls" \notin Replacing
        BY <1>4
      <4> QED
        BY ONLY <4>1, ShortPlain
    <3> QED
      BY <3>1, <3>2, <3>3
  <2>2. cmsEntries = Pipeline("CmsEntries", "isCmsEntry", a \o b)
    BY DEF cmsEntries
  <2> HIDE DEF a, b, Fine
  <2>3. IsSeq(a \o b) /\ ToSet(a \o b) \intersect Replacing = {}
    BY <2>1, PlainLists
  <2> QED
    BY <1>1, <2>2, <2>3
<1>12. Fine(fmFiles)
  <2> DEFINE a == cmsEntryTransformers
             b == <<"createMetadata", "extractImageMetadata", "copyFileToTarget">>
             o == Pipeline("FileManagerFiles", "isFmFile", a \o b)
  <2>1. /\ IsSeq(a) /\ ToSet(a) \intersect Replacing = {}
        /\ IsSeq(b) /\ ToSet(b) \intersect Replacing = {}
    <3>1. IsSeq(a) /\ ToSet(a) \intersect Replacing = {}
      BY TransformersAre, EntryListsPlain
    <3>2. IsSeq(b)
      BY ShortTuples
    <3>3. ToSet(b) \intersect Replacing = {}
      BY <1>4, ShortPlain
    <3> QED
      BY <3>1, <3>2, <3>3
  <2>2. fmFiles = [o EXCEPT !.processors = <<"DdbProcessor", "S3Processor">>]
    BY DEF fmFiles
  <2>4. fmFiles.transformers = o.transformers /\ fmFiles.scanner = o.scanner
    BY <2>2 DEF Pipeline
  <2> HIDE DEF a, b
  <2>3. IsSeq(a \o b) /\ ToSet(a \o b) \intersect Replacing = {}
    BY <2>1, PlainLists
  <2>5. Fine(o)
    BY <1>1, <2>3
  <2> QED
    BY <2>4, <2>5
<1>13. Fine(auditLogs(config))
  <2> DEFINE o == Pipeline("AuditLogs", "isAuditLogEntry", auditLogTransformers)
  <2>1. auditLogs(config).transformers = auditLogTransformers
        /\ auditLogs(config).scanner = "DdbScanner"
    BY DEF auditLogs, Pipeline
  <2>2. /\ Len(auditLogTransformers) = 3 /\ auditLogTransformers[1] = "coreFields"
        /\ auditLogTransformers[2] = "dataFields" /\ auditLogTransformers[3] = "storageShape"
    BY DEF auditLogTransformers
  <2>3. \A i : i \notin 4..3
    OBVIOUS
  <2>4. Placing(auditLogTransformers)
    BY <2>2, <2>3, TransformersAre DEF Placing, PlainFrom
  <2> QED
    BY <2>1, <2>4
<1>14. ASSUME NEW m \in Settings
       PROVE  Placing(<<"wrapInData", m, "removeAttributes">>)
  <2> DEFINE ts == <<"wrapInData", m, "removeAttributes">>
  <2>1. Len(ts) = 3 /\ ts[1] = "wrapInData" /\ ts[2] = m /\ ts[3] = "removeAttributes" /\ IsSeq(ts)
    BY ShortTuples
  <2> HIDE DEF ts
  <2>2. \A i \in 3..3 : i = 3
    OBVIOUS
  <2>3. PlainFrom(ts, 3)
    BY <1>4, <2>1, <2>2 DEF PlainFrom
  <2> QED
    BY <2>1, <2>3 DEF Placing, ts
<1>15. Fine(fmSettings) /\ Fine(mailerSettings)
  <2> DEFINE a == <<"wrapInData", "migrateFileManagerSettings", "removeAttributes">>
             b == <<"wrapInData", "migrateMailerSettings", "removeAttributes">>
  <2>1. Placing(a) /\ Placing(b)
    BY <1>14 DEF Settings
  <2> HIDE DEF a, b
  <2>2. fmSettings.transformers = a /\ fmSettings.scanner = "DdbScanner"
    BY PipelineFields DEF fmSettings, a
  <2>3. mailerSettings.transformers = b /\ mailerSettings.scanner = "DdbScanner"
    BY PipelineFields DEF mailerSettings, b
  <2> QED
    BY <2>1, <2>2, <2>3
<1> HIDE DEF Fine
<1>16. \A q \in {migrationRecords, auditLogs(config), acoSearchRecordsPage,
                 contentModelGroups, backgroundTasks, fmSettings, fmFiles, mailerSettings,
                 securityGroups, securityTeams, cmsModels, folderPermissions, cmsEntries,
                 adminUsers, formBuilderRecords} : Fine(q)
  BY <1>3, <1>5, <1>6, <1>7, <1>8, <1>9, <1>10, <1>11, <1>12, <1>13, <1>15
<1> QED
  BY <1>16 DEF Fine

\* Either the rows are those of the DynamoDB table, or no transformer makes another record.
LEMMA PresetForms ==
  ASSUME NEW config, NEW n \in DOMAIN builtIn(config)
  PROVE  LET ps == builtIn(config)[n].pipelines IN
         \/ \A i \in DOMAIN ps : ps[i].scanner = "DdbScanner" /\ Placing(ps[i].transformers)
         \/ \A i \in DOMAIN ps : IsSeq(ps[i].transformers) /\ PlainFrom(ps[i].transformers, 1)
<1> DEFINE Plain(t) == \A i \in DOMAIN t : IsSeq(t[i].transformers) /\ PlainFrom(t[i].transformers, 1)
<1>1. ASSUME NEW t, t = v5_to_v6_ddb(config)
      PROVE  \A i \in DOMAIN t : t[i].scanner = "DdbScanner" /\ Placing(t[i].transformers)
  <2>1. DOMAIN t = 1..15
    BY <1>1 DEF v5_to_v6_ddb
  <2>2. \A i \in 1..15 :
          t[i] \in {migrationRecords, auditLogs(config), acoSearchRecordsPage,
                    contentModelGroups, backgroundTasks, fmSettings, fmFiles, mailerSettings,
                    securityGroups, securityTeams, cmsModels, folderPermissions, cmsEntries,
                    adminUsers, formBuilderRecords}
    BY <1>1 DEF v5_to_v6_ddb
  <2> QED
    BY <2>1, <2>2, DdbForms
<1>2. ASSUME NEW ts, IsSeq(ts), ToSet(ts) \intersect Replacing = {}
      PROVE  IsSeq(ts) /\ PlainFrom(ts, 1)
  BY <1>2, PlainLists
<1>3. IsSeq(<< >>) /\ PlainFrom(<< >>, 1)
  <2>1. ToSet(<< >>) \intersect Replacing = {} /\ IsSeq(<< >>)
    BY EmptyIsSeq
  <2> QED
    BY <1>2, <2>1
<1>4. ASSUME NEW t, t = v5_to_v6_os PROVE Plain(t)
  <2> DEFINE o == osCmsEntryTransformers
             more == <<"addLiveField", "replaceFileUrls">>
             oo == o \o more
             a == InOs(Blackhole("AcoSearchRecords", "isAcoSearchRecord"))
             b == InOs(Blackhole("BackgroundTasks", "isOsBackgroundTask"))
             c == InOs(Blackhole("MailerSettings", "isOsMailerSettings"))
             f == InOs(Pipeline("FileManagerFiles", "isFmFile", o))
             e == InOs(Pipeline("CmsEntries", "isCmsEntry", oo))
  <2>1. t = <<a, b, c, f, e>>
    BY <1>4 DEF v5_to_v6_os
  <2>2. /\ a.transformers = << >> /\ b.transformers = << >> /\ c.transformers = << >>
        /\ f.transformers = o /\ e.transformers = oo
    <3>1. \A x, y : InOs(Blackhole(x, y)).transformers = << >>
      BY PipelineFields
    <3>2. \A x, y, ts : InOs(Pipeline(x, y, ts)).transformers = ts
      BY PipelineFields
    <3>3. a.transformers = << >> /\ b.transformers = << >> /\ c.transformers = << >>
      BY <3>1
    <3>4. f.transformers = o /\ e.transformers = oo
      BY <3>2
    <3> QED
      BY <3>3, <3>4
  <2> HIDE DEF a, b, c, f, e
  <2>3. IsSeq(o) /\ ToSet(o) \intersect Replacing = {}
    BY TransformersAre, EntryListsPlain
  <2>4. IsSeq(more) /\ ToSet(more) \intersect Replacing = {}
    <3>1. "addLiveField" \notin Replacing /\ "replaceFileUrls" \notin Replacing
      BY DEF Replacing
    <3> QED
      BY <3>1, ShortTuples, ShortPlain
  <2> HIDE DEF o, more
  <2>5. IsSeq(oo) /\ ToSet(oo) \intersect Replacing = {}
    BY <2>3, <2>4, PlainLists
  <2> HIDE DEF oo
  <2>6. IsSeq(o) /\ PlainFrom(o, 1) /\ IsSeq(oo) /\ PlainFrom(oo, 1)
    BY <1>2, <2>3, <2>5
  <2>7. \A i \in DOMAIN t : t[i] \in {a, b, c, f, e}
    BY <2>1
  <2> QED
    BY <1>3, <2>2, <2>6, <2>7
<1>5. ASSUME NEW t, t \in {copy_ddb, copy_os, copy_files} PROVE Plain(t)
  <2> DEFINE ts == <<"copyFileToTarget">>
             a == Everything("Regular DynamoDB Table Data")
             b == InOs(Everything("OpenSearch DynamoDB Table Data"))
             c == [Pipeline("S3 Files", "isFmFile", ts) EXCEPT
                     !.processors = <<"DdbProcessor", "S3Processor">>]
  <2>1. copy_ddb = <<a>> /\ copy_os = <<b>> /\ copy_files = <<c>>
    BY DEF copy_ddb, copy_os, copy_files
  <2>2. a.transformers = << >> /\ b.transformers = << >>
    BY PipelineFields
  <2>3. c.transformers = ts
    BY DEF Pipeline
  <2>4. IsSeq(ts) /\ ToSet(ts) \intersect Replacing = {}
    <3>1. "copyFileToTarget" \notin Replacing
      BY DEF Replacing
    <3> QED
      BY <3>1, ShortTuples, ShortPlain
  <2> HIDE DEF a, b, c, ts
  <2>5. IsSeq(ts) /\ PlainFrom(ts, 1)
    BY <1>2, <2>4
  <2>6. t \in {<<a>>, <<b>>, <<c>>}
    BY <1>5, <2>1
  <2>7. \A i \in DOMAIN t : t[i] \in {a, b, c}
    BY <2>6
  <2> QED
    BY <1>3, <2>2, <2>3, <2>5, <2>7
<1>6. n \in {"v5-to-v6-ddb", "v5-to-v6-os", "copy-ddb", "copy-os", "copy-files"}
  BY DEF builtIn
<1>7. builtIn(config)[n].pipelines \in
        {v5_to_v6_ddb(config), v5_to_v6_os, copy_ddb, copy_os, copy_files}
  BY <1>6 DEF builtIn, Preset
<1> DEFINE ps == builtIn(config)[n].pipelines
<1> HIDE DEF ps
<1> QED
  BY <1>1, <1>4, <1>5, <1>7 DEF ps

\* The name of settings in the key-value store.
SettingsName(f) == IF f = "isFmSettings" THEN "FileManager/General" ELSE "Mailer/Settings/Transport"

\* Where a row comes to be: where it was, or where its audit log or its settings belong.
Placed(row, out, fresh) ==
  \/ Stays(row, out)
  \/ IsKey(out.pk) /\ out.pk.space = "AUDIT_LOG" /\ out.sk = fresh
  \/ \E f \in {"isFmSettings", "isMailerSettings"} :
       /\ Passes(f, row) /\ IsKey(out.pk) /\ out.pk.space = "KV"
       /\ out.pk.tenant = TenantOf(wrapInData(row)) /\ out.pk.id = SettingsName(f)

\* And stays there.
LEMMA PlacedThen ==
  ASSUME NEW row, NEW r, NEW s, NEW fresh, Placed(row, r, fresh), Stays(r, s)
  PROVE  Placed(row, s, fresh)
<1>1. CASE Stays(row, r)
  BY <1>1, StaysThen DEF Placed
<1>2. CASE IsKey(r.pk) /\ r.pk.space = "AUDIT_LOG" /\ r.sk = fresh
  BY <1>2 DEF Placed, Stays
<1>3. ASSUME NEW f \in {"isFmSettings", "isMailerSettings"},
             Passes(f, row), IsKey(r.pk), r.pk.space = "KV",
             r.pk.tenant = TenantOf(wrapInData(row)), r.pk.id = SettingsName(f)
      PROVE  Placed(row, s, fresh)
  <2>1. IsKey(s.pk) /\ s.pk.space = "KV" /\ s.pk.tenant = r.pk.tenant /\ s.pk.id = r.pk.id
    BY <1>3 DEF Stays
  <2> QED
    BY <1>3, <2>1 DEF Placed
<1> QED
  BY <1>1, <1>2, <1>3 DEF Placed

\* An audit log gets a new id, and what has no creator stays.
LEMMA AuditPlaced ==
  ASSUME NEW c, IsContext(c), NEW env
  PROVE  LET one == Transform("coreFields", c, env)
             two == Transform("dataFields", one, env)
             three == Transform("storageShape", two, env)
         IN /\ IsContext(three)
            /\ Stays(c.record, three.record) \/ (/\ IsKey(three.record.pk)
                                                 /\ three.record.pk.space = "AUDIT_LOG"
                                                 /\ three.record.sk = env.fresh)
<1> DEFINE one == Transform("coreFields", c, env)
           two == Transform("dataFields", one, env)
           three == Transform("storageShape", two, env)
<1>1. /\ IsContext(one) /\ Stays(c.record, one.record)
      /\ Creator \subseteq Attrs(one.record) => "id" \in Attrs(one.record) /\ one.record.attrs.id = env.fresh
  <2> DEFINE new == [id |-> env.fresh, createdBy |-> "known", createdOn |-> "known",
                     expiresAt |-> "now + 60 days"]
             attrs == Over(new, c.record.attrs)
             r == [c.record EXCEPT !.attrs = attrs]
  <2>1. one = coreFieldsTransformer(c, env.fresh)
    BY DEF Transform
  <2>2. one.record = IF HasCreator(c.record) THEN r ELSE c.record
    BY <2>1 DEF coreFieldsTransformer, IsContext
  <2>3. IsContext(one) /\ Stays(c.record, one.record)
    <3>1. "coreFields" \notin Replacing
      BY DEF Replacing
    <3>2. IsContext(one)
      BY TransformStep DEF Goes
    <3>3. Stays(c.record, one.record)
      BY <3>1, TransformStays
    <3> QED
      BY <3>2, <3>3
  <2>4. "id" \in DOMAIN attrs /\ attrs.id = env.fresh
    <3>1. "id" \in DOMAIN new /\ new.id = env.fresh
      OBVIOUS
    <3> HIDE DEF new
    <3> QED
      BY <3>1 DEF Over
  <2> HIDE DEF attrs
  <2>5. r.attrs = attrs
    BY DEF IsContext, IsRecord
  <2> HIDE DEF r, one
  <2>6. CASE HasCreator(c.record)
    BY <2>2, <2>3, <2>4, <2>5, <2>6 DEF Attrs, one
  <2>7. CASE ~ HasCreator(c.record)
    BY <2>2, <2>3, <2>7 DEF HasCreator, one
  <2> QED
    BY <2>6, <2>7
<1> HIDE DEF one
<1>2. /\ IsContext(two) /\ Stays(one.record, two.record)
      /\ Rewrites({"entityId"}, one.record, two.record)
  <2>1. "dataFields" \notin Replacing /\ Touched("dataFields") = {"entityId"}
    BY DEF Replacing, Touched
  <2>2. Stays(one.record, two.record)
    BY <1>1, <2>1, TransformStays
  <2>3. Goes(one, two) /\ Rewrites({"entityId"}, one.record, two.record)
    BY <1>1, <2>1, TransformStep
  <2> QED
    BY <2>2, <2>3 DEF Goes
<1> HIDE DEF two
<1>3. Creator \subseteq Attrs(two.record) => two.record.attrs.id = env.fresh
  BY <1>1, <1>2 DEF Rewrites, KeptBut, Creator
<1>4. IsContext(three)
  BY <1>2, TransformStep DEF Goes
<1>5. three.record = storageShapeTransformer(two.record)
  <2>1. three = [two EXCEPT !.record = Rewritten("storageShape", two.record, env)]
    BY <1>2 DEF Transform, IsContext
  <2>2. Rewritten("storageShape", two.record, env) = storageShapeTransformer(two.record)
    BY DEF Rewritten
  <2>3. \A s : [two EXCEPT !.record = s].record = s
    BY <1>2 DEF IsContext
  <2> QED
    BY <2>1, <2>2, <2>3
<1>6. CASE Creator \subseteq Attrs(two.record)
  <2> DEFINE s == storageShapeTransformer(two.record)
  <2>1. s.pk = Key("AUDIT_LOG", two.record.attrs.tenant, "", "") /\ s.sk = two.record.attrs.id
    BY <1>6 DEF storageShapeTransformer, NewRecord
  <2> HIDE DEF s
  <2>2. IsKey(s.pk) /\ s.pk.space = "AUDIT_LOG"
    <3> DEFINE k == Key("AUDIT_LOG", two.record.attrs.tenant, "", "")
    <3>1. IsKey(k) /\ k.space = "AUDIT_LOG"
      BY DEF Key, IsKey
    <3> HIDE DEF k
    <3>2. s.pk = k
      BY <2>1 DEF k
    <3> QED
      BY <3>1, <3>2
  <2>3. three.record = s
    BY <1>5 DEF s
  <2> QED
    BY <1>3, <1>4, <1>6, <2>1, <2>2, <2>3 DEF three, two, one
<1>7. CASE ~ (Creator \subseteq Attrs(two.record))
  <2>1. three.record = two.record
    BY <1>5, <1>7 DEF storageShapeTransformer
  <2>2. Stays(c.record, three.record)
    BY <1>1, <1>2, <2>1, StaysThen
  <2> QED
    BY <1>4, <2>2 DEF three, two, one
<1> QED
  BY <1>6, <1>7

\* Settings go to the tenant that their row names.
LEMMA SettingsPlaced ==
  ASSUME NEW c, IsContext(c), c.original = c.record, NEW env, NEW m \in Settings, NEW fresh
  PROVE  LET one == Transform("wrapInData", c, env)
             two == Transform(m, one, env)
         IN IsContext(two) /\ Placed(c.record, two.record, fresh)
<1> DEFINE one == Transform("wrapInData", c, env)
           two == Transform(m, one, env)
           row == c.record
<1>1. /\ IsContext(one) /\ one.original = row /\ one.record = wrapInData(row)
      /\ Stays(row, one.record)
  <2>1. "wrapInData" \notin Replacing
    BY DEF Replacing
  <2>2. Goes(c, one)
    BY TransformStep
  <2>3. Stays(row, one.record)
    BY <2>1, TransformStays
  <2>4. one = [c EXCEPT !.record = wrapInData(row)]
    <3>1. Rewritten("wrapInData", row, env) = wrapInData(row)
      BY DEF Rewritten
    <3>2. one = [c EXCEPT !.record = Rewritten("wrapInData", row, env)]
      BY DEF Transform, IsContext
    <3> QED
      BY <3>1, <3>2
  <2>5. one.record = wrapInData(row)
    BY <2>4 DEF IsContext
  <2> QED
    BY <2>2, <2>3, <2>5 DEF Goes
<1> HIDE DEF one
<1>2. IsContext(two)
  BY <1>1, TransformStep DEF Goes
<1>3. ASSUME two.record = one.record PROVE Placed(row, two.record, fresh)
  BY <1>1, <1>3 DEF Placed
<1>4. CASE m = "migrateFileManagerSettings"
  <2> DEFINE value == Delete(one.record, {"tenant"}).attrs
             kv == KeyValue(TenantOf(one.record), "FileManager/General", value)
  <2>1. two = migrateFileManagerSettings(one)
    BY <1>4 DEF Transform
  <2>2. \/ two = one
        \/ one.original.type = "fm.settings" /\ two = [one EXCEPT !.record = kv]
    BY <2>1 DEF migrateFileManagerSettings
  <2> HIDE DEF value
  <2>3. kv.pk = Key("KV", TenantOf(one.record), "", "FileManager/General")
    BY KeyValueIs
  <2> HIDE DEF kv
  <2>4. [one EXCEPT !.record = kv].record = kv
    BY <1>1 DEF IsContext
  <2>5. ASSUME one.original.type = "fm.settings", two.record = kv PROVE Placed(row, two.record, fresh)
    <3>1. Passes("isFmSettings", row)
      BY <1>1, <2>5 DEF Passes, byType
    <3>2. IsKey(kv.pk) /\ kv.pk.space = "KV" /\ kv.pk.tenant = TenantOf(wrapInData(row))
          /\ kv.pk.id = SettingsName("isFmSettings")
      <4> DEFINE k == Key("KV", TenantOf(one.record), "", "FileManager/General")
      <4>1. /\ IsKey(k) /\ k.space = "KV" /\ k.tenant = TenantOf(one.record)
            /\ k.id = "FileManager/General"
        BY DEF Key, IsKey
      <4> HIDE DEF k
      <4>2. kv.pk = k
        BY <2>3 DEF k
      <4> QED
        BY <1>1, <4>1, <4>2 DEF SettingsName
    <3> QED
      BY <2>5, <3>1, <3>2 DEF Placed
  <2> HIDE DEF two
  <2> QED
    BY <1>2, <1>3, <2>2, <2>4, <2>5 DEF two, one
<1>5. CASE m = "migrateMailerSettings"
  <2> DEFINE o == one.original
             kv == KeyValue(TenantOf(one.record), "Mailer/Settings/Transport",
                            [values |-> one.record.attrs.values])
             Is == o.sk = "L" /\ AtRoot(o, "modelId") /\ o.attrs.modelId = "mailerSettings"
  <2>1. two = migrateMailerSettings(one)
    BY <1>5 DEF Transform
  <2>2. two = one \/ (Is /\ two = [one EXCEPT !.record = kv])
    BY <2>1 DEF migrateMailerSettings
  <2>3. kv.pk = Key("KV", TenantOf(one.record), "", "Mailer/Settings/Transport")
    BY KeyValueIs
  <2> HIDE DEF kv
  <2>4. [one EXCEPT !.record = kv].record = kv
    BY <1>1 DEF IsContext
  <2>5. ASSUME Is, two.record = kv PROVE Placed(row, two.record, fresh)
    <3>1. Passes("isMailerSettings", row)
      BY <1>1, <2>5 DEF Passes, RootModelId
    <3>2. IsKey(kv.pk) /\ kv.pk.space = "KV" /\ kv.pk.tenant = TenantOf(wrapInData(row))
          /\ kv.pk.id = SettingsName("isMailerSettings")
      <4> DEFINE k == Key("KV", TenantOf(one.record), "", "Mailer/Settings/Transport")
      <4>1. /\ IsKey(k) /\ k.space = "KV" /\ k.tenant = TenantOf(one.record)
            /\ k.id = "Mailer/Settings/Transport"
        BY DEF Key, IsKey
      <4> HIDE DEF k
      <4>2. kv.pk = k
        BY <2>3 DEF k
      <4> QED
        BY <1>1, <4>1, <4>2 DEF SettingsName
    <3> QED
      BY <2>5, <3>1, <3>2 DEF Placed
  <2> HIDE DEF two, Is
  <2> QED
    BY <1>2, <1>3, <2>2, <2>4, <2>5 DEF two, one
<1> QED
  BY <1>4, <1>5 DEF Settings

\* A row on its way through a pipeline comes to where it belongs.
LEMMA RowPlaced ==
  ASSUME NEW c, IsContext(c), c.original = c.record, NEW ts, Placing(ts), NEW env
  PROVE  LET d == AllTransforms(c, ts, env)
         IN /\ IsContext(d) /\ Placed(c.record, d.record, env.fresh)
            /\ PlainFrom(ts, 1) => Stays(c.record, d.record)
<1> DEFINE n == Len(ts)
           row == c.record
           d == AllTransforms(c, ts, env)
<1>1. n \in Nat /\ DOMAIN ts = 1..n
  BY SeqHas DEF Placing, IsSeq
<1>2. PICK x : Steps(x, n, "transform", c, ts, env) /\ x[n] = d
  BY <1>1, TransformSteps
<1>3. x[0] = c /\ \A i \in 1..n : x[i] = Transform(ts[i], x[i - 1], env)
  BY <1>2 DEF Steps, Act
<1> HIDE DEF d
<1>4. ASSUME NEW k \in 0..n, IsContext(x[k]), PlainFrom(ts, k + 1)
      PROVE  IsContext(d) /\ Stays(x[k].record, d.record)
  <2>1. \A i \in (k + 1)..n : ts[i] \notin Replacing
    BY <1>4 DEF PlainFrom
  <2>2. IsContext(x[n]) /\ Stays(x[k].record, x[n].record)
    BY <1>1, <1>2, <1>4, <2>1, StaysAlong
  <2> QED
    BY <1>2, <2>2
<1>5. PlainFrom(ts, 1) => IsContext(d) /\ Stays(row, d.record)
  <2>1. 0 \in 0..n /\ 0 + 1 = 1
    BY <1>1
  <2> QED
    BY <1>3, <1>4, <2>1
<1>6. CASE PlainFrom(ts, 1)
  BY <1>5, <1>6 DEF Placed, d
<1>7. CASE /\ Len(ts) >= 3 /\ PlainFrom(ts, 4)
           /\ ts[1] = "coreFields" /\ ts[2] = "dataFields" /\ ts[3] = "storageShape"
  <2>1. 1 \in 1..n /\ 2 \in 1..n /\ 3 \in 1..n /\ 3 \in 0..n /\ 3 + 1 = 4
        /\ 1 - 1 = 0 /\ 2 - 1 = 1 /\ 3 - 1 = 2
    BY <1>1, <1>7
  <2>2. x[1] = Transform("coreFields", c, env) /\ x[2] = Transform("dataFields", x[1], env)
        /\ x[3] = Transform("storageShape", x[2], env)
    BY <1>3, <1>7, <2>1
  <2>3. IsContext(x[3]) /\ Placed(row, x[3].record, env.fresh)
    BY <2>2, AuditPlaced DEF Placed
  <2>4. IsContext(d) /\ Stays(x[3].record, d.record)
    BY <1>4, <1>7, <2>1, <2>3
  <2> QED
    BY <1>5, <2>3, <2>4, PlacedThen DEF d
<1>8. CASE /\ Len(ts) >= 2 /\ PlainFrom(ts, 3)
           /\ ts[1] = "wrapInData" /\ ts[2] \in Settings
  <2>1. 1 \in 1..n /\ 2 \in 1..n /\ 2 \in 0..n /\ 2 + 1 = 3 /\ 1 - 1 = 0 /\ 2 - 1 = 1
    BY <1>1, <1>8
  <2>2. x[1] = Transform("wrapInData", c, env) /\ x[2] = Transform(ts[2], x[1], env)
    BY <1>3, <1>8, <2>1
  <2>3. IsContext(x[2]) /\ Placed(row, x[2].record, env.fresh)
    BY <1>8, <2>2, SettingsPlaced
  <2>4. IsContext(d) /\ Stays(x[2].record, d.record)
    BY <1>4, <1>8, <2>1, <2>3
  <2> QED
    BY <1>5, <2>3, <2>4, PlacedThen DEF d
<1> QED
  BY <1>6, <1>7, <1>8 DEF Placing

\* And what the processors add leaves it there.
THEOREM RowIsPlaced ==
  ASSUME NEW pipeline, Placing(pipeline.transformers), pipeline.processors \in Seq(Processors),
         NEW row, IsRecord(row), NEW env, NEW cache, NEW warned, NEW config
  PROVE  LET out == Converted(pipeline, row, env, cache, warned, config).record
         IN /\ Placed(row, out, env.fresh)
            /\ PlainFrom(pipeline.transformers, 1) => Stays(row, out)
<1> DEFINE b == NewContext(row, cache, warned)
           t == AllTransforms(b, pipeline.transformers, env)
           c == Converted(pipeline, row, env, cache, warned, config)
<1>1. IsContext(b) /\ b.record = row /\ b.original = row
  BY EmptyIsSeq DEF NewContext, NoCommands, IsContext, IsCommands
<1> HIDE DEF b
<1>2. /\ IsContext(t) /\ Placed(row, t.record, env.fresh)
      /\ PlainFrom(pipeline.transformers, 1) => Stays(row, t.record)
  BY <1>1, RowPlaced
<1> HIDE DEF t
<1>3. c = AllEnds(t, pipeline.processors, config)
  BY DEF Converted, t, b
<1> HIDE DEF c
<1>4. c.record = t.record
  BY <1>2, <1>3, Ended DEF Ends
<1> QED
  BY <1>2, <1>4 DEF c

\* What customizers may append keeps their forms.
LEMMA AssembledForms ==
  ASSUME NEW setup, GivesPipelines(setup), Assembles(setup),
         setup.asked \in DOMAIN builtIn(setup.config),
         \A c \in ToSet(setup.customizers) : ToSet(c.transformers) \intersect Replacing = {}
  PROVE  LET as == Assembled(setup) IN
         \/ \A i \in DOMAIN as : as[i].scanner = "DdbScanner" /\ Placing(as[i].transformers)
         \/ \A i \in DOMAIN as : Placing(as[i].transformers) /\ PlainFrom(as[i].transformers, 1)
<1> DEFINE ps == builtIn(setup.config)[setup.asked].pipelines
           as == Assembled(setup)
<1>1. /\ DOMAIN as = DOMAIN ps
      /\ \A i \in DOMAIN as :
           LET ts == ps[i].transformers
               us == as[i].transformers
           IN /\ as[i].scanner = ps[i].scanner
              /\ IsSeq(ts) /\ IsSeq(us) /\ Len(us) >= Len(ts)
              /\ \A k \in 1..Len(ts) : us[k] = ts[k]
              /\ \A k \in (Len(ts) + 1)..Len(us) : us[k] \notin Replacing
  BY AssembledExtends
<1>2. \/ \A i \in DOMAIN ps : ps[i].scanner = "DdbScanner" /\ Placing(ps[i].transformers)
      \/ \A i \in DOMAIN ps : IsSeq(ps[i].transformers) /\ PlainFrom(ps[i].transformers, 1)
  BY PresetForms
<1> HIDE DEF ps, as
<1>3. ASSUME NEW i \in DOMAIN as, Placing(ps[i].transformers)
      PROVE  /\ Placing(as[i].transformers)
             /\ PlainFrom(ps[i].transformers, 1) => PlainFrom(as[i].transformers, 1)
  BY <1>1, <1>3, MorePlaces
<1>4. \A ts : IsSeq(ts) /\ PlainFrom(ts, 1) => Placing(ts)
  BY DEF Placing
<1> QED
  BY <1>1, <1>2, <1>3, <1>4 DEF as

-----------------------------------------------------------------------------
(* Files *)

\* What the metadata of a file are made of.
FileAttrs == {"id", "text@name", "text@key", "tenant"}

\* The transformers that give a record another id, or make another one of it.
Unfiling == {"coreFields", "updateFlpIds"} \union Replacing

\* A record in its envelope that is the same file as w, or as little a file as w.
SameFile(w, r) ==
  /\ r.in = "data" /\ (HasFile(r) <=> HasFile(w))
  /\ \A a \in FileAttrs : /\ a \in Attrs(r) <=> a \in Attrs(w)
                          /\ a \in Attrs(w) => r.attrs[a] = w.attrs[a]

\* One file has one object in either bucket, and one description.
LEMMA SameMetadata ==
  ASSUME NEW w, w.in = "data", NEW r, SameFile(w, r)
  PROVE  /\ OldKey(r) = OldKey(w) /\ NewKey(r) = NewKey(w)
         /\ "text@key" \in Attrs(r) <=> "text@key" \in Attrs(w)
         /\ HasFile(w) => Metadata(r) = Metadata(w)
<1>1. /\ "text@key" \in Attrs(r) <=> "text@key" \in Attrs(w)
      /\ "text@key" \in Attrs(w) => r.attrs["text@key"] = w.attrs["text@key"]
  BY DEF SameFile, FileAttrs
<1>2. TenantOf(r) = TenantOf(w)
  BY DEF SameFile, FileAttrs, TenantOf, InData
<1>3. OldKey(r) = OldKey(w)
  BY <1>1 DEF OldKey
<1>4. NewKey(r) = NewKey(w)
  BY <1>2, <1>3 DEF NewKey
<1>5. HasFile(w) => r.attrs.id = w.attrs.id
  BY DEF HasFile, SameFile, FileAttrs
<1> QED
  BY <1>1, <1>2, <1>3, <1>4, <1>5 DEF Metadata

\* Any other transformer leaves the file as it is.
LEMMA FileStays ==
  ASSUME NEW c, IsContext(c), NEW w, SameFile(w, c.record), NEW name, name \notin Unfiling, NEW env
  PROVE  SameFile(w, Transform(name, c, env).record)
<1> DEFINE r == c.record
           s == Transform(name, c, env).record
<1>1. name \notin Replacing
  BY DEF Unfiling
<1>2. Rewrites(Touched(name), r, s) /\ Stays(r, s)
  BY <1>1, TransformStep, TransformStays
<1>3. Touched(name) \intersect FileAttrs = {}
  BY DEF Touched, FileAttrs, Unfiling
<1> HIDE DEF r, s
<1>4. \A a \in FileAttrs : /\ a \in Attrs(s) <=> a \in Attrs(r)
                           /\ a \in Attrs(r) => s.attrs[a] = r.attrs[a]
  BY <1>2, <1>3 DEF Rewrites, KeptBut
<1>5. s.type = "cms.entry.l" <=> r.type = "cms.entry.l"
  BY <1>2 DEF Stays
<1>6. HasFile(s) <=> HasFile(r)
  BY <1>4, <1>5 DEF HasFile, FileAttrs
<1>7. r.in = "data" => s.in = "data"
  BY <1>2 DEF Stays
<1> QED
  BY <1>4, <1>6, <1>7 DEF SameFile, r, s

\* Nothing is put, and what is to be copied still is.
PutsNothing(c, d) ==
  /\ d.commands["PUT_RECORD"] = c.commands["PUT_RECORD"]
  /\ ToSet(c.commands["S3_COPY"]) \subseteq ToSet(d.commands["S3_COPY"])

\* A transformer puts no record but createMetadata.
LEMMA TransformPuts ==
  ASSUME NEW c, IsContext(c), NEW name, name # "createMetadata", NEW env
  PROVE  PutsNothing(c, Transform(name, c, env))
<1> DEFINE d == Transform(name, c, env)
<1>1. ASSUME d.commands = c.commands PROVE PutsNothing(c, d)
  BY <1>1 DEF PutsNothing
<1>2. CASE name = "copyFileToTarget"
  <2> DEFINE k == OldKey(c.record)
             e == Emit(c, "S3_COPY", [from |-> k, to |-> k])
  <2>1. d \in {c, e}
    BY <1>2 DEF Transform, copyFileToTarget, CopyFile
  <2>2. "S3_COPY" \in CommandKeys /\ "PUT_RECORD" \in CommandKeys /\ "S3_COPY" # "PUT_RECORD"
    BY DEF CommandKeys
  <2>3. Adds(c, e, "S3_COPY", [from |-> k, to |-> k])
    BY <2>2, EmitContext
  <2> HIDE DEF d, e, k
  <2>4. PutsNothing(c, e)
    BY <2>2, <2>3 DEF Adds, PutsNothing
  <2>5. PutsNothing(c, c)
    BY DEF PutsNothing
  <2> QED
    BY <2>1, <2>4, <2>5 DEF d
<1>3. CASE name = "fixBrokenStorageKeys"
  BY <1>1, <1>3 DEF Transform, FixKeys, IsContext
<1>4. CASE name = "addLiveField"
  BY <1>1, <1>4 DEF Transform, addLiveField, IsContext
<1>5. CASE name = "transformModelGroup"
  <2> DEFINE With(v) == [c EXCEPT !.record = Set(c.record, "group", v)]
             slug == c.record.attrs.group.slug
             e == [With(slug) EXCEPT !.warned = @ \union {<<"group", c.record.attrs.group.id>>}]
  <2>1. d = transformModelGroup(c, env.source)
    BY <1>5 DEF Transform
  <2>2. d = c \/ (\E v : d = With(v)) \/ d = e
    BY <2>1 DEF transformModelGroup, IsContext
  <2>3. \A v : With(v).commands = c.commands
    BY DEF IsContext
  <2>4. e.commands = c.commands
    BY DEF IsContext
  <2> HIDE DEF With, e, slug, d
  <2>5. d.commands = c.commands
    BY <2>2, <2>3, <2>4
  <2> QED
    BY <1>1, <2>5 DEF d
<1>6. CASE name = "extractImageMetadata"
  <2> DEFINE r == Delete(c.record, {"object@meta"})
             key == resolveFileKeyFromDb(r, env.source)
             With(m) == [c EXCEPT !.record = Set(r, "object@metadata", m)]
             kept == [With(key) EXCEPT !.cache = Over(Only(ImageKey(r), key), @)]
  <2>1. d = extractImageMetadata(c, env)
    BY <1>6 DEF Transform
  <2>2. d = c \/ (\E m : d = With(m)) \/ d = kept
    BY <2>1 DEF extractImageMetadata
  <2> HIDE DEF r, key
  <2>3. \A m : With(m).commands = c.commands
    BY DEF IsContext
  <2>4. kept.commands = c.commands
    BY DEF IsContext
  <2> HIDE DEF With, kept, d
  <2>5. d.commands = c.commands
    BY <2>2, <2>3, <2>4
  <2> QED
    BY <1>1, <2>5 DEF d
<1>7. CASE name = "coreFields"
  BY <1>1, <1>7 DEF Transform, coreFieldsTransformer, IsContext
<1>8. CASE name = "migrateFileManagerSettings"
  BY <1>1, <1>8 DEF Transform, migrateFileManagerSettings, IsContext
<1>9. CASE name = "migrateMailerSettings"
  BY <1>1, <1>9 DEF Transform, migrateMailerSettings, IsContext
<1>10. CASE name = "transformRichText"
  BY <1>1, <1>10, RenderTextsContext DEF Transform
<1>11. CASE name \notin {"fixBrokenStorageKeys", "addLiveField", "transformModelGroup",
                         "extractImageMetadata", "copyFileToTarget", "coreFields",
                         "transformRichText", "migrateFileManagerSettings", "migrateMailerSettings"}
  BY <1>1, <1>11 DEF Transform, IsContext
<1> QED
  BY <1>2, <1>3, <1>4, <1>5, <1>6, <1>7, <1>8, <1>9, <1>10, <1>11

\* createMetadata puts the metadata of a file and has its object copied.
LEMMA MetadataPuts ==
  ASSUME NEW c, IsContext(c), c.record.in = "data"
  PROVE  LET r == c.record
             d == createMetadata(c)
         IN /\ d.record = r
            /\ ~ HasFile(r) => d = c
            /\ HasFile(r) =>
                 /\ ToSet(d.commands["PUT_RECORD"]) =
                      ToSet(c.commands["PUT_RECORD"]) \union {[record |-> Metadata(r)]}
                 /\ ToSet(c.commands["S3_COPY"]) \subseteq ToSet(d.commands["S3_COPY"])
                 /\ "text@key" \in Attrs(r) =>
                      [from |-> OldKey(r), to |-> NewKey(r)] \in ToSet(d.commands["S3_COPY"])
<1> DEFINE r == c.record
           d == createMetadata(c)
           copy == [from |-> OldKey(r), to |-> NewKey(r)]
           copied == IF "text@key" \in Attrs(r) THEN CopyFile(c, OldKey(r), NewKey(r)) ELSE c
           kv == [record |-> Metadata(r)]
<1>1. d.record = r
  BY MetadataContext
<1>2. ~ HasFile(r) => d = c
  BY DEF createMetadata
<1>3. ASSUME HasFile(r)
      PROVE  /\ ToSet(d.commands["PUT_RECORD"]) = ToSet(c.commands["PUT_RECORD"]) \union {kv}
             /\ ToSet(c.commands["S3_COPY"]) \subseteq ToSet(d.commands["S3_COPY"])
             /\ "text@key" \in Attrs(r) => copy \in ToSet(d.commands["S3_COPY"])
  <2>1. d = Emit(copied, "PUT_RECORD", kv)
    BY <1>3 DEF createMetadata, PutRecord
  <2>2. copied = IF "text@key" \in Attrs(r) THEN Emit(c, "S3_COPY", copy) ELSE c
    BY DEF CopyFile
  <2>3. "S3_COPY" \in CommandKeys /\ "PUT_RECORD" \in CommandKeys /\ "S3_COPY" # "PUT_RECORD"
    BY DEF CommandKeys
  <2> HIDE DEF d, kv, copy, copied
  <2>4. LET e == Emit(c, "S3_COPY", copy) IN IsContext(e) /\ Adds(c, e, "S3_COPY", copy)
    BY <2>3, EmitContext
  <2>5. /\ IsContext(copied) /\ copied.commands["PUT_RECORD"] = c.commands["PUT_RECORD"]
        /\ ToSet(c.commands["S3_COPY"]) \subseteq ToSet(copied.commands["S3_COPY"])
        /\ "text@key" \in Attrs(r) => copy \in ToSet(copied.commands["S3_COPY"])
    BY <2>2, <2>3, <2>4 DEF Adds
  <2>6. Adds(copied, d, "PUT_RECORD", kv)
    BY <2>1, <2>3, <2>5, EmitContext
  <2> QED
    BY <2>3, <2>5, <2>6 DEF Adds
<1> QED
  BY <1>1, <1>2, <1>3

\* A list of transformers that makes metadata of files.
FileTransformers(ts) ==
  /\ IsSeq(ts) /\ Len(ts) >= 1 /\ ts[1] = "wrapInData"
  /\ "createMetadata" \in ToSet(ts) /\ ToSet(ts) \intersect Unfiling = {}

\* What is to be put are the metadata of w.
Describes(c, w) ==
  \A put \in ToSet(c.commands["PUT_RECORD"]) : HasFile(w) /\ put = [record |-> Metadata(w)]

\* The metadata of w are to be put, and its object to be copied.
Described(c, w) ==
  HasFile(w) =>
    /\ [record |-> Metadata(w)] \in ToSet(c.commands["PUT_RECORD"])
    /\ "text@key" \in Attrs(w) =>
         [from |-> OldKey(w), to |-> NewKey(w)] \in ToSet(c.commands["S3_COPY"])

\* One transformer of such a list.
LEMMA DescribesStep ==
  ASSUME NEW w, w.in = "data", NEW c, IsContext(c), SameFile(w, c.record), Describes(c, w),
         NEW name, name \notin Unfiling, NEW env
  PROVE  LET d == Transform(name, c, env)
         IN /\ IsContext(d) /\ SameFile(w, d.record) /\ Describes(d, w)
            /\ Described(c, w) \/ name = "createMetadata" => Described(d, w)
<1> DEFINE d == Transform(name, c, env)
           r == c.record
<1>1. IsContext(d) /\ SameFile(w, d.record)
  BY TransformStep, FileStays DEF Goes
<1>2. CASE name # "createMetadata"
  <2>1. PutsNothing(c, d)
    BY <1>2, TransformPuts
  <2> HIDE DEF d
  <2> QED
    BY <1>1, <1>2, <2>1 DEF PutsNothing, Describes, Described, d
<1>3. CASE name = "createMetadata"
  <2>1. d = createMetadata(c)
    BY <1>3 DEF Transform
  <2>2. r.in = "data" /\ (HasFile(r) <=> HasFile(w))
    BY DEF SameFile
  <2>3. /\ OldKey(r) = OldKey(w) /\ NewKey(r) = NewKey(w)
        /\ "text@key" \in Attrs(r) <=> "text@key" \in Attrs(w)
        /\ HasFile(w) => Metadata(r) = Metadata(w)
    BY SameMetadata
  <2>4. CASE ~ HasFile(w)
    <3>1. d = c
      BY <2>1, <2>2, <2>4, MetadataPuts
    <3> QED
      BY <1>1, <2>4, <3>1 DEF Described
  <2>5. CASE HasFile(w)
    <3>1. /\ ToSet(d.commands["PUT_RECORD"]) =
               ToSet(c.commands["PUT_RECORD"]) \union {[record |-> Metadata(w)]}
          /\ "text@key" \in Attrs(w) =>
               [from |-> OldKey(w), to |-> NewKey(w)] \in ToSet(d.commands["S3_COPY"])
      BY <2>1, <2>2, <2>3, <2>5, MetadataPuts
    <3> HIDE DEF d
    <3> QED
      BY <1>1, <2>5, <3>1 DEF Describes, Described, d
  <2> QED
    BY <2>4, <2>5
<1> QED
  BY <1>2, <1>3

\* All of them.
LEMMA FileTransformed ==
  ASSUME NEW ts, FileTransformers(ts), NEW c, IsContext(c), ToSet(c.commands["PUT_RECORD"]) = {},
         NEW env
  PROVE  LET w == wrapInData(c.record)
             d == AllTransforms(c, ts, env)
         IN IsContext(d) /\ SameFile(w, d.record) /\ Describes(d, w) /\ Described(d, w)
<1> DEFINE n == Len(ts)
           w == wrapInData(c.record)
<1>1. n \in Nat /\ n >= 1 /\ DOMAIN ts = 1..n /\ 1 \in 1..n
  BY SeqHas DEF FileTransformers, IsSeq
<1>2. PICK x : Steps(x, n, "transform", c, ts, env) /\ x[n] = AllTransforms(c, ts, env)
  BY <1>1, TransformSteps
<1>3. PICK m \in 1..n : ts[m] = "createMetadata"
  BY <1>1 DEF FileTransformers, ToSet
<1>4. \A i \in 1..n : ts[i] \notin Unfiling
  BY <1>1 DEF FileTransformers, ToSet
<1>5. w.in = "data" /\ IsRecord(w) /\ w.attrs = c.record.attrs /\ w.type = c.record.type
  BY DEF wrapInData, IsContext, IsRecord
<1> DEFINE Fine(i) == /\ IsContext(x[i]) /\ SameFile(w, x[i].record) /\ Describes(x[i], w)
                      /\ m <= i => Described(x[i], w)
           S == {i \in Nat : i + 1 <= n => Fine(i + 1)}
<1>6. 0 \in S
  <2>1. x[1] = Transform("wrapInData", c, env)
    <3>1. x[1] = Transform(ts[1], x[1 - 1], env) /\ x[0] = c /\ 1 - 1 = 0
      BY <1>1, <1>2 DEF Steps, Act
    <3> QED
      BY <3>1 DEF FileTransformers
  <2>2. x[1] = [c EXCEPT !.record = w]
    <3>1. x[1] = [c EXCEPT !.record = Rewritten("wrapInData", c.record, env)]
      BY <2>1 DEF Transform, IsContext
    <3>2. Rewritten("wrapInData", c.record, env) = w
      BY DEF Rewritten
    <3> HIDE DEF w
    <3> QED
      BY <3>1, <3>2
  <2>3. Goes(c, x[1]) /\ x[1].record = w /\ x[1].commands = c.commands
    BY <1>5, <2>2, SameButRecord
  <2>4. SameFile(w, w)
    BY <1>5 DEF SameFile
  <2>5. ~ m <= 1
    <3>1. m # 1
      BY <1>3 DEF FileTransformers
    <3> QED
      BY <3>1
  <2>6. Fine(1)
    BY <2>3, <2>4, <2>5 DEF Goes, Describes
  <2> QED
    BY <2>6
<1>7. ASSUME NEW i \in S PROVE i + 1 \in S
  <2>1. SUFFICES ASSUME i + 1 + 1 <= n PROVE Fine(i + 1 + 1)
    OBVIOUS
  <2> DEFINE j == i + 1
  <2>2. /\ i \in Nat /\ j \in Nat /\ j + 1 \in 1..n /\ j + 1 - 1 = j /\ j <= n
        /\ m <= j + 1 => m <= j \/ m = j + 1
    BY <1>1, <2>1
  <2>3. Fine(j)
    BY <2>2
  <2> HIDE DEF j
  <2>4. x[j + 1] = Transform(ts[j + 1], x[j], env) /\ ts[j + 1] \notin Unfiling
    BY <1>2, <1>4, <2>2 DEF Steps, Act
  <2> HIDE DEF w
  <2>5. /\ IsContext(x[j + 1]) /\ SameFile(w, x[j + 1].record) /\ Describes(x[j + 1], w)
        /\ Described(x[j], w) \/ ts[j + 1] = "createMetadata" => Described(x[j + 1], w)
    BY <1>5, <2>3, <2>4, DescribesStep
  <2>6. m <= j + 1 => Described(x[j + 1], w)
    BY <1>3, <2>2, <2>3, <2>5
  <2>7. Fine(j + 1)
    BY <2>5, <2>6
  <2> QED
    BY <2>7 DEF j
<1>8. S = Nat
  <2>1. S \in SUBSET Nat
    OBVIOUS
  <2> HIDE DEF S
  <2> QED
    BY <1>6, <1>7, <2>1, SetInduction
<1>9. n - 1 \in Nat /\ n - 1 + 1 = n /\ n <= n /\ m <= n
  BY <1>1
<1>10. Fine(n)
  <2>1. n - 1 \in S
    BY <1>8, <1>9
  <2> QED
    BY <1>9, <2>1
<1> QED
  BY <1>2, <1>9, <1>10

\* What is to be put is the record itself, or the metadata of w.
PutsOnly(c, w) ==
  \A put \in ToSet(c.commands["PUT_RECORD"]) :
    put.record = c.record \/ (HasFile(w) /\ put.record = Metadata(w))

\* createMetadata and its siblings: whatever the pipeline holds besides them, the record that a file
\* becomes is the same file; its metadata are to be put and name the object that is to be
\* copied, and no other metadata are put.
THEOREM FileIsDescribed ==
  ASSUME NEW pipeline, FileTransformers(pipeline.transformers),
         pipeline.processors \in Seq(Processors),
         NEW row, IsRecord(row), NEW env, NEW cache, NEW warned, NEW config
  PROVE  LET w == wrapInData(row)
             c == Converted(pipeline, row, env, cache, warned, config)
         IN SameFile(w, c.record) /\ Described(c, w) /\ PutsOnly(c, w)
<1> DEFINE b == NewContext(row, cache, warned)
           t == AllTransforms(b, pipeline.transformers, env)
           w == wrapInData(row)
           c == Converted(pipeline, row, env, cache, warned, config)
<1>1. "PUT_RECORD" \in CommandKeys /\ "S3_COPY" \in CommandKeys
  BY DEF CommandKeys
<1>2. IsContext(b) /\ b.record = row /\ ToSet(b.commands["PUT_RECORD"]) = {}
  BY <1>1, EmptyIsSeq DEF NewContext, NoCommands, IsContext, IsCommands
<1> HIDE DEF b
<1>3. IsContext(t) /\ SameFile(w, t.record) /\ Describes(t, w) /\ Described(t, w)
  BY <1>2, FileTransformed
<1> HIDE DEF t
<1>4. c = AllEnds(t, pipeline.processors, config)
  BY DEF Converted, t, b
<1> HIDE DEF c, w
<1>5. Ends(t, c)
  BY <1>3, <1>4, Ended
<1>6. SameFile(w, c.record) /\ c.record = t.record
  BY <1>3, <1>5 DEF Ends
<1>7. Described(c, w)
  <2>1. ToSet(t.commands["PUT_RECORD"]) \subseteq ToSet(c.commands["PUT_RECORD"])
        /\ ToSet(t.commands["S3_COPY"]) \subseteq ToSet(c.commands["S3_COPY"])
    BY <1>1, <1>5 DEF Ends
  <2> QED
    BY <1>3, <2>1 DEF Described
<1>8. ASSUME NEW put \in ToSet(c.commands["PUT_RECORD"])
      PROVE  put.record = c.record \/ (HasFile(w) /\ put.record = Metadata(w))
  <2>1. put \in ToSet(t.commands["PUT_RECORD"]) \/ put = [record |-> t.record]
    BY <1>1, <1>5 DEF Ends
  <2>2. put = [record |-> t.record] => put.record = c.record
    BY <1>6
  <2>3. put \in ToSet(t.commands["PUT_RECORD"]) => HasFile(w) /\ put.record = Metadata(w)
    BY <1>3 DEF Describes
  <2> QED
    BY <2>1, <2>2, <2>3
<1> QED
  BY <1>6, <1>7, <1>8 DEF c, w, PutsOnly

\* Transformers without createMetadata put nothing.
LEMMA PutsNothingAlong ==
  ASSUME NEW ts, IsSeq(ts), "createMetadata" \notin ToSet(ts), NEW c, IsContext(c), NEW env
  PROVE  LET d == AllTransforms(c, ts, env)
         IN IsContext(d) /\ d.commands["PUT_RECORD"] = c.commands["PUT_RECORD"]
<1> DEFINE n == Len(ts)
<1>1. n \in Nat /\ DOMAIN ts = 1..n
  BY SeqHas DEF IsSeq
<1>2. PICK x : Steps(x, n, "transform", c, ts, env) /\ x[n] = AllTransforms(c, ts, env)
  BY <1>1, TransformSteps
<1>3. \A i \in 1..n : ts[i] # "createMetadata"
  BY <1>1 DEF ToSet
<1> DEFINE Fine(i) == IsContext(x[i]) /\ x[i].commands["PUT_RECORD"] = c.commands["PUT_RECORD"]
           S == {i \in Nat : i <= n => Fine(i)}
<1>4. 0 \in S
  BY <1>2 DEF Steps
<1>5. ASSUME NEW i \in S PROVE i + 1 \in S
  <2>1. SUFFICES ASSUME i + 1 <= n PROVE Fine(i + 1)
    OBVIOUS
  <2>2. i \in Nat /\ i + 1 \in 1..n /\ i + 1 - 1 = i /\ i <= n
    BY <1>1, <2>1
  <2>3. Fine(i)
    BY <2>2
  <2>4. x[i + 1] = Transform(ts[i + 1], x[i], env) /\ ts[i + 1] # "createMetadata"
    BY <1>2, <1>3, <2>2 DEF Steps, Act
  <2>5. IsContext(x[i + 1])
    BY <2>3, <2>4, TransformStep DEF Goes
  <2>6. PutsNothing(x[i], x[i + 1])
    BY <2>3, <2>4, TransformPuts
  <2> QED
    BY <2>3, <2>5, <2>6 DEF PutsNothing
<1>6. S = Nat
  <2>1. S \in SUBSET Nat
    OBVIOUS
  <2> HIDE DEF S
  <2> QED
    BY <1>4, <1>5, <2>1, SetInduction
<1>7. n \in S /\ n <= n
  BY <1>1, <1>6
<1> QED
  BY <1>2, <1>7

\* So that the records other pipelines put are the rows they convert.
LEMMA OthersPutRows ==
  ASSUME NEW pipeline, IsSeq(pipeline.transformers),
         "createMetadata" \notin ToSet(pipeline.transformers),
         pipeline.processors \in Seq(Processors),
         NEW row, IsRecord(row), NEW env, NEW cache, NEW warned, NEW config
  PROVE  LET c == Converted(pipeline, row, env, cache, warned, config)
         IN \A put \in ToSet(c.commands["PUT_RECORD"]) : put.record = c.record
<1> DEFINE b == NewContext(row, cache, warned)
           t == AllTransforms(b, pipeline.transformers, env)
           c == Converted(pipeline, row, env, cache, warned, config)
<1>1. "PUT_RECORD" \in CommandKeys
  BY DEF CommandKeys
<1>2. IsContext(b) /\ ToSet(b.commands["PUT_RECORD"]) = {}
  BY <1>1, EmptyIsSeq DEF NewContext, NoCommands, IsContext, IsCommands
<1> HIDE DEF b
<1>3. IsContext(t) /\ t.commands["PUT_RECORD"] = b.commands["PUT_RECORD"]
  BY <1>2, PutsNothingAlong
<1> HIDE DEF t
<1>4. c = AllEnds(t, pipeline.processors, config)
  BY DEF Converted, t, b
<1> HIDE DEF c
<1>5. Ends(t, c)
  BY <1>3, <1>4, Ended
<1>6. \A put \in ToSet(c.commands["PUT_RECORD"]) : put = [record |-> t.record]
  BY <1>1, <1>2, <1>3, <1>5 DEF Ends
<1> QED
  BY <1>5, <1>6 DEF Ends, c

\* The pipeline of files makes their metadata and copies their objects; no other pipeline
\* makes metadata.
FileForm(q) ==
  IF q.name = "FileManagerFiles"
  THEN FileTransformers(q.transformers) /\ q.processors = <<"DdbProcessor", "S3Processor">>
  ELSE IsSeq(q.transformers) /\ "createMetadata" \notin ToSet(q.transformers)

\* The transformers of entries leave files what they are.
LEMMA EntryListKeepsFiles ==
  /\ IsSeq(cmsEntryTransformers) /\ Len(cmsEntryTransformers) = 9
  /\ cmsEntryTransformers[1] = "wrapInData"
  /\ "createMetadata" \notin ToSet(cmsEntryTransformers)
  /\ ToSet(cmsEntryTransformers) \intersect Unfiling = {}
<1> DEFINE t == cmsEntryTransformers
<1>1. DOMAIN t = 1..9 /\ Len(t) = 9
  BY DEF cmsEntryTransformers
<1>2. \A i \in 1..9 : i \in {1, 2, 3, 4, 5, 6, 7, 8, 9}
  OBVIOUS
<1>3. /\ t[1] = "wrapInData" /\ t[2] = "addGsiTenant" /\ t[3] = "removeLocale" /\ t[4] = "fixCmePk"
      /\ t[5] = "fixBrokenStorageKeys" /\ t[6] = "transformRichText" /\ t[7] = "updateModelIds"
      /\ t[8] = "removeFolderRevision" /\ t[9] = "removeAttributes"
  BY DEF cmsEntryTransformers
<1>4. IsSeq(t)
  BY TransformersAre
<1> HIDE DEF t
<1>5. ToSet(t) = {"wrapInData", "addGsiTenant", "removeLocale", "fixCmePk", "fixBrokenStorageKeys",
                  "transformRichText", "updateModelIds", "removeFolderRevision", "removeAttributes"}
  BY <1>1, <1>2, <1>3 DEF ToSet
<1>6. "createMetadata" \notin ToSet(t) /\ ToSet(t) \intersect Unfiling = {}
  BY <1>5 DEF Unfiling, Replacing
<1> QED
  BY <1>1, <1>3, <1>4, <1>6 DEF t

\* The pipelines of the DynamoDB preset are of that form.
LEMMA DdbFiles ==
  ASSUME NEW config
  PROVE  \A q \in {migrationRecords, auditLogs(config), acoSearchRecordsPage,
                   contentModelGroups, backgroundTasks, fmSettings, fmFiles, mailerSettings,
                   securityGroups, securityTeams, cmsModels, folderPermissions, cmsEntries,
                   adminUsers, formBuilderRecords} : FileForm(q)
<1>1. ASSUME NEW name, name # "FileManagerFiles", NEW filter, NEW ts, IsSeq(ts),
             "createMetadata" \notin ToSet(ts)
      PROVE  FileForm(Pipeline(name, filter, ts))
  <2>1. Pipeline(name, filter, ts).transformers = ts /\ Pipeline(name, filter, ts).name = name
    BY PipelineFields
  <2> QED
    BY <1>1, <2>1 DEF FileForm
<1>2. ASSUME NEW name, name # "FileManagerFiles", NEW filter
      PROVE  FileForm(Blackhole(name, filter))
  <2>1. IsSeq(<< >>) /\ ToSet(<< >>) = {}
    BY EmptyIsSeq
  <2>2. Blackhole(name, filter).transformers = << >> /\ Blackhole(name, filter).name = name
    BY PipelineFields
  <2> QED
    BY <1>2, <2>1, <2>2 DEF FileForm
<1>3. FileForm(migrationRecords) /\ FileForm(acoSearchRecordsPage)
  BY <1>2 DEF migrationRecords, acoSearchRecordsPage
<1>4. FileForm(backgroundTasks) /\ FileForm(formBuilderRecords)
  BY <1>2 DEF backgroundTasks, formBuilderRecords
<1>5. FileForm(adminUsers)
  BY <1>1, EmptyIsSeq DEF adminUsers
<1>6. FileForm(contentModelGroups)
  <2> DEFINE ts == <<"wrapInData", "addGsiTenant", "removeLocale", "removeAttributes">>
  <2>1. IsSeq(ts)
    BY ShortTuples
  <2>2. "createMetadata" \notin ToSet(ts)
    BY DEF ToSet
  <2> HIDE DEF ts
  <2> QED
    BY <1>1, <2>1, <2>2 DEF contentModelGroups, ts
<1>7. FileForm(fmSettings)
  <2> DEFINE ts == <<"wrapInData", "migrateFileManagerSettings", "removeAttributes">>
  <2>1. IsSeq(ts)
    BY ShortTuples
  <2>2. "createMetadata" \notin ToSet(ts)
    BY DEF ToSet
  <2> HIDE DEF ts
  <2> QED
    BY <1>1, <2>1, <2>2 DEF fmSettings, ts
<1>8. FileForm(mailerSettings)
  <2> DEFINE ts == <<"wrapInData", "migrateMailerSettings", "removeAttributes">>
  <2>1. IsSeq(ts)
    BY ShortTuples
  <2>2. "createMetadata" \notin ToSet(ts)
    BY DEF ToSet
  <2> HIDE DEF ts
  <2> QED
    BY <1>1, <2>1, <2>2 DEF mailerSettings, ts
<1>9. FileForm(securityGroups)
  <2> DEFINE ts == <<"wrapInData", "addGsiTenant", "groupsToRoles", "transformPermissions",
                     "removeAttributes">>
  <2>1. IsSeq(ts)
    BY ShortTuples
  <2>2. "createMetadata" \notin ToSet(ts)
    BY DEF ToSet
  <2> HIDE DEF ts
  <2> QED
    BY <1>1, <2>1, <2>2 DEF securityGroups, ts
<1>10. FileForm(securityTeams)
  <2> DEFINE ts == <<"wrapInData", "addGsiTenant", "removeAttributes">>
  <2>1. IsSeq(ts)
    BY ShortTuples
  <2>2. "createMetadata" \notin ToSet(ts)
    BY DEF ToSet
  <2> HIDE DEF ts
  <2> QED
    BY <1>1, <2>1, <2>2 DEF securityTeams, ts
<1>11. FileForm(cmsModels)
  <2> DEFINE ts == <<"wrapInData", "addGsiTenant", "removeLocale", "transformModelGroup",
                     "renameFieldAttributes", "removeAttributes">>
  <2>1. IsSeq(ts)
    BY ShortTuples
  <2>2. "createMetadata" \notin ToSet(ts)
    BY DEF ToSet
  <2> HIDE DEF ts
  <2> QED
    BY <1>1, <2>1, <2>2 DEF cmsModels, ts
<1>12. FileForm(folderPermissions)
  <2> DEFINE ts == <<"wrapInData", "addGsiTenant", "removeLocale", "removeAttributes",
                     "updateFlpIds">>
  <2>1. IsSeq(ts)
    BY ShortTuples
  <2>2. "createMetadata" \notin ToSet(ts)
    BY DEF ToSet
  <2> HIDE DEF ts
  <2> QED
    BY <1>1, <2>1, <2>2 DEF folderPermissions, ts
<1>13. FileForm(cmsEntries)
  <2> DEFINE t == cmsEntryTransformers
             more == <<"addLiveField", "replaceFileUrls">>
             all == t \o more
  <2>1. IsSeq(t) /\ "createMetadata" \notin ToSet(t)
    BY EntryListKeepsFiles
  <2>2. IsSeq(more)
    BY ShortTuples
  <2>3. "createMetadata" \notin ToSet(more)
    BY DEF ToSet
  <2>4. cmsEntries = Pipeline("CmsEntries", "isCmsEntry", all)
    BY DEF cmsEntries
  <2> HIDE DEF t, more
  <2>5. IsSeq(all) /\ ToSet(all) = ToSet(t) \union ToSet(more)
    BY <2>1, <2>2, ConcatIsSeq
  <2> HIDE DEF all
  <2> QED
    BY <1>1, <2>1, <2>3, <2>4, <2>5
<1>14. FileForm(auditLogs(config))
  <2>1. auditLogs(config).transformers = auditLogTransformers
        /\ auditLogs(config).name = "AuditLogs"
    BY DEF auditLogs, Pipeline
  <2>2. "createMetadata" \notin ToSet(auditLogTransformers)
    BY DEF auditLogTransformers, ToSet
  <2> QED
    BY <2>1, <2>2, TransformersAre DEF FileForm
<1>15. FileForm(fmFiles)
  <2> DEFINE t == cmsEntryTransformers
             more == <<"createMetadata", "extractImageMetadata", "copyFileToTarget">>
             all == t \o more
             o == Pipeline("FileManagerFiles", "isFmFile", all)
  <2>1. /\ IsSeq(t) /\ Len(t) = 9 /\ t[1] = "wrapInData" /\ ToSet(t) \intersect Unfiling = {}
    BY EntryListKeepsFiles
  <2>2. IsSeq(more)
    BY ShortTuples
  <2>3. ToSet(more) = {"createMetadata", "extractImageMetadata", "copyFileToTarget"}
    <3>1. DOMAIN more = 1..3 /\ \A i \in 1..3 : i \in {1, 2, 3}
      OBVIOUS
    <3>2. more[1] = "createMetadata" /\ more[2] = "extractImageMetadata" /\ more[3] = "copyFileToTarget"
      OBVIOUS
    <3> HIDE DEF more
    <3> QED
      BY <3>1, <3>2 DEF ToSet
  <2>4. fmFiles = [o EXCEPT !.processors = <<"DdbProcessor", "S3Processor">>]
    BY DEF fmFiles
  <2> HIDE DEF t, more
  <2>5. /\ IsSeq(all) /\ ToSet(all) = ToSet(t) \union ToSet(more)
        /\ Len(all) = Len(t) + Len(more) /\ \A i \in 1..Len(t) : all[i] = t[i]
    <3>1. IsSeq(t) /\ IsSeq(more)
      BY <2>1, <2>2
    <3> QED
      BY ONLY <3>1, ConcatIsSeq
  <2>6. Len(more) \in Nat
    BY <2>2, SeqHas DEF IsSeq
  <2> HIDE DEF all
  <2>7. FileTransformers(all)
    <3>1. Len(all) >= 1 /\ all[1] = "wrapInData"
      BY <2>1, <2>5, <2>6
    <3>2. "createMetadata" \in ToSet(all) /\ ToSet(all) \intersect Unfiling = {}
      BY <2>1, <2>3, <2>5 DEF Unfiling, Replacing
    <3> QED
      BY <2>5, <3>1, <3>2 DEF FileTransformers
  <2>8. /\ fmFiles.name = "FileManagerFiles" /\ fmFiles.transformers = all
        /\ fmFiles.processors = <<"DdbProcessor", "S3Processor">>
    BY <2>4 DEF Pipeline
  <2> QED
    BY <2>7, <2>8 DEF FileForm
<1> QED
  BY <1>3, <1>4, <1>5, <1>6, <1>7, <1>8, <1>9, <1>10, <1>11, <1>12, <1>13, <1>14, <1>15

\* And stay so with what customizers may append.
LEMMA AssembledFiles ==
  ASSUME NEW setup, GivesPipelines(setup), Assembles(setup), setup.asked = "v5-to-v6-ddb",
         \A c \in ToSet(setup.customizers) :
           ToSet(c.transformers) \intersect ({"createMetadata"} \union Unfiling) = {}
  PROVE  LET as == Assembled(setup)
         IN \A i \in DOMAIN as : as[i].scanner = "DdbScanner" /\ FileForm(as[i])
<1> DEFINE b == builtIn(setup.config)
           ps == b[setup.asked].pipelines
           as == Assembled(setup)
<1>1. setup.asked \in DOMAIN b /\ ps = v5_to_v6_ddb(setup.config)
  BY DEF builtIn, Preset
<1>2. /\ DOMAIN as = DOMAIN ps
      /\ \A i \in DOMAIN as :
           LET ts == ps[i].transformers
               us == as[i].transformers
           IN /\ as[i].name = ps[i].name /\ as[i].scanner = ps[i].scanner
              /\ as[i].processors = ps[i].processors
              /\ IsSeq(ts) /\ IsSeq(us) /\ Len(us) >= Len(ts)
              /\ \A k \in 1..Len(ts) : us[k] = ts[k]
              /\ \A k \in (Len(ts) + 1)..Len(us) : us[k] \notin {"createMetadata"} \union Unfiling
  <2>1. ASSUME NEW i \in DOMAIN as
        PROVE  LET ts == ps[i].transformers
                   us == as[i].transformers
               IN /\ as[i].name = ps[i].name /\ as[i].scanner = ps[i].scanner
                  /\ as[i].processors = ps[i].processors
                  /\ IsSeq(ts) /\ IsSeq(us) /\ Len(us) >= Len(ts)
                  /\ \A k \in 1..Len(ts) : us[k] = ts[k]
                  /\ \A k \in (Len(ts) + 1)..Len(us) :
                       \E c \in ToSet(setup.customizers) :
                         ps[i].name \in c.uses /\ us[k] \in ToSet(c.transformers)
    BY <1>1, AssembledExtends
  <2>2. \A c \in ToSet(setup.customizers) : \A x :
          x \in ToSet(c.transformers) => x \notin {"createMetadata"} \union Unfiling
    OBVIOUS
  <2>3. DOMAIN as = DOMAIN ps
    BY <1>1, AssembledExtends
  <2> HIDE DEF as, ps, b
  <2> QED
    BY <2>1, <2>2, <2>3
<1>3. \A i \in DOMAIN ps : ps[i].scanner = "DdbScanner" /\ FileForm(ps[i])
  <2> DEFINE t == v5_to_v6_ddb(setup.config)
             All == {migrationRecords, auditLogs(setup.config), acoSearchRecordsPage,
                     contentModelGroups, backgroundTasks, fmSettings, fmFiles, mailerSettings,
                     securityGroups, securityTeams, cmsModels, folderPermissions, cmsEntries,
                     adminUsers, formBuilderRecords}
  <2>1. DOMAIN t = 1..15
    BY DEF v5_to_v6_ddb
  <2>2. \A i \in 1..15 : t[i] \in All
    BY DEF v5_to_v6_ddb
  <2>3. \A q \in All : q.scanner = "DdbScanner" /\ FileForm(q)
    BY DdbForms, DdbFiles
  <2> HIDE DEF t, All
  <2>4. \A i \in DOMAIN t : t[i].scanner = "DdbScanner" /\ FileForm(t[i])
    BY <2>1, <2>2, <2>3
  <2> QED
    BY <1>1, <2>4 DEF t
<1> HIDE DEF as, ps, b
<1> SUFFICES ASSUME NEW i \in DOMAIN as PROVE as[i].scanner = "DdbScanner" /\ FileForm(as[i])
  BY DEF as
<1> DEFINE ts == ps[i].transformers
           us == as[i].transformers
<1>4. /\ as[i].name = ps[i].name /\ as[i].scanner = "DdbScanner" /\ FileForm(ps[i])
      /\ as[i].processors = ps[i].processors
      /\ IsSeq(ts) /\ IsSeq(us) /\ Len(us) >= Len(ts)
      /\ \A k \in 1..Len(ts) : us[k] = ts[k]
      /\ \A k \in (Len(ts) + 1)..Len(us) : us[k] \notin {"createMetadata"} \union Unfiling
  BY <1>2, <1>3
<1> HIDE DEF ts, us
<1>5. /\ Len(ts) \in Nat /\ DOMAIN ts = 1..Len(ts) /\ Len(us) \in Nat /\ DOMAIN us = 1..Len(us)
  BY <1>4, SeqHas DEF IsSeq
<1>6. ToSet(ts) \subseteq ToSet(us)
      /\ \A x \in ToSet(us) : x \in ToSet(ts) \/ x \notin {"createMetadata"} \union Unfiling
  <2>1. \A k \in 1..Len(ts) : k \in 1..Len(us)
    BY <1>4, <1>5
  <2>2. \A k \in 1..Len(us) : k \in 1..Len(ts) \/ k \in (Len(ts) + 1)..Len(us)
    BY <1>5
  <2> QED
    BY <1>4, <1>5, <2>1, <2>2 DEF ToSet
<1>7. CASE ps[i].name = "FileManagerFiles"
  <2>1. FileTransformers(ts) /\ ps[i].processors = <<"DdbProcessor", "S3Processor">>
    BY <1>4, <1>7 DEF FileForm, ts
  <2>2. Len(us) >= 1 /\ us[1] = "wrapInData"
    <3>1. Len(ts) >= 1 /\ ts[1] = "wrapInData"
      BY <2>1 DEF FileTransformers
    <3> QED
      BY <1>4, <1>5, <3>1
  <2>3. FileTransformers(us)
    BY <1>4, <1>6, <2>1, <2>2 DEF FileTransformers
  <2> QED
    BY <1>4, <1>7, <2>1, <2>3 DEF FileForm, us
<1>8. CASE ps[i].name # "FileManagerFiles"
  <2>1. "createMetadata" \notin ToSet(ts)
    BY <1>4, <1>8 DEF FileForm, ts
  <2> QED
    BY <1>4, <1>6, <1>8, <2>1 DEF FileForm, us
<1> QED
  BY <1>7, <1>8
==============================================================================

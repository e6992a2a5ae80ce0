--------------------------------- MODULE Assembly ---------------------------------
(***************************************************************************)
(* How a worker gets its pipelines: the preset is found (PresetLoader,     *)
(* over the names the wizard lists), its pipelines are built with what     *)
(* customizers add to them (PipelineBuilderFactory, PipelineBuilder) and   *)
(* registered (PipelineRunner.register).                                   *)
(*                                                                         *)
(* setup is what a run is given: [asked, user, files, registered,          *)
(* customizers, config, ...].  A preset file is [name, described,          *)
(* configures, pipelines]; user holds those of presetsDir by file name,    *)
(* files those at a path.  A customizer is [name, uses, filters,           *)
(* transformers].                                                          *)
(***************************************************************************)
EXTENDS Presets, SequencesExt

CustomizerType ==
  [name : STRING, uses : SUBSET STRING, filters : SUBSET STRING, transformers : Seq(STRING)]

Preset(name, pipelines) ==
  [name |-> name, described |-> TRUE, configures |-> TRUE, pipelines |-> pipelines]

builtIn(config) ==
  [n \in {"v5-to-v6-ddb", "v5-to-v6-os", "copy-ddb", "copy-os", "copy-files"} |->
     Preset(n, CASE n = "v5-to-v6-ddb" -> v5_to_v6_ddb(config)
                 [] n = "v5-to-v6-os" -> v5_to_v6_os
                 [] n = "copy-ddb" -> copy_ddb
                 [] n = "copy-os" -> copy_os
                 [] n = "copy-files" -> copy_files)]

\* listAvailablePresetsWithDescriptions: what the wizard offers are the names the
\* files export.
ListedPresets(setup) ==
  {builtIn(setup.config)[n].name : n \in DOMAIN builtIn(setup.config)} \union
  {setup.user[n].name : n \in {u \in DOMAIN setup.user : setup.user[u].name # ""}}

\* resolvePresetPath: what is loaded is found by the name of its file, a built-in
\* one first.
Known(setup) ==
  setup.asked \in DOMAIN builtIn(setup.config) \union DOMAIN setup.user \union DOMAIN setup.files

resolvePresetPath(setup) ==
  Over(builtIn(setup.config), Over(setup.user, setup.files))[setup.asked]

IsPreset(preset) == preset.name # "" /\ preset.described /\ preset.configures

Loads(setup) == Known(setup) /\ IsPreset(resolvePresetPath(setup))

-----------------------------------------------------------------------------
(* Building *)

\* PipelineBuilderFactory.create finds the scanner and every processor.
CanCreate(pipeline, setup) ==
  {pipeline.scanner} \union ToSet(pipeline.processors) \subseteq setup.registered

CustomizersOf(name, setup) == {c \in ToSet(setup.customizers) : name \in c.uses}

Extended(transformers, c, name) ==
  IF name \in c.uses THEN transformers \o c.transformers ELSE transformers

AllExtended(transformers, customizers, name) ==
  FoldLeft(LAMBDA ts, c : Extended(ts, c, name), transformers, customizers)

build(pipeline, setup) ==
  [pipeline EXCEPT
     !.filters = @ \union UNION {c.filters : c \in CustomizersOf(pipeline.name, setup)},
     !.transformers = AllExtended(@, setup.customizers, pipeline.name)]

warnUnmatchedCustomizers(pipelines, setup) ==
  {<<"customizer", c.name>> :
     c \in {x \in ToSet(setup.customizers) : \A p \in ToSet(pipelines) : p.name \notin x.uses}}

\* register takes a name once.
NamesUnique(pipelines) ==
  \A i, j \in DOMAIN pipelines : pipelines[i].name = pipelines[j].name => i = j

Assembles(setup) ==
  LET pipelines == resolvePresetPath(setup).pipelines
  IN Loads(setup) /\ (\A p \in ToSet(pipelines) : CanCreate(p, setup)) /\ NamesUnique(pipelines)

Assembled(setup) ==
  [n \in DOMAIN resolvePresetPath(setup).pipelines |->
     build(resolvePresetPath(setup).pipelines[n], setup)]

-----------------------------------------------------------------------------
(* Running *)

MergeGroups(pipelines) == {p.scanner : p \in ToSet(pipelines)}

\* runInternal and runSingleShard: one merge group, and as many shards as the
\* orchestrator counted.
CanRun(pipelines, setup) ==
  Cardinality(MergeGroups(pipelines)) <= 1 /\ setup.config.segments = setup.total

\* collectProcessorOrder: each processor at its first place.
Once(order, processor) ==
  IF processor \in ToSet(order) THEN order ELSE Append(order, processor)

AllOnce(order, processors) == FoldLeft(Once, order, processors)

collectProcessorOrder(pipelines) ==
  FoldLeft(LAMBDA order, p : AllOnce(order, p.processors), << >>, pipelines)

\* The first pipeline that accepts a record; none is 0.
Claims(pipelines, r) == {n \in DOMAIN pipelines : Accepts(pipelines[n], r)}
Claim(pipelines, r) ==
  IF Claims(pipelines, r) = {} THEN 0
  ELSE CHOOSE n \in Claims(pipelines, r) : \A m \in Claims(pipelines, r) : n <= m
==============================================================================

---------------------------- MODULE TwinRegistry ----------------------------
(***************************************************************************)
(* The entity registry of transform_to_twin_v3.py: scan_transformations    *)
(* walks the config.json files under main/transformation (rglob order,     *)
(* which nothing fixes) and, per file, records a transformation and, via   *)
(* _track_table, its tables, buckets, sources and lineage edges.           *)
(*                                                                         *)
(* One step visits one config file and performs the whole loop body,       *)
(* every _track_table call included.  A config file is a record:           *)
(*   path    - the directories below main/transformation, ending with the  *)
(*             directory that holds config.json;                           *)
(*   meta    - the parsed meta.json, a function whose domain holds the     *)
(*             keys present ({} when the file is absent);                  *)
(*   inputs  - storage.input.tables[*].source, "" where the key is absent; *)
(*   outputs - storage.output.tables[*].destination, likewise.             *)
(* description.md, original_path and the "dependencies" lists (always     *)
(* equal to input_tables/output_tables) are left out: no property reads    *)
(* them.                                                                   *)
(***************************************************************************)
EXTENDS TwinNames

\* Every config file a project could hold; a run picks any subset of them.
CONSTANT ConfigUniverse

\* The script version's classifiers: infer_source_from_bucket, the platform
\* detection of a component id, and the test that skips a config directory.
CONSTANTS InferSource(_), Platform(_), SkipConfig(_)

VARIABLES
  configFiles,     \* the config.json files of the project being converted
  pending,         \* those the rglob loop has not visited yet
  tables,          \* self.tables: (bucket, table) -> table record
  tableKeys,       \* insertion order of self.tables
  transformations, \* self.transformations: transform id -> record
  transformKeys,   \* insertion order of self.transformations
  graph_edges,     \* self.graph_edges
  buckets,         \* self.buckets: cleaned bucket name -> [tables, source]
  sources          \* self.sources: source tag -> [buckets, table_count]

registryVars == <<tables, tableKeys, transformations, transformKeys,
                  graph_edges, buckets, sources>>
scanVars == <<configFiles, pending, registryVars>>

Registry == [tables |-> tables, tableKeys |-> tableKeys,
             transformations |-> transformations, transformKeys |-> transformKeys,
             graph_edges |-> graph_edges, buckets |-> buckets, sources |-> sources]

SetRegistry(st) ==
  /\ tables' = st.tables
  /\ tableKeys' = st.tableKeys
  /\ transformations' = st.transformations
  /\ transformKeys' = st.transformKeys
  /\ graph_edges' = st.graph_edges
  /\ buckets' = st.buckets
  /\ sources' = st.sources

MetaGet(meta, key, default) == IF key \in DOMAIN meta THEN meta[key] ELSE default

TableUid(bucket, table) == "table:" \o bucket \o "/" \o table
TransformUid(name) == "transform:" \o name

\* The directories from the working directory down to the config's directory.
FullPath(f) == <<"main", "transformation">> \o f.path

-----------------------------------------------------------------------------
(***************************************************************************)
(* _track_table                                                            *)
(***************************************************************************)
NewTable(bucket, table) ==
  [uid |-> TableUid(bucket, table), name |-> table, bucket |-> bucket,
   bucket_clean |-> BucketClean(bucket),
   source |-> InferSource(bucket),
   consumed_by |-> <<>>, produced_by |-> <<>>]

\* Variant: the `if not source` test inverted.
AddBucketTableInverted(bs, clean, table, source) ==
  LET old == IF clean \in DOMAIN bs THEN bs[clean] ELSE [tables |-> <<>>, source |-> None]
  IN clean :> [tables |-> Append(old.tables, table),
               source |-> IF Truthy(old.source) THEN source ELSE old.source] @@ bs

\* self.buckets[bucket_clean]: a defaultdict entry {'tables': [], 'source':
\* None}; the table name is appended and the source set while falsy.
AddBucketTable(bs, clean, table, source) ==
  LET old == IF clean \in DOMAIN bs THEN bs[clean] ELSE [tables |-> <<>>, source |-> None]
  IN clean :> [tables |-> Append(old.tables, table),
               source |-> IF Truthy(old.source) THEN old.source ELSE source] @@ bs

\* self.sources[source]: buckets.add(bucket_clean); table_count += 1
AddSourceTable(ss, source, clean) ==
  LET old == IF source \in DOMAIN ss THEN ss[source] ELSE [buckets |-> {}, table_count |-> 0]
  IN source :> [buckets |-> old.buckets \cup {clean},
                table_count |-> old.table_count + 1] @@ ss

\* The (bucket, table) of each reference that names a table, in order.
TrackedKeys(refs) ==
  LET ps == [i \in DOMAIN refs |-> ParseTableReference(refs[i])]
      ok == SelectSeq([i \in DOMAIN ps |-> i], LAMBDA i : IsTracked(ps[i]))
  IN [j \in DOMAIN ok |-> <<ps[ok[j]].bucket, ps[ok[j]].table>>]

\* Parsing and classifying depend on the strings only: computed once.
RefKeysOf == [f \in ConfigUniverse |->
                [d \in {"input", "output"} |->
                   TrackedKeys(IF d = "input" THEN f.inputs ELSE f.outputs)]]

\* The record of every table a project can reference, computed once.
NewTableOf ==
  LET keys == UNION {Range(RefKeysOf[f][d]) : f \in ConfigUniverse, d \in {"input", "output"}}
  IN [k \in keys |-> NewTable(k[1], k[2])]

\* The `if table_key not in self.tables:` branch.
RegisterTable(st, key) ==
  LET register(t) ==
        [st EXCEPT !.tables = key :> t @@ @,
                   !.tableKeys = Append(@, key),
                   !.buckets = AddBucketTable(@, t.bucket_clean, t.name, t.source),
                   !.sources = AddSourceTable(@, t.source, t.bucket_clean)]
  IN register(NewTableOf[key])

\* Variant: an edge already in graph_edges is not appended again (the
\* de-duplication spec.md section 9 leaves open).
TrackTableDedupEdges(st, bucket, table, tid, direction) ==
  LET key == <<bucket, table>>
      uid == TableUid(bucket, table)
      s1  == IF key \in DOMAIN st.tables THEN st ELSE RegisterTable(st, key)
      edge == IF direction = "input"
              THEN [source |-> uid, target |-> tid, type |-> "consumed_by"]
              ELSE [source |-> tid, target |-> uid, type |-> "produces"]
      s2  == [s1 EXCEPT !.graph_edges = IF edge \in Range(@) THEN @ ELSE Append(@, edge)]
  IN IF direction = "input"
     THEN [s2 EXCEPT !.tables[key].consumed_by = Append(@, tid),
                     !.transformations[tid].input_tables = Append(@, uid)]
     ELSE [s2 EXCEPT !.tables[key].produced_by = Append(@, tid),
                     !.transformations[tid].output_tables = Append(@, uid)]

\* Variant: the source's table_count bumped on every reference, not only
\* when the table is new.
TrackTableCountsEveryRef(st, bucket, table, tid, direction) ==
  LET key == <<bucket, table>>
      uid == TableUid(bucket, table)
      s0  == IF key \in DOMAIN st.tables THEN st ELSE RegisterTable(st, key)
      t   == s0.tables[key]
      s1  == IF key \in DOMAIN st.tables
             THEN [s0 EXCEPT !.sources = AddSourceTable(@, t.source, t.bucket_clean)]
             ELSE s0
  IN IF direction = "input"
     THEN [s1 EXCEPT !.tables[key].consumed_by = Append(@, tid),
                     !.transformations[tid].input_tables = Append(@, uid),
                     !.graph_edges = Append(@, [source |-> uid, target |-> tid,
                                                type |-> "consumed_by"])]
     ELSE [s1 EXCEPT !.tables[key].produced_by = Append(@, tid),
                     !.transformations[tid].output_tables = Append(@, uid),
                     !.graph_edges = Append(@, [source |-> tid, target |-> uid,
                                                type |-> "produces"])]

\* Variant: the `if table_key not in self.tables` guard dropped.
TrackTableNoGuard(st, bucket, table, tid, direction) ==
  LET key == <<bucket, table>>
      uid == TableUid(bucket, table)
      s1  == [RegisterTable(st, key) EXCEPT !.tableKeys = IF key \in Range(st.tableKeys)
                                                          THEN st.tableKeys ELSE @]
  IN IF direction = "input"
     THEN [s1 EXCEPT !.tables[key].consumed_by = Append(@, tid),
                     !.transformations[tid].input_tables = Append(@, uid),
                     !.graph_edges = Append(@, [source |-> uid, target |-> tid,
                                                type |-> "consumed_by"])]
     ELSE [s1 EXCEPT !.tables[key].produced_by = Append(@, tid),
                     !.transformations[tid].output_tables = Append(@, uid),
                     !.graph_edges = Append(@, [source |-> tid, target |-> uid,
                                                type |-> "produces"])]

TrackTable(st, bucket, table, tid, direction) ==
  LET key == <<bucket, table>>
      uid == TableUid(bucket, table)
      track(s1) ==
        IF direction = "input"
        THEN [s1 EXCEPT !.tables[key].consumed_by = Append(@, tid),
                        !.transformations[tid].input_tables = Append(@, uid),
                        !.graph_edges = Append(@, [source |-> uid, target |-> tid,
                                                   type |-> "consumed_by"])]
        ELSE [s1 EXCEPT !.tables[key].produced_by = Append(@, tid),
                        !.transformations[tid].output_tables = Append(@, uid),
                        !.graph_edges = Append(@, [source |-> tid, target |-> uid,
                                                   type |-> "produces"])]
  IN track(IF key \in DOMAIN st.tables THEN st ELSE RegisterTable(st, key))

TrackRefs(st, keys, tid, direction) ==
  FoldLeft(LAMBDA acc, k : TrackTable(acc, k[1], k[2], tid, direction), st, keys)

-----------------------------------------------------------------------------
(***************************************************************************)
(* scan_transformations: one loop iteration per config file.               *)
(***************************************************************************)
NewTransformation(f) ==
  LET p == FullPath(f)
      name == p[Len(p)]
      cid == p[Len(p) - 1]
  IN [name |-> MetaGet(f.meta, "name", name), platform |-> Platform(cid),
      component_id |-> cid, is_disabled |-> MetaGet(f.meta, "isDisabled", FALSE),
      input_tables |-> <<>>, output_tables |-> <<>>]

NewTransformationOf == [f \in ConfigUniverse |-> NewTransformation(f)]

\* The `# Skip variables` test of each config file.
SkipOf == [f \in ConfigUniverse |-> SkipConfig(f.path)]

\* The registry after one loop iteration.  self.transformations[transform_id]
\* = {...}: a re-used id keeps its place in the dict and loses its earlier
\* entry; then the input mappings are tracked, then the output mappings.
ScannedRegistry(f) ==
  LET tid == TransformUid(Last(f.path))
      st0 == [Registry EXCEPT
                !.transformations = tid :> NewTransformationOf[f] @@ @,
                !.transformKeys = IF tid \in DOMAIN transformations THEN @
                                  ELSE Append(@, tid)]
  IN TrackRefs(TrackRefs(st0, RefKeysOf[f]["input"], tid, "input"), RefKeysOf[f]["output"], tid, "output")

\* (The new registry is bound with \E over a one-element set so that TLC
\* computes it once also where it evaluates ENABLED for fairness.)
ScanTransformation(f) ==
  /\ f \in pending
  /\ ~SkipOf[f]
  /\ pending' = pending \ {f}
  /\ \E st \in {ScannedRegistry(f)} : SetRegistry(st)
  /\ UNCHANGED configFiles

SkipVariables(f) ==
  /\ f \in pending
  /\ SkipOf[f]
  /\ pending' = pending \ {f}
  /\ UNCHANGED <<configFiles, registryVars>>

\* A project: config files at distinct paths.
Projects == {P \in SUBSET ConfigUniverse :
               \A f, g \in P : f.path = g.path => f = g}

ScanInit ==
  /\ configFiles \in Projects
  /\ pending = configFiles
  /\ tables = <<>> /\ tableKeys = <<>>
  /\ transformations = <<>> /\ transformKeys = <<>>
  /\ graph_edges = <<>> /\ buckets = <<>> /\ sources = <<>>

ScanNext == \E f \in pending : ScanTransformation(f) \/ SkipVariables(f)

ScanDone == pending = {}

-----------------------------------------------------------------------------
(***************************************************************************)
(* Properties of the registry.                                             *)
(***************************************************************************)
RegistryTypeOK ==
  /\ configFiles \subseteq ConfigUniverse
  /\ pending \subseteq configFiles
  /\ IsInjective(tableKeys) /\ Range(tableKeys) = DOMAIN tables
  /\ IsInjective(transformKeys) /\ Range(transformKeys) = DOMAIN transformations
  /\ \A k \in DOMAIN tables :
       /\ tables[k].source \in STRING
       /\ Range(tables[k].consumed_by) \cup Range(tables[k].produced_by)
            \subseteq DOMAIN transformations
  /\ \A e \in Range(graph_edges) : e.type \in {"consumed_by", "produces"}
  /\ \A c \in DOMAIN buckets : buckets[c].source \in {tables[k].source : k \in DOMAIN tables}
  /\ \A s \in DOMAIN sources : sources[s].table_count \in Nat

Occurrences(seq, x) == Cardinality({i \in DOMAIN seq : seq[i] = x})

\* The visited, non-skipped config directories whose loop iteration used id x.
VisitedDirsOf(x) ==
  {f \in configFiles \ pending : ~SkipOf[f] /\ TransformUid(Last(f.path)) = x}

\* The tables graph.jsonl says x consumes, and produces, in edge order.
EdgeInputs(x) ==
  LET es == SelectSeq(graph_edges, LAMBDA e : e.target = x /\ e.type = "consumed_by")
  IN [i \in DOMAIN es |-> es[i].source]
EdgeOutputs(x) ==
  LET es == SelectSeq(graph_edges, LAMBDA e : e.source = x /\ e.type = "produces")
  IN [i \in DOMAIN es |-> es[i].target]

\* The lineage is recorded three times by _track_table: as a graph edge, in
\* the table's consumed_by/produced_by and in the transformation's
\* input_tables/output_tables.  The edges and the tables' lists agree,
\* multiplicities included, whatever order the config files are visited
\* in.  A transformation's lists are the last run of its edges: all of them
\* while one directory has its id, and only the latest directory's after a
\* second one with the same name reset the entry (scan_transformations'
\* self.transformations[transform_id] = {...}); the earlier edges stay in
\* graph.jsonl and in the tables' lists.
LineageConsistent ==
  /\ \A k \in DOMAIN tables, x \in DOMAIN transformations :
       LET uid == tables[k].uid
       IN /\ Occurrences(graph_edges, [source |-> uid, target |-> x, type |-> "consumed_by"])
               = Occurrences(tables[k].consumed_by, x)
          /\ Occurrences(graph_edges, [source |-> x, target |-> uid, type |-> "produces"])
               = Occurrences(tables[k].produced_by, x)
  /\ \A x \in DOMAIN transformations :
       /\ IsSuffix(transformations[x].input_tables, EdgeInputs(x))
       /\ IsSuffix(transformations[x].output_tables, EdgeOutputs(x))
       /\ Cardinality(VisitedDirsOf(x)) = 1 =>
            /\ transformations[x].input_tables = EdgeInputs(x)
            /\ transformations[x].output_tables = EdgeOutputs(x)

\* The per-source aggregates kept incrementally in self.sources and the
\* per-bucket table lists in self.buckets match what the table entries say:
\* a source counts exactly the tables inferred for it, lists exactly their
\* cleaned buckets, and a cleaned bucket lists each table name once per
\* distinct table filed under it.
AggregatesAgree ==
  /\ DOMAIN sources = {tables[k].source : k \in DOMAIN tables}
  /\ \A s \in DOMAIN sources :
       LET ks == {k \in DOMAIN tables : tables[k].source = s}
       IN /\ sources[s].table_count = Cardinality(ks)
          /\ sources[s].buckets = {tables[k].bucket_clean : k \in ks}
  /\ DOMAIN buckets = {tables[k].bucket_clean : k \in DOMAIN tables}
  /\ \A c \in DOMAIN buckets :
       \A n \in Range(buckets[c].tables) \cup {tables[k].name : k \in DOMAIN tables} :
         Occurrences(buckets[c].tables, n)
           = Cardinality({k \in DOMAIN tables : tables[k].bucket_clean = c /\ tables[k].name = n})

\* A table is created once: a later reference to the same (bucket, table)
\* never replaces its entry, its consumed_by/produced_by lists only grow at
\* the end, and the edge list and table order are append-only.
TableEntriesStable ==
  [][/\ \A k \in DOMAIN tables :
          /\ k \in DOMAIN tables'
          /\ tables'[k].uid = tables[k].uid
          /\ tables'[k].source = tables[k].source
          /\ IsPrefix(tables[k].consumed_by, tables'[k].consumed_by)
          /\ IsPrefix(tables[k].produced_by, tables'[k].produced_by)
     /\ IsPrefix(tableKeys, tableKeys')
     /\ IsPrefix(graph_edges, graph_edges')]_registryVars

-----------------------------------------------------------------------------
(***************************************************************************)
(* The registry implements the abstract lineage specification: the config *)
(* files visited are the records ingested, and graph_edges, with its keys  *)
(* renamed, is the lineage graph.                                          *)
(***************************************************************************)
EdgesAsLineage(es) ==
  [i \in DOMAIN es |-> [from |-> es[i].source, to |-> es[i].target, type |-> es[i].type]]

Lineage == INSTANCE TwinLineage
             WITH Records <- ConfigUniverse, ExcludesVariables <- TRUE,
                  project <- configFiles, ingested <- configFiles \ pending,
                  edges <- EdgesAsLineage(graph_edges)

\* The scan builds the lineage graph spec.md describes, and visits every
\* config file: each visit of scan_transformations appends exactly one edge
\* per valid reference, inputs before outputs, nothing for a variables
\* directory, and rglob's loop reaches every file.
LineageRefinement == Lineage!LineageSpec

-----------------------------------------------------------------------------
(***************************************************************************)
(* What spec.md says of the registry, checked against the code.            *)
(***************************************************************************)
\* spec.md section 3: "exactly one Transformation entity per distinct
\* configuration directory" (variables excluded).  The code keys the entry
\* by the directory's own name only (transform:{transform_name}).
OneTransformationPerDirectory ==
  Cardinality(DOMAIN transformations)
    = Cardinality({f \in configFiles \ pending : ~IsVariablesConfig(f.path)})

\* spec.md section 3: the cleaned bucket name is the bucket name with the
\* conventional "c-" prefix stripped (section 8: c-shopify -> shopify).
BucketCleanStripsPrefix ==
  \A k \in DOMAIN tables :
    tables[k].bucket_clean = IF StartsWith(k[1], "c-") THEN SubSeq(k[1], 3, Len(k[1]))
                             ELSE k[1]

\* spec.md section 4.2, Source Inference: a bucket that matches no pattern
\* gets "storage-input" or "storage-output" from the reference's stage, and
\* "unknown" only when the stage is neither; every reference of the model
\* has stage "in" or "out", so no table is tagged "unknown".
SourceFallsBackToStage ==
  \A k \in DOMAIN tables : tables[k].source # "unknown"

=============================================================================

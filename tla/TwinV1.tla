------------------------------- MODULE TwinV1 -------------------------------
(***************************************************************************)
(* The first transformer, transform_to_twin.py: scan_transformations then   *)
(* create_twin_structure, with no API calls.  Its registry is smaller than *)
(* v3's: tables is a set of (bucket, table) pairs, a transformation keeps  *)
(* only its name, component, disabled flag and table lists, and an edge is *)
(* {from, to, rel}.  No config directory is skipped.                       *)
(*                                                                         *)
(* create_twin_structure writes, in this order, one directory per table    *)
(* (sorted by (bucket, table), named by the cleaned bucket and the table), *)
(* one per transformation (dict order, named by the sanitized display      *)
(* name), graph.jsonl and the root files.  The state keeps what those      *)
(* files say about identity: the uid in each model.json and the edges.     *)
(* brief.md text, manifest.yaml and README.md are left out.                *)
(***************************************************************************)
EXTENDS TwinNames

CONSTANT ConfigUniverse

VARIABLES
  configFiles,      \* the config.json files of the project
  pending,          \* those the rglob loop has not visited yet
  tables,           \* self.tables: a set of (bucket, table)
  transformations,  \* self.transformations: transform id -> record
  transformKeys,    \* insertion order of self.transformations
  graph_edges,      \* self.graph_edges
  twin              \* the files written, None until create_twin_structure

v1Vars == <<configFiles, pending, tables, transformations, transformKeys, graph_edges, twin>>

TableIdV1(bucket, table) == "table:" \o bucket \o "/" \o table

MetaGetV1(meta, key, default) == IF key \in DOMAIN meta THEN meta[key] ELSE default

-----------------------------------------------------------------------------
\* Variant: the output loop appends its edge with the input loop's rel.
TrackRefV1CopiedRel(st, ref, tid, direction) ==
  LET p == ParseTableReference(ref)
      uid == TableIdV1(p.bucket, p.table)
      list == IF direction = "input" THEN "input_tables" ELSE "output_tables"
      edge == IF direction = "input" THEN [from |-> uid, to |-> tid, rel |-> "consumed_by"]
              ELSE [from |-> tid, to |-> uid, rel |-> "consumed_by"]
  IN IF ~IsTracked(p) THEN st
     ELSE [st EXCEPT !.tables = @ \cup {<<p.bucket, p.table>>},
                     !.transformations[tid][list] = Append(@, uid),
                     !.graph_edges = Append(@, edge)]

\* One iteration of the input or the output loop: parse the reference and,
\* if bucket and table are set, record the table, the table id in the
\* transformation's list and the edge.
TrackRefV1(st, ref, tid, direction) ==
  LET p == ParseTableReference(ref)
      uid == TableIdV1(p.bucket, p.table)
      list == IF direction = "input" THEN "input_tables" ELSE "output_tables"
      edge == IF direction = "input" THEN [from |-> uid, to |-> tid, rel |-> "consumed_by"]
              ELSE [from |-> tid, to |-> uid, rel |-> "produces"]
  IN IF ~IsTracked(p) THEN st
     ELSE [st EXCEPT !.tables = @ \cup {<<p.bucket, p.table>>},
                     !.transformations[tid][list] = Append(@, uid),
                     !.graph_edges = Append(@, edge)]

\* One iteration of the rglob loop over config.json files, as what it adds
\* to the registry: self.tables.add is a set union, the entry assignment
\* overwrites, and the loops only append, so the addition does not depend
\* on the registry.  It is a constant table, computed once per config file.
ScannedV1 ==
  [f \in ConfigUniverse |->
     LET dir == Last(f.path)
         tid == "transform:" \o dir
         cid == IF Len(f.path) > 1 THEN f.path[Len(f.path) - 1] ELSE "transformation"
         st0 == [tables |-> {}, graph_edges |-> <<>>,
                 transformations |->
                   tid :> [name |-> MetaGetV1(f.meta, "name", dir), component_id |-> cid,
                           is_disabled |-> MetaGetV1(f.meta, "isDisabled", FALSE),
                           input_tables |-> <<>>, output_tables |-> <<>>]]
         st1 == FoldLeft(LAMBDA acc, r : TrackRefV1(acc, r, tid, "input"), st0, f.inputs)
     IN FoldLeft(LAMBDA acc, r : TrackRefV1(acc, r, tid, "output"), st1, f.outputs)]

ScanTransformationV1(f) ==
  /\ f \in pending
  /\ pending' = pending \ {f}
  /\ tables' = tables \cup ScannedV1[f].tables
  /\ transformations' = ScannedV1[f].transformations @@ transformations
  /\ graph_edges' = graph_edges \o ScannedV1[f].graph_edges
  /\ transformKeys' = IF "transform:" \o Last(f.path) \in DOMAIN transformations
                      THEN transformKeys ELSE Append(transformKeys, "transform:" \o Last(f.path))
  /\ UNCHANGED <<configFiles, twin>>

-----------------------------------------------------------------------------
\* Python's order on (bucket, table) tuples.
PairLess(a, b) == PyStrLess(a[1], b[1]) \/ (a[1] = b[1] /\ PyStrLess(a[2], b[2]))

\* buckets/<clean>/tables/<table>/model.json: the loop over sorted(tables)
\* overwrites it, so it holds the uid of the greatest pair with that path.
TableDirsV1 ==
  LET pathOf(k) == <<BucketClean(k[1]), k[2]>>
  IN [d \in {pathOf(k) : k \in tables} |->
        LET k == CHOOSE k \in tables :
                   pathOf(k) = d /\ \A m \in tables : pathOf(m) = d => ~PairLess(k, m)
        IN TableIdV1(k[1], k[2])]

\* The sanitized directory name of every display name a project can hold.
DisplayNamesV1 == {MetaGetV1(f.meta, "name", Last(f.path)) : f \in ConfigUniverse}

SafeDirV1 == [n \in DisplayNamesV1 |-> SafeDirName(n)]

\* Variant: the uid is built from the display name the loop has at hand.
TransformDirsV1NameUid ==
  LET dirAt(i) == SafeDirV1[transformations[transformKeys[i]].name]
  IN [d \in {dirAt(i) : i \in DOMAIN transformKeys} |->
        "transform:" \o transformations[transformKeys[Max({i \in DOMAIN transformKeys : dirAt(i) = d})]].name]

\* transformations/<dir>/model.json: the loop runs in dict order, so it holds
\* the uid of the last transformation whose sanitized name is <dir>.
TransformDirsV1 ==
  LET dirAt(i) == SafeDirV1[transformations[transformKeys[i]].name]
  IN [d \in {dirAt(i) : i \in DOMAIN transformKeys} |->
        transformKeys[Max({i \in DOMAIN transformKeys : dirAt(i) = d})]]

CreateTwinStructureV1 ==
  /\ pending = {}
  /\ twin = None
  /\ \E files \in {[table_dirs |-> TableDirsV1, transform_dirs |-> TransformDirsV1,
                    graph |-> graph_edges]} :
       twin' = files
  /\ UNCHANGED <<configFiles, pending, tables, transformations, transformKeys, graph_edges>>

V1Init ==
  /\ configFiles \in {P \in SUBSET ConfigUniverse : \A f, g \in P : f.path = g.path => f = g}
  /\ pending = configFiles
  /\ tables = {} /\ transformations = <<>> /\ transformKeys = <<>>
  /\ graph_edges = <<>> /\ twin = None

V1Running == pending # {} \/ twin = None

V1Terminated == ~V1Running /\ UNCHANGED v1Vars

V1Next ==
  \/ \E f \in pending : ScanTransformationV1(f)
  \/ CreateTwinStructureV1
  \/ V1Terminated

\* run(): one thread, each step taken as soon as the previous returns; weak
\* fairness written out as for Spec in TwinIndex.
V1Spec == V1Init /\ [][V1Next]_v1Vars /\ WF_v1Vars(V1Next)

-----------------------------------------------------------------------------
(***************************************************************************)
(* Properties.                                                             *)
(***************************************************************************)
V1TypeOK ==
  /\ configFiles \subseteq ConfigUniverse
  /\ pending \subseteq configFiles
  /\ IsInjective(transformKeys) /\ Range(transformKeys) = DOMAIN transformations
  /\ \A e \in Range(graph_edges) : e.rel \in {"consumed_by", "produces"}
  /\ twin # None => Range(twin.transform_dirs) \subseteq DOMAIN transformations

EdgesV1AsLineage ==
  [i \in DOMAIN graph_edges |->
     [from |-> graph_edges[i].from, to |-> graph_edges[i].to, type |-> graph_edges[i].rel]]

\* v1 predates the rule that variables directories are not transformations.
LineageV1 == INSTANCE TwinLineage
               WITH Records <- ConfigUniverse, ExcludesVariables <- FALSE,
                    project <- configFiles, ingested <- configFiles \ pending,
                    edges <- EdgesV1AsLineage

\* v1's scan builds the lineage graph that spec.md describes (without the
\* variables exclusion), and reaches every config file.  Each rglob
\* iteration appends one edge per reference with a bucket and a table, in
\* mapping order, input edges table -> transformation before output edges
\* transformation -> table, duplicates kept.
LineageRefinementV1 == LineageV1!LineageSpec

=============================================================================

----------------------------- MODULE TwinIndexV2 -----------------------------
(***************************************************************************)
(* run() of transform_to_twin_v2.py: scan_transformations, then            *)
(* create_twin_structure.  The catalogs and indices it writes first        *)
(* (buckets/, transformations/, indices/sources.json and the queries) are  *)
(* v3's statement for statement, apart from the _comment fields v3 adds,   *)
(* so they are TwinIndex instantiated with the v2 classifiers.  v2 then    *)
(* writes, from the registry's sizes, the _meta header of graph.jsonl,     *)
(* manifest-extended.json, manifest.yaml and README.md; the project id of  *)
(* the manifests comes from .keboola/project.json (_get_project_id).       *)
(***************************************************************************)
EXTENDS TwinScanV2

CONSTANTS
  MostConnectedLimit, \* the [:50] cut of most-connected-nodes.json
  ProjectFiles        \* what .keboola/project.json may hold: a parsed
                      \* JSON object, or None when the file does not exist

VARIABLES
  index,     \* the catalog and index views, None until written
  rootFiles  \* the counts and ids of the root files, None until written

v2Vars == <<configFiles, pending, tables, tableKeys, transformations,
            transformKeys, graph_edges, buckets, sources, index, rootFiles>>

I2 == INSTANCE TwinIndex
        WITH InferSource <- InferSourceFromBucketV2,
             Platform <- DetectPlatformV2,
             SkipConfig <- IsSkippedConfigV2

\* dict.get on a parsed JSON object.
JsonGet(obj, key, default) == IF key \in DOMAIN obj THEN obj[key] ELSE default

\* _get_project_id: project.id of .keboola/project.json, else 'example'.
GetProjectId(pj) ==
  IF pj = None THEN "example"
  ELSE JsonGet(JsonGet(pj, "project", <<>>), "id", "example")

\* The _meta line of graph.jsonl, the statistics of manifest-extended.json
\* (README.md lists the same counts), the project id of both manifests,
\* and the sources and platform counts manifest-extended.json repeats from
\* the indices.
RootFilesV2(views, pid) ==
  [graph_meta |-> [total_edges |-> Len(graph_edges),
                   total_nodes |-> Len(tableKeys) + Len(transformKeys),
                   total_tables |-> Len(tableKeys),
                   total_transformations |-> Len(transformKeys),
                   sources |-> Cardinality(DOMAIN sources)],
   project_id |-> pid,
   statistics |-> [total_buckets |-> Cardinality(DOMAIN buckets),
                   total_tables |-> Len(tableKeys),
                   total_transformations |-> Len(transformKeys),
                   total_edges |-> Len(graph_edges)],
   sources |-> views.sources,
   transformation_platforms |-> views.by_platform]

\* create_twin_structure: the views, then the root files written from them.
CreateTwinStructureV2 ==
  /\ I2!BuildIndex
  /\ \E pj \in ProjectFiles :
       rootFiles' = RootFilesV2(I2!IndexViews, GetProjectId(pj))

InitV2 == V2!ScanInit /\ index = None /\ rootFiles = None

\* print_summary only prints: after it the program has ended.
V2Ended == pending = {} /\ rootFiles # None

V2Terminated == V2Ended /\ UNCHANGED v2Vars

NextV2 ==
  \/ ScanNextV2 /\ UNCHANGED <<index, rootFiles>>
  \/ CreateTwinStructureV2
  \/ V2Terminated

SpecV2 == InitV2 /\ [][NextV2]_v2Vars

=============================================================================

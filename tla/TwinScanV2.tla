------------------------------ MODULE TwinScanV2 ------------------------------
(***************************************************************************)
(* scan_transformations of transform_to_twin_v2.py.  Its loop body is the  *)
(* v3 loop with _track_table written out twice inline (once for inputs,    *)
(* once for outputs, statement for statement the same), so it is           *)
(* TwinRegistry instantiated with the v2 classifiers.                      *)
(***************************************************************************)
EXTENDS TwinNamesV2

CONSTANT ConfigUniverse

VARIABLES configFiles, pending, tables, tableKeys, transformations,
          transformKeys, graph_edges, buckets, sources

V2 == INSTANCE TwinRegistry
        WITH InferSource <- InferSourceFromBucketV2,
             Platform <- DetectPlatformV2,
             SkipConfig <- IsSkippedConfigV2

\* One iteration of the rglob loop of v2: the skip tests, platform chain,
\* meta.json, the entry, and the two inlined tracking loops.
ScanTransformationV2(f) == V2!ScanTransformation(f)

ScanNextV2 == \E f \in pending : ScanTransformationV2(f) \/ V2!SkipVariables(f)

ScanSpecV2 == V2!ScanInit /\ [][ScanNextV2]_V2!scanVars

-----------------------------------------------------------------------------
\* spec.md section 3: one Transformation per configuration directory, only
\* "variables" directories and those under variables/values excluded.
OneTransformationPerDirectoryV2 == V2!OneTransformationPerDirectory

\* spec.md section 4.2: an unmatched bucket falls back to the stage; v2
\* has a fallback, tested on the bucket name.
SourceFallsBackToStageV2 == V2!SourceFallsBackToStage

==============================================================================

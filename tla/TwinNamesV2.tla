----------------------------- MODULE TwinNamesV2 -----------------------------
(***************************************************************************)
(* The classifiers of transform_to_twin_v2.py, where they differ from v3:  *)
(* a longer source-pattern table with a stage-prefix fallback, a platform  *)
(* chain that knows more platforms and defaults to "unknown", and a skip   *)
(* test that also drops every directory named "default".                   *)
(***************************************************************************)
EXTENDS TwinNames

\* The `source_patterns` dict of infer_source_from_bucket (v2), in order.
SourcePatternsV2 ==
  << <<"shopify", {"shopify", "ex-shopify"}>>,
     <<"hubspot", {"hubspot", "ex-hubspot", "crm"}>>,
     <<"google-analytics", {"ga4", "analytics", "ex-google-analytics"}>>,
     <<"google-drive", {"drive", "ex-google-drive"}>>,
     <<"salesforce", {"salesforce", "ex-salesforce"}>>,
     <<"facebook", {"facebook", "ex-facebook"}>>,
     <<"mysql", {"mysql", "ex-mysql", "ex-db-mysql"}>>,
     <<"postgres", {"postgres", "postgresql", "ex-db-pgsql"}>>,
     <<"snowflake", {"snowflake"}>>, <<"bigquery", {"bigquery"}>>,
     <<"stripe", {"stripe"}>>, <<"jira", {"jira"}>>,
     <<"slack", {"slack"}>>, <<"zendesk", {"zendesk"}>> >>

\* The pattern loop, then the startswith('in.c-') / ('out.c-') fallback on
\* the bucket name, then 'unknown'.
InferSourceFromBucketV2(bucket) ==
  LET lower == Lower(bucket)
      hit == FirstMatch(lower, SourcePatternsV2, None)
  IN CASE hit # None                 -> hit
       [] StartsWith(lower, "in.c-")  -> "storage-input"
       [] StartsWith(lower, "out.c-") -> "storage-output"
       [] OTHER                       -> "unknown"

\* Variant: the generic 'sql'/'transformation' test moved to the front.
PlatformPatternsV2GenericFirst ==
  << <<"sql", {"sql", "transformation"}>>, <<"snowflake", {"snowflake"}>>,
     <<"python", {"python"}>>, <<"r", {".r-transformation"}>>,
     <<"julia", {"julia"}>>, <<"dbt", {"dbt"}>> >>

\* The if/elif chain of scan_transformations (v2) on component_id.lower().
PlatformPatternsV2 ==
  << <<"snowflake", {"snowflake"}>>, <<"redshift", {"redshift"}>>,
     <<"bigquery", {"bigquery"}>>, <<"synapse", {"synapse"}>>,
     <<"mssql", {"mssql", "sql-server"}>>, <<"mysql", {"mysql"}>>,
     <<"postgresql", {"postgres", "pgsql"}>>, <<"oracle", {"oracle"}>>,
     <<"exasol", {"exasol"}>>, <<"duckdb", {"duckdb"}>>,
     <<"python", {"python"}>>, <<"r", {".r-transformation"}>>,
     <<"julia", {"julia"}>>, <<"dbt", {"dbt"}>>, <<"spark", {"spark"}>>,
     <<"sql", {"sql", "transformation"}>> >>

DetectPlatformV2(componentId) == FirstMatch(Lower(componentId), PlatformPatternsV2, "unknown")

\* The two skip tests of scan_transformations (v2).
IsSkippedConfigV2(path) ==
  \/ Last(path) = "variables"
  \/ Last(path) = "default"
  \/ IsIn("variables/values", TransformPathStr(path))

==============================================================================

---------------------------- MODULE MCTwinNames ----------------------------
(***************************************************************************)
(* Checks the string helpers input by input: the variable input is a pair *)
(* of a table reference and a component id, ranges over a finite set of    *)
(* such pairs and may jump to any of them.                                 *)
(***************************************************************************)
EXTENDS TwinNamesV2

CONSTANT Inputs

VARIABLE input

Init == input \in Inputs
Next == input' \in Inputs
Spec == Init /\ [][Next]_input

\* Every string over "a", "-" and "." of at most five characters.
RECURSIVE StringsUpTo(_)
StringsUpTo(n) ==
  IF n = 0 THEN {""}
  ELSE StringsUpTo(n - 1) \cup {s \o c : s \in StringsUpTo(n - 1), c \in {"a", "-", "."}}


\* Transformation component ids of the Keboola platform, with the platform
\* each stands for in spec.md's vocabulary.
ComponentPlatform ==
  [c \in {"keboola.snowflake-transformation", "keboola.synapse-transformation",
          "keboola.redshift-transformation", "keboola.google-bigquery-transformation",
          "keboola.exasol-transformation", "keboola.oracle-transformation",
          "keboola.duckdb-transformation", "keboola.python-transformation-v2",
          "keboola.r-transformation-v2", "keboola.julia-transformation",
          "keboola.dbt-transformation"} |->
     CASE IsIn("snowflake", c) -> "snowflake"
       [] IsIn("synapse", c)   -> "synapse"
       [] IsIn("redshift", c)  -> "redshift"
       [] IsIn("bigquery", c)  -> "bigquery"
       [] IsIn("exasol", c)    -> "exasol"
       [] IsIn("oracle", c)    -> "oracle"
       [] IsIn("duckdb", c)    -> "duckdb"
       [] IsIn("python", c)    -> "python"
       [] IsIn("julia", c)     -> "julia"
       [] IsIn("dbt", c)       -> "dbt"
       [] OTHER                -> "r"]

\* Every reference of up to five characters with every component id.
MCNameInputs == [ref : StringsUpTo(5), component : DOMAIN ComponentPlatform]

\* The component ids alone, with one well-formed reference.
MCComponentInputs == [ref : {"in.c-a.t"}, component : DOMAIN ComponentPlatform]

-----------------------------------------------------------------------------
\* spec.md section 8: a reference with at least three dot-separated parts
\* parses to (parts[0], parts[1], ".".join(parts[2:])), so the table name
\* keeps its dots and the three parts rejoin to the reference; a reference
\* with fewer parts parses to the None triple.
ParseRoundTrip ==
  LET p == ParseTableReference(input.ref)
      dots == Cardinality({i \in 1..Len(input.ref) : CharAt(input.ref, i) = "."})
  IN IF dots >= 2
     THEN /\ p.stage \o "." \o p.bucket \o "." \o p.table = input.ref
          /\ FirstIndexOf(p.stage, ".") = 0
          /\ FirstIndexOf(p.bucket, ".") = 0
     ELSE p = NoneTriple

\* spec.md sections 3 and 4.2: the platform tag of a transformation is the
\* platform its component runs on, from the vocabulary snowflake, redshift,
\* bigquery, synapse, mssql, mysql, postgresql, oracle, exasol, duckdb,
\* python, r, julia, dbt, spark, sql, unknown.
PlatformMatchesComponent ==
  DetectPlatform(input.component) = ComponentPlatform[input.component]

\* The same vocabulary for the platform chain of the v2 script.
PlatformMatchesComponentV2 ==
  DetectPlatformV2(input.component) = ComponentPlatform[input.component]
=============================================================================

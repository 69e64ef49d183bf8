----------------------------- MODULE TwinNames -----------------------------
(***************************************************************************)
(* The string helpers of the twin-format transformers: parsing a dotted    *)
(* table reference, cleaning a bucket name, inferring a source system from *)
(* a bucket name and a platform from a component id, and the test that     *)
(* skips variable configurations.                                          *)
(*                                                                         *)
(* Strings are TLA+ strings; TLC evaluates Len, SubSeq and \o on them, so  *)
(* every helper works character by character the way Python's str methods *)
(* do.  Lower-casing covers ASCII letters only.                            *)
(***************************************************************************)
EXTENDS Naturals, Sequences, SequencesExt

\* Python's None, as returned by parse_table_reference for a bad reference.
CONSTANT None

CharAt(s, i) == SubSeq(s, i, i)

\* Index of the first occurrence of character c in s, 0 when there is none.
FirstIndexOf(s, c) ==
  LET hits == {i \in 1..Len(s) : CharAt(s, i) = c}
  IN IF hits = {} THEN 0 ELSE Min(hits)

\* s.split(c) for a one-character separator: never an empty sequence.  The
\* parts lie between consecutive separator positions (0 and Len(s) + 1
\* bounding the string).
Split(s, c) ==
  LET pos == SetToSortSeq({i \in 1..Len(s) : CharAt(s, i) = c}, <)
      bounds == <<0>> \o pos \o <<Len(s) + 1>>
  IN [k \in 1..(Len(pos) + 1) |-> SubSeq(s, bounds[k] + 1, bounds[k + 1] - 1)]

\* c.join(parts)
Join(parts, c) ==
  IF parts = <<>> THEN ""
  ELSE FoldLeft(LAMBDA acc, p : acc \o c \o p, Head(parts), Tail(parts))

\* Python's `p in s` for strings.
IsIn(p, s) == \E i \in 0..(Len(s) - Len(p)) : SubSeq(s, i + 1, i + Len(p)) = p

StartsWith(s, p) == Len(p) <= Len(s) /\ SubSeq(s, 1, Len(p)) = p

\* s.replace(old, new): left to right, non-overlapping, old non-empty; the
\* scan resumes after each replaced occurrence.
RECURSIVE ReplaceFrom(_, _, _, _)
ReplaceFrom(s, old, new, i) ==
  IF i > Len(s) THEN ""
  ELSE IF i + Len(old) - 1 <= Len(s) /\ SubSeq(s, i, i + Len(old) - 1) = old
       THEN new \o ReplaceFrom(s, old, new, i + Len(old))
       ELSE CharAt(s, i) \o ReplaceFrom(s, old, new, i + 1)

Replace(s, old, new) == ReplaceFrom(s, old, new, 1)

UpperLetters == "ABCDEFGHIJKLMNOPQRSTUVWXYZ"
LowerLetters == "abcdefghijklmnopqrstuvwxyz"

CharsOf(s) == {CharAt(s, i) : i \in 1..Len(s)}

\* Upper-case letter -> lower-case letter.
ToLower == [c \in CharsOf(UpperLetters) |-> CharAt(LowerLetters, FirstIndexOf(UpperLetters, c))]

LowerChar(ch) == IF ch \in DOMAIN ToLower THEN ToLower[ch] ELSE ch

\* s.lower()
RECURSIVE LowerFrom(_, _)
LowerFrom(s, i) == IF i > Len(s) THEN "" ELSE LowerChar(CharAt(s, i)) \o LowerFrom(s, i + 1)

Lower(s) == LowerFrom(s, 1)

\* re.sub(r'[^\w\-]', '_', s): a character that is not a letter, a digit,
\* "_" or "-" becomes "_" (ASCII; non-ASCII letters are not modelled).
WordChars == UpperLetters \o LowerLetters \o "0123456789_-"

WordCharSet == CharsOf(WordChars)

RECURSIVE SafeNameFrom(_, _)
SafeNameFrom(s, i) ==
  IF i > Len(s) THEN ""
  ELSE (IF CharAt(s, i) \in WordCharSet THEN CharAt(s, i) ELSE "_")
         \o SafeNameFrom(s, i + 1)

\* transform_dir_name = re.sub(r'[^\w\-]', '_', transform_name.lower())
SafeDirName(name) == SafeNameFrom(Lower(name), 1)

\* The printable ASCII characters in code-point order (the double quote,
\* the backslash and the backquote left out: no name of the model has them).
AsciiOrder ==
  " !#$%&'()*+,-./0123456789:;<=>?@ABCDEFGHIJKLMNOPQRSTUVWXYZ[]^_abcdefghijklmnopqrstuvwxyz{|}~"

CodePoint == [c \in CharsOf(AsciiOrder) |-> FirstIndexOf(AsciiOrder, c)]

\* Python's a < b on strings: the first differing character decides, and a
\* proper prefix is smaller.
RECURSIVE StrLtFrom(_, _, _)
StrLtFrom(a, b, i) ==
  IF i > Len(a) THEN i <= Len(b)
  ELSE IF i > Len(b) THEN FALSE
  ELSE IF CharAt(a, i) = CharAt(b, i) THEN StrLtFrom(a, b, i + 1)
  ELSE CodePoint[CharAt(a, i)] < CodePoint[CharAt(b, i)]

PyStrLess(a, b) == StrLtFrom(a, b, 1)

\* Python truthiness of a parse result field: neither None nor "".
Truthy(v) == v # None /\ v # ""

-----------------------------------------------------------------------------
(***************************************************************************)
(* parse_table_reference (the same in all three script versions).         *)
(***************************************************************************)
NoneTriple == [stage |-> None, bucket |-> None, table |-> None]

\* Variant: the table name is parts[2] alone, not '.'.join(parts[2:]).
ParseTableReferenceNoJoin(ref) ==
  LET parts == Split(ref, ".")
  IN IF Len(parts) >= 3
     THEN [stage |-> parts[1], bucket |-> parts[2], table |-> parts[3]]
     ELSE NoneTriple

ParseTableReference(ref) ==
  LET parts == Split(ref, ".")
  IN IF Len(parts) >= 3
     THEN [stage  |-> parts[1],
           bucket |-> parts[2],
           table  |-> Join(SubSeq(parts, 3, Len(parts)), ".")]
     ELSE NoneTriple

\* The caller's `if bucket and table:` test.
IsTracked(p) == Truthy(p.bucket) /\ Truthy(p.table)

\* bucket.replace('c-', '') in _track_table: every occurrence, not a prefix.
BucketClean(bucket) == Replace(bucket, "c-", "")

-----------------------------------------------------------------------------
(***************************************************************************)
(* First-match classification: an ordered table of <<tag, patterns>>; the  *)
(* first row one of whose patterns occurs in s gives the tag.              *)
(***************************************************************************)
FirstMatch(s, rows, default) ==
  LET hits == {i \in DOMAIN rows : \E p \in rows[i][2] : IsIn(p, s)}
  IN IF hits = {} THEN default ELSE rows[Min(hits)][1]

\* The `patterns` dict of infer_source_from_bucket (v3), in insertion order.
SourcePatterns ==
  << <<"shopify", {"shopify", "ex-shopify"}>>,
     <<"hubspot", {"hubspot", "ex-hubspot", "crm"}>>,
     <<"google-analytics", {"ga4", "analytics", "ex-google-analytics"}>>,
     <<"google-drive", {"drive", "ex-google-drive"}>>,
     <<"mysql", {"mysql", "ex-mysql", "ex-db-mysql"}>>,
     <<"facebook", {"facebook", "ex-facebook"}>>,
     <<"jira", {"jira"}>>,
     <<"snowflake", {"snowflake"}>> >>

InferSourceFromBucket(bucket) == FirstMatch(Lower(bucket), SourcePatterns, "unknown")

\* The if/elif chain of detect_platform (v3).
PlatformPatterns ==
  << <<"snowflake", {"snowflake"}>>, <<"redshift", {"redshift"}>>,
     <<"bigquery", {"bigquery"}>>, <<"synapse", {"synapse"}>>,
     <<"duckdb", {"duckdb"}>>, <<"python", {"python"}>>,
     <<"r", {".r-transformation"}>>, <<"dbt", {"dbt"}>>,
     <<"oracle", {"oracle"}>>, <<"mssql", {"mssql"}>> >>

DetectPlatform(componentId) == FirstMatch(Lower(componentId), PlatformPatterns, "sql")

\* The path of a configuration directory as str() prints it, relative to
\* the working directory: source_branch "main", then "transformation".
TransformPathStr(path) == Join(<<"main", "transformation">> \o path, "/")

\* Variant: only a directory named variables is skipped, not the values
\* below it.
IsVariablesConfigNameOnly(path) == Last(path) = "variables"

\* The skip test of scan_transformations (v3).
IsVariablesConfig(path) ==
  \/ Last(path) = "variables"
  \/ IsIn("variables/values", TransformPathStr(path))

=============================================================================

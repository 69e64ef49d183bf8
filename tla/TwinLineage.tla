----------------------------- MODULE TwinLineage -----------------------------
(***************************************************************************)
(* What the lineage-graph construction promises (spec.md sections 3 and    *)
(* 4.2), independent of any script version: the transformation records    *)
(* of a project are ingested one at a time, in any order, and each record  *)
(* appends one typed edge per valid table reference, its input references  *)
(* first and then its output references, in mapping order; duplicates are  *)
(* kept.  Records of variables directories add nothing.  Every record is   *)
(* eventually ingested.                                                    *)
(*                                                                         *)
(* A reference names a table when it has at least two dots and both the    *)
(* bucket (between the first two dots) and the table name (everything      *)
(* after the second) are non-empty.  This is stated over dot positions,    *)
(* not via split and join, so that it is a reference for the parser.       *)
(***************************************************************************)
EXTENDS Naturals, Sequences, FiniteSets

CONSTANTS
  Records,            \* the transformation records a project could hold
  ExcludesVariables   \* whether variables directories are excluded

VARIABLES
  project,    \* the records of the project being converted
  ingested,   \* those ingested so far
  edges       \* the lineage graph: a sequence of [from, to, type]

lineageVars == <<project, ingested, edges>>

DotsOf(s) == {i \in 1..Len(s) : SubSeq(s, i, i) = "."}

FirstOf(S) == CHOOSE i \in S : \A j \in S : i <= j

\* The (bucket, table) a reference names, or <<>> when it names none.
NamedTable(ref) ==
  LET d == DotsOf(ref)
  IN IF Cardinality(d) < 2 THEN <<>>
     ELSE LET d1 == FirstOf(d)
              d2 == FirstOf(d \ {d1})
              b == SubSeq(ref, d1 + 1, d2 - 1)
              t == SubSeq(ref, d2 + 1, Len(ref))
          IN IF b = "" \/ t = "" THEN <<>> ELSE <<b, t>>

TableId(bt) == "table:" \o bt[1] \o "/" \o bt[2]

TransformId(r) == "transform:" \o r.path[Len(r.path)]

\* spec.md section 3: a directory named variables, or one below a
\* variables/values path.
VariablesDirectory(path) ==
  \/ path[Len(path)] = "variables"
  \/ \E i \in 1..(Len(path) - 1) : path[i] = "variables" /\ path[i + 1] = "values"

Excluded(r) == ExcludesVariables /\ VariablesDirectory(r.path)

\* The edges of the valid references of one mapping list, in order.
RECURSIVE RefEdges(_, _, _)
RefEdges(refs, x, type) ==
  IF refs = <<>> THEN <<>>
  ELSE LET bt == NamedTable(Head(refs))
           e == IF type = "consumed_by"
                THEN [from |-> TableId(bt), to |-> x, type |-> type]
                ELSE [from |-> x, to |-> TableId(bt), type |-> type]
       IN (IF bt = <<>> THEN <<>> ELSE <<e>>) \o RefEdges(Tail(refs), x, type)

RecordEdges(r) ==
  IF Excluded(r) THEN <<>>
  ELSE RefEdges(r.inputs, TransformId(r), "consumed_by")
         \o RefEdges(r.outputs, TransformId(r), "produces")

LineageInit ==
  /\ project \in SUBSET Records
  /\ ingested = {}
  /\ edges = <<>>

Ingest(r) ==
  /\ r \in project \ ingested
  /\ ingested' = ingested \cup {r}
  /\ edges' = edges \o RecordEdges(r)
  /\ UNCHANGED project

LineageNext == \E r \in Records : Ingest(r)

\* Weak fairness of LineageNext.  Every LineageNext step ingests one more of
\* finitely many records and LineageNext is enabled exactly while one is
\* left, so WF_lineageVars(LineageNext) amounts to this; it is stated as a
\* state formula so that it can be checked through a refinement mapping.
LineageFairness == <>(ingested = project)

LineageSpec == LineageInit /\ [][LineageNext]_lineageVars /\ LineageFairness

=============================================================================

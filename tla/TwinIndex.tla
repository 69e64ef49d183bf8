----------------------------- MODULE TwinIndex -----------------------------
(***************************************************************************)
(* The index builder of transform_to_twin_v3.py composed with the          *)
(* registry: once scan_transformations has visited every config file,      *)
(* create_twin_structure derives the read-only views that the twin format  *)
(* emits (buckets/index.json, transformations/index.json, the per-table    *)
(* metadata files, indices/sources.json and the indices/queries files).    *)
(* The views are kept as data; JSON layout, _comment fields and timestamps *)
(* are left out, and so are the jobs, samples, components, AI guide and    *)
(* root files that create_twin_structure writes after them (they do not    *)
(* read the registry beyond its sizes).                                    *)
(***************************************************************************)
EXTENDS TwinRegistry

\* The [:50] cut of most-connected-nodes.json.
CONSTANT MostConnectedLimit

VARIABLE index   \* None until create_twin_structure has run

vars == <<scanVars, index>>

-----------------------------------------------------------------------------
\* bucket_summaries: name, first-written source, table count, table names.
BucketSummaries ==
  [c \in DOMAIN buckets |-> [source |-> buckets[c].source,
                             table_count |-> Len(buckets[c].tables),
                             tables |-> ToBag(buckets[c].tables)]]

\* Variant: total_tables counts buckets instead of their tables.
SourceStatsCountsBuckets(bs) ==
  [s \in {bs[c].source : c \in DOMAIN bs} |->
     LET cs == {c \in DOMAIN bs : bs[c].source = s}
     IN [count |-> Cardinality(cs), total_tables |-> Cardinality(cs)]]

\* source_stats, accumulated over bucket_summaries.
SourceStats(bs) ==
  [s \in {bs[c].source : c \in DOMAIN bs} |->
     LET cs == {c \in DOMAIN bs : bs[c].source = s}
     IN [count |-> Cardinality(cs),
         total_tables |-> MapThenSumSet(LAMBDA c : bs[c].table_count, cs)]]

\* The metadata.json written for buckets/<clean>/tables/<name>: the loop
\* looks the table up with next(...) over self.tables, so the file holds
\* the first table in dict order with that cleaned bucket and name.
TableFiles ==
  LET paths == {<<tables[k].bucket_clean, tables[k].name>> : k \in DOMAIN tables}
      firstKey(p) == tableKeys[Min({i \in DOMAIN tableKeys :
                         /\ tables[tableKeys[i]].bucket_clean = p[1]
                         /\ tables[tableKeys[i]].name = p[2]})]
  IN [p \in paths |-> tables[firstKey(p)].uid]

\* Directory names and the order of ids depend on the config files only.
SafeDirOf == [n \in {NewTransformationOf[f].name : f \in ConfigUniverse} |-> SafeDirName(n)]

TransformIds == {TransformUid(Last(f.path)) : f \in ConfigUniverse}

IdLess == [p \in TransformIds \X TransformIds |-> PyStrLess(p[1], p[2])]

\* The transformations/<dir>/metadata.json files: the loop runs over
\* sorted(self.transformations.items()) and each iteration overwrites the
\* file of its sanitized display name, so a directory holds the
\* transformation with the greatest id among those that share it.
TransformFiles ==
  LET dirOf(x) == SafeDirOf[transformations[x].name]
  IN [d \in {dirOf(x) : x \in DOMAIN transformations} |->
        CHOOSE x \in DOMAIN transformations :
          /\ dirOf(x) = d
          /\ \A y \in DOMAIN transformations : dirOf(y) = d => ~IdLess[x, y]]

TransformSummaries ==
  [x \in DOMAIN transformations |->
     [platform |-> transformations[x].platform,
      is_disabled |-> transformations[x].is_disabled,
      input_count |-> Len(transformations[x].input_tables),
      output_count |-> Len(transformations[x].output_tables)]]

\* Counter(t['platform'] for t in transform_summaries)
PlatformStats(ts) ==
  [p \in {ts[x].platform : x \in DOMAIN ts} |->
     Cardinality({x \in DOMAIN ts : ts[x].platform = p})]

\* sources_list of _create_indices
SourcesList ==
  [s \in DOMAIN sources |-> [instances |-> Cardinality(sources[s].buckets),
                             total_tables |-> sources[s].table_count,
                             buckets |-> sources[s].buckets]]

\* tables-by-source.json: table uids per source, in dict order.
TablesBySource ==
  [s \in {tables[k].source : k \in DOMAIN tables} |->
     SelectSeq([i \in DOMAIN tableKeys |-> tables[tableKeys[i]].uid],
               LAMBDA u : \E k \in DOMAIN tables : tables[k].uid = u /\ tables[k].source = s)]

-----------------------------------------------------------------------------
(***************************************************************************)
(* most-connected-nodes.json                                               *)
(***************************************************************************)
\* node_connections before the sort: tables, then transformations, each in
\* dict order, nodes without any connection dropped.
NodeConnections ==
  LET tnodes == [i \in DOMAIN tableKeys |->
                   LET t == tables[tableKeys[i]]
                   IN [uid |-> t.uid, connections |-> Len(t.consumed_by) + Len(t.produced_by)]]
      xnodes == [i \in DOMAIN transformKeys |->
                   LET x == transformations[transformKeys[i]]
                   IN [uid |-> transformKeys[i],
                       connections |-> Len(x.input_tables) + Len(x.output_tables)]]
  IN SelectSeq(tnodes \o xnodes, LAMBDA n : n.connections > 0)

\* list.sort(key=connections, reverse=True): Python's sort is stable also
\* when reversed, so a node goes after every node with at least as many
\* connections that came before it.
\* Variant: an unstable descending sort (ties reversed).
RECURSIVE InsertByConnectionsUnstable(_, _)
InsertByConnectionsUnstable(sorted, n) ==
  IF sorted = <<>> THEN <<n>>
  ELSE IF Head(sorted).connections > n.connections
       THEN <<Head(sorted)>> \o InsertByConnectionsUnstable(Tail(sorted), n)
       ELSE <<n>> \o sorted

RECURSIVE InsertByConnections(_, _)
InsertByConnections(sorted, n) ==
  IF sorted = <<>> THEN <<n>>
  ELSE IF Head(sorted).connections >= n.connections
       THEN <<Head(sorted)>> \o InsertByConnections(Tail(sorted), n)
       ELSE <<n>> \o sorted

\* Insertion of each node in turn; the list so far is bound once per step.
RECURSIVE SortFrom(_, _)
SortFrom(sorted, rest) ==
  IF rest = <<>> THEN sorted
  ELSE CHOOSE r \in {SortFrom(InsertByConnections(s, Head(rest)), Tail(rest)) : s \in {sorted}} : TRUE

SortByConnections(nodes) == SortFrom(<<>>, nodes)

\* node_connections[:50]
MostConnected ==
  LET s == SortByConnections(NodeConnections)
  IN SubSeq(s, 1, IF Len(s) < MostConnectedLimit THEN Len(s) ELSE MostConnectedLimit)

-----------------------------------------------------------------------------
IndexViews ==
  [bucket_summaries |-> BucketSummaries,
   by_source |-> SourceStats(BucketSummaries),
   table_files |-> TableFiles,
   transform_summaries |-> TransformSummaries,
   transform_files |-> TransformFiles,
   by_platform |-> PlatformStats(TransformSummaries),
   sources |-> SourcesList,
   tables_by_source |-> TablesBySource,
   most_connected |-> MostConnected]

BuildIndex ==
  /\ ScanDone
  /\ index = None
  /\ \E views \in {IndexViews} : index' = views
  /\ UNCHANGED scanVars

Init == ScanInit /\ index = None

\* The scan or the build has work left.
Running == pending # {} \/ index = None

\* create_twin_structure has returned: nothing changes any more.
Terminated == ~Running /\ UNCHANGED vars

Next == (ScanNext /\ UNCHANGED index) \/ BuildIndex \/ Terminated

\* The script is one thread that runs the scan and the build to the end,
\* never waiting on anything else: weak fairness of Next.  (The parsing,
\* platform and table records the registry update needs are the constant
\* tables RefKeysOf, NewTransformationOf and NewTableOf of TwinRegistry,
\* which keeps TLC's evaluation of ENABLED <<Next>>_vars small.)
Spec == Init /\ [][Next]_vars /\ WF_vars(Next)

-----------------------------------------------------------------------------
(***************************************************************************)
(* Properties of the emitted views.                                        *)
(***************************************************************************)
\* The number of graph edges that touch a node.
Degree(uid) ==
  Cardinality({i \in DOMAIN graph_edges :
                 graph_edges[i].source = uid \/ graph_edges[i].target = uid})

\* Dict order of all nodes: tables first, then transformations.
NodeOrder == [i \in DOMAIN tableKeys |-> tables[tableKeys[i]].uid] \o transformKeys

\* A transformation id that a second visited directory has re-used.
Overwritten(u) == u \in DOMAIN transformations /\ Cardinality(VisitedDirsOf(u)) > 1

\* The connections the ranking is to use: a node's degree in graph.jsonl,
\* except for an overwritten transformation, whose entry only lists the
\* lineage of its latest directory.
RankedConnections(u) ==
  IF Overwritten(u)
  THEN Len(transformations[u].input_tables) + Len(transformations[u].output_tables)
  ELSE Degree(u)

\* most-connected-nodes.json is the top of the lineage graph: each listed
\* node carries its degree in graph.jsonl (an overwritten transformation
\* at most that); the list is as long as the cut allows; it is ordered by
\* connections, ties in dict order; and no node left out has more
\* connections than a listed one, or as many while coming earlier in dict
\* order.
MostConnectedIsTopRanking ==
  index # None =>
    LET r == index.most_connected
        pos(u) == CHOOSE i \in DOMAIN NodeOrder : NodeOrder[i] = u
        before(m, n) == \/ m.connections > n.connections
                        \/ m.connections = n.connections /\ pos(m.uid) < pos(n.uid)
        connected == {u \in Range(NodeOrder) : RankedConnections(u) > 0}
        listed == {r[i].uid : i \in DOMAIN r}
    IN /\ \A i \in DOMAIN r :
            /\ r[i].uid \in connected
            /\ r[i].connections = RankedConnections(r[i].uid)
            /\ r[i].connections <= Degree(r[i].uid)
       /\ Len(r) = IF Cardinality(connected) < MostConnectedLimit
                   THEN Cardinality(connected) ELSE MostConnectedLimit
       /\ \A i \in 1..(Len(r) - 1) : before(r[i], r[i + 1])
       /\ \A u \in connected \ listed, i \in DOMAIN r :
            before(r[i], [uid |-> u, connections |-> RankedConnections(u)])

\* The cleaned buckets that hold tables of more than one inferred source:
\* bucket_clean strips every "c-", so "gc-a4" files under "ga4".
MixedBuckets ==
  {c \in DOMAIN buckets :
     \E k1, k2 \in DOMAIN tables :
       /\ tables[k1].bucket_clean = c /\ tables[k2].bucket_clean = c
       /\ tables[k1].source # tables[k2].source}

\* The per-source views: indices/sources.json and tables-by-source.json
\* always give every source the same tables; buckets/index.json's
\* by_source, which files a cleaned bucket under the source of the table
\* that reached it first, gives every source the same tables and the same
\* number of buckets as sources.json's instances exactly when no cleaned
\* bucket mixes sources.
SourceViewsAgree ==
  index # None =>
    /\ DOMAIN index.tables_by_source = DOMAIN index.sources
    /\ \A s \in DOMAIN index.sources :
         Len(index.tables_by_source[s]) = index.sources[s].total_tables
    /\ (MixedBuckets = {}) <=>
         /\ DOMAIN index.by_source = DOMAIN index.sources
         /\ \A s \in DOMAIN index.sources :
              /\ index.by_source[s].total_tables = index.sources[s].total_tables
              /\ index.by_source[s].count = index.sources[s].instances

\* Every entity of the catalog gets its own metadata.json: the file at a
\* table's buckets/<clean>/tables/<name>/ describes that table, and the
\* file at a transformation's transformations/<dir>/ describes that
\* transformation.
EveryEntityHasItsMetadataFile ==
  index # None =>
    /\ \A k \in DOMAIN tables :
         index.table_files[<<tables[k].bucket_clean, tables[k].name>>] = tables[k].uid
    /\ \A x \in DOMAIN transformations :
         index.transform_files[SafeDirName(transformations[x].name)] = x

=============================================================================

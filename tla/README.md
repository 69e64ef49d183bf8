# TLA+ models of the twin-format transformer

The repository's Python code (`src/transform_to_twin_v3.py`, with earlier
versions under `src/rfc/llm-context/tmp/`) converts a Keboola project into a
"twin format" directory. That directory is a set of JSON and JSONL files that
describe buckets, tables, transformations, jobs, samples and the lineage graph
between them. This directory holds TLA+ modules for the parts of that
conversion that have state and control worth model checking, the TLC
configurations that check them, and `PROJECT.json`. `PROJECT.json` lists the
components, the runs, the mutants, the mapping from every definition to source
lines, the findings and the hazards.

## The system

`TwinFormatTransformerV3.run()` (v3:874-891) is one thread that works in four
steps:

1. **API fetch** (`fetch_project_metadata`, `fetch_jobs`). These are HTTP GETs
   against the Storage API. Any failure raises.
2. **Scan** (`scan_transformations`, v3:117-169). This walks
   `main/transformation/**/config.json` in `rglob` order and skips variable
   configurations. For each file it records a transformation entity and, via
   `_track_table` (v3:171-205), the tables it reads and writes. It also records
   the buckets and source systems those tables belong to, and one graph edge
   per reference. The registry is the set of dicts this step fills:
   `tables`, `transformations`, `graph_edges`, `buckets` and `sources`.
3. **Build** (`create_twin_structure`, v3:221-368). This derives the output
   files from the registry, in order:
   - bucket summaries and per-table metadata files;
   - `buckets/index.json`, with `by_source` computed from the bucket summaries;
   - transformation directories and `transformations/index.json`, with
     `by_platform`;
   - jobs;
   - samples;
   - components;
   - indices (`_create_indices`, v3:576-676: `graph.jsonl`, `sources.json`,
     `tables-by-source.json`, `transformations-by-platform.json` and
     `most-connected-nodes.json`);
   - the AI guide and the root files.
4. **Summary printing.**

The scan uses three pure helpers. They are the same in v3 and largely the
same in v1 and v2:

- `parse_table_reference` (v3:77-82) splits `stage.bucket.table`.
- `infer_source_from_bucket` (v3:84-100) maps a bucket name to a source tag by
  first pattern match.
- `detect_platform` (v3:102-115) is an if/elif chain that maps a component id
  to a platform tag.

### How the parts interact

The scan is the only writer of the registry. The build only reads it. Every
output view is therefore a function of the registry at the end of the scan.
The registry itself depends on which config files exist and on the order
`rglob` visits them. Nothing fixes that order: the first table of a cleaned
bucket decides the bucket's source, and dict insertion order decides tie
order in the rankings.

### What is hard here

The code is sequential. There are no threads, callbacks or messages. What is
hard is the following:

- Lineage is recorded three times by `_track_table`, and later views
  recompute aggregates from different copies:
  - the edges;
  - the tables' `consumed_by` and `produced_by`;
  - the transformations' `input_tables` and `output_tables`.
- Several keys are not injective:
  - a transformation id is built from the directory name only;
  - the cleaned bucket name is produced by `replace('c-','')`;
  - the metadata file path is `(bucket_clean, table name)`.
- Results depend on visiting order.
- The stable descending sort with the `[:50]` cut decides which nodes are
  listed.
- The run writes the twin file by file. An exception in the jobs loop ends
  it halfway, and only the missing `manifest-extended.json` shows that the
  twin is partial.

## Modules

| Module | Models | State / actions |
|---|---|---|
| `TwinNames` | v3's string helpers (v3:77-131, 178, 295-297) | Pure operators over TLA+ strings, handled character by character: `Split`, `Join`, `Replace` and `Lower` follow Python's `str` methods. `FirstMatch` is the ordered first-match that both classifiers use. `SafeDirName` is `re.sub(r'[^\w\-]', '_', name.lower())` over ASCII, and `PyStrLess` is Python's `str` order (code points, then length), which `sorted()` uses. |
| `TwinNamesV2` | v2's classifiers (v2:50-143) | A longer source-pattern table with the `startswith('in.c-')` fallback. The platform chain has 16 branches and defaults to `unknown`. The skip test also drops directories named `default`. |
| `TwinRegistry` | `scan_transformations` and `_track_table` | VARIABLES are the dicts of `__init__`, plus the key order of `tables` and `transformations` as sequences (`tableKeys`, `transformKeys`), plus the project's config files and those not yet visited. The three classifiers are CONSTANT operators (`InferSource`, `Platform`, `SkipConfig`), so one module serves v3 and v2. `ScanTransformation(f)` is one whole loop iteration: entry creation, then every `_track_table` call for the inputs and then the outputs. `SkipVariables(f)` is the `continue` branch. `ScanNext` picks any pending file, because `rglob` order is unspecified. |
| `TwinScanV2` | v2's `scan_transformations` (v2:84-278) | `V2 == INSTANCE TwinRegistry WITH` the v2 classifiers. v2's loop is v3's, with `_track_table` written out inline twice, statement for statement. |
| `TwinIndex` | `create_twin_structure` (catalog part) and `_create_indices` | Composes `TwinRegistry`. Once the scan is done, `BuildIndex` sets `index` to a record of every view the build derives from the registry. `transform_files` maps each transformation directory to the transformation whose `metadata.json` it ends up holding: the loop runs over `sorted(self.transformations.items())`, so the last id in `str` order wins. |
| `TwinIndexV2` | v2's `run()` (v2:279-567, 591-602) | Composes `TwinScanV2` with `I2 == INSTANCE TwinIndex WITH` the v2 classifiers: v2's catalogs and indices are v3's statement for statement, apart from the `_comment` fields. `CreateTwinStructureV2` is `I2!BuildIndex`, plus `rootFiles`: the counts of the `graph.jsonl` `_meta` line and of `manifest-extended.json` (which `README.md` repeats), its sources and platform counts, and the project id `_get_project_id` reads from `.keboola/project.json` (`ProjectFiles`: absent, with an id, without one). |
| `TwinLineage` | spec.md sections 3 and 4.2 | The abstract lineage specification, independent of any script version. A project's records are ingested one at a time in any order; each appends one typed edge per reference that names a table (stated over dot positions, not via `split`), inputs first, duplicates kept. Variables directories add nothing when `ExcludesVariables`. Every record is eventually ingested. |
| `TwinV1` | v1 (`transform_to_twin.py`, 24-256) | The first transformer: a set of `(bucket, table)` pairs, transformations, edges with `rel`, and `twin`, the files `create_twin_structure` writes (the uid in each table and transformation `model.json`, and `graph.jsonl`). Table directories follow `sorted(self.tables)` (`PairLess`), transformation directories follow dict order. |
| `TwinJobs` | `_create_jobs_structure` (v3:370-467) | Pure operators: the `Counter`s, `job.get(key, createdTime)`, the null-time crash test, grouping by (componentId, configurationId), and `max` over timestamp strings. |
| `TwinRun` | `run()` end to end (v3:46-75, 221-891) | Composes `TwinIndex` and `TwinJobs`. `phase` follows the code: `FetchProjectMetadata`, `FetchJobs`, `Scan`, `CreateCatalogs`, then `NoJobs` or `WriteJobsIndex`, then `WriteRecentJob` per job (or `RecentJobCrashes`), then `WriteLatestFiles`, then `SampleFetched`/`SampleUnavailable` per table, then `WriteSamplesIndex`, `CreateComponents`, `CreateIndices`, `CreateAIGuide` and `CreateRootFiles`, the calls of `create_twin_structure` (v3:346-368) in order. `written` holds the fixed-name files written so far (the catalogs' `index.json` files, `jobs/index.json`, the samples index, `components/index.json`, the five index files, `ai/README.md` and the three root files). An API call either answers or raises. An exception sets `phase = "failed"` and records where in `failedAt`; the files written before it stay. |
| `MCTwinConfigs` | Model inputs | The config-file records shared by the MC modules. |
| `MCTwin`, `MCTwinV2`, `MCTwinRun`, `MCTwinNames`, `MCTwinV1` | TLC instances | See Bounds. |

A config file is a record:

- `path`: the directories below `main/transformation`;
- `meta`: the keys present in `meta.json`;
- `inputs`: `storage.input.tables[*].source`, with `""` when absent;
- `outputs`: `storage.output.tables[*].destination`, with `""` when absent.

The following are left out because no property reads them:

- description, original path and the `dependencies` copies, which always
  equal `input_tables` and `output_tables`;
- `_comment` fields, JSON layout and wall-clock timestamps;
- job durations;
- CSV row counts.

A job is the API's record with only the keys it carries:

- `componentId` and `configurationId` stand for the keys of
  `operationParams`;
- a present time may be null (`None`);
- a timestamp string `...T..:..:..+0h00` is `[local, offset]`. String order
  is the lexicographic order of `<<local, offset>>`, and the instant is
  `local - 60*offset`.

Fairness: every spec is weakly fair on its next-state relation, stated as
`WF_vars(Next)` (`Spec`, `RunSpec`, `V1Spec`). The script is one thread that
runs every step as soon as the previous one returns, and it waits only on
API calls, which return or raise; so an enabled step is always taken. The
program stops after the root files or after an exception. Each spec has a
predicate for "ended" and a `Terminated` action that stutters once the
program has ended, so deadlock checking stays on everywhere: TLC confirms
that some step is possible in every state before the end.

TLC evaluates `ENABLED` without caching the values of `LET` definitions and
operator arguments. So the parts of a step that depend on the config files
alone, and not on the state, are constant tables computed once:
`RefKeysOf`, `NewTableOf`, `NewTransformationOf` and `SkipOf` in
`TwinRegistry`; `SafeDirOf` and `IdLess` in `TwinIndex`; `JobViews` in
`TwinRun`; `ScannedV1` and `SafeDirV1` in `TwinV1`. `SortFrom` binds its
accumulator once per step for the same reason. In `TwinLineage`, the
fairness of `LineageNext` is `<>(ingested = project)`, which is equivalent
because every step ingests one of finitely many records. It is written as a
state formula so that it can be checked through a refinement mapping.

Refinement: `TwinRegistry` and `TwinV1` each instantiate `TwinLineage`:

- `project` is the config files;
- `ingested` is those already visited (`configFiles \ pending`);
- `edges` is the edge list with its keys renamed.

`LineageRefinement` and `LineageRefinementV1` are `Lineage!LineageSpec`,
checked as PROPERTYs. v3 and v2 skip variables directories, and v1 does not
(`ExcludesVariables` is `TRUE` for v3 and v2, `FALSE` for v1). A skipped
file is an ingestion that adds no edge.

## Runs

| Run | Config | Expect | What it shows |
|---|---|---|---|
| `registry_index` | `MCTwin_registry.cfg` | pass | For every project drawn from eight config files (`MCConfigUniverseRegistry`) and every visiting order, the following hold. **LineageConsistent**: `graph.jsonl` and the tables' `consumed_by`/`produced_by` agree, with multiplicities; a transformation's `input_tables`/`output_tables` are the last run of its edges, and all of them unless a second directory with the same name reset the entry at v3:142. **AggregatesAgree**: `sources` and `buckets` agree with the table entries. **TableEntriesStable**: no step replaces a table or shortens a list. **MostConnectedIsTopRanking**: `most-connected-nodes` is the top of the graph by degree (an overwritten transformation by the lineage its entry still lists, at most its degree), ties in dict order, cut at the limit. **SourceViewsAgree**: `sources.json` and `tables-by-source.json` always give every source the same tables; `buckets/index.json` `by_source` agrees with them exactly when no cleaned bucket mixes sources. Only the infix strip of `bucket_clean` (v3:178) mixes them: `c-X` and `X` always infer the same source, while `gc-a4` (unknown) cleans to `ga4` (google-analytics), and `by_source` then files both tables under whichever was reached first. **LineageRefinement**: the scan implements `TwinLineage`, so every behaviour, run to the end, builds exactly spec.md's edge list in visiting order and visits every file. It also checks **RegistryTypeOK**. |
| `name_helpers` | `MCTwinNames_parse.cfg` | pass | **ParseRoundTrip**: `parse_table_reference` splits any string of up to 5 characters over `a`, `-` and `.` into parts that rejoin to it, or else into the None triple. **PlatformMatchesComponentV2**: v2's chain tags all 11 Keboola transformation components with their own platform. v3's chain does not: it tags exasol and julia as `sql`. |
| `run_pipeline` | `MCTwinRun_run.cfg` | pass | This is the whole run, including API failures and every job list of up to two jobs. **RunTypeOK**: among other things, never more than `max_samples` sample requests. **LatestIsLatestInTime**: with winter-time stamps, each `latest.json` names the job of its configuration that finished last, including against a job without `endTime` and one created later but finished sooner. **JobsEventuallyReported**: once a non-empty job list is fetched, the run reaches the by-component `latest.json` files unless a job with a null time crashes it. **ManifestMarksCompleteTwin**: whenever `manifest-extended.json` exists, the run raised nothing and every step wrote its files (`jobs/index.json` exactly when there are jobs), every job has its `jobs/recent` file and every table to sample was requested. A run that crashes in the jobs loop leaves the catalogs and part of `jobs/` without a manifest. **TwinEventuallyComplete**: every run raises or writes `manifest-extended.json`, so the jobs step's early return leaves that step only. |
| `transform_id_collision` | `MCTwin_collision.cfg` | violation | **OneTransformationPerDirectory** (spec.md section 3) fails. Two directories named `agg_orders` become one entity. |
| `bucket_clean_infix` | `MCTwin_bucketclean.cfg` | violation | **BucketCleanStripsPrefix** fails. `c-sfdc-contacts` is cleaned to `sfdcontacts`. |
| `table_metadata_collision` | `MCTwinRun_entityfiles.cfg` | violation | **EveryEntityHasItsFiles** fails: not every table and transformation gets its own metadata file, and not every sampled table its own sample directory. `crm.report` and `c-crm.report` share one metadata file, which describes the first of them only. Separately, the transformations named `Agg Orders` and `agg_orders` both sanitize to `transformations/agg_orders/`, and only the one whose id sorts last keeps its `metadata.json`. |
| `v1_lineage` | `MCTwinV1_lineage.cfg` | pass | **LineageRefinementV1**: v1's scan implements `TwinLineage`, without the variables exclusion. **V1TypeOK**: among other things, every transformation `model.json` names a transformation of the registry. |
| `latest_job_dst` | `MCTwinRun_dst.cfg` | violation | **LatestIsLatestInTime** fails across the autumn clock change. `02:30+0200` sorts after `02:10+0100`, which is 40 minutes later in time. On Python before 3.11 `fromisoformat` rejects `+0200` (v3:405-406 rewrites only `+0100`), so there the same list crashes the jobs loop instead; the model follows 3.11 and later. |
| `jobs_null_time_crash` | `MCTwinRun_crash.cfg` | violation | **CrashesOnlyFromApi** (spec.md section 7) fails. A running job (`endTime: null`) makes `.replace` raise in the jobs step. |
| `sample_table_id` | `MCTwinRun_sampleid.cfg` | violation | **SampleRequestsNameStorageTables** fails. The sample request is `bucket.table`, without the stage. |
| `v2_default_skipped` | `MCTwinV2_default.cfg` | violation | **OneTransformationPerDirectoryV2** fails. v2 drops a configuration directory named `default`. |
| `v2_no_stage_fallback` | `MCTwinV2_fallback.cfg` | violation | **SourceFallsBackToStageV2** (spec.md section 4.2) fails. v2's fallback tests the bucket, which never carries the stage. v3 removed the fallback altogether. |

The two v2 runs check `SpecV2`, the whole v2 run, but both violations are
found during the scan, so no run explores `CreateTwinStructureV2` to the
end. The build itself is `TwinIndex`, which `registry_index` checks with
v3's classifiers. A run of `SpecV2` over a project without the two v2
defects (`AggOrders`, `Report`, `Variables`, `VariableValues`) reaches the
root files and ends in 130 distinct states without error. It is not among
the runs, because it checks no property beyond those of `TwinIndex`.

Each property of a passing run has a mutant in `PROJECT.json`. A mutant is a
variant operator, defined just before the original, that reproduces a
plausible bug:

- an inverted `if not source`;
- de-duplicated edges;
- a count bumped on every reference;
- a dropped `not in self.tables` guard;
- an unstable sort;
- a source count that counts buckets;
- `parts[2]` alone as the table name;
- the generic `sql` test first in the chain;
- `[:max_samples + 1]`;
- the latest job picked by start time;
- the root files written together with the catalogs, before the jobs step;
- the jobs step's early return taken out of `create_twin_structure`;
- the jobs step's early return taken without its `if not self.jobs` guard;
- the variables test reduced to the last directory name, which drops the
  `variables/values` case;
- v1's output edges given the input loop's `rel`;
- v1's transformation `model.json` uid built from the display name.

With each one swapped in, TLC finds its property violated.

### Bounds

`MCTwinConfigs.MCConfigUniverse` holds six config files:

- the spec's end-to-end example, with a repeated input;
- a disabled Python transformation that reads a produced table and reads the
  same table twice;
- a config with an empty mapping, a two-part reference, and buckets `crm` and
  `c-crm`;
- a config with no mappings;
- a `variables` config;
- a `variables/values/default` config.

`registry_index` adds two (`MCConfigUniverseRegistry`): `AggOrdersPython`, a
second directory named `agg_orders`, and `Ga4Events`, which reads bucket `ga4`
and writes bucket `gc-a4`.

`Init` ranges over every subset of these, and `ScanNext` over every visiting
order. That covers:

- first-write races on a bucket's source (`ga4` against `gc-a4`);
- a transformation entry reset by a second directory after tables recorded
  edges to it;
- tables shared between configs;
- skipped files;
- projects without tables.

The other bounds are as follows:

- **`MostConnectedLimit = 3`**: the cut drops connected nodes, and ties occur
  at the cut.
- **`MaxSamples = 2`**: projects have up to four tables, so the cut happens.
  The code uses 5.
- **Job lists**: up to two distinct jobs, from five records:
  - two runs of one configuration that finish in the opposite order to their
    creation;
  - a storage job without component;
  - a running job with `endTime: null`;
  - a job with no start or end keys.

  The fetch limit of 100 only bounds the loop.
- **Violation-run additions**:
  - `AggOrdersPython`: a name collision (also in `registry_index`);
  - `SfdcSync`: an infix `c-`;
  - `DefaultConfig`: a directory named `default`;
  - `OrdersRenamed`: a second transformation whose display name, `Agg
    Orders`, sanitizes to the directory of `agg_orders`;
  - a pair of jobs across the clock change.
- **`MCTwinV1`**: the same six config files as `registry_index`, every subset
  and every order.
- **`MCTwinNames`**: all 364 strings of up to five characters over `a`, `-`
  and `.`, which includes empty parts, leading and trailing dots, and more
  than three parts. Each is paired with each of the 11 component ids.

## Not modelled (yet) and plan

1. **The root README's links.** `README.md` always links `jobs/index.json`
   (v3:847). That file is not written when the API lists no jobs (the early
   return at v3:375). `ManifestMarksCompleteTwin` states this case exactly.
   A property that every link of `README.md` resolves would fail on this
   case alone. spec.md leaves file emission out of scope, so no violation
   run is spent on it; it is listed as a hazard.
2. **The counts in the root files.** The components index, the AI guide, the
   manifests and `README.md` hold counts of the registry (`len(self.tables)`
   and so on), each computed from the registry that no longer changes after
   the scan. No property tells them apart from the indices' own counts, so
   only which files exist is modelled.

These parts are left out for good:

- the HTTP client, which is I/O;
- the text of the components index, AI guide, root files, v2's
  `manifest.yaml` and `README.md`, and the summary printing (their place in
  the run is modelled: `CreateAIGuide` and `CreateRootFiles`, and in v2
  `CreateTwinStructureV2`);
- v1's `brief.md`, `manifest.yaml` and `README.md`, which are text;
- the `__main__` block, which reads the token from `.env.local`, constructs
  the transformer and calls `run()`;
- the GitHub action helper `sed_path.py`, which filters a list of paths by
  existence.

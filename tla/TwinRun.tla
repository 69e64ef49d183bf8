------------------------------ MODULE TwinRun ------------------------------
(***************************************************************************)
(* TwinFormatTransformerV3.run(): the API fetches, the scan, and           *)
(* create_twin_structure step by step in the order the code writes its     *)
(* output, with the jobs and samples steps modelled per job and per table. *)
(*                                                                         *)
(* The Storage API is abstract: a GET either answers or raises.  The job   *)
(* list it answers with is any member of JobLists; a data-preview request  *)
(* either returns CSV text or fails (fetch_table_sample turns the failure  *)
(* into None).  An exception that reaches run() ends the program: phase    *)
(* "failed", with failedAt naming the step that raised; the files written  *)
(* before it stay on disk.  written holds the fixed-name files of the twin *)
(* written so far; the per-entity files are index, recent, latest and      *)
(* samples.  The indices' contents are the views BuildIndex computes, as   *)
(* the registry no longer changes after the scan.                          *)
(***************************************************************************)
EXTENDS TwinIndex, TwinJobs

CONSTANTS
  JobLists,     \* the job lists GET /v2/storage/jobs?limit=100 may return
  MaxSamples    \* the max_samples argument of _create_samples_structure

VARIABLES
  phase,           \* the step run() has reached
  failedAt,        \* the step whose exception ended the program, or None
  jobs,            \* self.jobs
  jobsIndex,       \* jobs/index.json, None until written
  recent,          \* ids of the jobs/recent/<id>.json files, in write order
  latest,          \* the by-component latest.json files, None until written
  sampleRequests,  \* the table ids passed to fetch_table_sample, in order
  samples,         \* samples_created
  written          \* the fixed-name files of the twin written so far

runVars == <<phase, failedAt, jobs, jobsIndex, recent, latest, sampleRequests, samples,
             written>>
allVars == <<vars, runVars>>

-----------------------------------------------------------------------------
\* What the jobs steps compute from a job list depends on the list only:
\* computed once for each list the API may return.  (latest.json is only
\* reached when no job's times crash the loop before it.)
JobViews == [js \in JobLists |->
               [crashes |-> [i \in DOMAIN js |-> CrashesOnTimes(js[i])],
                index |-> [total_jobs |-> Len(js), by_status |-> ByStatus(js),
                           by_operation |-> ByOperation(js)],
                latest |-> IF \E i \in DOMAIN js : CrashesOnTimes(js[i]) THEN None
                           ELSE LatestByComponent(js)]]

\* api_get raises on an HTTP error; nothing has been written yet.
FetchProjectMetadata ==
  /\ phase = "fetch_metadata"
  /\ \/ phase' = "fetch_jobs" /\ UNCHANGED failedAt
     \/ phase' = "failed" /\ failedAt' = "fetch_metadata"
  /\ UNCHANGED <<vars, jobs, jobsIndex, recent, latest, sampleRequests, samples, written>>

FetchJobs ==
  /\ phase = "fetch_jobs"
  /\ \/ \E js \in JobLists : jobs' = js /\ phase' = "scan" /\ UNCHANGED failedAt
     \/ phase' = "failed" /\ failedAt' = "fetch_jobs" /\ UNCHANGED jobs
  /\ UNCHANGED <<vars, jobsIndex, recent, latest, sampleRequests, samples, written>>

Scan ==
  /\ phase = "scan"
  /\ ScanNext
  /\ UNCHANGED <<index, runVars>>

\* Variant: the root files written right after the catalogs, before the
\* jobs step.
CreateCatalogsWithRootFiles ==
  /\ phase = "scan"
  /\ BuildIndex
  /\ phase' = "jobs"
  /\ written' = written \cup {"buckets/index.json", "transformations/index.json",
                              "manifest-extended.json", "manifest.yaml", "README.md"}
  /\ UNCHANGED <<failedAt, jobs, jobsIndex, recent, latest, sampleRequests, samples>>

\* scan_transformations has returned; the buckets and transformations
\* parts of create_twin_structure write the catalogs.
CreateCatalogs ==
  /\ phase = "scan"
  /\ BuildIndex
  /\ phase' = "jobs"
  /\ written' = written \cup {"buckets/index.json", "transformations/index.json"}
  /\ UNCHANGED <<failedAt, jobs, jobsIndex, recent, latest, sampleRequests, samples>>

\* Variant: the early return taken whatever the job list holds.
NoJobsUnguarded ==
  /\ phase = "jobs"
  /\ phase' = "samples"
  /\ UNCHANGED <<vars, failedAt, jobs, jobsIndex, recent, latest, sampleRequests, samples, written>>

\* Variant: the early return leaves create_twin_structure, not only the
\* jobs step: run() goes on to print_summary.
NoJobsEndsRun ==
  /\ phase = "jobs"
  /\ jobs = <<>>
  /\ phase' = "done"
  /\ UNCHANGED <<vars, failedAt, jobs, jobsIndex, recent, latest, sampleRequests, samples, written>>

\* _create_jobs_structure: `if not self.jobs: return`.
NoJobs ==
  /\ phase = "jobs"
  /\ jobs = <<>>
  /\ phase' = "samples"
  /\ UNCHANGED <<vars, failedAt, jobs, jobsIndex, recent, latest, sampleRequests, samples, written>>

WriteJobsIndex ==
  /\ phase = "jobs"
  /\ jobs # <<>>
  /\ jobsIndex' = JobViews[jobs].index
  /\ written' = written \cup {"jobs/index.json"}
  /\ phase' = "recent"
  /\ UNCHANGED <<vars, failedAt, jobs, recent, latest, sampleRequests, samples>>

\* One iteration of `for job in self.jobs[:100]` (the list has at most 100).
WriteRecentJob ==
  /\ phase = "recent"
  /\ Len(recent) < Len(jobs)
  /\ ~JobViews[jobs].crashes[Len(recent) + 1]
  /\ recent' = Append(recent, jobs[Len(recent) + 1].id)
  /\ UNCHANGED <<vars, phase, failedAt, jobs, jobsIndex, latest, sampleRequests, samples, written>>

\* The same iteration when a time is null: None.replace raises.
RecentJobCrashes ==
  /\ phase = "recent"
  /\ Len(recent) < Len(jobs)
  /\ JobViews[jobs].crashes[Len(recent) + 1]
  /\ phase' = "failed"
  /\ failedAt' = "jobs"
  /\ UNCHANGED <<vars, jobs, jobsIndex, recent, latest, sampleRequests, samples, written>>

WriteLatestFiles ==
  /\ phase = "recent"
  /\ Len(recent) = Len(jobs)
  /\ latest' = JobViews[jobs].latest
  /\ phase' = "samples"
  /\ UNCHANGED <<vars, failedAt, jobs, jobsIndex, recent, sampleRequests, samples, written>>

\* Variant: the slice taken one too long, [:max_samples + 1].
SampleCountOffByOne ==
  IF Len(tableKeys) <= MaxSamples THEN Len(tableKeys) ELSE MaxSamples + 1

\* list(self.tables.items())[:max_samples]
SampleCount == IF Len(tableKeys) < MaxSamples THEN Len(tableKeys) ELSE MaxSamples

NextSampleKey == tableKeys[Len(sampleRequests) + 1]

\* full_table_id = f"{bucket}.{table}"
SampleTableId(key) == key[1] \o "." \o key[2]

\* fetch_table_sample returned CSV text: the sample is written and listed.
SampleFetched ==
  /\ phase = "samples"
  /\ Len(sampleRequests) < SampleCount
  /\ sampleRequests' = Append(sampleRequests, SampleTableId(NextSampleKey))
  /\ samples' = Append(samples, [bucket |-> tables[NextSampleKey].bucket_clean,
                                 table |-> NextSampleKey[2]])
  /\ UNCHANGED <<vars, phase, failedAt, jobs, jobsIndex, recent, latest, written>>

\* fetch_table_sample returned None (the request raised): `continue`.
SampleUnavailable ==
  /\ phase = "samples"
  /\ Len(sampleRequests) < SampleCount
  /\ sampleRequests' = Append(sampleRequests, SampleTableId(NextSampleKey))
  /\ UNCHANGED <<vars, phase, failedAt, jobs, jobsIndex, recent, latest, samples, written>>

\* A step of create_twin_structure that writes the files fs and moves on.
WriteStep(from, to, fs) ==
  /\ phase = from
  /\ phase' = to
  /\ written' = written \cup fs
  /\ UNCHANGED <<vars, failedAt, jobs, jobsIndex, recent, latest, sampleRequests, samples>>

\* The loop over the tables to sample is over: storage/samples/index.json.
WriteSamplesIndex ==
  /\ Len(sampleRequests) = SampleCount
  /\ WriteStep("samples", "components", {"storage/samples/index.json"})

\* _create_components_structure: an index counting the transformations.
CreateComponents == WriteStep("components", "indices", {"components/index.json"})

IndexFiles ==
  {"indices/graph.jsonl", "indices/sources.json", "indices/queries/tables-by-source.json",
   "indices/queries/transformations-by-platform.json",
   "indices/queries/most-connected-nodes.json"}

\* _create_indices: the graph with its _meta line, sources.json and the
\* three queries.
CreateIndices == WriteStep("indices", "ai_guide", IndexFiles)

\* _create_ai_guide: ai/README.md from the owner record and the counts.
CreateAIGuide == WriteStep("ai_guide", "root_files", {"ai/README.md"})

\* _create_root_files, the last step: manifest-extended.json, manifest.yaml
\* and README.md; print_summary only prints.
CreateRootFiles ==
  WriteStep("root_files", "done", {"manifest-extended.json", "manifest.yaml", "README.md"})

RunInit ==
  /\ Init
  /\ phase = "fetch_metadata" /\ failedAt = None
  /\ jobs = <<>> /\ jobsIndex = None /\ recent = <<>> /\ latest = None
  /\ sampleRequests = <<>> /\ samples = <<>> /\ written = {}

\* run() has returned or raised.
RunEnded == phase \in {"done", "failed"}

RunTerminated == RunEnded /\ UNCHANGED allVars

RunNext ==
  \/ FetchProjectMetadata \/ FetchJobs \/ Scan \/ CreateCatalogs
  \/ NoJobs \/ WriteJobsIndex \/ WriteRecentJob \/ RecentJobCrashes \/ WriteLatestFiles
  \/ SampleFetched \/ SampleUnavailable \/ WriteSamplesIndex
  \/ CreateComponents \/ CreateIndices \/ CreateAIGuide \/ CreateRootFiles
  \/ RunTerminated

\* run() is one thread that takes each step as soon as it can and waits
\* only on API calls, which return or raise: weak fairness of RunNext.
RunFairness == WF_allVars(RunNext)

RunSpec == RunInit /\ [][RunNext]_allVars /\ RunFairness

-----------------------------------------------------------------------------
(***************************************************************************)
(* Properties of the run.                                                  *)
(***************************************************************************)
Phases == {"fetch_metadata", "fetch_jobs", "scan", "jobs", "recent", "samples",
           "components", "indices", "ai_guide", "root_files", "done", "failed"}

\* Every fixed-name file of the twin.
TwinFiles ==
  {"buckets/index.json", "transformations/index.json", "jobs/index.json",
   "storage/samples/index.json", "components/index.json", "ai/README.md",
   "manifest-extended.json", "manifest.yaml", "README.md"} \cup IndexFiles

RunTypeOK ==
  /\ phase \in Phases
  /\ failedAt \in {None, "fetch_metadata", "fetch_jobs", "jobs"}
  /\ jobs \in JobLists \cup {<<>>}
  /\ Len(recent) <= Len(jobs)
  /\ Len(samples) <= Len(sampleRequests)
  /\ Len(sampleRequests) <= MaxSamples
  /\ written \subseteq TwinFiles

\* The jobs of one component configuration, as by-component groups them.
GroupOf(g) == {jobs[i] : i \in {k \in DOMAIN jobs : IsComponentJob(jobs[k]) /\ ComponentKey(jobs[k]) = g}}

\* by-component/<component>/<configuration>/latest.json names the job of
\* that configuration that finished last: every job of the configuration
\* ended (or, without an end time, was created) no later than it.  The
\* code picks it by comparing the timestamp strings.
LatestIsLatestInTime ==
  latest # None =>
    \A g \in DOMAIN latest :
      \E l \in GroupOf(g) :
        /\ l.id = latest[g].latestJobId
        /\ \A j \in GroupOf(g) :
             Instant(TimeOrCreated(j, "endTime")) <= Instant(TimeOrCreated(l, "endTime"))

\* A run whose job fetch returned jobs eventually writes the by-component
\* latest.json files, unless the recent-jobs loop raises first: the jobs
\* step neither returns early nor is skipped when there is history.
JobsEventuallyReported ==
  (phase = "scan" /\ jobs # <<>>) ~> (latest # None \/ failedAt = "jobs")

\* spec.md section 7: the only failures that end the program are those of
\* the API collaborator; the core assumes well-formed inputs and degrades
\* gracefully.  Here: an exception that ends run() comes from an API call.
CrashesOnlyFromApi ==
  phase = "failed" => failedAt \in {"fetch_metadata", "fetch_jobs"}

\* The table ids the configurations reference (stage.bucket.table).
StorageTableIds ==
  {r \in UNION {Range(f.inputs) \cup Range(f.outputs) : f \in configFiles} :
     IsTracked(ParseTableReference(r))}

\* _create_samples_structure fetches "a few tables" of the project: every
\* id it passes to fetch_table_sample is the id of a table the project's
\* configurations read or write.
SampleRequestsNameStorageTables ==
  \A i \in DOMAIN sampleRequests : sampleRequests[i] \in StorageTableIds

\* Every entity the run writes a file for gets its own file: the table and
\* transformation metadata.json files of EveryEntityHasItsMetadataFile, and
\* storage/samples/<bucket_clean>/<table>/ of _create_samples_structure,
\* which two sampled tables never share.
EveryEntityHasItsFiles ==
  /\ EveryEntityHasItsMetadataFile
  /\ \A i, j \in DOMAIN samples : i < j => samples[i] # samples[j]

\* manifest-extended.json, the file the twin's README and AI guide tell a
\* reader to start with, marks a complete twin: when it exists the run has
\* raised nothing, every step of create_twin_structure has written its files
\* (jobs/index.json exactly when the API listed jobs), every job has its
\* jobs/recent file and every table to sample was requested.  A run that
\* raised in the jobs loop leaves catalogs and part of jobs/ on disk.
ManifestMarksCompleteTwin ==
  "manifest-extended.json" \in written =>
    /\ failedAt = None
    /\ TwinFiles \ {"jobs/index.json"} \subseteq written
    /\ ("jobs/index.json" \in written <=> jobs # <<>>)
    /\ Len(recent) = Len(jobs)
    /\ Len(sampleRequests) = SampleCount

\* Every run either raises or writes manifest-extended.json: no step of
\* run() or create_twin_structure returns early past the root files (the
\* `if not self.jobs: return` leaves _create_jobs_structure only).
TwinEventuallyComplete ==
  <>(failedAt # None \/ "manifest-extended.json" \in written)

=============================================================================

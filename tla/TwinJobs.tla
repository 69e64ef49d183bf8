------------------------------ MODULE TwinJobs ------------------------------
(***************************************************************************)
(* The job-history views of _create_jobs_structure (v3): the counters of   *)
(* jobs/index.json, the per-job timestamp handling of jobs/recent and the  *)
(* latest-job aggregation of jobs/by-component.                            *)
(*                                                                         *)
(* A job is a record as the Storage API returns it, with only the keys it  *)
(* carries: id, status and createdTime always; operationName,              *)
(* componentId, configurationId (the keys of operationParams), startTime   *)
(* and endTime when present.  A present time may be None (JSON null: the   *)
(* job has not started or not finished).                                   *)
(*                                                                         *)
(* A timestamp string "YYYY-MM-DDTHH:MM:SS+0h00" is the record             *)
(* [local |-> minutes of local time, offset |-> h].  Two such strings of   *)
(* the same width compare as the pair <<local, offset>> compares           *)
(* lexicographically; the instant they denote is local - 60 * offset.     *)
(***************************************************************************)
EXTENDS Integers, Sequences, FiniteSets, TwinNames

JobGet(j, key, default) == IF key \in DOMAIN j THEN j[key] ELSE default

\* job.get(key, job['createdTime']): None when the key holds JSON null.
TimeOrCreated(j, key) == JobGet(j, key, j.createdTime)

\* The recent-jobs loop calls .replace on both times: a None raises.
CrashesOnTimes(j) ==
  TimeOrCreated(j, "startTime") = None \/ TimeOrCreated(j, "endTime") = None

\* Counter(values)
CountValues(vs) == [v \in Range(vs) |-> Cardinality({i \in DOMAIN vs : vs[i] = v})]

ByStatus(js) == CountValues([i \in DOMAIN js |-> js[i].status])
ByOperation(js) == CountValues([i \in DOMAIN js |-> JobGet(js[i], "operationName", "unknown")])

ComponentKey(j) == <<JobGet(j, "componentId", None), JobGet(j, "configurationId", None)>>

\* `if comp_id and config_id:`
IsComponentJob(j) == Truthy(ComponentKey(j)[1]) /\ Truthy(ComponentKey(j)[2])

\* component_jobs: the jobs of each (component, configuration), in list order.
ComponentJobs(js) ==
  [g \in {ComponentKey(js[i]) : i \in {k \in DOMAIN js : IsComponentJob(js[k])}} |->
     SelectSeq(js, LAMBDA j : IsComponentJob(j) /\ ComponentKey(j) = g)]

\* String order of two timestamps.
StrLess(a, b) == a.local < b.local \/ (a.local = b.local /\ a.offset < b.offset)

Instant(t) == t.local - 60 * t.offset

\* Variant: the latest job picked by start time.
LatestJobByStart(gs) ==
  LET key(i) == TimeOrCreated(gs[i], "startTime")
      top == {i \in DOMAIN gs : \A m \in DOMAIN gs : ~StrLess(key(i), key(m))}
  IN gs[Min(top)]

\* max(jobs_list, key=lambda j: j.get('endTime', j['createdTime'])): the
\* first job whose key string is not below any other.
LatestJob(gs) ==
  LET key(i) == TimeOrCreated(gs[i], "endTime")
      top == {i \in DOMAIN gs : \A m \in DOMAIN gs : ~StrLess(key(i), key(m))}
  IN gs[Min(top)]

CountStatus(gs, s) == Cardinality({i \in DOMAIN gs : gs[i].status = s})

\* The content of by-component/<component>/<configuration>/latest.json.
LatestByComponent(js) ==
  LET cj == ComponentJobs(js)
  IN [g \in DOMAIN cj |->
        [latestJobId |-> LatestJob(cj[g]).id,
         latestJobStatus |-> LatestJob(cj[g]).status,
         latestJobTime |-> JobGet(LatestJob(cj[g]), "endTime", None),
         successCount |-> CountStatus(cj[g], "success"),
         errorCount |-> CountStatus(cj[g], "error")]]

=============================================================================

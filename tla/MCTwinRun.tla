------------------------------ MODULE MCTwinRun ------------------------------
(***************************************************************************)
(* Model-checking instance of the whole run: the config files of MCTwin    *)
(* and job lists drawn from a handful of Storage API job records.          *)
(***************************************************************************)
EXTENDS TwinRun, MCTwin

\* A timestamp in winter time (+0100), m minutes into the day.
T(m) == [local |-> m, offset |-> 1]

\* Two runs of the agg_orders configuration: the second was created and
\* started later but finished first.
RunOld ==
  [id |-> "1", status |-> "success", operationName |-> "transformationRun",
   componentId |-> SNOW, configurationId |-> "agg_orders",
   createdTime |-> T(0), startTime |-> T(1), endTime |-> T(30)]
RunShort ==
  [id |-> "2", status |-> "error", operationName |-> "transformationRun",
   componentId |-> SNOW, configurationId |-> "agg_orders",
   createdTime |-> T(10), startTime |-> T(11), endTime |-> T(20)]

\* A storage job: no component configuration, no operationName.
TableImport ==
  [id |-> "3", status |-> "success", createdTime |-> T(5),
   startTime |-> T(6), endTime |-> T(7)]

\* A run of the same configuration still in progress: endTime is null.
RunProcessing ==
  [id |-> "4", status |-> "processing", operationName |-> "transformationRun",
   componentId |-> SNOW, configurationId |-> "agg_orders",
   createdTime |-> T(40), startTime |-> T(41), endTime |-> None]

\* A job record without start and end keys: createdTime stands for both.
Queued ==
  [id |-> "5", status |-> "success", componentId |-> SNOW,
   configurationId |-> "agg_orders", createdTime |-> T(25)]

MCJobUniverse == {RunOld, RunShort, TableImport, RunProcessing, Queued}

\* Job lists of up to two distinct jobs, in any order.
MCJobLists ==
  {<<>>} \cup {<<j>> : j \in MCJobUniverse}
         \cup {<<j, k>> \in MCJobUniverse \X MCJobUniverse : j # k}

\* Around the end of summer time: 02:30+0200 comes before 02:10+0100.
DstEarly ==
  [id |-> "6", status |-> "success", componentId |-> SNOW,
   configurationId |-> "agg_orders", createdTime |-> [local |-> 140, offset |-> 2],
   startTime |-> [local |-> 141, offset |-> 2], endTime |-> [local |-> 150, offset |-> 2]]
DstLate ==
  [id |-> "7", status |-> "error", componentId |-> SNOW,
   configurationId |-> "agg_orders", createdTime |-> [local |-> 120, offset |-> 1],
   startTime |-> [local |-> 121, offset |-> 1], endTime |-> [local |-> 130, offset |-> 1]]

MCJobListsDst == {<<DstEarly, DstLate>>}

\* Fewer than the tables of most projects, so the cut happens.
MCMaxSamples == 2
==============================================================================

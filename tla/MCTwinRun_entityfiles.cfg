\* Buckets crm and c-crm both hold a table named report; display names
\* "Agg Orders" and "agg_orders" sanitize to one directory.  Any job list:
\* the tables collide in buckets/ and, once sampled, in storage/samples/.
CONSTANTS
  None = None
  InferSource <- InferSourceFromBucket
  Platform <- DetectPlatform
  SkipConfig <- IsVariablesConfig
  ConfigUniverse <- MCConfigUniverseDivergent
  MostConnectedLimit <- MCMostConnectedLimit
  JobLists <- MCJobLists
  MaxSamples <- MCMaxSamples
SPECIFICATION RunSpec
INVARIANT EveryEntityHasItsFiles

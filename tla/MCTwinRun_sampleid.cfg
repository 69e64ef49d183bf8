\* Any project with a table: the samples step requests its first tables.
CONSTANTS
  None = None
  InferSource <- InferSourceFromBucket
  Platform <- DetectPlatform
  SkipConfig <- IsVariablesConfig
  ConfigUniverse <- MCConfigUniverse
  MostConnectedLimit <- MCMostConnectedLimit
  JobLists <- MCJobLists
  MaxSamples <- MCMaxSamples
SPECIFICATION RunSpec
INVARIANT SampleRequestsNameStorageTables

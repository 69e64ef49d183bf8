\* Job lists that may hold a job still waiting or running.
CONSTANTS
  None = None
  InferSource <- InferSourceFromBucket
  Platform <- DetectPlatform
  SkipConfig <- IsVariablesConfig
  ConfigUniverse <- MCConfigUniverse
  MostConnectedLimit <- MCMostConnectedLimit
  JobLists <- MCJobLists
  MaxSamples <- MCMaxSamples
SPECIFICATION RunSpec
INVARIANT CrashesOnlyFromApi

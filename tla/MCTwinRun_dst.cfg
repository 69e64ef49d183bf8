\* Two runs of one configuration that end around the end of summer time.
CONSTANTS
  None = None
  InferSource <- InferSourceFromBucket
  Platform <- DetectPlatform
  SkipConfig <- IsVariablesConfig
  ConfigUniverse <- MCConfigUniverse
  MostConnectedLimit <- MCMostConnectedLimit
  JobLists <- MCJobListsDst
  MaxSamples <- MCMaxSamples
SPECIFICATION RunSpec
INVARIANT LatestIsLatestInTime

\* A bucket named c-sfdc-contacts: "c-" also occurs inside the name.
CONSTANTS
  None = None
  InferSource <- InferSourceFromBucket
  Platform <- DetectPlatform
  SkipConfig <- IsVariablesConfig
  ConfigUniverse <- MCConfigUniverseDivergent
  MostConnectedLimit <- MCMostConnectedLimit
SPECIFICATION Spec
INVARIANT BucketCleanStripsPrefix

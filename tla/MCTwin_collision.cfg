\* Two configuration directories named agg_orders under different components.
CONSTANTS
  None = None
  InferSource <- InferSourceFromBucket
  Platform <- DetectPlatform
  SkipConfig <- IsVariablesConfig
  ConfigUniverse <- MCConfigUniverseDivergent
  MostConnectedLimit <- MCMostConnectedLimit
SPECIFICATION Spec
INVARIANT OneTransformationPerDirectory

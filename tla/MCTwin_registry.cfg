\* The scan and the index build over every project drawn from the universe,
\* config files visited in every order.  The program stops after the build.
CONSTANTS
  None = None
  InferSource <- InferSourceFromBucket
  Platform <- DetectPlatform
  SkipConfig <- IsVariablesConfig
  ConfigUniverse <- MCConfigUniverseRegistry
  MostConnectedLimit <- MCMostConnectedLimit
SPECIFICATION Spec
INVARIANTS
  RegistryTypeOK
  LineageConsistent
  AggregatesAgree
  MostConnectedIsTopRanking
  SourceViewsAgree
PROPERTIES
  TableEntriesStable
  LineageRefinement

\* The whole run over every project drawn from MCTwin's config files and
\* every job list of up to two jobs; API calls may fail.  The program ends
\* after the root files or after an exception, so a Terminated stutter step stands for the end and deadlock is checked.
CONSTANTS
  None = None
  InferSource <- InferSourceFromBucket
  Platform <- DetectPlatform
  SkipConfig <- IsVariablesConfig
  ConfigUniverse <- MCConfigUniverse
  MostConnectedLimit <- MCMostConnectedLimit
  JobLists <- MCJobLists
  MaxSamples <- MCMaxSamples
SPECIFICATION RunSpec
INVARIANTS RunTypeOK LatestIsLatestInTime ManifestMarksCompleteTwin
PROPERTIES JobsEventuallyReported TwinEventuallyComplete

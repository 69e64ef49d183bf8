\* The v2 scan over every project drawn from MCConfigUniverseV2, config
\* files visited in every order, and the files it writes after the scan.
CONSTANTS
  None = None
  ConfigUniverse <- MCConfigUniverseV2
  MostConnectedLimit <- MCMostConnectedLimitV2
  ProjectFiles <- MCProjectFiles
SPECIFICATION SpecV2
INVARIANT SourceFallsBackToStageV2

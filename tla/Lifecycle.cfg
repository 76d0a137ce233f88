SPECIFICATION FairSpec
CONSTANTS
  Configurations <- ServiceNames
  Options <- InstallOptions
  InitSystems <- BothManagers
  MaxCommands = 4
  MaxMishaps = 2
INVARIANTS ConfigIsWhole ServiceIsAsInstalled InstallStarts StaysAway SafeRestart
PROPERTIES InstalledServiceRuns
CHECK_DEADLOCK FALSE

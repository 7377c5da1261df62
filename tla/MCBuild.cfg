SPECIFICATION FairSpec
CONSTANTS
  NumCalls = 3
  Program <- Programs
  Actors <- ActorsFound
  MaxImportLoops = 2
CHECK_DEADLOCK FALSE
INVARIANTS AssetsAreOnlyNoted LiveProjectIsReady
PROPERTIES OlderNeverReplacesNewer CallsReturn

SPECIFICATION Spec
CONSTANTS
  score = score
  health = health
  NumActors = 2
  MaxInstances = 4
  Offset <- None
  Attribute <- BothAttributes
  MaxWatchers = 3
  KeepsClones = TRUE
INVARIANTS WatchedAreInstances

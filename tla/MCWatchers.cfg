SPECIFICATION Spec
CONSTANTS
  score = score
  health = health
  NumActors = 3
  MaxInstances = 5
  Offset <- Offsets
  Attribute <- OneAttribute
  MaxWatchers = 2
  KeepsClones = FALSE
INVARIANTS WatchedAreInstances DrawnAreInstances
PROPERTIES WatchersKeepPlaces OrderIsStable

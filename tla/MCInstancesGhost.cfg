SPECIFICATION Spec
CONSTANTS
  NumActors = 3
  MaxInstances = 5
  Offset <- Offsets
  CloneDeleted = TRUE
INVARIANTS InstancesAreDrawn

SPECIFICATION Spec
CONSTANTS
  m = m
  n = n
  space = space
  yes = yes
  NumActors = 2
  MaxInstances = 3
  Offset <- None
  CloneDeleted = FALSE
  Answer <- None
  MaxQuestions = 0
  Handler <- TwoHandlers
  HandlerActor <- Sprite2
  HandlerEvent <- FlagFlag
  Message <- None
  Key <- None
  MaxGroups = 2
  MaxPerformances = 0
  MaxWait = 0
  Syscalls <- RaiseCalls
PROPERTIES StopAllDeletesClones

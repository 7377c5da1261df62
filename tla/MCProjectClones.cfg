SPECIFICATION Spec
CONSTANTS
  m = m
  n = n
  space = space
  yes = yes
  NumActors = 2
  MaxInstances = 3
  Offset <- None
  CloneDeleted = TRUE
  Answer <- None
  MaxQuestions = 0
  Handler <- ThreeHandlers
  HandlerActor <- Sprite3
  HandlerEvent <- FlagMessageClone
  Message <- OneMessage
  Key <- OneKey
  MaxGroups = 3
  MaxPerformances = 0
  MaxWait = 0
  Syscalls <- CloneCalls
INVARIANTS ThreadsAreScheduled NoBadStateAtWake ThreadsHaveInstances NoGroupTwice
PROPERTIES StopAllDeletesClones InstancesSpec

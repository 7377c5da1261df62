SPECIFICATION FairSpec
CONSTANTS
  m = m
  n = n
  space = space
  yes = yes
  NumActors = 2
  MaxInstances = 2
  Offset <- None
  CloneDeleted = FALSE
  Answer <- None
  MaxQuestions = 0
  Handler <- ThreeHandlers
  HandlerActor <- StageSprite3
  HandlerEvent <- FlagMessages
  Message <- TwoMessages
  Key <- None
  MaxGroups = 3
  MaxPerformances = 1
  MaxWait = 2
  Syscalls <- WaitCalls
INVARIANTS TypeOK NoWaitCycle
PROPERTIES SleepersWake

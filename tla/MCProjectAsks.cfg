SPECIFICATION FairSpec
CONSTANTS
  m = m
  n = n
  space = space
  yes = yes
  NumActors = 2
  MaxInstances = 3
  Offset <- Forward
  CloneDeleted = FALSE
  Answer <- Answers
  MaxQuestions = 3
  Handler <- ThreeHandlers
  HandlerActor <- Sprite3
  HandlerEvent <- FlagFlagClone
  Message <- None
  Key <- None
  MaxGroups = 2
  MaxPerformances = 0
  MaxWait = 0
  Syscalls <- AskCalls
INVARIANTS AskersWillBeAnswered
PROPERTIES LiveQuestionIsAsked AskersResume QuestionsSpec

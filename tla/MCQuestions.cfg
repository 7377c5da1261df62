SPECIFICATION FairSpec
CONSTANTS
  yes = yes
  no = no
  Answer <- AnswerValues
  MaxQuestions = 3
INVARIANTS HeadAlone RepliesMatch
PROPERTIES AnswersAreFinal EveryQuestionSettles AskSpec

CONSTANTS
  MaxId = 2
  MaxSocket = 3
SPECIFICATION FairSpec
INVARIANTS OutcomeIsVerdict AnswerEndsWait NoWaitOnGoneSocket
PROPERTIES CommandReturns

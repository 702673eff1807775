SPECIFICATION Spec
CONSTANTS
  MaxQuestions = 1
  MaxTokens = 1
  MaxIngestion = 0
  MaxFaults = 1
  Nobody = Nobody
  Faults = {"lateSubscription"}
CHECK_DEADLOCK FALSE
INVARIANT AnsweredIsWhole

SPECIFICATION FairSpec
CONSTANTS
  MaxQuestions = 2
  MaxTokens = 1
  MaxIngestion = 1
  MaxFaults = 1
  Nobody = Nobody
  Faults = {"lateSubscription", "documentExpiry", "redisError", "cut", "taskFailure",
            "workerError", "workerCrash"}
CHECK_DEADLOCK FALSE
INVARIANTS
  TypeOK
  ShowsOwnAnswer
  AnsweredAsHeard
  ControllerOfOpenCall
PROPERTIES
  MessageOnlyGrows
  StreamEnds
  RelayEnds

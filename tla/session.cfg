SPECIFICATION FairSpec
CONSTANTS
  LoginCommands <- Logins
  MaxCommands = 6
  MaxPending = 2
INVARIANTS PipelineInStep AutocommitAgrees
PROPERTIES ErrorsReachTheCaller OperationsEnd
CHECK_DEADLOCK FALSE

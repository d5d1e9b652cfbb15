SPECIFICATION Spec
CONSTANTS
  NodeCount = 3
  MaxExecutes = 3
  Envs = {"0", "1", "2"}
  RunTaskFuncs = {TRUE, FALSE}
  SetupMayFail = TRUE
  ExecuteMayFail = TRUE
  PreExecuteMayFail = TRUE
PROPERTIES
  ImplementsOrderedRun PackIsNotInUse FailureIsReported
  ReturnsPrepared ExecuteEnds TasksAreRun
CHECK_DEADLOCK FALSE

\* Limits of a few units, so that a script can end, fail or expire anywhere.
CONSTANTS
  Timeout = 2
  HookPeriod = 2
  MaxThreads = 2
  MaxStep = 2
  MaxSetup = 1
  MaxNow = 7
  Texts = {"", "text", "text.nul"}
  Methods = {"GET"}
  Names = {"name", "Name"}
  Lower <- MCLower
  UpToNul <- MCUpToNul
  Missing = Missing
  JsonRequests <- MCJsonRequests
  Statuses <- MCStatuses
  LuaHeaders <- MCLuaHeaders
  IllTyped = IllTyped
  Bodies = {"", "text", "text.nul", "table"}
  ToText <- MCToText
SPECIFICATION FairSpec
INVARIANTS TypeOK  TimeoutIsDue AnswerIsAllOrNothing FailureIsReported
  RequestArrives
PROPERTIES  ImplementsExecution

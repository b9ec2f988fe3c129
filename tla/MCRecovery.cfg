CONSTANTS
  t1 = t1
  t2 = t2
  t3 = t3
  NoTask = NoTask
  ExitCodes = {0, 1, 143}
  Tasks = {t1, t2}
  InitialTasks = {t1, t2}
  MaxOps = 2
  MaxRevision = 2
  MaxFailures = 1
  MaxProposals = 1
  Native = TRUE
  HasVerifier = TRUE
  AutoContinue = TRUE
  Commands = {"start", "stop", "resume", "task.requeue", "task.cancel", "task.pause"}
  MaxCommands = 2
  MaxStarts = 2
  MaxCrashes = 1
SYMMETRY TaskSymmetry
SPECIFICATION CSpec
CHECK_DEADLOCK FALSE
INVARIANTS
  SoleOperation
  ProviderIsAccountedFor
  StoppedIsTruthful
PROPERTIES
  UnknownNeedsOperator
  ImplementsStore

CONSTANTS
  t1 = t1
  t2 = t2
  t3 = t3
  NoTask = NoTask
  ExitCodes = {0, 1, 143}
  Tasks = {t1}
  InitialTasks = {t1}
  MaxOps = 2
  MaxRevision = 2
  MaxFailures = 1
  MaxProposals = 1
  Native = FALSE
  HasVerifier = TRUE
  AutoContinue = TRUE
  Commands = {"start", "stop", "pause", "resume", "steer.pause-after-iteration", "steer.stop-after-task", "task.verify", "task.pause"}
  MaxCommands = 3
  MaxStarts = 1
  MaxCrashes = 0
SPECIFICATION FairCSpec
PROPERTIES
    MissionsEnd
CHECK_DEADLOCK FALSE

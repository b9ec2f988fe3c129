CONSTANTS
  t1 = t1
  t2 = t2
  t3 = t3
  NoTask = NoTask
  ExitCodes = {0, 76, 78, 143}
  Tasks = {t1, t2}
  InitialTasks = {t1}
  MaxOps = 2
  MaxRevision = 2
  MaxFailures = 1
  MaxProposals = 1
  Native = TRUE
  HasVerifier = TRUE
  AutoContinue = FALSE
  Commands = {"start", "force-stop", "pause", "continue", "steer.verify", "steer.pause-after-iteration", "steer.stop-after-task", "resume", "cancel", "task.add", "task.amend", "task.pause", "task.requeue", "task.cancel", "task.dependency", "task.verify", "task.reject", "task.propose", "task.proposal-decision"}
  MaxCommands = 2
  MaxStarts = 1
  MaxCrashes = 1
SPECIFICATION CSpec
INVARIANTS
    TasksAreSound
PROPERTIES
    VerdictIsForItsRevision
    CompletedIsFinal
CHECK_DEADLOCK FALSE

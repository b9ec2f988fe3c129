SPECIFICATION FairSpec
CONSTANTS
  Tasks = {"a", "b"}
  Views = {"Tasks", "Overview"}
  Projections <- MCProjections
  Mixes <- MCMixes
  MaxWrites = 2
  MaxDrafts = 2
  MaxEdits = 1
  MaxReads = 2
  MaxFaults = 1
INVARIANTS
    DraftsOutliveFailure
PROPERTIES
    LateThreadsAreHarmless
    
CHECK_DEADLOCK FALSE

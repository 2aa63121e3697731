\* One worker, as deployed, and two jobs; the worker may stall.
CONSTANTS
  Jobs = {j1, j2}
  Workers = {w1}
  NoJob = NoJob
  MayStall = TRUE
  SupervisorsFail = FALSE
SPECIFICATION FairSpec
PROPERTY StopReachesWorker
PROPERTY QueuedIsTaken
PROPERTY StaleJobIsRecovered

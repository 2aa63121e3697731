\* One job and one worker; AbandonedJobIsRequeued is expected to fail.
CONSTANTS
  Jobs = {j1}
  Workers = {w1}
  NoJob = NoJob
  MayStall = FALSE
  SupervisorsFail = FALSE
SPECIFICATION FairSpec
PROPERTY AbandonedJobIsRequeued

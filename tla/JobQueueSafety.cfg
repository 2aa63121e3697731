\* Two workers that keep their heartbeats; their supervisors may fail.
CONSTANTS
  Jobs = {j1, j2}
  Workers = {w1, w2}
  NoJob = NoJob
  MayStall = FALSE
  SupervisorsFail = TRUE
SPECIFICATION Spec
SYMMETRY Symmetric
INVARIANT TypeOK
INVARIANT OneWorkerPerJob
INVARIANT TranscriptMatchesStatus
INVARIANT ResumableKeepsWorkspace
INVARIANT NoTranscriptCollision
INVARIANT CancelledOnlyOnRequest
PROPERTY ImplementsLease
PROPERTY ImplementsLife

\* Recordings up to three chunks and a bit, up to two pauses, both parities of
\* the limit, targets below, at and above it.
CONSTANTS
  Durations = {0, 1, 6, 7, 8, 12, 13, 17, 20}
  Targets = {3, 6, 9}
  HardMaxes = {6, 7}
  Reports <- AllReports
  MaxPauses = 2
  LastTick = 20
SPECIFICATION Spec
INVARIANT TypeOK
INVARIANT EveryWordOnce
INVARIANT ChunkLengths
INVARIANT CutsLandInPauses
INVARIANT NotTooManyChunks

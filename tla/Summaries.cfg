\* Two summaries at a time, one user preset and a built-in one, at most three parts.
CONSTANTS
  Ids = {s1, s2}
  Presets = {p1, b1}
  Builtin = {b1}
  NoPreset = NoPreset
  NoSummary = NoSummary
  MaxParts = 3
SPECIFICATION FairSpec
INVARIANT TypeOK
INVARIANT OneWordingPerSummary
INVARIANT DoneCoversTranscript
PROPERTY AttemptsAreKept
PROPERTY RecordingsAreNotStarved
PROPERTY SummariesAreTaken

\* Three chunks, two requests per chunk, two languages to confuse.
CONSTANTS
  Chunks = 3
  Attempts = 2
  Languages = {en, ru}
  NoLanguage = NoLanguage
SPECIFICATION FairSpec
INVARIANT TypeOK
INVARIANT ResumableHasInput
INVARIANT TranscriptIsComplete
INVARIANT OneLanguage
INVARIANT ProgressIsThisAttempts
PROPERTY SavedTranscriptStays
PROPERTY AttemptEnds

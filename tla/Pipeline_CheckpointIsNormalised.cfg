\* One language is enough; CheckpointIsNormalised is expected to fail.
CONSTANTS
  Chunks = 3
  Attempts = 2
  Languages = {en}
  NoLanguage = NoLanguage
SPECIFICATION FairSpec
INVARIANT CheckpointIsNormalised

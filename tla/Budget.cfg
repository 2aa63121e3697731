\* Segments of one, two and three tokens and one of four, budgets from the minimum
\* to five tokens, a template with and without a second {transcript}.
CONSTANTS
  Transcripts <- AllTranscripts
  Lengths = {1, 3, 5, 9, 12}
  MaxSegments = 5
  Contexts = {6, 9, 10, 12}
  Prompts = {13, 15}
  Copies = {1, 2}
  ResponseReserve = 2
  MinimumBudget = 2
SPECIFICATION Spec
INVARIANT TypeOK
INVARIANT EverySegmentOnce
INVARIANT FewestParts

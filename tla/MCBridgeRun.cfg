SPECIFICATION TranscribeSpec
CONSTANTS
  NumArtifacts = 3
  MaxRuns = 3
INVARIANTS NoMixedRuns IdeaComesBack
PROPERTY RunIsAtomic
CHECK_DEADLOCK FALSE

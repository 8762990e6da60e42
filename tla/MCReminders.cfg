SPECIFICATION Spec
CONSTANTS
  None = None
  MaxDay = 1
  MaxEvents = 2
  MaxTags = 2
  Faults = {"write", "crash"}
INVARIANTS IdsDistinct NothingForgotten AnsweredStaysQuiet

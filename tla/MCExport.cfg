SPECIFICATION ExportSpec
CONSTANTS
  Names <- MCNames
  Calendar = "calendar-suggestions.json"
  TasksJson = "tasks.json"
  Texts <- MCTexts
  Garbled = {"garbled"}
  Suggested = {"calendar-suggestions.json"}
  Absent = Absent
  Torn = Torn
  MaxExports = 3
  Devices = {"host", "SD"}
  Faults = {"write", "crash"}
CHECK_DEADLOCK FALSE
INVARIANTS DoneIsComplete MixtureIsNoticed InfoIsNeverAhead

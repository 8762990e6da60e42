SPECIFICATION Spec
CONSTANTS
  NoSlug = NoSlug
  TasksFile = TasksFile
  Absent = Absent
  Stems = {"a"}
  MaxNumber = 3
  Texts = {"t1", "t2"}
  Faults = {"write", "crash"}
  Backends = {TRUE, FALSE}
INVARIANTS CurrentExists StaysOnMade ShownIsSaved BareOnlyAfterFault OnlyHelpHangs
PROPERTIES IdeasKept

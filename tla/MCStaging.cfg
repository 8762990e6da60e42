SPECIFICATION Spec
CONSTANTS
  r1 = r1
  p1 = p1
  NoId = NoId
  Ids = {r1}
  Projects = {p1}
  ProjectOf <- MCProjectOf
  NumArtifacts = 2
  MaxRuns = 3
  Builds = {TRUE, FALSE}
  Faults = {"write", "crash"}
CHECK_DEADLOCK FALSE
INVARIANTS NothingLost
PROPERTIES AcceptDelivers

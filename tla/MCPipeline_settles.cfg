SPECIFICATION FairSpec
CONSTANTS
  p1 = p1
  NoId = 0
  Ids = {1, 2}
  Projects = {p1}
  ProjectOf <- MCProjectOf
  NumArtifacts = 2
  MaxRuns = 2
  Builds = {TRUE}
  Faults = {}
  BridgeFaults = {"error"}
CHECK_DEADLOCK FALSE
PROPERTIES EveryRequestSettles ReviewIsFinal

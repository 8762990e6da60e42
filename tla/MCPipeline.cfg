SPECIFICATION PipelineSpec
CONSTANTS
  p1 = p1
  NoId = 0
  Ids = {1}
  Projects = {p1}
  ProjectOf <- MCProjectOf
  NumArtifacts = 2
  MaxRuns = 3
  Builds = {TRUE}
  Faults = {"crash"}
  BridgeFaults = {"error", "other", "killed"}
CHECK_DEADLOCK FALSE
INVARIANTS DoneIsReviewable OnlyReviewedReachesProject
PROPERTIES ImplementsStaging

SPECIFICATION FairSpec
CONSTANTS
  Absent = Absent
  Empty = Empty
  MaxTakes = 2
  MaxBlocks = 4
  EarlyBlocks = 2
  FlushBlocks = 2
  Targets = {1, 2}
  DefaultTarget = 2
  MaxAge = 3
  Faults = {"write", "crash"}
INVARIANTS ManifestDescribesWav NoStumpsLeft
PROPERTIES KeptNeverChanges HostLosesOneFlush RecordingEnds

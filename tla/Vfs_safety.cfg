SPECIFICATION VfsSpec
CONSTANTS
  Name <- Names
  Prefixed <- BeginsWith
  Archives <- SmallArchives
  Paths <- OpenPaths
  MountPaths <- Mounts
  MaxLevel = 3
  MaxSteps = 20
  MaxObj = 3
  MaxOpen = 2
  MaxRef = 3
CHECK_DEADLOCK FALSE
INVARIANTS
  ObjectsLive
  RefsExact
  LookupsExact

SPECIFICATION FairSpec
CONSTANTS
  Names <- IslandNames
  After <- IslandAfter
  Before <- NoBefore
  Pids = {p1, p2, p3}
  NoPid = NoPid
  NoName = NoName
  Dirs <- IslandDirs
  Compositor = "lgp-compositor"
  Shell = "luna-shell"
  Policy <- AlwaysRestart
  Attempts <- NoRestarts
  Method <- AllProbe
  MaxCount = 3
  Commands = {}
  MaxOps = 0
PROPERTIES
  SplashIsReleased

SPECIFICATION FairSpec
CONSTANTS
  Names <- PairNames
  After <- PairAfter
  Before <- NoBefore
  Pids = {p1, p2}
  NoPid = NoPid
  NoName = NoName
  Dirs <- PairDir
  Compositor = "lgp-compositor"
  Shell = "luna-shell"
  Policy <- MixedPolicy
  Attempts <- OneEach
  Method <- PairMethod
  MaxCount = 2
  Commands = {}
  MaxOps = 0
PROPERTIES
  ZombiesAreReaped
  Settles
  SplashIsReleased

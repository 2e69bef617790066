SPECIFICATION Spec
CONSTANTS
  Names <- PairNames
  After <- PairAfter
  Before <- NoBefore
  Pids = {p1, p2, p3}
  NoPid = NoPid
  NoName = NoName
  Dirs <- ChangingDirs
  Compositor = "lgp-compositor"
  Shell = "luna-shell"
  Policy <- MixedPolicy
  Attempts <- NoRestarts
  Method <- PairMethod
  MaxCount = 2
  Commands = {"start", "stop", "restart", "reload"}
  MaxOps = 2
SYMMETRY PidSymmetry
INVARIANTS
  PidsAreOwn
  ZombiesAreAnnounced

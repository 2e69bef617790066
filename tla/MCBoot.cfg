SPECIFICATION Spec
CONSTANTS
  Names <- AllNames
  After <- SpineAfter
  Before <- ShellLast
  Pids = {p1, p2, p3}
  NoPid = NoPid
  NoName = NoName
  Dirs <- SpineDirs
  Compositor = "lgp-compositor"
  Shell = "luna-shell"
  Policy <- AlwaysRestart
  Attempts <- OneForDbus
  Method <- SpineMethod
  MaxCount = 3
  Commands = {"stop", "shutdown"}
  MaxOps = 1
SYMMETRY PidSymmetry
INVARIANTS
  CompositorAfterSplash
  RestartsBounded
PROPERTIES
  SpawnsAreGated

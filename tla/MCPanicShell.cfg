\* A mount table and messages as in MCStartup.
CONSTANTS
  MsgLen = 3
  Chunk = 4
  BufMax = 8
  FrameFiles = {0, 600}
  MetaFps = {0, 1}
  Early <- MCEarly
  Critical <- MCCritical
  Single <- MCCritical
  Parent <- MCParent
  Fstabs <- MCFstabs
  MountMax = 8
  Sides = {1}
  Depths = {32}
  Padding = {0}
SPECIFICATION Spec
INVARIANT PanicIsVisible
CHECK_DEADLOCK FALSE

\* Messages of 3 bytes read 4 at a time through a buffer of 8; a mount table of
\* 8 entries, which the longest fstab overflows.
CONSTANTS
  MsgLen = 3
  Chunk = 4
  BufMax = 8
  FrameFiles = {0, 600}
  MetaFps = {0, 1}
  Early <- MCEarly
  Critical <- MCCritical
  Single <- MCCritical
  Parent <- MCParent
  Fstabs <- MCFstabs
  MountMax = 8
  Sides = {1, 2, 5}
  Depths = {8, 16, 24, 32}
  Padding = {0, 1, 4}
SPECIFICATION Spec
INVARIANTS  TextAtHandOver DrawsOnScreen
PROPERTIES StopReturns 
CHECK_DEADLOCK FALSE

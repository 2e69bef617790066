SPECIFICATION Spec
CONSTANTS
  Archives <- MCArchives
  Paths <- MCPaths
  DbMax = 2
  FilesMax = 2
  MaxCommands = 4
  Faults <- MCFaults
  Callers = {c1, c2}
  Loaded = {"net"}
  Asked <- MCAsked
  Users = {u1, u2}
  Asking <- MCRequests
  Capacity = 2
  MaxCalls = 4
  Peers = {1, 2, 3}
  MaxClients = 2
  MaxEvents = 2
  Apps <- MCApps
  Streams <- MCStreams
  BufSize = 5
  Chars <- MCChars
  MaxText = 5
  StrMax = 5
  ItemsMax = 2
  EntriesMax = 3
  TablesMax = 1
  TomlNames = {"m", "n"}
  MaxLines = 4
  RxSize = 5
  Header = 2
  ClipSize = 3
  QueueMax = 2
  Frames <- MCFrames
  MaxFrames = 3
  ScreenW = 3
  ScreenH = 2
  Sub = 2
  Deltas <- MCDeltas
  ModKeys = {"LEFTSHIFT", "RIGHTSHIFT", "LEFTCTRL"}
  PlainKeys = {"A"}
  DisplayW = 3
  DisplayH = 2
  Pitch = 13
  Extents = {1, 2}
  Places <- MCPlaces
  Slack <- MCSlack
  Levels = {0, 1, 127, 128, 254, 255}
INVARIANTS
  
  
  RetriesAreSafe
  
  
  RelaysInOrder
  
  
  FramesInOrder
  CommitsGetTheirBuffer
  InputMatchesDevices
  PaintsInBounds
PROPERTIES
  RequestsEnd
  
\* Clients may all be gone, and the bounds on texts and commands reached.
CHECK_DEADLOCK FALSE

SPECIFICATION Spec
CONSTANTS
  SurfaceMax = 2
  Width = 2
  MaxSession = 2
  MaxSurface = 2
  MaxFds = 1
  MaxLost = 1
  MaxGrabs = 1
  Uids = {0, 1000}
  CapRequests <- MCCapRequests
  Requests <- MCRequests
  Keys = {k1}
  Positions <- MCPositions
INVARIANT
  ClickHitsWhatIsSeen

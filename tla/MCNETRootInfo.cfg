CONSTANTS
  Word = 256
  MaxDesktops = 2
  MaxChanges <- MCMaxChanges
  DisplaySize <- MCDisplaySize
  Geometries <- MCGeometries
  Points <- MCPoints
  Positions <- MCPositions
  Advertised = {"DesktopViewport"}
  MaxRequests = 2
  Names <- MCNames
  Windows <- MCWindows
  Topics <- MCTopics
  Interests <- MCInterests
  SupportFlags <- MCSupportFlags
SPECIFICATION DesktopsSpec
CHECK_DEADLOCK FALSE
INVARIANTS
  ClientAgrees
  RequestsArrive
  ViewportsInverse
  ListenersFollow
PROPERTY KeepsOtherNames

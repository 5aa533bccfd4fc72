CONSTANTS
  c1 = c1
  c2 = c2
  root = root
  d = d
  e = e
  g = g
  l = l
  o = o
  Clients <- MCClients
  Paths <- MCPaths
  Top <- root
  Parent <- MCParent
  Above <- MCAbove
  Target <- o
  Ops <- MCAllOps
  CallPaths <- MCCallPaths
  Links <- MCLinks
  Specials <- MCSpecials
  MaxProtected = 1
  MaxCalls = 1
SPECIFICATION Spec
INVARIANTS
  TypeOK
  SuccessWasTrue
  QuietDeleteIsExact
  QuietCreateIsExact
PROPERTIES
  DeletesStayBelow
  CallsEnd
CHECK_DEADLOCK FALSE

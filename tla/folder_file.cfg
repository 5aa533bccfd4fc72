CONSTANTS
  c1 = c1
  c2 = c2
  root = root
  d = d
  e = e
  g = g
  l = l
  o = o
  Clients <- MCClients
  Paths <- MCPaths
  Top <- root
  Parent <- MCParent
  Above <- MCAbove
  Target <- o
  Ops <- MCCreateFolder
  CallPaths <- MCCallPaths
  Links <- MCLinks
  Specials <- MCSpecials
  MaxProtected = 1
  MaxCalls = 1
SPECIFICATION Spec
INVARIANT CreatedFolderIsFolder
CHECK_DEADLOCK FALSE

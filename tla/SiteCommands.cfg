CONSTANTS
  None = None
  demo = demo
  hall = hall
  loft = loft
  base = base
  p1 = p1
  p2 = p2
  s1 = s1
  s2 = s2
  Names <- MCNames
  Homes <- MCHomes
  BaseDir = base
  Pids <- MCPids
  Shells <- MCShells
  Launches <- MCLaunches
  Templates <- MCTemplates
  Forms <- MCForms
  Declared <- MCDeclared
  Handlers = 2
  MaxCalls = 5
SYMMETRY Interchangeable
SPECIFICATION SitesSpec
INVARIANTS FilesAreTrue RebuildsTheSame OpenedIsClosed
PROPERTIES ServingKeepsTheCard
CHECK_DEADLOCK FALSE

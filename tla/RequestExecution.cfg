CONSTANTS
  None = None
  Codes = {"_server", "shop", "site", "blog"}
  Recipes <- MCRecipes
  Deployments <- MCDeployments
  Named = None
  Shipped <- MCShipped
  Management <- MCManagement
  Registry = {"session", "cors", "cors for friends"}
  WellKnown <- MCWellKnown
  Edited <- MCEdited
  MaxEdits = 1
  MaxBoots = 3
  Requests <- MCRequests
  Visited <- MCVisited
  Hidden = {".git"}
  Keys <- MCKeys
  ApiKeys = {"gak_good", "gak_bad"}
SPECIFICATION Spec
INVARIANTS BuiltAsDeclared Parity RunsAsAllowed OnlyCrashesAre500
PROPERTIES NobodyLosesAPath
CHECK_DEADLOCK FALSE

\* Fixes, some of them with two patches of one file.
SPECIFICATION RequestSpec
CONSTANTS
  Runs = {1, 2}
  Scenarios <- MCScenarios
  readCap = 2
  maxDeepSegments = 2
  ImportExtensions <- MCExtensions
  protectedPaths <- MCProtected
  ScriptsKey = "scripts"
  Scripts = {"test", "lint"}
  BrokenJson = "{broken"
  Stages = {"reviewing", "publishing"}
  throttleMs = 2
  horizon = 5
INVARIANT WorkspaceHasAllPatches
CHECK_DEADLOCK FALSE

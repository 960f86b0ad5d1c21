\* Two runs over three forges, with a request that fails, a push, and every small patch; and a
\* progress reporter.
SPECIFICATION RequestSpec
CONSTANTS
  Runs = {1, 2}
  Scenarios <- MCScenarios
  readCap = 2
  maxDeepSegments = 2
  ImportExtensions <- MCExtensions
  protectedPaths <- MCProtected
  ScriptsKey = "scripts"
  Scripts = {"test", "lint"}
  BrokenJson = "{broken"
  Stages = {"reviewing", "publishing"}
  throttleMs = 2
  horizon = 5
INVARIANTS
  CommentedOnce
  NothingForgotten
  FixIsWhole
  AllOrNothing
  FinalIsLast
PROPERTIES
  FinishIsAttempted
CHECK_DEADLOCK FALSE

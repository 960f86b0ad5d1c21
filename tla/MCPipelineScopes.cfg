\* Two runs that may overlap, as two repositories' reviews in the daemon.
CONSTANTS
  Runs = {r1, r2}
  maxConcurrent = 2
  None = None
SPECIFICATION Spec
INVARIANT ScopesAreOwn

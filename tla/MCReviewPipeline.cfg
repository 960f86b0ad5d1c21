\* Two runs, one after the other.
CONSTANTS
  Runs = {r1, r2}
  maxConcurrent = 1
  None = None
SPECIFICATION FairSpec
INVARIANTS ScopesAreOwn NothingStaysBound PublishedIsReported CommitsAreEarned HonestVerdict
PROPERTY OnlyLateAgentsAndCommandsHang

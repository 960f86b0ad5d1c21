\* Two slots, two repositories and a pool of one workspace: every second release evicts.
SPECIFICATION Spec
CONSTANTS
  NoKey = NoKey
  NoRepo = NoRepo
  secrets <- MCSecrets
  maxBodyBytes = 1
  RequestOf <- MCRequests
  maxConcurrentRepos = 2
  maxQueuePerRepo = 1
  dedupeSize = 3
  poolSize = 1
INVARIANTS
  AnswersAreHonest
  ExclusiveWorkspace
  CacheBounded
  LeasesAreHeld
  NoLostDirectory
  DisposedWhenIdle
PROPERTY UnloadTerminates

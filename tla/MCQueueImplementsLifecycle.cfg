\* Two slots for three repositories, queues of two, and a cache that never overflows.
SPECIFICATION Spec
CONSTANTS
  a1 = a1
  a2 = a2
  a3 = a3
  b1 = b1
  c1 = c1
  ra = ra
  rb = rb
  rc = rc
  k1 = k1
  k2 = k2
  k3 = k3
  k4 = k4
  NoKey = NoKey
  Deliveries = {a1, a2, a3, b1, c1}
  Repos = {ra, rb, rc}
  CoalesceKeys = {k1, k2, k3, k4}
  RepoOf <- MCRepoOf
  CoalesceKeyOf <- MCCoalesceKeyOf
  maxConcurrentRepos = 2
  maxQueuePerRepo = 2
  dedupeSize = 5
INVARIANTS
  SerialPerRepo
  Backpressure
  WorkConserving
  OneWaitingPerChange
  NoSilentDrop
  DrainedMeansDone
PROPERTIES
  DrainTerminates
  ImplementsLifecycle

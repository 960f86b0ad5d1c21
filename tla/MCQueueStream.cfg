\* One slot, lists of two, and a cache of one key.
SPECIFICATION StreamSpec
CONSTANTS
  a1 = a1
  a2 = a2
  a3 = a3
  a4 = a4
  b1 = b1
  b2 = b2
  ra = ra
  rb = rb
  kb = kb
  NoKey = NoKey
  Deliveries = {a1, a2, a3, a4, b1, b2}
  Repos = {ra, rb}
  CoalesceKeys = {kb}
  RepoOf <- MCRepoOf
  CoalesceKeyOf <- MCCoalesceKeyOf
  maxConcurrentRepos = 1
  maxQueuePerRepo = 2
  dedupeSize = 1
INVARIANTS
  TypeOK
  SupersededNeverRuns
  CoalescableAtMostOnce
PROPERTY OnlyBusyReposStarve

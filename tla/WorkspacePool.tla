---------------------------- MODULE WorkspacePool ----------------------------
(***************************************************************************)
(* The warm cache of git workspaces: `createWorkspacePool` of              *)
(* packages/drivers/driver-webhook/src/index.ts, over the git backend that *)
(* `createGitBackend` builds.                                              *)
(*                                                                         *)
(* Every method is asynchronous: it runs up to the next `await` of a git   *)
(* or rm command, and the rest of it after that command ended.  An action  *)
(* is one such stretch, `call` says where each caller's pair of calls,     *)
(* lease and release, is suspended, and everything may happen in between.  *)
(* The commands work on one directory per repository, whose name is a      *)
(* digest of the repository: it is the same in every lease and in every    *)
(* run of the daemon.                                                      *)
(***************************************************************************)
EXTENDS Integers, Sequences, FiniteSets

CONSTANTS
  Users,      \* the callers of lease: the queue's tasks
  Repos,
  UserRepo,   \* the repository each of them leases
  NoRepo,
  poolSize    \* workspacePoolSize, after Math.max(1, ...)

\* Assumed by the modules that use the pool.
PoolConstants ==
  /\ UserRepo \in [Users -> Repos]
  /\ NoRepo \notin Repos
  /\ poolSize \in Nat \ {0}

VARIABLES
  cache,      \* the idle workspaces' repositories, least recently used first
  leased,     \* the repositories leased out
  call,       \* where each user's calls are
  victim,     \* the repository whose directory the user's call is destroying
  disposing,  \* the repositories whose directories `dispose` is destroying
  disk,       \* the directories, under the base directory
  \* Observability, never read by the code.
  orphaned    \* directories left behind by a dead process, a failed git or a failed rm

poolVars == <<cache, leased, call, victim, disposing, disk, orphaned>>

\* A caller has not called ("none"), awaits a command ("refresh", "create", "clean", "discard",
\* "evict"), holds a lease ("held"), or is through.
Through == {"refused", "failed", "over"}

\* A directory is missing or empty, holds files git cannot work in, or a checked-out tree.
Contents == {"none", "debris", "tree"}

Cached == {cache[i] : i \in DOMAIN cache}
Removing == disposing \cup ({victim[u] : u \in Users} \ {NoRepo})
OnDisk(r) == disk[r] # "none"

Without(c, r) ==
  IF \E i \in DOMAIN c : c[i] = r
  THEN LET i == CHOOSE j \in DOMAIN c : c[j] = r
       IN  SubSeq(c, 1, i - 1) \o SubSeq(c, i + 1, Len(c))
  ELSE c

-----------------------------------------------------------------------------
(***************************************************************************)
(* Faulty variants of definitions below.                                   *)
(***************************************************************************)
\* The bound is looked at before the workspace is back in the cache.
OverfullLate(c) == Len(c) > poolSize + 1
\* The lease is only given back once the workspace is clean.
GivenBackLate(r) == leased
\* A workspace that cannot be cleaned is just forgotten.
UncleanForgotten(u) ==
  /\ call' = [call EXCEPT ![u] = "over"]
  /\ UNCHANGED <<cache, victim>>

-----------------------------------------------------------------------------
\* A previous run of the daemon may have left directories behind.
Init ==
  /\ cache = <<>>
  /\ leased = {}
  /\ call = [u \in Users |-> "none"]
  /\ victim = [u \in Users |-> NoRepo]
  /\ disposing = {}
  /\ disk \in [Repos -> {"none", "tree"}]
  /\ orphaned = {r \in Repos : OnDisk(r)}

\* `cache.delete(repo)` of a hit.
Taken(c, r) == Without(c, r)

\* lease, up to its first await, of a user about to call: calls is `call` before it.
Lease(calls, u) ==
  LET r == UserRepo[u]
  IN  /\ call' = [calls EXCEPT ![u] = IF r \in leased THEN "refused"
                                      ELSE IF r \in Cached THEN "refresh" ELSE "create"]
      /\ cache' = IF r \in leased THEN cache ELSE Taken(cache, r)
      /\ UNCHANGED <<leased, victim, disposing, disk, orphaned>>

\* The end of lease.
Grant(u) ==
  /\ leased' = leased \cup {UserRepo[u]}
  /\ call' = [call EXCEPT ![u] = "held"]

\* The rejection of lease: `refresh` or `create` threw.
Fail(u) ==
  /\ call' = [call EXCEPT ![u] = "failed"]
  /\ UNCHANGED leased

\* `git fetch` and `git reset --hard` ended; they fail when the network or the directory does.
RefreshEnds(u) ==
  /\ call[u] = "refresh"
  /\ LET r == UserRepo[u]
     IN  \/ disk[r] = "tree" /\ Grant(u) /\ UNCHANGED orphaned
         \/ Fail(u) /\ orphaned' = orphaned \cup {x \in {r} : OnDisk(x)}
  /\ UNCHANGED <<cache, victim, disposing, disk>>

\* `git clone` ended: it refuses a directory that is not empty, and may leave files when it
\* is killed.
CreateEnds(u) ==
  /\ call[u] = "create"
  /\ LET r == UserRepo[u]
     IN  \/ disk[r] = "none" /\ disk' = [disk EXCEPT ![r] = "tree"] /\ Grant(u) /\ UNCHANGED orphaned
         \/ Fail(u) /\ UNCHANGED <<disk, orphaned>>
         \/ /\ disk[r] = "none" /\ disk' = [disk EXCEPT ![r] = "debris"]
            /\ orphaned' = orphaned \cup {r}
            /\ Fail(u)
  /\ UNCHANGED <<cache, victim, disposing>>

\* `leased.delete(repo)`.
GivenBack(r) == leased \ {r}

\* release, up to its first await; it does nothing when `dispose` emptied the table.
Release(u) ==
  /\ call[u] = "held"
  /\ call' = [call EXCEPT ![u] = IF UserRepo[u] \in leased THEN "clean" ELSE "over"]
  /\ leased' = GivenBack(UserRepo[u])
  /\ UNCHANGED <<cache, victim, disposing, disk, orphaned>>

\* The guard of `evictIfFull`'s loop.
Overfull(c) == Len(c) > poolSize

\* One turn of that loop, with c as the cache: destroy the oldest entry, or return.
EvictIfFull(c, u) ==
  IF Overfull(c)
  THEN /\ cache' = Tail(c)
       /\ victim' = [victim EXCEPT ![u] = Head(c)]
       /\ call' = [call EXCEPT ![u] = "evict"]
  ELSE /\ cache' = c
       /\ victim' = [victim EXCEPT ![u] = NoRepo]
       /\ call' = [call EXCEPT ![u] = "over"]

\* The catch of release: "A workspace that cannot be cleaned must not be re-cached dirty."
Unclean(u) ==
  /\ victim' = [victim EXCEPT ![u] = UserRepo[u]]
  /\ call' = [call EXCEPT ![u] = "discard"]
  /\ UNCHANGED cache

\* `git reset` and `git clean` ended.
CleanEnds(u) ==
  /\ call[u] = "clean"
  /\ \/ /\ disk[UserRepo[u]] = "tree"
        /\ EvictIfFull(Append(Without(cache, UserRepo[u]), UserRepo[u]), u)
     \/ Unclean(u)
  /\ UNCHANGED <<leased, disposing, disk, orphaned>>

\* The rm that release awaits ended, with the directory gone or with an error it swallows.
RemoveEnds(u) ==
  /\ \/ /\ call[u] = "evict"
        /\ EvictIfFull(cache, u)
     \/ /\ call[u] = "discard"
        /\ call' = [call EXCEPT ![u] = "over"]
        /\ victim' = [victim EXCEPT ![u] = NoRepo]
        /\ UNCHANGED cache
  /\ orphaned' = orphaned \cup {r \in {victim[u]} : OnDisk(r)}
  /\ UNCHANGED <<leased, disposing, disk>>

\* What `dispose` destroys.
TornDown == Cached \cup leased

\* dispose, up to its await.
Dispose ==
  /\ disposing' = TornDown
  /\ cache' = <<>>
  /\ leased' = {}
  /\ UNCHANGED <<call, victim, disk, orphaned>>

\* The end of dispose: every rm it started ended.
DisposeEnds ==
  /\ disposing' = {}
  /\ orphaned' = orphaned \cup {r \in disposing : OnDisk(r)}
  /\ UNCHANGED <<cache, leased, call, victim, disk>>

\* An rm under way deletes files: it works on whatever the directory holds by then.
Sweep(r) ==
  /\ r \in Removing
  /\ OnDisk(r)
  /\ \E left \in {"debris", "none"} :
       /\ left # disk[r]
       /\ disk' = [disk EXCEPT ![r] = left]
       /\ orphaned' = IF left = "none" THEN orphaned \ {r} ELSE orphaned
  /\ UNCHANGED <<cache, leased, call, victim, disposing>>

\* A command some user's call awaits ends.
CommandEnds(u) == RefreshEnds(u) \/ CreateEnds(u) \/ CleanEnds(u) \/ RemoveEnds(u)

-----------------------------------------------------------------------------
\* The users whose calls work on a directory of their own repository.
UsesDirectory(u) == call[u] \in {"refresh", "create", "held", "clean", "discard"}

\* "The cache is LRU-bounded": between two steps it holds at most poolSize idle
\* workspaces, one entry each, and none that a user has in hand.
CacheBounded ==
  /\ Len(cache) <= poolSize
  /\ \A i, j \in DOMAIN cache : cache[i] = cache[j] => i = j
  /\ \A u \in Users : UsesDirectory(u) => UserRepo[u] \notin Cached

\* The table of leases is exact: a repository is in it when, and only when, a user holds it.
LeasesAreHeld == leased = {UserRepo[u] : u \in {v \in Users : call[v] = "held"}}

\* No directory is lost from sight: what is on disk is cached, in use, being destroyed, or
\* left behind by a command that failed.
NoLostDirectory ==
  \A r \in Repos : OnDisk(r) =>
    \/ r \in Cached \cup Removing \cup orphaned
    \/ \E u \in Users : UserRepo[u] = r /\ UsesDirectory(u)

\* "evicts by destroying the oldest idle workspace": what a lease handed out stays
\* checked out until it is given back.  The code does not keep it: the eviction's rm is
\* awaited after the repository left the cache, and the repository can be leased meanwhile.
LeasedTreeIntact ==
  \A u \in Users : call[u] = "held" => disk[UserRepo[u]] = "tree"

=============================================================================

---------------------------- MODULE WebhookDaemon ----------------------------
(***************************************************************************)
(* The webhook daemon: the queue and the workspace pool as `apply` of      *)
(* packages/drivers/driver-webhook/src/index.ts wires them.                *)
(*                                                                         *)
(* A request is answered as WebhookHandler says: the handler never awaits, *)
(* so a request that it lets through is enqueued in the same step.         *)
(*                                                                         *)
(* The queue's `run` leases the task's workspace, awaits runReview and     *)
(* releases the workspace in a `finally`; its promise settles when that is *)
(* over.  `run` executes up to its first await inside `pump`, so the first *)
(* stretch of lease belongs to the queue step that starts a task.          *)
(* Unloading the plugin stops the listener, drains the queue, and disposes *)
(* of the pool, each after the one before.                                 *)
(***************************************************************************)
EXTENDS WebhookHandler, FiniteSets

CONSTANTS
  RequestOf,   \* the HTTP requests that may arrive, by name
  NoKey, maxConcurrentRepos, maxQueuePerRepo, dedupeSize, poolSize, NoRepo

VARIABLES
  waiting, order, active, inFlight, completed, accepting, waiters, runs,
  accepted, started, finished, superseded, forgotten, drained,
  cache, leased, call, victim, disposing, disk, orphaned,
  plugin    \* how far the plugin's life has come

Requests == DOMAIN RequestOf
Deliveries == {q \in Requests : Rejection(RequestOf[q]) = Unanswered}
Task == [d \in Deliveries |-> TaskOf(RequestOf[d], NoKey)]
RepoOf == [d \in Deliveries |-> Task[d].repo]
CoalesceKeyOf == [d \in Deliveries |-> Task[d].coalesceKey]
Repos == {RepoOf[d] : d \in Deliveries}
CoalesceKeys == {CoalesceKeyOf[d] : d \in Deliveries} \ {NoKey}

\* A request is repeated, or has a key of its own.
ASSUME KeysAreOwn == \A d, e \in Deliveries : Task[d].key = Task[e].key => d = e

Q == INSTANCE WebhookQueue
P == INSTANCE WorkspacePool WITH Users <- Deliveries, UserRepo <- RepoOf

ASSUME DaemonConstants ==
  /\ P!PoolConstants
  /\ {maxConcurrentRepos, maxQueuePerRepo, dedupeSize} \subseteq Nat \ {0}

queueVars == <<waiting, order, active, inFlight, completed, accepting, waiters, runs,
               accepted, started, finished, superseded, forgotten, drained>>
poolVars == <<cache, leased, call, victim, disposing, disk, orphaned>>
vars == <<queueVars, poolVars, plugin>>

-----------------------------------------------------------------------------
(***************************************************************************)
(* Faulty variants of definitions below.                                   *)
(***************************************************************************)
\* The disposer does not wait for the queue.
MayDisposeEarly == plugin = "draining"
\* A task whose lease was rejected never settles its promise.
RunOverHangs == P!Through \ {"failed"}

-----------------------------------------------------------------------------
Init ==
  /\ Q!Init
  /\ P!Init
  /\ plugin = "serving"

\* The task the queue step started, if any, leases: calls is `call` without the task that
\* settled in this step.
StartRun(calls) ==
  LET begun == {d \in Deliveries : runs'[d] > 0 /\ calls[d] = "none"}
  IN  IF begun = {}
      THEN call' = calls /\ UNCHANGED <<cache, leased, victim, disposing, disk, orphaned>>
      ELSE \E d \in begun : P!Lease(calls, d)

\* A request that the handler answers itself leaves no trace.
Reject(q) == plugin = "serving" /\ UNCHANGED vars

\* The handler enqueues an event.
Enqueue(d) ==
  /\ plugin = "serving"
  /\ Q!Enqueue(d)
  /\ StartRun(call)
  /\ UNCHANGED plugin

\* Where the calls of a task whose promise settles are.
RunOver == P!Through

\* The promise of `run` settles: lease was rejected, or release returned.
Settle(d) ==
  /\ call[d] \in RunOver
  /\ Q!Settle(d)
  /\ StartRun([call EXCEPT ![d] = "none"])
  /\ UNCHANGED plugin

\* A step of the pool: a command ends, or runReview settles and `finally` releases.
PoolStep(d) ==
  /\ P!CommandEnds(d) \/ P!Release(d)
  /\ UNCHANGED <<queueVars, plugin>>

Sweep(r) == P!Sweep(r) /\ UNCHANGED <<queueVars, plugin>>

\* The disposer: `await stop()`.
Stop ==
  /\ plugin = "serving"
  /\ plugin' = "stopped"
  /\ UNCHANGED <<queueVars, poolVars>>

\* `await queue.drain()`.
Drain ==
  /\ plugin = "stopped"
  /\ Q!Drain
  /\ StartRun(call)
  /\ plugin' = "draining"

MayDispose == plugin = "draining" /\ drained

\* `await pool.dispose()`.
Dispose ==
  /\ MayDispose
  /\ P!Dispose
  /\ plugin' = "disposing"
  /\ UNCHANGED queueVars

DisposeEnds ==
  /\ plugin = "disposing"
  /\ P!DisposeEnds
  /\ plugin' = "unloaded"
  /\ UNCHANGED queueVars

Unloaded == plugin = "unloaded" /\ UNCHANGED vars

Next ==
  \/ \E q \in Requests \ Deliveries : Reject(q)
  \/ \E d \in Deliveries : Enqueue(d)
  \/ \E d \in Deliveries : Settle(d)
  \/ \E d \in Deliveries : PoolStep(d)
  \/ \E r \in Repos : Sweep(r)
  \/ Stop
  \/ Drain
  \/ Dispose
  \/ DisposeEnds
  \/ Unloaded

(***************************************************************************)
(* Promises that settled are handled, the disposer goes on, reviews end,   *)
(* and so do git and rm: the code awaits them without a timeout.           *)
(***************************************************************************)
Fairness ==
  /\ \A d \in Deliveries : WF_vars(Settle(d)) /\ WF_vars(PoolStep(d))
  /\ WF_vars(Drain) /\ WF_vars(Dispose) /\ WF_vars(DisposeEnds)

Spec == Init /\ [][Next]_vars /\ Fairness

-----------------------------------------------------------------------------
\* "each task running inside an exclusively leased workspace": no two tasks work in one
\* directory, and a task never meets "is already leased".  The pool alone does not ensure
\* it, since lease looks at its table before an await and writes it after; the queue's
\* serialization per repository, and its waiting for release, do.
ExclusiveWorkspace ==
  /\ \A d \in Deliveries : call[d] # "refused"
  /\ \A d, e \in Deliveries :
       P!UsesDirectory(d) /\ P!UsesDirectory(e) /\ RepoOf[d] = RepoOf[e] => d = e

CacheBounded == P!CacheBounded
LeasesAreHeld == P!LeasesAreHeld
NoLostDirectory == P!NoLostDirectory

\* "drains the queue, and disposes the workspace pool": the pool is torn down under
\* nobody's feet, and what remains on disk afterwards is what some command failed on.
DisposedWhenIdle ==
  plugin \in {"disposing", "unloaded"} =>
    /\ \A d \in Deliveries : call[d] = "none"
    /\ \A r \in Repos : disk[r] # "none" => r \in disposing \cup orphaned

\* What a request would be answered now: enqueue's outcome, as the handler maps it.
Answer(q) ==
  IF q \notin Deliveries THEN Rejection(RequestOf[q])
  ELSE IF ~accepting THEN StatusOf.shed
  ELSE IF Q!IsDuplicate(q) THEN StatusOf.duplicate
  ELSE IF Q!Coalescible(q) = {} /\ Len(waiting[RepoOf[q]]) >= maxQueuePerRepo THEN StatusOf.shed
  ELSE StatusOf.accepted

\* Two deliveries tell of one change request of one repository of one forge.
SameChange(d, e) ==
  LET Subject(q) == LET forge == DetectForge(RequestOf[q].headers)
                    IN  <<forge, ReadEventIdentity(forge, RequestOf[q].body)>>
  IN  Subject(d) = Subject(e)

\* What the daemon has accepted, or now answers as a duplicate, waits, runs or has run, or
\* another event of the very same change request does so in its place: across forges whose
\* repositories have one name, redeliveries and a full cache (createHandler, enqueue, settle).
AnswersAreHonest ==
  LET Served(d) == Q!Waiting(d) \/ runs[d] > 0 \/ d \in finished
  IN  \A d \in Deliveries :
        d \in accepted \/ Answer(d) = StatusOf.duplicate =>
          \E e \in accepted : Served(e) /\ (e = d \/ SameChange(d, e))

LeasedTreeIntact == P!LeasedTreeIntact

\* Unloading the plugin comes to its end.
UnloadTerminates == plugin = "stopped" ~> plugin = "unloaded"
=============================================================================

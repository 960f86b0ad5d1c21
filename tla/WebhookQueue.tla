---------------------------- MODULE WebhookQueue ----------------------------
(***************************************************************************)
(* The task queue of the webhook daemon: `createQueue` of                  *)
(* packages/drivers/driver-webhook/src/index.ts.                           *)
(*                                                                         *)
(* The queue's three entry points, `enqueue`, `drain` and the settlement   *)
(* of a task's promise, run to completion without awaiting anything, so    *)
(* each is one atomic action here.  What interleaves is their order: the   *)
(* forge delivers, redelivers and reorders events while reviews run and    *)
(* settle in any order.                                                    *)
(*                                                                         *)
(* A task is known by its dedupe key, `forge:repo:deliveryId`: a           *)
(* redelivery carries the same key, the same repository and the same       *)
(* coalesce key as the original.                                           *)
(***************************************************************************)
EXTENDS Integers, Sequences, FiniteSets

CONSTANTS
  Deliveries,          \* dedupe keys of the events the forge may deliver
  Repos,               \* queue partitions
  CoalesceKeys,        \* `forge:repo:changeRequestId` keys
  NoKey,               \* coalesceKey = undefined (a push, a ping)
  RepoOf,              \* QueueTask.repo
  CoalesceKeyOf,       \* QueueTask.coalesceKey
  maxConcurrentRepos,  \* after Math.max(1, ...)
  maxQueuePerRepo,     \* after Math.max(1, ...)
  dedupeSize           \* bound of the completed-key cache

ASSUME QueueConstants ==
  /\ RepoOf \in [Deliveries -> Repos]
  /\ CoalesceKeyOf \in [Deliveries -> CoalesceKeys \cup {NoKey}]
  /\ NoKey \notin CoalesceKeys
  /\ maxConcurrentRepos \in Nat \ {0}
  /\ maxQueuePerRepo \in Nat \ {0}
  /\ dedupeSize \in Nat \ {0}

\* A coalesce key names the repository it belongs to.
ASSUME CoalesceKeysAreLocal ==
  \A d, e \in Deliveries :
    CoalesceKeyOf[d] = CoalesceKeyOf[e] /\ CoalesceKeyOf[d] # NoKey
      => RepoOf[d] = RepoOf[e]

VARIABLES
  \* State of the closure.
  waiting,     \* `queues`: each repository's waiting tasks, <<>> when it has no entry
  order,       \* the keys of the Map `queues`, in insertion order
  active,      \* repositories running a task
  inFlight,    \* keys of the running tasks
  completed,   \* the bounded FIFO set of settled and superseded keys
  accepting,   \* cleared by `drain`
  waiters,     \* unresolved `drain` promises (there is one caller: 0 or 1)
  \* The promises `run(task)` returned that have not settled yet, per key.
  runs,
  \* Observability: what the properties speak of, never read by the code.
  accepted,    \* keys answered 'accepted' at least once
  started,     \* times a key was started, saturating at 2
  finished,    \* keys whose run settled
  superseded,  \* keys a task with another key replaced while they were queued
  forgotten,   \* keys the bounded set evicted
  drained      \* a `drain` promise resolved

queueVars == <<waiting, order, active, inFlight, completed, accepting, waiters, runs>>
historyVars == <<accepted, started, finished, superseded, forgotten, drained>>
vars == <<queueVars, historyVars>>

-----------------------------------------------------------------------------
Elements(s) == {s[i] : i \in DOMAIN s}

(***************************************************************************)
(* Faulty variants of definitions below, one plausible slip each: the      *)
(* properties are shown to tell them from the code.                        *)
(***************************************************************************)
\* The cache drops its oldest key one addition too late.
BoundedAddLate(keys, k) ==
  IF k \in Elements(keys) THEN keys
  ELSE Append(IF Len(keys) > dedupeSize THEN Tail(keys) ELSE keys, k)

\* The scan for the next repository does not skip the busy ones, or stops at one.
StartableAny(keys, act) == DOMAIN keys
StartableFirst(keys, act) == {i \in DOMAIN keys \cap {1} : keys[i] \notin act}

\* The repository that queued last goes first.
NextQueuedLast(keys, act) ==
  CHOOSE i \in DOMAIN keys : keys[i] \notin act /\ \A j \in DOMAIN keys : keys[j] \notin act => j <= i

\* One slot too many; no more starts once draining.
HasSlotOneOver(act) == Cardinality(act) <= maxConcurrentRepos
HasSlotOpen(act) == accepting /\ Cardinality(act) < maxConcurrentRepos

\* Starting a task deletes the repository's whole list.
DequeuedAll(w, r) == [w EXCEPT ![r] = <<>>]

\* Only half of the duplicate check.
IsDuplicateRunning(d) == d \in inFlight
IsDuplicateCompleted(d) == d \in Elements(completed)

\* No coalescing: a burst just queues up.
CoalescibleNever(d) == {}

\* `drain` looks at the queues and forgets the running tasks.
QuietQueue(act, keys) == keys = <<>>

-----------------------------------------------------------------------------
\* `Map.delete` of the i-th key.
MapDelete(keys, i) == SubSeq(keys, 1, i - 1) \o SubSeq(keys, i + 1, Len(keys))

\* `createBoundedKeySet(...).add`: a known key keeps its place, a full set drops its oldest.
BoundedAdd(keys, k) ==
  IF k \in Elements(keys) THEN keys
  ELSE Append(IF Len(keys) >= dedupeSize THEN Tail(keys) ELSE keys, k)

\* What that `add` forgets.
Evicted(keys, k) ==
  IF k \notin Elements(keys) /\ Len(keys) >= dedupeSize THEN {Head(keys)} ELSE {}

\* `nextQueuedRepo`: where the first key of the Map whose repository is not running stands.
Startable(keys, act) == {i \in DOMAIN keys : keys[i] \notin act}
HasNext(keys, act) == Startable(keys, act) # {}
NextQueued(keys, act) ==
  CHOOSE i \in Startable(keys, act) : \A j \in Startable(keys, act) : i <= j

\* The guard of pump's loop.
HasSlot(act) == Cardinality(act) < maxConcurrentRepos

\* `list.shift()`, leaving the rest of the repository's list in place.
Dequeued(w, r) == [w EXCEPT ![r] = Tail(@)]

(***************************************************************************)
(* `pump`, called last by every entry point, on the values w, o, act,      *)
(* flight and rs the entry point leaves in waiting, order, active,         *)
(* inFlight and runs.  The code's `while` iterates at most once per call:  *)
(* its condition is false whenever no entry point is running, which is the *)
(* invariant WorkConserving below, and one call opens at most one slot or  *)
(* one repository.                                                         *)
(***************************************************************************)
Pump(w, o, act, flight, rs) ==
  IF HasSlot(act) /\ HasNext(o, act)
  THEN LET i == NextQueued(o, act)
           r == o[i]
           task == Head(w[r])
       IN  /\ waiting' = Dequeued(w, r)
           /\ order' = IF Dequeued(w, r)[r] = <<>> THEN MapDelete(o, i) ELSE o
           /\ active' = act \cup {r}
           /\ inFlight' = flight \cup {task}
           /\ runs' = [rs EXCEPT ![task] = @ + 1]
           /\ started' = [started EXCEPT ![task] = IF @ = 0 THEN 1 ELSE 2]
  ELSE /\ waiting' = w
       /\ order' = o
       /\ active' = act
       /\ inFlight' = flight
       /\ runs' = rs
       /\ UNCHANGED started

-----------------------------------------------------------------------------
Init ==
  /\ waiting = [r \in Repos |-> <<>>]
  /\ order = <<>>
  /\ active = {}
  /\ inFlight = {}
  /\ completed = <<>>
  /\ accepting = TRUE
  /\ waiters = 0
  /\ runs = [d \in Deliveries |-> 0]
  /\ accepted = {}
  /\ started = [d \in Deliveries |-> 0]
  /\ finished = {}
  /\ superseded = {}
  /\ forgotten = {}
  /\ drained = FALSE

\* `enqueue` answers 'duplicate' to a key that is running or in the cache.
IsDuplicate(d) == d \in inFlight \/ d \in Elements(completed)

\* The places of the waiting tasks that d's coalesce key matches.
Coalescible(d) ==
  {i \in DOMAIN waiting[RepoOf[d]] :
     CoalesceKeyOf[d] # NoKey /\ CoalesceKeyOf[waiting[RepoOf[d]][i]] = CoalesceKeyOf[d]}

\* enqueue, refused: 'shed' while draining, 'duplicate', or 'shed' on a full queue.
Refuse(d) ==
  /\ \/ ~accepting
     \/ IsDuplicate(d)
     \/ Coalescible(d) = {} /\ Len(waiting[RepoOf[d]]) >= maxQueuePerRepo
  /\ UNCHANGED vars

\* enqueue, coalescing: d takes the place of the first waiting task of its change request.
Coalesce(d) ==
  /\ accepting
  /\ ~IsDuplicate(d)
  /\ \E i \in Coalescible(d) :
       LET r == RepoOf[d]
           replaced == waiting[r][i]
       IN  /\ \A j \in Coalescible(d) : i <= j
           /\ waiting' = [waiting EXCEPT ![r][i] = d]
           /\ completed' = BoundedAdd(completed, replaced)
           /\ forgotten' = forgotten \cup Evicted(completed, replaced)
           /\ superseded' = superseded \cup ({replaced} \ {d})
  /\ accepted' = accepted \cup {d}
  /\ UNCHANGED <<order, active, inFlight, accepting, waiters, runs,
                 started, finished, drained>>

\* enqueue, appending to the repository's list, then pump.
Push(d) ==
  /\ accepting
  /\ ~IsDuplicate(d)
  /\ Coalescible(d) = {}
  /\ Len(waiting[RepoOf[d]]) < maxQueuePerRepo
  /\ LET r == RepoOf[d]
     IN  Pump([waiting EXCEPT ![r] = Append(@, d)],
              IF waiting[r] = <<>> THEN Append(order, r) ELSE order,
              active, inFlight, runs)
  /\ accepted' = accepted \cup {d}
  /\ UNCHANGED <<completed, accepting, waiters, finished, superseded, forgotten, drained>>

Enqueue(d) == Refuse(d) \/ Coalesce(d) \/ Push(d)

\* What `drain` and `maybeResolveDrain` wait for.
Quiet(act, keys) == act = {} /\ keys = <<>>

\* `settle`, when a promise `run(task)` resolves or rejects: bookkeeping, pump, and
\* `maybeResolveDrain`.  Success and failure differ in metrics and logs only.
Settle(d) ==
  /\ runs[d] > 0
  /\ completed' = BoundedAdd(completed, d)
  /\ forgotten' = forgotten \cup Evicted(completed, d)
  /\ finished' = finished \cup {d}
  /\ Pump(waiting, order, active \ {RepoOf[d]}, inFlight \ {d}, [runs EXCEPT ![d] = @ - 1])
  /\ IF ~accepting /\ Quiet(active', order')
     THEN /\ waiters' = 0
          /\ drained' = (drained \/ waiters > 0)
     ELSE UNCHANGED <<waiters, drained>>
  /\ UNCHANGED <<accepting, accepted, superseded>>

\* `drain`, called once, by the plugin's disposer.
Drain ==
  /\ accepting
  /\ accepting' = FALSE
  /\ Pump(waiting, order, active, inFlight, runs)
  /\ IF Quiet(active', order')
     THEN drained' = TRUE /\ UNCHANGED waiters
     ELSE waiters' = waiters + 1 /\ UNCHANGED drained
  /\ UNCHANGED <<completed, accepted, finished, superseded, forgotten>>

Next ==
  \/ \E d \in Deliveries : Enqueue(d)
  \/ \E d \in Deliveries : Settle(d)
  \/ Drain

(***************************************************************************)
(* Every started review settles: runReview works under a wall-clock        *)
(* budget.  The forge owes nothing: deliveries come or not.                *)
(***************************************************************************)
Fairness == \A d \in Deliveries : WF_vars(Settle(d))

Spec == Init /\ [][Next]_vars /\ Fairness

-----------------------------------------------------------------------------
\* Each variable ranges over what the closure can hold.
TypeOK ==
  /\ waiting \in [Repos -> Seq(Deliveries)]
  /\ order \in Seq(Repos)
  /\ active \subseteq Repos
  /\ inFlight \subseteq Deliveries
  /\ completed \in Seq(Deliveries) /\ Len(completed) <= dedupeSize
  /\ accepting \in BOOLEAN
  /\ waiters \in Nat
  /\ runs \in [Deliveries -> Nat]
  /\ accepted \subseteq Deliveries
  /\ started \in [Deliveries -> 0..2]
  /\ finished \subseteq Deliveries
  /\ superseded \subseteq Deliveries
  /\ forgotten \subseteq Deliveries
  /\ drained \in BOOLEAN

Running == {d \in Deliveries : runs[d] > 0}
Waiting(d) == d \in Elements(waiting[RepoOf[d]])

\* "same-repo tasks run serially (one workspace, no contention)": no repository ever has
\* two unsettled runs, counting two runs of one key, and the bookkeeping sets agree with
\* the promises that are really pending.
SerialPerRepo ==
  /\ \A d \in Deliveries : runs[d] <= 1
  /\ \A d, e \in Running : RepoOf[d] = RepoOf[e] => d = e
  /\ inFlight = Running
  /\ active = {RepoOf[d] : d \in Running}

\* "cross-repo tasks run in parallel up to `maxConcurrentRepos`, and each repo's WAITING
\* queue is capped at `maxQueuePerRepo`".
Backpressure ==
  /\ Cardinality(active) <= maxConcurrentRepos
  /\ \A r \in Repos : Len(waiting[r]) <= maxQueuePerRepo

\* No missed wake-up: between two calls of the queue, a free slot means that no idle
\* repository has a task waiting.  It is also the exit condition of pump's loop, which is
\* why one iteration of it is the whole loop.
WorkConserving ==
  Cardinality(active) < maxConcurrentRepos =>
    \A r \in Repos : waiting[r] # <<>> => r \in active

\* "a burst of pushes does not grow a long, stale queue": at most one task waits for a
\* change request, and so coalescing has one candidate at most.
OneWaitingPerChange ==
  \A r \in Repos : \A i, j \in DOMAIN waiting[r] :
    /\ CoalesceKeyOf[waiting[r][i]] # NoKey
    /\ CoalesceKeyOf[waiting[r][i]] = CoalesceKeyOf[waiting[r][j]]
    => i = j

\* "never a silent drop": a delivery answered 'accepted' waits, runs, has settled, or was
\* replaced by a later event of its change request.
NoSilentDrop ==
  \A d \in accepted : Waiting(d) \/ d \in Running \/ d \in finished \/ d \in superseded

\* "The superseded delivery id must not re-execute if the forge redelivers it": as long as
\* the bounded cache remembers it, a replaced delivery neither waits again nor ever starts.
SupersededNeverRuns ==
  \A d \in superseded \ forgotten : ~Waiting(d) /\ started[d] = 0

\* "a forge redelivery executes at most once", for the deliveries that carry a change
\* request and that the bounded cache has not forgotten.
CoalescableAtMostOnce ==
  \A d \in Deliveries \ forgotten : CoalesceKeyOf[d] # NoKey => started[d] <= 1

\* A resolved drain promise means that nothing runs or waits any more and that everything
\* the queue accepted was run to its end or replaced: the pool may be torn down.
DrainedMeansDone ==
  drained => /\ ~accepting /\ active = {} /\ order = <<>> /\ Running = {}
             /\ accepted \subseteq finished \cup superseded

\* Every drain promise resolves once the running and queued tasks settle.
DrainTerminates == ~accepting ~> drained

\* Who waits for ever waits for others' events: a delivery leaves the queue, or every slot's worth
\* of other repositories never runs out of waiting tasks again.
NeverEmptied(r) == <>[](waiting[r] # <<>>)
OnlyBusyReposStarve ==
  \A d \in Deliveries :
    \/ Waiting(d) ~> ~Waiting(d)
    \/ \E busy \in SUBSET (Repos \ {RepoOf[d]}) :
         Cardinality(busy) = maxConcurrentRepos /\ \A r \in busy : NeverEmptied(r)
=============================================================================

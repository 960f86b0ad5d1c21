------------------------- MODULE WebhookDaemon_proofs -------------------------
(***************************************************************************)
(* Proofs about the daemon: the queue's serialization of each repository   *)
(* is what makes the pool's table of leases, its cache and the directories *)
(* agree, whatever the requests and the bounds.                            *)
(***************************************************************************)
EXTENDS WebhookDaemon, FiniteSetTheorems, SequenceTheorems, TLAPS

\* The queue with what is proved about it.
QP == INSTANCE WebhookQueue_proofs

-----------------------------------------------------------------------------
(* The daemon's queue is the queue those proofs are about. *)

LEMMA TasksSuitTheQueue ==
  /\ RepoOf \in [Deliveries -> Repos]
  /\ CoalesceKeyOf \in [Deliveries -> CoalesceKeys \cup {NoKey}]
  /\ NoKey \notin CoalesceKeys
  /\ maxConcurrentRepos \in Nat \ {0}
  /\ maxQueuePerRepo \in Nat \ {0}
  /\ dedupeSize \in Nat \ {0}
BY DaemonConstants DEF DaemonConstants, RepoOf, Repos, CoalesceKeyOf, CoalesceKeys

\* A coalesce key names the repository, so the tasks of one change request are of one.
LEMMA ChangesAreLocal ==
  \A d, e \in Deliveries :
    CoalesceKeyOf[d] = CoalesceKeyOf[e] /\ CoalesceKeyOf[d] # NoKey => RepoOf[d] = RepoOf[e]
<1> SUFFICES ASSUME NEW d \in Deliveries, NEW e \in Deliveries,
                    CoalesceKeyOf[d] = CoalesceKeyOf[e], CoalesceKeyOf[d] # NoKey
             PROVE  RepoOf[d] = RepoOf[e]
  OBVIOUS
<1>1. ASSUME NEW q \in Deliveries, CoalesceKeyOf[q] # NoKey
      PROVE  CoalesceKeyOf[q][2] = RepoOf[q]
  <2> DEFINE forge == DetectForge(RequestOf[q].headers)
             identity == ReadEventIdentity(forge, RequestOf[q].body)
             change == identity.change
  <2>1. /\ RepoOf[q] = identity.repo
        /\ CoalesceKeyOf[q] = IF change = "" THEN NoKey ELSE <<forge, identity.repo, change>>
    BY DEF RepoOf, CoalesceKeyOf, Task, TaskOf, CoalesceKey
  <2> HIDE DEF forge, identity, change
  <2>2. CoalesceKeyOf[q] = <<forge, RepoOf[q], change>>
    BY <1>1, <2>1
  <2>3. QED
    BY <2>2
<1>2. CoalesceKeyOf[d][2] = RepoOf[d] /\ CoalesceKeyOf[e][2] = RepoOf[e]
  BY <1>1
<1>3. QED
  BY <1>2

LEMMA SameInit == Q!Init => QP!Init
BY DEF Q!Init, QP!Init

LEMMA SamePump ==
  ASSUME NEW w, NEW o, NEW act, NEW flight, NEW rs, Q!Pump(w, o, act, flight, rs)
  PROVE  QP!Pump(w, o, act, flight, rs)
BY DEF Q!Pump, QP!Pump, Q!HasSlot, QP!HasSlot, Q!HasNext, QP!HasNext, Q!NextQueued,
       QP!NextQueued, Q!Startable, QP!Startable, Q!Dequeued, QP!Dequeued, Q!MapDelete,
       QP!MapDelete, Q!Cardinality, QP!Cardinality

LEMMA SameEnqueue ==
  ASSUME NEW d \in Deliveries, Q!Enqueue(d)
  PROVE  QP!Enqueue(d)
<1>1. ASSUME Q!Refuse(d) PROVE QP!Refuse(d)
  BY <1>1, Zenon DEF Q!Refuse, QP!Refuse, Q!vars, QP!vars, Q!queueVars, Q!historyVars,
                     QP!queueVars, QP!historyVars, Q!IsDuplicate, QP!IsDuplicate,
                     Q!Elements, QP!Elements, Q!Coalescible, QP!Coalescible
<1>2. ASSUME Q!Coalesce(d) PROVE QP!Coalesce(d)
  BY <1>2, Zenon DEF Q!Coalesce, QP!Coalesce, Q!IsDuplicate, QP!IsDuplicate, Q!Elements,
                     QP!Elements, Q!Coalescible, QP!Coalescible, Q!BoundedAdd,
                     QP!BoundedAdd, Q!Evicted, QP!Evicted
<1>3. ASSUME Q!Push(d) PROVE QP!Push(d)
  BY <1>3, SamePump, Zenon DEF Q!Push, QP!Push, Q!IsDuplicate, QP!IsDuplicate, Q!Elements,
                               QP!Elements, Q!Coalescible, QP!Coalescible
<1>4. QED
  BY <1>1, <1>2, <1>3, Zenon DEF Q!Enqueue, QP!Enqueue

LEMMA SameSettle ==
  ASSUME NEW d \in Deliveries, Q!Settle(d)
  PROVE  QP!Settle(d)
BY SamePump, Zenon DEF Q!Settle, QP!Settle, Q!BoundedAdd, QP!BoundedAdd, Q!Evicted,
                       QP!Evicted, Q!Elements, QP!Elements, Q!Quiet, QP!Quiet

LEMMA SameDrain == Q!Drain => QP!Drain
BY SamePump, Zenon DEF Q!Drain, QP!Drain, Q!Quiet, QP!Quiet

-----------------------------------------------------------------------------
(* What the daemon needs of the queue. *)

QueueSound == QP!SerialInv /\ QP!QuietSinceDrained /\ QP!HistoryInv /\ QP!AccountInv

\* A repository has one unsettled run at most, and a drained queue has none.
OneRunEach ==
  /\ runs \in [Deliveries -> 0..1]
  /\ \A d, e \in Deliveries : runs[d] > 0 /\ runs[e] > 0 /\ RepoOf[d] = RepoOf[e] => d = e
  /\ drained => \A d \in Deliveries : runs[d] = 0

LEMMA SoundMeansOneRunEach == QueueSound => OneRunEach
<1> SUFFICES ASSUME QueueSound PROVE OneRunEach
  OBVIOUS
<1>1. runs \in [Deliveries -> Nat] /\ QP!Serial(active, inFlight, runs)
  BY DEF QueueSound, QP!SerialInv, QP!TypeOK, QP!QueueConsistent, QP!Consistent
<1>2. runs \in [Deliveries -> 0..1]
  BY <1>1 DEF QP!Serial
<1>3. \A d, e \in Deliveries : runs[d] > 0 /\ runs[e] > 0 /\ RepoOf[d] = RepoOf[e] => d = e
  BY <1>1 DEF QP!Serial, QP!RunningIn
<1>4. drained => \A d \in Deliveries : runs[d] = 0
  <2>1. drained => active = {}
    BY DEF QueueSound, QP!QuietSinceDrained, QP!Quiet
  <2>2. \A d \in Deliveries : runs[d] > 0 => RepoOf[d] \in active
    BY <1>1 DEF QP!Serial, QP!RunningIn
  <2>3. \A d \in Deliveries : runs[d] \in 0..1
    BY <1>2
  <2>4. QED
    BY <2>1, <2>2, <2>3
<1>5. QED
  BY <1>2, <1>3, <1>4 DEF OneRunEach

LEMMA InitSound == Q!Init => QueueSound
<1> SUFFICES ASSUME Q!Init PROVE QueueSound
  OBVIOUS
<1>1. QP!Init
  BY SameInit
<1>2. QP!SerialInv
  BY <1>1, TasksSuitTheQueue, ChangesAreLocal, QP!InitSerialInv, Zenon
<1>3. QP!HistoryInv /\ QP!AccountInv
  BY <1>1, TasksSuitTheQueue, ChangesAreLocal, QP!InitHistoryInv, QP!InitAccountInv, Zenon
<1>4. QED
  BY <1>1, <1>2, <1>3 DEF QueueSound, QP!Init, QP!QuietSinceDrained

LEMMA NextSound == QueueSound /\ [QP!Next]_(QP!vars) => QueueSound'
<1> SUFFICES ASSUME QueueSound, [QP!Next]_(QP!vars) PROVE QueueSound'
  OBVIOUS
<1>0. QP!SerialInv /\ QP!QuietSinceDrained /\ QP!HistoryInv /\ QP!AccountInv
  BY DEF QueueSound
<1>1. QP!SerialInv'
  BY <1>0, TasksSuitTheQueue, ChangesAreLocal, QP!NextSerialInv, Zenon
<1>2. QP!QuietSinceDrained'
  BY <1>0, TasksSuitTheQueue, ChangesAreLocal, QP!NextQuietSinceDrained, Zenon
<1>3. QP!HistoryInv'
  BY <1>0, TasksSuitTheQueue, ChangesAreLocal, QP!NextHistoryInv, Zenon
<1>4. QP!AccountInv'
  BY <1>0, TasksSuitTheQueue, ChangesAreLocal, QP!NextAccountInv, Zenon
<1>5. QED
  BY <1>1, <1>2, <1>3, <1>4 DEF QueueSound

LEMMA EnqueueSound ==
  ASSUME QueueSound, NEW d \in Deliveries, Q!Enqueue(d)
  PROVE  QueueSound' /\ QP!StartsOne(runs, runs')
<1>1. QP!Enqueue(d) /\ QP!SerialInv
  BY SameEnqueue DEF QueueSound
<1>2. QP!Next
  BY <1>1, Zenon DEF QP!Next
<1>3. QueueSound'
  BY <1>2, NextSound
<1>4. QP!StartsOne(runs, runs')
  BY <1>1, TasksSuitTheQueue, ChangesAreLocal, QP!EnqueueStartsOne, Zenon
<1>5. QED
  BY <1>3, <1>4

LEMMA SettleSound ==
  ASSUME QueueSound, NEW d \in Deliveries, Q!Settle(d)
  PROVE  QueueSound' /\ QP!StartsOne([runs EXCEPT ![d] = 0], runs')
<1>1. QP!Settle(d) /\ QP!SerialInv
  BY SameSettle DEF QueueSound
<1>2. QP!Next
  BY <1>1, Zenon DEF QP!Next
<1>3. QueueSound'
  BY <1>2, NextSound
<1>4. QP!StartsOne([runs EXCEPT ![d] = 0], runs')
  BY <1>1, TasksSuitTheQueue, ChangesAreLocal, QP!SettleStartsOne, Zenon
<1>5. QED
  BY <1>3, <1>4

LEMMA DrainSound ==
  ASSUME QueueSound, Q!Drain
  PROVE  QueueSound' /\ QP!StartsOne(runs, runs')
<1>1. QP!Drain /\ QP!SerialInv
  BY SameDrain DEF QueueSound
<1>2. QP!Next
  BY <1>1, Zenon DEF QP!Next
<1>3. QueueSound'
  BY <1>2, NextSound
<1>4. QP!StartsOne(runs, runs')
  BY <1>1, TasksSuitTheQueue, ChangesAreLocal, QP!DrainStartsOne, Zenon
<1>5. QED
  BY <1>3, <1>4

LEMMA StillSound ==
  ASSUME QueueSound, UNCHANGED queueVars
  PROVE  QueueSound'
<1>1. UNCHANGED QP!vars
  BY DEF queueVars, QP!vars, QP!queueVars, QP!historyVars
<1>2. QED
  BY <1>1, NextSound

-----------------------------------------------------------------------------
(* The invariant of the calls, the leases, the cache and the directories. *)

Calls == {"none", "refused", "refresh", "create", "failed", "held", "clean", "discard",
          "evict", "over"}

PoolTypes ==
  /\ cache \in Seq(Repos)
  /\ leased \subseteq Repos
  /\ call \in [Deliveries -> Calls]
  /\ victim \in [Deliveries -> Repos \cup {NoRepo}]
  /\ disposing \subseteq Repos
  /\ disk \in [Repos -> P!Contents]
  /\ orphaned \subseteq Repos

\* A task's calls are under way exactly while the queue waits for its run, and no lease is
\* refused.
CallsFollow ==
  /\ \A d \in Deliveries : call[d] = "none" <=> runs[d] = 0
  /\ \A d \in Deliveries : call[d] # "refused"

\* What a call of release is destroying.
VictimsKnown ==
  /\ \A d \in Deliveries : victim[d] # NoRepo <=> call[d] \in {"evict", "discard"}
  /\ \A d \in Deliveries : call[d] = "discard" => victim[d] = RepoOf[d]

\* The pool is disposed of in a drained daemon, and nothing is cached afterwards.
Phases ==
  /\ plugin \in {"disposing", "unloaded"} => drained /\ cache = <<>>
  /\ disposing # {} => plugin = "disposing"

\* The cache, as P!CacheBounded puts it, with its places as numbers.
NoneTwice(c) == \A i, j \in 1..Len(c) : c[i] = c[j] => i = j
In(c) == {c[i] : i \in 1..Len(c)}
CacheSound ==
  /\ Len(cache) <= poolSize
  /\ NoneTwice(cache)
  /\ \A d \in Deliveries : P!UsesDirectory(d) => RepoOf[d] \notin In(cache)

\* What accounts for the directory of r.  A clone is not among it: one that fails leaves a
\* directory that was there before to whatever accounted for it.
KeepsDirectory(d) == call[d] \in {"refresh", "held", "clean", "discard"}
Accounted(r) ==
  \/ r \in In(cache) \/ r \in disposing \/ r \in orphaned
  \/ \E d \in Deliveries : victim[d] = r
  \/ \E d \in Deliveries : RepoOf[d] = r /\ KeepsDirectory(d)
NoneLost == \A r \in Repos : disk[r] # "none" => Accounted(r)

PoolInv ==
  /\ PoolTypes /\ CallsFollow /\ VictimsKnown /\ LeasesAreHeld
  /\ Phases /\ CacheSound /\ NoneLost

\* In what follows these facts about the constants are used everywhere.
LEMMA PoolFacts ==
  /\ \A d \in Deliveries : RepoOf[d] \in Repos
  /\ NoRepo \notin Repos
  /\ poolSize \in Nat \ {0}
BY DaemonConstants DEF DaemonConstants, P!PoolConstants, RepoOf, Repos

\* No two tasks under way are of one repository.
LEMMA AloneInRepo ==
  ASSUME OneRunEach, CallsFollow, NEW d \in Deliveries, NEW e \in Deliveries,
         call[d] # "none", call[e] # "none", RepoOf[d] = RepoOf[e]
  PROVE  d = e
<1>1. runs[d] \in 0..1 /\ runs[e] \in 0..1 /\ runs[d] # 0 /\ runs[e] # 0
  BY DEF OneRunEach, CallsFollow
<1>2. QED
  BY <1>1 DEF OneRunEach

LEMMA InitPoolInv == Init => PoolInv
<1> SUFFICES ASSUME Init PROVE PoolInv
  OBVIOUS
<1> USE DEF Init, P!Init, Q!Init
<1>1. PoolTypes
  BY PoolFacts DEF PoolTypes, Calls, P!Contents, P!OnDisk
<1>2. CallsFollow /\ VictimsKnown /\ Phases
  BY DEF CallsFollow, VictimsKnown, Phases
<1>3. LeasesAreHeld
  BY DEF LeasesAreHeld, P!LeasesAreHeld
<1>4. CacheSound
  BY PoolFacts DEF CacheSound, NoneTwice, In, P!UsesDirectory
<1>5. NoneLost
  BY DEF NoneLost, Accounted, P!OnDisk
<1>6. QED
  BY <1>1, <1>2, <1>3, <1>4, <1>5 DEF PoolInv

-----------------------------------------------------------------------------
(* The cache. *)

\* `cache.delete(repo)` takes one repository out of it.
LEMMA WithoutProperties ==
  ASSUME NEW c \in Seq(Repos), NoneTwice(c), NEW r \in Repos
  PROVE  /\ P!Without(c, r) \in Seq(Repos)
         /\ NoneTwice(P!Without(c, r))
         /\ Len(P!Without(c, r)) <= Len(c)
         /\ In(P!Without(c, r)) = In(c) \ {r}
<1> DEFINE new == P!Without(c, r)
<1>0. DOMAIN c = 1..Len(c) /\ Len(c) \in Nat
  OBVIOUS
<1>1. CASE r \notin In(c)
  <2>1. new = c
    BY <1>0, <1>1 DEF P!Without, In
  <2>2. QED
    BY <1>1, <2>1
<1>2. CASE r \in In(c)
  <2>1. PICK i \in 1..Len(c) : c[i] = r
    BY <1>2 DEF In
  <2>2. \A j \in DOMAIN c : c[j] = r => j = i
    BY <1>0, <2>1 DEF NoneTwice
  <2>3. (CHOOSE j \in DOMAIN c : c[j] = r) = i
    BY <1>0, <2>1, <2>2
  <2> DEFINE p == SubSeq(c, 1, i - 1)
             q == SubSeq(c, i + 1, Len(c))
  <2>4. p \in Seq(Repos) /\ Len(p) = i - 1 /\ \A k \in 1..(i - 1) : p[k] = c[k]
    OBVIOUS
  <2>5. q \in Seq(Repos) /\ Len(q) = Len(c) - i /\ \A k \in 1..(Len(c) - i) : q[k] = c[i + k]
    OBVIOUS
  <2>6. new = p \o q
    BY <1>0, <2>1, <2>3 DEF P!Without
  <2> HIDE DEF new, p, q
  <2>7. new \in Seq(Repos) /\ Len(new) = Len(c) - 1
    <3>1. p \o q \in Seq(Repos) /\ Len(p \o q) = Len(p) + Len(q)
      BY <2>4, <2>5, ConcatProperties
    <3>2. QED
      BY <1>0, <2>4, <2>5, <2>6, <3>1
  <2>8. ASSUME NEW k \in 1..(Len(c) - 1)
        PROVE  new[k] = IF k < i THEN c[k] ELSE c[k + 1]
    <3>1. CASE k < i
      BY <1>0, <2>1, <2>4, <2>5, <2>6, <3>1
    <3>2. CASE ~(k < i)
      <4>1. new[k] = q[k - (i - 1)]
        BY <1>0, <2>1, <2>4, <2>5, <2>6, <3>2
      <4>2. k - (i - 1) \in 1..(Len(c) - i) /\ i + (k - (i - 1)) = k + 1
        BY <1>0, <2>1, <3>2
      <4>3. QED
        BY <2>5, <3>2, <4>1, <4>2
    <3>3. QED
      BY <3>1, <3>2
  <2>9. NoneTwice(new)
    BY <1>0, <2>1, <2>7, <2>8 DEF NoneTwice
  <2>10. ASSUME NEW x \in In(new)
         PROVE  x \in In(c) \ {r}
    <3>1. PICK k \in 1..(Len(c) - 1) : x = new[k]
      BY <2>7 DEF In
    <3>2. PICK l \in 1..Len(c) : x = c[l] /\ l # i
      <4>1. CASE k < i
        BY <1>0, <2>1, <2>8, <3>1, <4>1
      <4>2. CASE ~(k < i)
        <5>1. x = c[k + 1] /\ k + 1 \in 1..Len(c) /\ k + 1 # i
          BY <1>0, <2>1, <2>8, <3>1, <4>2
        <5>2. QED
          BY <5>1
      <4>3. QED
        BY <4>1, <4>2
    <3>3. QED
      BY <1>0, <2>2, <3>2 DEF In
  <2>11. ASSUME NEW x \in In(c) \ {r}
         PROVE  x \in In(new)
    <3>1. PICK l \in 1..Len(c) : x = c[l] /\ l # i
      BY <2>1 DEF In
    <3>2. PICK k \in 1..(Len(c) - 1) : x = new[k]
      <4>1. CASE l < i
        <5>1. l \in 1..(Len(c) - 1) /\ new[l] = c[l]
          BY <1>0, <2>1, <2>8, <4>1
        <5>2. QED
          BY <3>1, <5>1
      <4>2. CASE ~(l < i)
        <5>1. l - 1 \in 1..(Len(c) - 1) /\ ~(l - 1 < i) /\ (l - 1) + 1 = l
          BY <1>0, <2>1, <3>1, <4>2
        <5>2. new[l - 1] = c[l]
          BY <2>8, <5>1
        <5>3. QED
          BY <3>1, <5>1, <5>2
      <4>3. QED
        BY <4>1, <4>2
    <3>3. QED
      BY <2>7, <3>2 DEF In
  <2>12. QED
    BY <1>0, <2>7, <2>9, <2>10, <2>11 DEF new
<1>3. QED
  BY <1>1, <1>2

\* Putting a workspace back, as the last used.
LEMMA ReturnedProperties ==
  ASSUME NEW c \in Seq(Repos), NoneTwice(c), NEW r \in Repos, r \notin In(c)
  PROVE  /\ Append(c, r) \in Seq(Repos)
         /\ NoneTwice(Append(c, r))
         /\ Len(Append(c, r)) = Len(c) + 1
         /\ In(Append(c, r)) = In(c) \cup {r}
<1> DEFINE new == Append(c, r)
<1>1. /\ new \in Seq(Repos) /\ Len(new) = Len(c) + 1 /\ Len(c) \in Nat
      /\ new[Len(c) + 1] = r /\ \A k \in 1..Len(c) : new[k] = c[k]
  BY AppendProperties
<1> HIDE DEF new
<1>2. \A k \in 1..Len(c) : c[k] # r
  BY DEF In
<1>3. NoneTwice(new)
  BY <1>1, <1>2 DEF NoneTwice
<1>4. In(new) = In(c) \cup {r}
  BY <1>1 DEF In
<1>5. QED
  BY <1>1, <1>3, <1>4 DEF new

\* One turn of the eviction loop: the cache is within its bound again, and what left it is
\* what the call destroys.
LEMMA EvictProperties ==
  ASSUME PoolTypes, NEW c \in Seq(Repos), NoneTwice(c), Len(c) <= poolSize + 1,
         NEW u \in Deliveries, P!EvictIfFull(c, u)
  PROVE  /\ cache' \in Seq(Repos) /\ NoneTwice(cache') /\ Len(cache') <= poolSize
         /\ In(cache') \subseteq In(c)
         /\ \A r \in In(c) : r \in In(cache') \/ victim'[u] = r
         /\ \/ /\ call' = [call EXCEPT ![u] = "evict"]
               /\ \E v \in Repos : victim' = [victim EXCEPT ![u] = v]
            \/ /\ call' = [call EXCEPT ![u] = "over"]
               /\ victim' = [victim EXCEPT ![u] = NoRepo]
<1>0. poolSize \in Nat /\ Len(c) \in Nat
  BY PoolFacts
<1>1. CASE Len(c) > poolSize
  <2>1. /\ cache' = Tail(c) /\ victim' = [victim EXCEPT ![u] = Head(c)]
        /\ call' = [call EXCEPT ![u] = "evict"]
    BY <1>1 DEF P!EvictIfFull, P!Overfull
  <2>2. c # <<>> /\ Head(c) \in Repos /\ Head(c) = c[1]
    BY <1>0, <1>1
  <2>3. /\ Tail(c) \in Seq(Repos) /\ Len(Tail(c)) = Len(c) - 1
        /\ \A k \in 1..(Len(c) - 1) : Tail(c)[k] = c[k + 1]
    BY <2>2
  <2> DEFINE t == Tail(c)
  <2> HIDE DEF t
  <2>4. NoneTwice(t)
    <3> SUFFICES ASSUME NEW i \in 1..Len(t), NEW j \in 1..Len(t), t[i] = t[j]
                 PROVE  i = j
      BY DEF NoneTwice
    <3>1. /\ i + 1 \in 1..Len(c) /\ j + 1 \in 1..Len(c) /\ c[i + 1] = c[j + 1]
          /\ i \in Int /\ j \in Int
      BY <1>0, <2>3 DEF t
    <3>2. i + 1 = j + 1
      BY <3>1 DEF NoneTwice
    <3>3. QED
      BY <3>1, <3>2
  <2>5. In(t) \subseteq In(c)
    <3> SUFFICES ASSUME NEW k \in 1..Len(t) PROVE t[k] \in In(c)
      BY DEF In
    <3>1. k + 1 \in 1..Len(c) /\ t[k] = c[k + 1]
      BY <1>0, <2>3 DEF t
    <3>2. QED
      BY <3>1 DEF In
  <2>6. ASSUME NEW r \in In(c), r # Head(c) PROVE r \in In(t)
    <3>1. PICK k \in 1..Len(c) : r = c[k] /\ k # 1
      BY <2>2, <2>6 DEF In
    <3>2. k - 1 \in 1..Len(t) /\ t[k - 1] = r
      BY <1>0, <2>3, <3>1 DEF t
    <3>3. QED
      BY <3>2 DEF In
  <2>7. victim'[u] = Head(c)
    BY <2>1 DEF PoolTypes
  <2>8. QED
    <3>1. cache' = t /\ t \in Seq(Repos) /\ Len(t) = Len(c) - 1
      BY <2>1, <2>3 DEF t
    <3>2. Len(cache') <= poolSize
      BY <1>0, <3>1
    <3>3. \A r \in In(c) : r \in In(cache') \/ victim'[u] = r
      BY <2>6, <2>7, <3>1
    <3>4. \E v \in Repos : victim' = [victim EXCEPT ![u] = v]
      BY <2>1, <2>2
    <3>5. QED
      BY <2>1, <2>4, <2>5, <3>1, <3>2, <3>3, <3>4
<1>2. CASE ~(Len(c) > poolSize)
  BY <1>0, <1>2 DEF P!EvictIfFull, P!Overfull
<1>3. QED
  BY <1>1, <1>2

-----------------------------------------------------------------------------
(* The steps of the pool. *)

\* What every step of one user's calls does to the calls.
LEMMA CallMoves ==
  ASSUME PoolInv, NEW u \in Deliveries, call[u] # "none",
         NEW x \in Calls \ {"none", "refused"}, call' = [call EXCEPT ![u] = x], runs' = runs
  PROVE  /\ call' \in [Deliveries -> Calls] /\ CallsFollow'
         /\ call'[u] = x /\ \A d \in Deliveries \ {u} : call'[d] = call[d]
<1>1. call' \in [Deliveries -> Calls] /\ call'[u] = x
      /\ \A d \in Deliveries \ {u} : call'[d] = call[d]
  BY DEF PoolInv, PoolTypes
<1>2. QED
  BY <1>1 DEF PoolInv, CallsFollow

LEMMA RefreshKeeps ==
  ASSUME PoolInv, OneRunEach, NEW u \in Deliveries, P!RefreshEnds(u), runs' = runs,
         drained' = drained, plugin' = plugin
  PROVE  PoolInv'
<1> USE DEF PoolInv
<1>0. /\ call[u] = "refresh" /\ cache' = cache /\ victim' = victim /\ disposing' = disposing
      /\ disk' = disk
  BY DEF P!RefreshEnds
<1>1. PICK x \in {"held", "failed"} :
        /\ call' = [call EXCEPT ![u] = x]
        /\ x = "held" => leased' = leased \cup {RepoOf[u]} /\ orphaned' = orphaned
        /\ x = "failed" => /\ leased' = leased
                           /\ orphaned' = orphaned \cup {y \in {RepoOf[u]} : disk[y] # "none"}
  BY DEF P!RefreshEnds, P!Grant, P!Fail, P!OnDisk
<1>2. /\ call' \in [Deliveries -> Calls] /\ CallsFollow'
      /\ call'[u] = x /\ \A d \in Deliveries \ {u} : call'[d] = call[d]
  BY <1>0, <1>1, CallMoves DEF Calls
<1>3. PoolTypes'
  BY <1>0, <1>1, <1>2, PoolFacts DEF PoolTypes
<1>4. VictimsKnown' /\ Phases'
  BY <1>0, <1>1, <1>2 DEF VictimsKnown, Phases
<1>5. LeasesAreHeld'
  BY <1>0, <1>1, <1>2 DEF LeasesAreHeld, P!LeasesAreHeld
<1>6. CacheSound'
  BY <1>0, <1>1, <1>2 DEF CacheSound, P!UsesDirectory, In, NoneTwice
<1>7. NoneLost'
  <2> SUFFICES ASSUME NEW r \in Repos, disk[r] # "none" PROVE Accounted(r)'
    BY <1>0 DEF NoneLost
  <2>1. Accounted(r)
    BY DEF NoneLost
  <2>2. QED
    BY <1>0, <1>1, <1>2, <2>1 DEF Accounted, KeepsDirectory, In
<1>8. QED
  BY <1>2, <1>3, <1>4, <1>5, <1>6, <1>7

LEMMA CreateKeeps ==
  ASSUME PoolInv, OneRunEach, NEW u \in Deliveries, P!CreateEnds(u), runs' = runs,
         drained' = drained, plugin' = plugin
  PROVE  PoolInv'
<1> USE DEF PoolInv
<1>0. call[u] = "create" /\ cache' = cache /\ victim' = victim /\ disposing' = disposing
  BY DEF P!CreateEnds
<1>1. PICK x \in {"held", "failed"}, left \in {"none", "debris", "tree"} :
        /\ call' = [call EXCEPT ![u] = x]
        /\ disk' = [disk EXCEPT ![RepoOf[u]] = left]
        /\ x = "held" => leased' = leased \cup {RepoOf[u]} /\ orphaned' = orphaned
        /\ x = "failed" => /\ leased' = leased
                           /\ \/ left = disk[RepoOf[u]] /\ orphaned' = orphaned
                              \/ orphaned' = orphaned \cup {RepoOf[u]}
  <2>1. disk \in [Repos -> {"none", "debris", "tree"}] /\ RepoOf[u] \in Repos
    BY PoolFacts DEF PoolTypes, P!Contents
  <2>2. disk = [disk EXCEPT ![RepoOf[u]] = disk[RepoOf[u]]]
        /\ disk[RepoOf[u]] \in {"none", "debris", "tree"}
    BY <2>1
  <2>3. QED
    BY <2>2 DEF P!CreateEnds, P!Grant, P!Fail
<1>2. /\ call' \in [Deliveries -> Calls] /\ CallsFollow'
      /\ call'[u] = x /\ \A d \in Deliveries \ {u} : call'[d] = call[d]
  BY <1>0, <1>1, CallMoves DEF Calls
<1>3. PoolTypes'
  BY <1>0, <1>1, <1>2, PoolFacts DEF PoolTypes, P!Contents
<1>4. VictimsKnown' /\ Phases'
  BY <1>0, <1>1, <1>2 DEF VictimsKnown, Phases
<1>5. LeasesAreHeld'
  BY <1>0, <1>1, <1>2 DEF LeasesAreHeld, P!LeasesAreHeld
<1>6. CacheSound'
  BY <1>0, <1>1, <1>2 DEF CacheSound, P!UsesDirectory, In, NoneTwice
<1>7. NoneLost'
  <2> SUFFICES ASSUME NEW r \in Repos, disk'[r] # "none" PROVE Accounted(r)'
    BY DEF NoneLost
  <2>1. disk[r] # "none" => Accounted(r)
    BY DEF NoneLost
  <2>2. r # RepoOf[u] => disk'[r] = disk[r]
    BY <1>1 DEF PoolTypes
  <2>3. disk'[RepoOf[u]] = left
    BY <1>1, PoolFacts DEF PoolTypes
  <2>4. QED
    BY <1>0, <1>1, <1>2, <2>1, <2>2, <2>3 DEF Accounted, KeepsDirectory, In
<1>8. QED
  BY <1>2, <1>3, <1>4, <1>5, <1>6, <1>7

LEMMA ReleaseKeeps ==
  ASSUME PoolInv, OneRunEach, NEW u \in Deliveries, P!Release(u), runs' = runs,
         drained' = drained, plugin' = plugin
  PROVE  PoolInv'
<1> USE DEF PoolInv
<1>0. /\ call[u] = "held" /\ cache' = cache /\ victim' = victim /\ disposing' = disposing
      /\ disk' = disk /\ orphaned' = orphaned /\ leased' = leased \ {RepoOf[u]}
  BY DEF P!Release, P!GivenBack
<1>1. call' = [call EXCEPT ![u] = "clean"]
  <2>1. RepoOf[u] \in leased
    BY <1>0 DEF LeasesAreHeld, P!LeasesAreHeld
  <2>2. QED
    BY <2>1 DEF P!Release
<1>2. /\ call' \in [Deliveries -> Calls] /\ CallsFollow'
      /\ call'[u] = "clean" /\ \A d \in Deliveries \ {u} : call'[d] = call[d]
  BY <1>0, <1>1, CallMoves DEF Calls
<1>3. PoolTypes'
  BY <1>0, <1>2 DEF PoolTypes
<1>4. VictimsKnown' /\ Phases'
  BY <1>0, <1>1, <1>2 DEF VictimsKnown, Phases
<1>5. LeasesAreHeld'
  <2>1. \A d \in Deliveries : call[d] = "held" /\ RepoOf[d] = RepoOf[u] => d = u
    BY <1>0, AloneInRepo
  <2>2. QED
    BY <1>0, <1>2, <2>1 DEF LeasesAreHeld, P!LeasesAreHeld
<1>6. CacheSound'
  BY <1>0, <1>2 DEF CacheSound, P!UsesDirectory, In, NoneTwice
<1>7. NoneLost'
  <2> SUFFICES ASSUME NEW r \in Repos, disk[r] # "none" PROVE Accounted(r)'
    BY <1>0 DEF NoneLost
  <2>1. Accounted(r)
    BY DEF NoneLost
  <2>2. QED
    BY <1>0, <1>2, <2>1 DEF Accounted, KeepsDirectory, In
<1>8. QED
  BY <1>2, <1>3, <1>4, <1>5, <1>6, <1>7

LEMMA CachedIsIn == PoolTypes => P!Cached = In(cache)
BY DEF PoolTypes, P!Cached, In

\* A step of a call in which the eviction loop runs: c is the cache it finds.
LEMMA EvictionKeeps ==
  ASSUME PoolInv, OneRunEach, NEW u \in Deliveries, call[u] \in {"clean", "evict"},
         NEW c \in Seq(Repos), NoneTwice(c), Len(c) <= poolSize + 1,
         In(c) \subseteq In(cache) \cup (IF call[u] = "clean" THEN {RepoOf[u]} ELSE {}),
         In(cache) \subseteq In(c), call[u] = "clean" => RepoOf[u] \in In(c),
         P!EvictIfFull(c, u), leased' = leased, disposing' = disposing, disk' = disk,
         \/ /\ call[u] = "evict"
            /\ orphaned' = orphaned \cup {r \in {victim[u]} : disk[r] # "none"}
         \/ call[u] = "clean" /\ orphaned' = orphaned,
         runs' = runs, drained' = drained, plugin' = plugin
  PROVE  PoolInv'
<1> USE DEF PoolInv
<1>1. /\ cache' \in Seq(Repos) /\ NoneTwice(cache') /\ Len(cache') <= poolSize
      /\ In(cache') \subseteq In(c)
      /\ \A r \in In(c) : r \in In(cache') \/ victim'[u] = r
  BY EvictProperties
<1>2. PICK x \in {"evict", "over"}, v \in Repos \cup {NoRepo} :
        /\ call' = [call EXCEPT ![u] = x]
        /\ victim' = [victim EXCEPT ![u] = v]
        /\ x = "evict" => v \in Repos
        /\ x = "over" => v = NoRepo
  BY EvictProperties
<1>3. /\ call' \in [Deliveries -> Calls] /\ CallsFollow'
      /\ call'[u] = x /\ \A d \in Deliveries \ {u} : call'[d] = call[d]
  BY <1>2, CallMoves DEF Calls
<1>4. /\ victim' \in [Deliveries -> Repos \cup {NoRepo}]
      /\ victim'[u] = v /\ \A d \in Deliveries \ {u} : victim'[d] = victim[d]
  BY <1>2 DEF PoolTypes
<1>5. orphaned' \subseteq Repos /\ orphaned \subseteq orphaned'
      /\ (victim[u] \in Repos /\ disk[victim[u]] # "none" => victim[u] \in orphaned')
  <2>1. victim[u] # NoRepo <=> call[u] = "evict"
    BY DEF VictimsKnown
  <2>2. victim[u] \in Repos \cup {NoRepo} /\ orphaned \subseteq Repos
    BY DEF PoolTypes
  <2>3. CASE call[u] = "evict"
    BY <2>1, <2>2, <2>3, PoolFacts
  <2>4. CASE call[u] = "clean"
    BY <2>1, <2>2, <2>4, PoolFacts
  <2>5. QED
    BY <2>3, <2>4
<1>6. PoolTypes'
  BY <1>1, <1>3, <1>4, <1>5 DEF PoolTypes
<1>7. VictimsKnown'
  BY <1>2, <1>3, <1>4, PoolFacts DEF VictimsKnown
<1>8. Phases'
  <2>1. plugin \notin {"disposing", "unloaded"}
    BY DEF Phases, OneRunEach, CallsFollow
  <2>2. QED
    BY <2>1 DEF Phases
<1>9. LeasesAreHeld'
  BY <1>2, <1>3 DEF LeasesAreHeld, P!LeasesAreHeld
<1>10. CacheSound'
  <2>1. ASSUME NEW d \in Deliveries, P!UsesDirectory(d)'
        PROVE  RepoOf[d] \notin In(cache')
    <3>1. d # u /\ P!UsesDirectory(d) /\ call[d] # "none" /\ call[u] # "none"
      BY <1>2, <1>3, <2>1 DEF P!UsesDirectory
    <3>2. RepoOf[d] # RepoOf[u]
      BY <3>1, AloneInRepo
    <3>3. RepoOf[d] \notin In(cache)
      BY <3>1 DEF CacheSound
    <3>4. QED
      BY <1>1, <3>2, <3>3
  <2>2. (\A d \in Deliveries : P!UsesDirectory(d) => RepoOf[d] \notin In(cache))'
    BY <2>1 DEF P!UsesDirectory, In
  <2>3. QED
    BY <1>1, <2>2 DEF CacheSound, NoneTwice, In
<1>11. NoneLost'
  <2> SUFFICES ASSUME NEW r \in Repos, disk[r] # "none" PROVE Accounted(r)'
    BY DEF NoneLost
  <2>1. Accounted(r)
    BY DEF NoneLost
  <2>2. CASE r \in In(c)
    <3>1. r \in In(cache)' \/ victim'[u] = r
      BY <1>1, <2>2 DEF In
    <3>2. QED
      BY <3>1 DEF Accounted
  <2>3. CASE r \notin In(c)
    <3>1. r \notin In(cache) /\ (call[u] = "clean" => r # RepoOf[u])
      BY <2>3
    <3>2. CASE r \in disposing \/ r \in orphaned
      BY <1>5, <3>2 DEF Accounted
    <3>3. CASE \E d \in Deliveries : victim[d] = r
      <4>1. PICK d \in Deliveries : victim[d] = r
        BY <3>3
      <4>2. CASE d = u
        BY <1>5, <4>1, <4>2 DEF Accounted
      <4>3. CASE d # u
        BY <1>4, <4>1, <4>3 DEF Accounted
      <4>4. QED
        BY <4>2, <4>3
    <3>4. CASE \E d \in Deliveries : RepoOf[d] = r /\ KeepsDirectory(d)
      <4>1. PICK d \in Deliveries : RepoOf[d] = r /\ KeepsDirectory(d)
        BY <3>4
      <4>2. d # u
        BY <3>1, <4>1 DEF KeepsDirectory
      <4>3. KeepsDirectory(d)'
        BY <1>3, <4>1, <4>2 DEF KeepsDirectory
      <4>4. QED
        BY <4>1, <4>3 DEF Accounted
    <3>5. QED
      BY <2>1, <3>1, <3>2, <3>3, <3>4 DEF Accounted
  <2>4. QED
    BY <2>2, <2>3
<1>12. QED
  BY <1>3, <1>6, <1>7, <1>8, <1>9, <1>10, <1>11

LEMMA CleanKeeps ==
  ASSUME PoolInv, OneRunEach, NEW u \in Deliveries, P!CleanEnds(u), runs' = runs,
         drained' = drained, plugin' = plugin
  PROVE  PoolInv'
<1> USE DEF PoolInv
<1> DEFINE r0 == RepoOf[u]
           c == Append(P!Without(cache, r0), r0)
<1>0. /\ call[u] = "clean" /\ leased' = leased /\ disposing' = disposing /\ disk' = disk
      /\ orphaned' = orphaned /\ r0 \in Repos /\ victim[u] = NoRepo
  BY PoolFacts DEF P!CleanEnds, VictimsKnown
<1>1. CASE P!EvictIfFull(c, u)
  <2>1. /\ P!Without(cache, r0) \in Seq(Repos) /\ NoneTwice(P!Without(cache, r0))
        /\ Len(P!Without(cache, r0)) <= Len(cache)
        /\ In(P!Without(cache, r0)) = In(cache) \ {r0}
    BY <1>0, WithoutProperties DEF PoolTypes, CacheSound
  <2>2. /\ c \in Seq(Repos) /\ NoneTwice(c) /\ Len(c) = Len(P!Without(cache, r0)) + 1
        /\ In(c) = In(P!Without(cache, r0)) \cup {r0}
    <3>1. r0 \notin In(P!Without(cache, r0))
      BY <2>1
    <3>2. QED
      BY <1>0, <2>1, <3>1, ReturnedProperties
  <2>3. Len(cache) \in Nat /\ Len(P!Without(cache, r0)) \in Nat /\ Len(cache) <= poolSize
    BY <2>1 DEF PoolTypes, CacheSound
  <2>4. Len(c) <= poolSize + 1
    BY <2>1, <2>2, <2>3, PoolFacts
  <2> HIDE DEF c
  <2>5. In(cache) \subseteq In(c) /\ In(c) \subseteq In(cache) \cup {r0} /\ r0 \in In(c)
    BY <2>1, <2>2
  <2>6. QED
    BY <1>0, <1>1, <2>2, <2>4, <2>5, EvictionKeeps
<1>2. CASE P!Unclean(u)
  <2>1. /\ call' = [call EXCEPT ![u] = "discard"] /\ victim' = [victim EXCEPT ![u] = r0]
        /\ cache' = cache
    BY <1>2 DEF P!Unclean
  <2>2. /\ call' \in [Deliveries -> Calls] /\ CallsFollow'
        /\ call'[u] = "discard" /\ \A d \in Deliveries \ {u} : call'[d] = call[d]
    BY <1>0, <2>1, CallMoves DEF Calls
  <2>3. /\ victim' \in [Deliveries -> Repos \cup {NoRepo}]
        /\ victim'[u] = r0 /\ \A d \in Deliveries \ {u} : victim'[d] = victim[d]
    BY <1>0, <2>1 DEF PoolTypes
  <2>4. PoolTypes' /\ VictimsKnown' /\ Phases'
    BY <1>0, <2>1, <2>2, <2>3, PoolFacts DEF PoolTypes, VictimsKnown, Phases
  <2>5. LeasesAreHeld'
    BY <1>0, <2>1, <2>2 DEF LeasesAreHeld, P!LeasesAreHeld
  <2>6. CacheSound'
    BY <1>0, <2>1, <2>2 DEF CacheSound, P!UsesDirectory, In, NoneTwice
  <2>7. NoneLost'
    <3> SUFFICES ASSUME NEW r \in Repos, disk[r] # "none" PROVE Accounted(r)'
      BY <1>0 DEF NoneLost
    <3>1. Accounted(r)
      BY DEF NoneLost
    <3>2. \A d \in Deliveries : victim[d] = r => victim'[d] = r
      BY <1>0, <2>3, PoolFacts
    <3>3. \A d \in Deliveries : KeepsDirectory(d) => KeepsDirectory(d)'
      BY <2>2 DEF KeepsDirectory
    <3>4. QED
      BY <1>0, <2>1, <3>1, <3>2, <3>3 DEF Accounted, In
  <2>8. QED
    BY <2>2, <2>4, <2>5, <2>6, <2>7
<1>3. QED
  BY <1>1, <1>2 DEF P!CleanEnds

LEMMA RemoveKeeps ==
  ASSUME PoolInv, OneRunEach, NEW u \in Deliveries, P!RemoveEnds(u), runs' = runs,
         drained' = drained, plugin' = plugin
  PROVE  PoolInv'
<1> USE DEF PoolInv
<1>0. /\ leased' = leased /\ disposing' = disposing /\ disk' = disk
      /\ orphaned' = orphaned \cup {r \in {victim[u]} : disk[r] # "none"}
  BY DEF P!RemoveEnds, P!OnDisk
<1>1. CASE call[u] = "evict" /\ P!EvictIfFull(cache, u)
  <2>1. cache \in Seq(Repos) /\ NoneTwice(cache) /\ Len(cache) <= poolSize /\ Len(cache) \in Nat
    BY DEF PoolTypes, CacheSound
  <2>2. Len(cache) <= poolSize + 1
    BY <2>1, PoolFacts
  <2>3. /\ In(cache) \subseteq In(cache) \cup (IF call[u] = "clean" THEN {RepoOf[u]} ELSE {})
        /\ In(cache) \subseteq In(cache)
        /\ call[u] = "clean" => RepoOf[u] \in In(cache)
        /\ call[u] \in {"clean", "evict"} /\ call[u] = "evict"
    BY <1>1
  <2> HIDE DEF PoolInv
  <2>4. P!EvictIfFull(cache, u)
    BY <1>1
  <2>5. QED
    BY <1>0, <2>1, <2>2, <2>3, <2>4, EvictionKeeps, Zenon
<1>2. CASE /\ call[u] = "discard" /\ call' = [call EXCEPT ![u] = "over"]
           /\ victim' = [victim EXCEPT ![u] = NoRepo] /\ cache' = cache
  <2>1. /\ call' \in [Deliveries -> Calls] /\ CallsFollow'
        /\ call'[u] = "over" /\ \A d \in Deliveries \ {u} : call'[d] = call[d]
    BY <1>2, CallMoves DEF Calls
  <2>2. /\ victim' \in [Deliveries -> Repos \cup {NoRepo}]
        /\ victim'[u] = NoRepo /\ \A d \in Deliveries \ {u} : victim'[d] = victim[d]
    BY <1>2 DEF PoolTypes
  <2>3. victim[u] = RepoOf[u] /\ RepoOf[u] \in Repos
    BY <1>2, PoolFacts DEF VictimsKnown
  <2>4. PoolTypes' /\ VictimsKnown' /\ Phases'
    BY <1>0, <1>2, <2>1, <2>2, <2>3 DEF PoolTypes, VictimsKnown, Phases
  <2>5. LeasesAreHeld'
    BY <1>0, <1>2, <2>1 DEF LeasesAreHeld, P!LeasesAreHeld
  <2>6. CacheSound'
    BY <1>0, <1>2, <2>1 DEF CacheSound, P!UsesDirectory, In, NoneTwice
  <2>7. NoneLost'
    <3> SUFFICES ASSUME NEW r \in Repos, disk[r] # "none" PROVE Accounted(r)'
      BY <1>0 DEF NoneLost
    <3>1. Accounted(r)
      BY DEF NoneLost
    <3>2. CASE r = RepoOf[u]
      BY <1>0, <2>3, <3>2 DEF Accounted
    <3>3. CASE r # RepoOf[u]
      <4>1. \A d \in Deliveries : victim[d] = r => victim'[d] = r
        BY <2>2, <2>3, <3>3
      <4>2. \A d \in Deliveries : RepoOf[d] = r /\ KeepsDirectory(d) => KeepsDirectory(d)'
        BY <2>1, <3>3 DEF KeepsDirectory
      <4>3. QED
        BY <1>0, <1>2, <3>1, <4>1, <4>2 DEF Accounted, In
    <3>4. QED
      BY <3>2, <3>3
  <2>8. QED
    BY <2>1, <2>4, <2>5, <2>6, <2>7
<1>3. QED
  BY <1>1, <1>2 DEF P!RemoveEnds

LEMMA SweepKeeps ==
  ASSUME PoolInv, OneRunEach, NEW r0 \in Repos, P!Sweep(r0), runs' = runs,
         drained' = drained, plugin' = plugin
  PROVE  PoolInv'
<1> USE DEF PoolInv
<1>0. /\ cache' = cache /\ leased' = leased /\ call' = call /\ victim' = victim
      /\ disposing' = disposing
  BY DEF P!Sweep
<1>1. PICK left \in {"debris", "none"} :
        /\ disk' = [disk EXCEPT ![r0] = left]
        /\ orphaned' = IF left = "none" THEN orphaned \ {r0} ELSE orphaned
  BY DEF P!Sweep
<1>2. /\ disk' \in [Repos -> P!Contents] /\ disk'[r0] = left
      /\ \A r \in Repos \ {r0} : disk'[r] = disk[r]
  BY <1>1 DEF PoolTypes, P!Contents
<1>3. PoolTypes' /\ CallsFollow' /\ VictimsKnown' /\ Phases'
  BY <1>0, <1>1, <1>2 DEF PoolTypes, CallsFollow, VictimsKnown, Phases
<1>4. LeasesAreHeld' /\ CacheSound'
  BY <1>0 DEF LeasesAreHeld, P!LeasesAreHeld, CacheSound, P!UsesDirectory, In, NoneTwice
<1>5. NoneLost'
  <2> SUFFICES ASSUME NEW r \in Repos, disk'[r] # "none" PROVE Accounted(r)'
    BY DEF NoneLost
  <2>1. disk[r] # "none"
    <3>1. disk[r0] # "none"
      BY DEF P!Sweep, P!OnDisk
    <3>2. QED
      BY <1>2, <3>1
  <2>2. Accounted(r)
    BY <2>1 DEF NoneLost
  <2>3. r \in orphaned => r \in orphaned'
    BY <1>1, <1>2
  <2>4. QED
    BY <1>0, <2>2, <2>3 DEF Accounted, KeepsDirectory, In
<1>6. QED
  BY <1>3, <1>4, <1>5

LEMMA DisposeKeeps ==
  ASSUME PoolInv, OneRunEach, MayDispose, P!Dispose, runs' = runs, drained' = drained,
         plugin' = "disposing"
  PROVE  PoolInv'
<1> USE DEF PoolInv
<1>0. /\ disposing' = In(cache) \cup leased /\ cache' = <<>> /\ leased' = {}
      /\ call' = call /\ victim' = victim /\ disk' = disk /\ orphaned' = orphaned
  BY CachedIsIn DEF P!Dispose, P!TornDown
<1>1. drained /\ plugin = "draining"
  BY DEF MayDispose
<1>2. \A d \in Deliveries : call[d] = "none"
  BY <1>1 DEF OneRunEach, CallsFollow
<1>3. disposing = {}
  BY <1>1 DEF Phases
<1>4. In(cache) \subseteq Repos
  BY DEF PoolTypes, In
<1>5. PoolTypes'
  BY <1>0, <1>4 DEF PoolTypes
<1>6. CallsFollow' /\ VictimsKnown' /\ Phases'
  BY <1>0, <1>1 DEF CallsFollow, VictimsKnown, Phases
<1>7. LeasesAreHeld'
  BY <1>0, <1>2 DEF LeasesAreHeld, P!LeasesAreHeld
<1>8. CacheSound'
  BY <1>0, PoolFacts DEF CacheSound, NoneTwice, In
<1>9. NoneLost'
  <2> SUFFICES ASSUME NEW r \in Repos, disk[r] # "none" PROVE Accounted(r)'
    BY <1>0 DEF NoneLost
  <2>1. Accounted(r)
    BY DEF NoneLost
  <2>2. QED
    BY <1>0, <1>2, <1>3, <2>1 DEF Accounted, KeepsDirectory
<1>10. QED
  BY <1>5, <1>6, <1>7, <1>8, <1>9

LEMMA DisposeEndsKeeps ==
  ASSUME PoolInv, plugin = "disposing", P!DisposeEnds, runs' = runs, drained' = drained,
         plugin' = "unloaded"
  PROVE  PoolInv'
<1> USE DEF PoolInv
<1>0. /\ disposing' = {} /\ cache' = cache /\ leased' = leased /\ call' = call
      /\ victim' = victim /\ disk' = disk
      /\ orphaned' = orphaned \cup {r \in disposing : disk[r] # "none"}
  BY DEF P!DisposeEnds, P!OnDisk
<1>1. PoolTypes'
  BY <1>0 DEF PoolTypes
<1>2. CallsFollow' /\ VictimsKnown' /\ Phases'
  BY <1>0 DEF CallsFollow, VictimsKnown, Phases
<1>3. LeasesAreHeld' /\ CacheSound'
  BY <1>0 DEF LeasesAreHeld, P!LeasesAreHeld, CacheSound, P!UsesDirectory, In, NoneTwice
<1>4. NoneLost'
  <2> SUFFICES ASSUME NEW r \in Repos, disk[r] # "none" PROVE Accounted(r)'
    BY <1>0 DEF NoneLost
  <2>1. Accounted(r)
    BY DEF NoneLost
  <2>2. QED
    BY <1>0, <2>1 DEF Accounted, KeepsDirectory, In
<1>5. QED
  BY <1>1, <1>2, <1>3, <1>4

\* A step that touches neither the pool nor the runs.
LEMMA IdleKeeps ==
  ASSUME PoolInv, UNCHANGED poolVars, runs' = runs, drained' = drained,
         \/ plugin' = plugin
         \/ plugin' \notin {"disposing", "unloaded"} /\ plugin # "disposing"
  PROVE  PoolInv'
<1> USE DEF PoolInv
<1>0. /\ cache' = cache /\ leased' = leased /\ call' = call /\ victim' = victim
      /\ disposing' = disposing /\ disk' = disk /\ orphaned' = orphaned
  BY DEF poolVars
<1>1. PoolTypes' /\ CallsFollow' /\ VictimsKnown' /\ Phases'
  BY <1>0 DEF PoolTypes, CallsFollow, VictimsKnown, Phases
<1>2. LeasesAreHeld' /\ CacheSound'
  BY <1>0 DEF LeasesAreHeld, P!LeasesAreHeld, CacheSound, P!UsesDirectory, In, NoneTwice
<1>3. NoneLost'
  BY <1>0 DEF NoneLost, Accounted, KeepsDirectory, In
<1>4. QED
  BY <1>1, <1>2, <1>3

-----------------------------------------------------------------------------
(* The steps of the queue.  calls and rs are the calls and the runs without the task that
   settled, if one did; the queue starts one task at most. *)

Settled(calls, rs) ==
  /\ calls \in [Deliveries -> Calls] /\ rs \in [Deliveries -> 0..1]
  /\ \A d \in Deliveries : calls[d] = "none" <=> rs[d] = 0
  /\ \A d \in Deliveries :
       calls[d] = call[d] \/ (call[d] \in P!Through /\ calls[d] = "none")

\* Nothing starts: the pool is left alone.
LEMMA NothingStartsKeeps ==
  ASSUME PoolInv, NEW calls, Settled(calls, runs'), StartRun(calls),
         plugin' \notin {"disposing", "unloaded"}, plugin # "disposing"
  PROVE  PoolInv'
<1> USE DEF PoolInv
<1>1. {d \in Deliveries : runs'[d] > 0 /\ calls[d] = "none"} = {}
  BY DEF Settled
<1>2. /\ call' = calls /\ cache' = cache /\ leased' = leased /\ victim' = victim
      /\ disposing' = disposing /\ disk' = disk /\ orphaned' = orphaned
  BY <1>1 DEF StartRun
<1>3. PoolTypes' /\ Phases'
  BY <1>2 DEF PoolTypes, Phases, Settled
<1>4. CallsFollow' /\ VictimsKnown'
  BY <1>2 DEF CallsFollow, VictimsKnown, Settled, P!Through
<1>5. LeasesAreHeld'
  BY <1>2 DEF LeasesAreHeld, P!LeasesAreHeld, Settled, P!Through
<1>6. CacheSound'
  BY <1>2 DEF CacheSound, P!UsesDirectory, In, NoneTwice, Settled, P!Through
<1>7. NoneLost'
  <2> SUFFICES ASSUME NEW r \in Repos, disk[r] # "none" PROVE Accounted(r)'
    BY <1>2 DEF NoneLost
  <2>1. Accounted(r)
    BY DEF NoneLost
  <2>2. \A d \in Deliveries : KeepsDirectory(d) => KeepsDirectory(d)'
    BY <1>2 DEF KeepsDirectory, Settled, P!Through
  <2>3. QED
    BY <1>2, <2>1, <2>2 DEF Accounted, In
<1>8. QED
  BY <1>3, <1>4, <1>5, <1>6, <1>7

\* One task starts: nobody holds its repository, so its lease is not refused, and takes the
\* repository out of the cache.
LEMMA OneStartsKeeps ==
  ASSUME PoolInv, OneRunEach', NEW calls, NEW rs, Settled(calls, rs), StartRun(calls),
         NEW t \in Deliveries, rs[t] = 0, runs' = [rs EXCEPT ![t] = 1],
         plugin' \notin {"disposing", "unloaded"}, plugin # "disposing"
  PROVE  PoolInv'
<1> USE DEF PoolInv
<1> DEFINE r0 == RepoOf[t]
<1>0. /\ runs'[t] = 1 /\ \A d \in Deliveries \ {t} : runs'[d] = rs[d]
      /\ calls[t] = "none" /\ r0 \in Repos
  BY PoolFacts DEF Settled
<1>1. {d \in Deliveries : runs'[d] > 0 /\ calls[d] = "none"} = {t}
  BY <1>0 DEF Settled
<1>2. P!Lease(calls, t)
  BY <1>1 DEF StartRun
<1>3. r0 \notin leased
  <2> SUFFICES ASSUME NEW e \in Deliveries, call[e] = "held", RepoOf[e] = r0 PROVE FALSE
    BY DEF LeasesAreHeld, P!LeasesAreHeld
  <2>1. calls[e] = "held" /\ e # t
    BY <1>0 DEF Settled, P!Through
  <2>2. runs'[e] > 0 /\ runs'[t] > 0
    BY <1>0, <2>1 DEF Settled
  <2>3. QED
    BY <2>1, <2>2 DEF OneRunEach
<1>4. PICK x \in {"refresh", "create"} :
        /\ call' = [calls EXCEPT ![t] = x]
        /\ r0 \in In(cache) => x = "refresh"
  BY <1>2, <1>3, CachedIsIn DEF P!Lease
<1>5. /\ cache' = P!Without(cache, r0) /\ leased' = leased /\ victim' = victim
      /\ disposing' = disposing /\ disk' = disk /\ orphaned' = orphaned
  BY <1>2, <1>3 DEF P!Lease, P!Taken
<1>6. /\ call' \in [Deliveries -> Calls] /\ call'[t] = x
      /\ \A d \in Deliveries \ {t} : call'[d] = calls[d]
  BY <1>4 DEF Settled, Calls
<1>7. /\ cache' \in Seq(Repos) /\ NoneTwice(cache') /\ Len(cache') <= Len(cache)
      /\ In(cache') = In(cache) \ {r0}
  BY <1>0, <1>5, WithoutProperties DEF PoolTypes, CacheSound
<1>8. call[t] \notin {"refresh", "held", "clean", "discard", "evict"}
  BY <1>0 DEF Settled, P!Through
<1>9. PoolTypes' /\ Phases'
  BY <1>5, <1>6, <1>7 DEF PoolTypes, Phases
<1>10. CallsFollow'
  BY <1>0, <1>4, <1>6 DEF CallsFollow, Settled
<1>11. VictimsKnown'
  BY <1>4, <1>5, <1>6, <1>8 DEF VictimsKnown, Settled, P!Through
<1>12. LeasesAreHeld'
  BY <1>4, <1>5, <1>6, <1>8 DEF LeasesAreHeld, P!LeasesAreHeld, Settled, P!Through
<1>13. CacheSound'
  <2>1. ASSUME NEW d \in Deliveries, P!UsesDirectory(d)'
        PROVE  RepoOf[d] \notin In(cache')
    <3>1. CASE d = t
      BY <1>7, <3>1
    <3>2. CASE d # t
      <4>1. P!UsesDirectory(d)
        BY <1>6, <2>1, <3>2 DEF P!UsesDirectory, Settled
      <4>2. QED
        BY <1>7, <4>1 DEF CacheSound
    <3>3. QED
      BY <3>1, <3>2
  <2>2. (\A d \in Deliveries : P!UsesDirectory(d) => RepoOf[d] \notin In(cache))'
    BY <2>1 DEF P!UsesDirectory, In
  <2>3. Len(cache') <= poolSize
    <3>1. Len(cache') \in Nat /\ Len(cache) \in Nat /\ Len(cache) <= poolSize
      BY <1>7 DEF PoolTypes, CacheSound
    <3>2. QED
      BY <1>7, <3>1, PoolFacts
  <2>4. QED
    BY <1>7, <2>2, <2>3 DEF CacheSound, NoneTwice, In
<1>14. NoneLost'
  <2> SUFFICES ASSUME NEW r \in Repos, disk[r] # "none" PROVE Accounted(r)'
    BY <1>5 DEF NoneLost
  <2>1. Accounted(r)
    BY DEF NoneLost
  <2>2. \A d \in Deliveries : KeepsDirectory(d) => KeepsDirectory(d)'
    BY <1>6, <1>8 DEF KeepsDirectory, Settled, P!Through
  <2>3. r \in In(cache) => r \in In(cache)' \/ (r = r0 /\ KeepsDirectory(t)')
    BY <1>4, <1>6, <1>7 DEF KeepsDirectory, In
  <2>4. QED
    BY <1>5, <2>1, <2>2, <2>3 DEF Accounted
<1>15. QED
  BY <1>9, <1>10, <1>11, <1>12, <1>13, <1>14

LEMMA QueueStepKeeps ==
  ASSUME PoolInv, OneRunEach', NEW calls, NEW rs, Settled(calls, rs), StartRun(calls),
         QP!StartsOne(rs, runs'),
         plugin' \notin {"disposing", "unloaded"}, plugin # "disposing"
  PROVE  PoolInv'
<1>1. CASE runs' = rs
  BY <1>1, NothingStartsKeeps
<1>2. CASE \E t \in Deliveries : rs[t] = 0 /\ runs' = [rs EXCEPT ![t] = 1]
  BY <1>2, OneStartsKeeps
<1>3. QED
  BY <1>1, <1>2 DEF QP!StartsOne

-----------------------------------------------------------------------------
(* The invariant of the daemon. *)

DaemonInv == QueueSound /\ PoolInv

LEMMA NextDaemonInv == DaemonInv /\ [Next]_vars => DaemonInv'
<1> SUFFICES ASSUME DaemonInv, [Next]_vars PROVE DaemonInv'
  OBVIOUS
<1>0. QueueSound /\ PoolInv /\ OneRunEach
  BY SoundMeansOneRunEach DEF DaemonInv
<1>a. QueueSound' => OneRunEach'
  BY SoundMeansOneRunEach, PTL
<1>b. UNCHANGED queueVars => QueueSound' /\ runs' = runs /\ drained' = drained
  <2>1. UNCHANGED queueVars => QueueSound'
    BY <1>0, StillSound
  <2>2. QED
    BY <2>1 DEF queueVars
<1>1. CASE UNCHANGED vars
  <2>1. UNCHANGED queueVars /\ UNCHANGED poolVars /\ plugin' = plugin
    BY <1>1 DEF vars
  <2>2. PoolInv'
    BY <1>0, <1>b, <2>1, IdleKeeps
  <2>3. QED
    BY <1>b, <2>1, <2>2 DEF DaemonInv
<1>2. ASSUME NEW d \in Deliveries, Enqueue(d)
      PROVE  DaemonInv'
  <2>1. /\ Q!Enqueue(d) /\ StartRun(call) /\ plugin' = plugin /\ plugin = "serving"
    BY <1>2 DEF Enqueue
  <2>2. QueueSound' /\ QP!StartsOne(runs, runs')
    BY <1>0, <2>1, EnqueueSound
  <2>3. Settled(call, runs)
    BY <1>0 DEF Settled, PoolInv, PoolTypes, CallsFollow, OneRunEach
  <2>4. PoolInv'
    BY <1>0, <1>a, <2>1, <2>2, <2>3, QueueStepKeeps
  <2>5. QED
    BY <2>2, <2>4 DEF DaemonInv
<1>3. ASSUME NEW d \in Deliveries, Settle(d)
      PROVE  DaemonInv'
  <2> DEFINE calls == [call EXCEPT ![d] = "none"]
             rs == [runs EXCEPT ![d] = 0]
  <2>1. call[d] \in P!Through /\ Q!Settle(d) /\ StartRun(calls) /\ plugin' = plugin
    BY <1>3 DEF Settle, RunOver
  <2>2. QueueSound' /\ QP!StartsOne(rs, runs')
    BY <1>0, <2>1, SettleSound
  <2>3. Settled(calls, rs)
    <3>1. call \in [Deliveries -> Calls] /\ runs \in [Deliveries -> 0..1]
      BY <1>0 DEF PoolInv, PoolTypes, OneRunEach
    <3>2. calls \in [Deliveries -> Calls] /\ rs \in [Deliveries -> 0..1]
      BY <3>1 DEF Calls
    <3>3. \A e \in Deliveries : calls[e] = "none" <=> rs[e] = 0
      BY <1>0, <3>1 DEF PoolInv, CallsFollow
    <3>4. \A e \in Deliveries :
            calls[e] = call[e] \/ (call[e] \in P!Through /\ calls[e] = "none")
      BY <2>1, <3>1
    <3>5. QED
      BY <3>2, <3>3, <3>4 DEF Settled
  <2>4. plugin \notin {"disposing", "unloaded"}
    BY <1>0, <2>1 DEF PoolInv, Phases, OneRunEach, CallsFollow, P!Through
  <2> HIDE DEF calls, rs
  <2>5. PoolInv'
    BY <1>0, <1>a, <2>1, <2>2, <2>3, <2>4, QueueStepKeeps
  <2>6. QED
    BY <2>2, <2>5 DEF DaemonInv
<1>4. ASSUME NEW d \in Deliveries, PoolStep(d)
      PROVE  DaemonInv'
  <2>1. (P!CommandEnds(d) \/ P!Release(d)) /\ UNCHANGED queueVars /\ plugin' = plugin
    BY <1>4 DEF PoolStep
  <2>2. PoolInv'
    BY <1>0, <1>b, <2>1, RefreshKeeps, CreateKeeps, CleanKeeps, RemoveKeeps, ReleaseKeeps
    DEF P!CommandEnds
  <2>3. QED
    BY <1>b, <2>1, <2>2 DEF DaemonInv
<1>5. ASSUME NEW r \in Repos, Sweep(r)
      PROVE  DaemonInv'
  <2>1. P!Sweep(r) /\ UNCHANGED queueVars /\ plugin' = plugin
    BY <1>5 DEF Sweep
  <2>2. QED
    BY <1>0, <1>b, <2>1, SweepKeeps DEF DaemonInv
<1>6. CASE Stop
  <2>1. /\ UNCHANGED queueVars /\ UNCHANGED poolVars
        /\ plugin' \notin {"disposing", "unloaded"} /\ plugin # "disposing"
    BY <1>6 DEF Stop
  <2>2. QED
    BY <1>0, <1>b, <2>1, IdleKeeps DEF DaemonInv
<1>7. CASE Drain
  <2>1. /\ Q!Drain /\ StartRun(call) /\ plugin = "stopped" /\ plugin' = "draining"
    BY <1>7 DEF Drain
  <2>2. QueueSound' /\ QP!StartsOne(runs, runs')
    BY <1>0, <2>1, DrainSound
  <2>3. Settled(call, runs)
    BY <1>0 DEF Settled, PoolInv, PoolTypes, CallsFollow, OneRunEach
  <2>4. PoolInv'
    BY <1>0, <1>a, <2>1, <2>2, <2>3, QueueStepKeeps
  <2>5. QED
    BY <2>2, <2>4 DEF DaemonInv
<1>8. CASE Dispose
  <2>1. MayDispose /\ P!Dispose /\ plugin' = "disposing" /\ UNCHANGED queueVars
    BY <1>8 DEF Dispose
  <2>2. QED
    BY <1>0, <1>b, <2>1, DisposeKeeps DEF DaemonInv
<1>9. CASE DisposeEnds
  <2>1. plugin = "disposing" /\ P!DisposeEnds /\ plugin' = "unloaded" /\ UNCHANGED queueVars
    BY <1>9 DEF DisposeEnds
  <2>2. QED
    BY <1>0, <1>b, <2>1, DisposeEndsKeeps DEF DaemonInv
<1>10. QED
  BY <1>1, <1>2, <1>3, <1>4, <1>5, <1>6, <1>7, <1>8, <1>9 DEF Next, Reject, Unloaded

LEMMA DaemonInvariant == Spec => []DaemonInv
<1>1. Init => DaemonInv
  BY InitPoolInv, InitSound DEF Init, DaemonInv
<1>2. QED
  BY <1>1, NextDaemonInv, PTL DEF Spec

-----------------------------------------------------------------------------
\* "each task running inside an exclusively leased workspace": whatever the events and the
\* bounds, two tasks never work in one directory, and no lease meets "is already leased".
THEOREM NoSharedWorkspace == Spec => []ExclusiveWorkspace
<1>1. DaemonInv => ExclusiveWorkspace
  <2> SUFFICES ASSUME DaemonInv PROVE ExclusiveWorkspace
    OBVIOUS
  <2>1. OneRunEach /\ CallsFollow
    BY SoundMeansOneRunEach DEF DaemonInv, PoolInv
  <2>2. \A d, e \in Deliveries :
          P!UsesDirectory(d) /\ P!UsesDirectory(e) /\ RepoOf[d] = RepoOf[e] => d = e
    BY <2>1, AloneInRepo DEF P!UsesDirectory
  <2>3. QED
    BY <2>1, <2>2 DEF ExclusiveWorkspace, CallsFollow
<1>2. QED
  BY <1>1, DaemonInvariant, PTL

\* "The cache is LRU-bounded": lease, release and evictIfFull keep at most poolSize idle
\* workspaces, one entry each, none of them in anyone's hands.
THEOREM CacheStaysBounded == Spec => []CacheBounded
<1>1. DaemonInv => CacheBounded
  <2> SUFFICES ASSUME PoolTypes, CacheSound PROVE CacheBounded
    BY DEF DaemonInv, PoolInv
  <2>1. DOMAIN cache = 1..Len(cache)
    BY DEF PoolTypes
  <2>2. QED
    BY <2>1, CachedIsIn DEF CacheSound, NoneTwice, CacheBounded, P!CacheBounded
<1>2. QED
  BY <1>1, DaemonInvariant, PTL

\* lease and release keep the table of leases exact: a repository is in it while, and only
\* while, a task holds it.
THEOREM LeaseTableIsExact == Spec => []LeasesAreHeld
<1>1. DaemonInv => LeasesAreHeld
  BY DEF DaemonInv, PoolInv
<1>2. QED
  BY <1>1, DaemonInvariant, PTL

\* Whatever git and rm fail on, release, evictIfFull and dispose lose no directory from
\* sight: it is cached, in use, being destroyed, or known to be left behind.
THEOREM EveryDirectoryKnown == Spec => []NoLostDirectory
<1>1. DaemonInv => NoLostDirectory
  <2> SUFFICES ASSUME PoolTypes, VictimsKnown, NoneLost, NEW r \in Repos, disk[r] # "none"
               PROVE  \/ r \in P!Cached \cup P!Removing \cup orphaned
                      \/ \E d \in Deliveries : RepoOf[d] = r /\ P!UsesDirectory(d)
    BY DEF DaemonInv, PoolInv, NoLostDirectory, P!NoLostDirectory, P!OnDisk
  <2>1. Accounted(r)
    BY DEF NoneLost
  <2>2. CASE \E d \in Deliveries : victim[d] = r
    BY <2>2, PoolFacts DEF P!Removing
  <2>3. CASE \E d \in Deliveries : RepoOf[d] = r /\ KeepsDirectory(d)
    BY <2>3 DEF KeepsDirectory, P!UsesDirectory
  <2>4. QED
    BY <2>1, <2>2, <2>3, CachedIsIn DEF Accounted, P!Removing
<1>2. QED
  BY <1>1, DaemonInvariant, PTL

\* "drains the queue, and disposes the workspace pool": when the disposer tears the pool
\* down no call is under way, and what stays on disk is what some command failed on.
THEOREM PoolDisposedWhenIdle == Spec => []DisposedWhenIdle
<1>1. DaemonInv => DisposedWhenIdle
  <2> SUFFICES ASSUME DaemonInv, plugin \in {"disposing", "unloaded"}
               PROVE  /\ \A d \in Deliveries : call[d] = "none"
                      /\ \A r \in Repos : disk[r] # "none" => r \in disposing \cup orphaned
    BY DEF DisposedWhenIdle
  <2>0. OneRunEach /\ PoolInv
    BY SoundMeansOneRunEach DEF DaemonInv
  <2>1. drained /\ cache = <<>>
    BY <2>0 DEF PoolInv, Phases
  <2>2. \A d \in Deliveries : call[d] = "none"
    BY <2>0, <2>1 DEF PoolInv, OneRunEach, CallsFollow
  <2>3. \A d \in Deliveries : victim[d] = NoRepo /\ ~KeepsDirectory(d)
    BY <2>0, <2>2 DEF PoolInv, VictimsKnown, KeepsDirectory
  <2>4. In(cache) = {}
    BY <2>1 DEF In
  <2>5. \A r \in Repos : disk[r] # "none" => r \in disposing \cup orphaned
    BY <2>0, <2>3, <2>4, PoolFacts DEF PoolInv, NoneLost, Accounted
  <2>6. QED
    BY <2>2, <2>5
<1>2. QED
  BY <1>1, DaemonInvariant, PTL

-----------------------------------------------------------------------------
(* What the forge is told. *)

\* A coalesce key names the forge, the repository and the change request.
LEMMA KeyNamesSubject ==
  ASSUME NEW d \in Deliveries, NEW e \in Deliveries,
         CoalesceKeyOf[d] = CoalesceKeyOf[e], CoalesceKeyOf[d] # NoKey
  PROVE  SameChange(d, e)
<1>1. ASSUME NEW q \in Deliveries, CoalesceKeyOf[q] # NoKey
      PROVE  LET forge    == DetectForge(RequestOf[q].headers)
                 identity == ReadEventIdentity(forge, RequestOf[q].body)
             IN  /\ CoalesceKeyOf[q][1] = forge
                 /\ identity = [repo |-> CoalesceKeyOf[q][2], change |-> CoalesceKeyOf[q][3]]
  <2> DEFINE forge == DetectForge(RequestOf[q].headers)
             identity == ReadEventIdentity(forge, RequestOf[q].body)
  <2>1. CoalesceKeyOf[q] = IF identity.change = "" THEN NoKey
                           ELSE <<forge, identity.repo, identity.change>>
    BY DEF CoalesceKeyOf, Task, TaskOf, CoalesceKey
  <2>2. identity = [repo |-> identity.repo, change |-> identity.change]
    BY DEF ReadEventIdentity, GitLabIdentity, GitHubIdentity
  <2> HIDE DEF forge, identity
  <2>3. CoalesceKeyOf[q] = <<forge, identity.repo, identity.change>>
    BY <1>1, <2>1
  <2>4. /\ CoalesceKeyOf[q][1] = forge
        /\ identity = [repo |-> CoalesceKeyOf[q][2], change |-> CoalesceKeyOf[q][3]]
    BY <2>2, <2>3
  <2>5. QED
    BY <2>4 DEF forge, identity
<1>2. QED
  BY <1>1, Zenon DEF SameChange

\* The queue answers 'duplicate' to what it has accepted before and to nothing else, and
\* it keeps account of all that, also of what its cache has forgotten.
LEMMA SoundMeansHonest == QueueSound => AnswersAreHonest
<1> SUFFICES ASSUME QueueSound, NEW d \in Deliveries,
                    d \in accepted \/ Answer(d) = StatusOf.duplicate
             PROVE  \E e \in accepted :
                      /\ Q!Waiting(e) \/ runs[e] > 0 \/ e \in finished
                      /\ e = d \/ SameChange(d, e)
  BY DEF AnswersAreHonest
<1>1. /\ QP!Accountable(waiting, inFlight, accepted, completed, finished)
      /\ QP!Serial(active, inFlight, runs)
      /\ accepted \subseteq Deliveries
  BY DEF QueueSound, QP!AccountInv, QP!SerialInv, QP!QueueConsistent, QP!Consistent, QP!TypeOK
<1>2. d \in accepted
  <2>1. CASE Answer(d) = StatusOf.duplicate
    <3>1. Q!IsDuplicate(d)
      BY <2>1 DEF Answer, StatusOf
    <3>2. d \in inFlight \/ d \in QP!Elements(completed)
      BY <3>1 DEF Q!IsDuplicate, Q!Elements, QP!Elements
    <3>3. QED
      BY <1>1, <3>2 DEF QP!Accountable, QP!ServedIn
  <2>2. QED
    BY <2>1
<1>3. PICK e \in Deliveries :
        /\ QP!ServedIn(waiting, inFlight, finished, e)
        /\ e = d \/ (QP!Keyed(d) /\ CoalesceKeyOf[e] = CoalesceKeyOf[d])
  BY <1>1, <1>2 DEF QP!Accountable, QP!AccountedIn
<1>4. e \in accepted
  BY <1>1, <1>3 DEF QP!Accountable
<1>5. Q!Waiting(e) \/ runs[e] > 0 \/ e \in finished
  BY <1>1, <1>3 DEF QP!ServedIn, QP!WaitsIn, QP!Elements, Q!Waiting, Q!Elements, QP!Serial,
                    QP!RunningIn
<1>6. e = d \/ SameChange(d, e)
  BY <1>3, KeyNamesSubject DEF QP!Keyed
<1>7. QED
  BY <1>4, <1>5, <1>6

\* A delivery that was answered 202, or that would now be answered 200 as a duplicate,
\* waits, runs or has run, or another event of the same change request of the same
\* repository of the same forge does so in its place (createHandler, enqueue, settle).
THEOREM ForgeIsToldTheTruth == Spec => []AnswersAreHonest
<1>1. DaemonInv => AnswersAreHonest
  BY SoundMeansHonest DEF DaemonInv
<1>2. QED
  BY <1>1, DaemonInvariant, PTL
=============================================================================

------------------------ MODULE WebhookQueue_proofs ------------------------
(***************************************************************************)
(* Proofs about the daemon's queue, for any deliveries, repositories and   *)
(* bounds.  The argument goes through Consistent, a predicate of the five  *)
(* values that `pump` reads and writes: every entry point hands `pump`     *)
(* values of which it holds, and `pump` keeps it.  What becomes of the     *)
(* deliveries (none is dropped without a word, none that was replaced      *)
(* runs, none that carries a change request runs twice, each that was      *)
(* accepted is accounted for) is proved on top of that, in the same way.   *)
(***************************************************************************)
EXTENDS QueueImplementsLifecycle, FiniteSetTheorems, SequenceTheorems, WellFoundedInduction, TLAPS

-----------------------------------------------------------------------------
(* Facts about the data. *)

\* A non-empty set of natural numbers has a least element.
LEMMA NatMin ==
  ASSUME NEW S \in SUBSET Nat, S # {}
  PROVE  \E i \in S : \A j \in S : i <= j
<1>1. IsWellFoundedOn(OpToRel(<, Nat), Nat)
  BY NatLessThanWellFounded
<1>2. PICK x \in S : \A y \in S : ~ (<<y, x>> \in OpToRel(<, Nat))
  BY <1>1, WFMin
<1>3. \A y \in S : ~(y < x)
  BY <1>2 DEF OpToRel
<1>4. QED
  BY <1>3

\* `nextQueuedRepo` finds the first idle repository whenever there is one.
LEMMA NextQueuedIsFirst ==
  ASSUME NEW o \in Seq(Repos), NEW act, HasNext(o, act)
  PROVE  /\ NextQueued(o, act) \in 1..Len(o)
         /\ o[NextQueued(o, act)] \in Repos \ act
<1> DEFINE S == Startable(o, act)
<1>1. S \in SUBSET Nat /\ S # {}
  BY DEF HasNext, Startable
<1>2. \E i \in S : \A j \in S : i <= j
  <2> HIDE DEF S
  <2>1. QED BY <1>1, NatMin
<1>3. NextQueued(o, act) \in S
  BY <1>2 DEF NextQueued
<1>4. QED
  BY <1>3 DEF Startable

\* Deleting a key from a Map shifts the later keys up by one place.
LEMMA MapDeleteProperties ==
  ASSUME NEW o \in Seq(Repos), NEW i \in 1..Len(o)
  PROVE  /\ MapDelete(o, i) \in Seq(Repos)
         /\ Len(MapDelete(o, i)) = Len(o) - 1
         /\ \A k \in 1..(Len(o) - 1) : MapDelete(o, i)[k] = IF k < i THEN o[k] ELSE o[k + 1]
<1> DEFINE p == SubSeq(o, 1, i - 1)
           q == SubSeq(o, i + 1, Len(o))
<1>1. p \in Seq(Repos) /\ Len(p) = i - 1 /\ \A k \in 1..(i - 1) : p[k] = o[k]
  OBVIOUS
<1>2. q \in Seq(Repos) /\ Len(q) = Len(o) - i /\ \A k \in 1..(Len(o) - i) : q[k] = o[i + k]
  OBVIOUS
<1>3. QED
  <2> HIDE DEF p, q
  <2>1. p \o q \in Seq(Repos) /\ Len(p \o q) = Len(o) - 1
    BY <1>1, <1>2
  <2>2. ASSUME NEW k \in 1..(Len(o) - 1)
        PROVE  (p \o q)[k] = IF k < i THEN o[k] ELSE o[k + 1]
    <3>1. CASE k < i
      BY <1>1, <1>2, <3>1
    <3>2. CASE ~(k < i)
      <4>1. (p \o q)[k] = q[k - (i - 1)]
        BY <1>1, <1>2, <3>2
      <4>2. k - (i - 1) \in 1..(Len(o) - i) /\ i + (k - (i - 1)) = k + 1
        BY <3>2
      <4>3. QED
        BY <1>2, <3>2, <4>1, <4>2
    <3>3. QED
      BY <3>1, <3>2
  <2>3. QED
    BY <2>1, <2>2 DEF MapDelete, p, q

\* The bounded set holds what it is given, stays bounded, and loses at most what Evicted says.
LEMMA BoundedAddProperties ==
  ASSUME NEW keys \in Seq(Deliveries), Len(keys) <= dedupeSize, NEW k \in Deliveries
  PROVE  /\ BoundedAdd(keys, k) \in Seq(Deliveries)
         /\ Len(BoundedAdd(keys, k)) <= dedupeSize
         /\ k \in Elements(BoundedAdd(keys, k))
         /\ Elements(keys) \ Evicted(keys, k) \subseteq Elements(BoundedAdd(keys, k))
         /\ Elements(BoundedAdd(keys, k)) \subseteq Elements(keys) \cup {k}
         /\ Evicted(keys, k) \subseteq Deliveries
<1>0. dedupeSize \in Nat \ {0}
  BY QueueConstants DEF QueueConstants
<1>1. CASE k \in Elements(keys)
  BY <1>1 DEF BoundedAdd, Evicted
<1>2. CASE k \notin Elements(keys) /\ Len(keys) < dedupeSize
  <2>1. BoundedAdd(keys, k) = Append(keys, k) /\ Evicted(keys, k) = {}
    BY <1>0, <1>2 DEF BoundedAdd, Evicted
  <2>2. QED
    BY <1>0, <1>2, <2>1 DEF Elements
<1>3. CASE k \notin Elements(keys) /\ Len(keys) >= dedupeSize
  <2>1. BoundedAdd(keys, k) = Append(Tail(keys), k) /\ Evicted(keys, k) = {Head(keys)}
    BY <1>3 DEF BoundedAdd, Evicted
  <2>2. keys # <<>> /\ Tail(keys) \in Seq(Deliveries) /\ Len(Tail(keys)) = Len(keys) - 1
        /\ \A i \in 1..(Len(keys) - 1) : Tail(keys)[i] = keys[i + 1]
    BY <1>0, <1>3
  <2> DEFINE new == Append(Tail(keys), k)
  <2>3. /\ new \in Seq(Deliveries)
        /\ Len(new) = Len(keys) /\ DOMAIN new = 1..Len(keys) /\ Len(keys) \in Nat \ {0}
        /\ new[Len(keys)] = k
        /\ \A i \in 1..(Len(keys) - 1) : new[i] = keys[i + 1]
    BY <2>2
  <2> HIDE DEF new
  <2>4. ASSUME NEW e \in Elements(keys) \ {Head(keys)}
        PROVE  e \in Elements(new)
    <3>1. PICK i \in 1..Len(keys) : e = keys[i] /\ i # 1
      BY <2>2 DEF Elements
    <3>2. i - 1 \in 1..(Len(keys) - 1) /\ i - 1 \in 1..Len(keys) /\ (i - 1) + 1 = i
      BY <2>3, <3>1
    <3>3. new[i - 1] = e
      BY <2>3, <3>1, <3>2
    <3>4. QED
      BY <2>3, <3>2, <3>3 DEF Elements
  <2>5. ASSUME NEW e \in Elements(new)
        PROVE  e \in Elements(keys) \cup {k}
    <3>1. PICK i \in 1..Len(keys) : e = new[i]
      BY <2>3 DEF Elements
    <3>2. CASE i = Len(keys)
      BY <2>3, <3>1, <3>2
    <3>3. CASE i # Len(keys)
      <4>0. Len(keys) \in Nat
        OBVIOUS
      <4>1. i \in 1..(Len(keys) - 1) /\ i + 1 \in 1..Len(keys)
        BY <3>3, <4>0
      <4>2. e = keys[i + 1]
        BY <2>3, <3>1, <4>1
      <4>3. QED
        BY <4>1, <4>2 DEF Elements
    <3>4. QED
      BY <3>2, <3>3
  <2>6. QED
    <3>1. k \in Elements(new)
      BY <2>3 DEF Elements
    <3>2. Head(keys) \in Deliveries
      BY <2>2
    <3>3. QED
      BY <1>3, <2>1, <2>3, <2>4, <2>5, <3>1, <3>2 DEF new
<1>4. QED
  BY <1>0, <1>1, <1>2, <1>3

-----------------------------------------------------------------------------
(* What `pump` does. *)

PumpTypes(w, o, act, flight, rs) ==
  /\ w \in [Repos -> Seq(Deliveries)]
  /\ o \in Seq(Repos)
  /\ act \subseteq Repos
  /\ flight \subseteq Deliveries
  /\ rs \in [Deliveries -> Nat]

\* Each list holds tasks of its own repository.
OwnTasks(w) == \A r \in Repos : \A i \in 1..Len(w[r]) : RepoOf[w[r][i]] = r

\* The Map's keys are the repositories with a non-empty list, each once.
KeysExact(w, o) ==
  /\ \A i, j \in 1..Len(o) : o[i] = o[j] => i = j
  /\ \A i \in 1..Len(o) : w[o[i]] # <<>>
  /\ \A r \in Repos : w[r] # <<>> => \E i \in 1..Len(o) : o[i] = r

RunningIn(rs) == {d \in Deliveries : rs[d] > 0}

\* One pending promise per busy repository, and the two sets say which.
Serial(act, flight, rs) ==
  /\ \A d \in Deliveries : rs[d] <= 1
  /\ \A d, e \in RunningIn(rs) : RepoOf[d] = RepoOf[e] => d = e
  /\ flight = RunningIn(rs)
  /\ act = {RepoOf[d] : d \in RunningIn(rs)}

Consistent(w, o, act, flight, rs) ==
  /\ PumpTypes(w, o, act, flight, rs)
  /\ OwnTasks(w)
  /\ KeysExact(w, o)
  /\ Serial(act, flight, rs)

\* `pump` either starts the head of the first idle repository's list, when there is a free
\* slot, or changes nothing.
LEMMA PumpStartsOrNot ==
  ASSUME NEW w, NEW o, NEW act, NEW flight, NEW rs,
         Consistent(w, o, act, flight, rs),
         TypeOK,
         Pump(w, o, act, flight, rs)
  PROVE  \/ /\ HasSlot(act)
            /\ \E i \in 1..Len(o) :
                 /\ o[i] \in Repos \ act
                 /\ w[o[i]] # <<>>
                 /\ Head(w[o[i]]) \in Deliveries
                 /\ RepoOf[Head(w[o[i]])] = o[i]
                 /\ waiting' = [w EXCEPT ![o[i]] = Tail(@)]
                 /\ order' = IF Tail(w[o[i]]) = <<>> THEN MapDelete(o, i) ELSE o
                 /\ active' = act \cup {o[i]}
                 /\ inFlight' = flight \cup {Head(w[o[i]])}
                 /\ runs' = [rs EXCEPT ![Head(w[o[i]])] = @ + 1]
                 /\ started' = [started EXCEPT ![Head(w[o[i]])] = IF @ = 0 THEN 1 ELSE 2]
         \/ /\ ~(HasSlot(act) /\ HasNext(o, act))
            /\ waiting' = w /\ order' = o /\ active' = act /\ inFlight' = flight
            /\ runs' = rs /\ started' = started
<1>1. CASE HasSlot(act) /\ HasNext(o, act)
  <2> DEFINE i == NextQueued(o, act)
             r == o[i]
             task == Head(w[r])
  <2>1. i \in 1..Len(o) /\ r \in Repos \ act
    BY <1>1, NextQueuedIsFirst DEF Consistent, PumpTypes
  <2>2. w[r] # <<>> /\ w[r] \in Seq(Deliveries)
    BY <2>1 DEF Consistent, KeysExact, PumpTypes
  <2>3. task \in Deliveries /\ RepoOf[task] = r
    BY <2>1, <2>2 DEF Consistent, OwnTasks
  <2>4. Dequeued(w, r) = [w EXCEPT ![r] = Tail(@)] /\ Dequeued(w, r)[r] = Tail(w[r])
    BY <2>1 DEF Dequeued, Consistent, PumpTypes
  <2>5. /\ waiting' = [w EXCEPT ![r] = Tail(@)]
        /\ order' = IF Tail(w[r]) = <<>> THEN MapDelete(o, i) ELSE o
        /\ active' = act \cup {r}
        /\ inFlight' = flight \cup {task}
        /\ runs' = [rs EXCEPT ![task] = @ + 1]
        /\ started' = [started EXCEPT ![task] = IF @ = 0 THEN 1 ELSE 2]
    BY <1>1, <2>4 DEF Pump
  <2>6. QED
    <3> HIDE DEF i
    <3>1. QED BY <1>1, <2>1, <2>2, <2>3, <2>5
<1>2. CASE ~(HasSlot(act) /\ HasNext(o, act))
  BY <1>2 DEF Pump
<1>3. QED
  BY <1>1, <1>2

\* `pump` keeps the list, the Map and the promises in step, and one promise per repository.
LEMMA PumpConsistent ==
  ASSUME NEW w, NEW o, NEW act, NEW flight, NEW rs,
         Consistent(w, o, act, flight, rs),
         TypeOK,
         Pump(w, o, act, flight, rs)
  PROVE  Consistent(waiting', order', active', inFlight', runs')
<1>1. CASE waiting' = w /\ order' = o /\ active' = act /\ inFlight' = flight /\ runs' = rs
  BY <1>1
<1>2. ASSUME NEW i \in 1..Len(o),
             o[i] \in Repos \ act,
             w[o[i]] # <<>>,
             Head(w[o[i]]) \in Deliveries,
             RepoOf[Head(w[o[i]])] = o[i],
             waiting' = [w EXCEPT ![o[i]] = Tail(@)],
             order' = IF Tail(w[o[i]]) = <<>> THEN MapDelete(o, i) ELSE o,
             active' = act \cup {o[i]},
             inFlight' = flight \cup {Head(w[o[i]])},
             runs' = [rs EXCEPT ![Head(w[o[i]])] = @ + 1]
      PROVE  Consistent(waiting', order', active', inFlight', runs')
  <2> DEFINE r == o[i]
             task == Head(w[r])
  <2>0. PumpTypes(w, o, act, flight, rs) /\ OwnTasks(w) /\ KeysExact(w, o) /\ Serial(act, flight, rs)
    BY DEF Consistent
  <2>1. /\ w[r] \in Seq(Deliveries) /\ Tail(w[r]) \in Seq(Deliveries)
        /\ Len(Tail(w[r])) = Len(w[r]) - 1
        /\ \A k \in 1..(Len(w[r]) - 1) : Tail(w[r])[k] = w[r][k + 1]
    BY <1>2, <2>0 DEF PumpTypes
  <2>2. waiting' \in [Repos -> Seq(Deliveries)] /\ waiting'[r] = Tail(w[r])
        /\ \A q \in Repos \ {r} : waiting'[q] = w[q]
    BY <1>2, <2>0, <2>1 DEF PumpTypes
  <2>3. /\ MapDelete(o, i) \in Seq(Repos)
        /\ Len(MapDelete(o, i)) = Len(o) - 1
        /\ \A k \in 1..(Len(o) - 1) : MapDelete(o, i)[k] = IF k < i THEN o[k] ELSE o[k + 1]
    BY <2>0, MapDeleteProperties DEF PumpTypes
  <2>4. PumpTypes(waiting', order', active', inFlight', runs')
    BY <1>2, <2>0, <2>2, <2>3 DEF PumpTypes
  <2>5. OwnTasks(waiting')
    BY <1>2, <2>0, <2>1, <2>2 DEF OwnTasks, PumpTypes
  <2>6. KeysExact(waiting', order')
    <3>1. CASE Tail(w[r]) = <<>>
      <4> DEFINE m == MapDelete(o, i)
      <4>0. order' = m /\ waiting'[r] = <<>> /\ Len(o) \in Nat /\ i \in 1..Len(o)
        BY <1>2, <2>0, <2>2, <3>1 DEF PumpTypes
      <4>a. /\ Len(m) = Len(o) - 1
            /\ \A k \in 1..(Len(o) - 1) : m[k] = IF k < i THEN o[k] ELSE o[k + 1]
        BY <2>3
      <4> HIDE DEF m
      <4>1. \A k, l \in 1..Len(m) : m[k] = m[l] => k = l
        BY <2>0, <4>0, <4>a DEF KeysExact
      <4>2. ASSUME NEW k \in 1..Len(m)
            PROVE  m[k] \in Repos \ {r} /\ w[m[k]] # <<>>
        <5>1. PICK l \in 1..Len(o) : m[k] = o[l] /\ l # i
          <6>1. CASE k < i
            BY <4>0, <4>a, <6>1
          <6>2. CASE ~(k < i)
            BY <4>0, <4>a, <6>2
          <6>3. QED BY <6>1, <6>2
        <5>2. o[l] \in Repos /\ w[o[l]] # <<>>
          BY <2>0, <5>1 DEF KeysExact, PumpTypes
        <5>3. o[l] # r
          BY <2>0, <4>0, <5>1 DEF KeysExact
        <5>4. QED BY <5>1, <5>2, <5>3
      <4>3. ASSUME NEW q \in Repos, waiting'[q] # <<>>
            PROVE  \E k \in 1..Len(m) : m[k] = q
        <5>1. q # r /\ w[q] # <<>>
          BY <2>2, <4>0, <4>3
        <5>2. PICK k \in 1..Len(o) : o[k] = q
          BY <2>0, <5>1 DEF KeysExact
        <5>3. CASE k < i
          BY <4>0, <4>a, <5>2, <5>3
        <5>4. CASE k > i
          <6>1. k - 1 \in 1..Len(m) /\ ~(k - 1 < i) /\ (k - 1) + 1 = k
            BY <4>0, <4>a, <5>2, <5>4
          <6>2. m[k - 1] = q
            BY <4>0, <4>a, <5>2, <6>1
          <6>3. QED BY <6>1, <6>2
        <5>5. QED
          BY <4>0, <5>1, <5>2, <5>3, <5>4
      <4>4. QED
        BY <2>2, <4>0, <4>1, <4>2, <4>3 DEF KeysExact
    <3>2. CASE Tail(w[r]) # <<>>
      <4>1. order' = o
        BY <1>2, <3>2
      <4>2. \A q \in Repos : waiting'[q] # <<>> <=> w[q] # <<>>
        BY <1>2, <2>2, <3>2
      <4>3. \A k \in 1..Len(o) : o[k] \in Repos
        BY <2>0 DEF PumpTypes
      <4>4. QED
        BY <2>0, <4>1, <4>2, <4>3 DEF KeysExact
    <3>3. QED
      BY <3>1, <3>2
  <2>7. Serial(active', inFlight', runs')
    <3>1. rs[task] = 0
      BY <1>2, <2>0 DEF Serial, RunningIn, PumpTypes
    <3>2. runs'[task] = 1 /\ \A d \in Deliveries \ {task} : runs'[d] = rs[d]
      BY <1>2, <2>0, <3>1 DEF PumpTypes
    <3>3. RunningIn(runs') = RunningIn(rs) \cup {task}
      BY <1>2, <3>2 DEF RunningIn
    <3>4. \A d \in Deliveries : runs'[d] <= 1
      BY <2>0, <3>2 DEF Serial
    <3>5. \A d \in RunningIn(rs) : RepoOf[d] # r
      BY <1>2, <2>0 DEF Serial
    <3>6. \A d, e \in RunningIn(runs') : RepoOf[d] = RepoOf[e] => d = e
      BY <1>2, <2>0, <3>3, <3>5 DEF Serial
    <3>7. inFlight' = RunningIn(runs')
      BY <1>2, <2>0, <3>3 DEF Serial
    <3>8. {RepoOf[d] : d \in RunningIn(rs) \cup {task}} = {RepoOf[d] : d \in RunningIn(rs)} \cup {r}
      BY <1>2
    <3>9. active' = {RepoOf[d] : d \in RunningIn(runs')}
      BY <1>2, <2>0, <3>3, <3>8 DEF Serial
    <3>10. QED
      BY <3>4, <3>6, <3>7, <3>9 DEF Serial
  <2>8. QED
    BY <2>4, <2>5, <2>6, <2>7 DEF Consistent
<1>3. QED
  BY <1>1, <1>2, PumpStartsOrNot

\* `started` is the one variable `pump` writes that Consistent does not speak of.
LEMMA PumpStarted ==
  ASSUME NEW w, NEW o, NEW act, NEW flight, NEW rs,
         Consistent(w, o, act, flight, rs),
         TypeOK,
         Pump(w, o, act, flight, rs)
  PROVE  started' \in [Deliveries -> 0..2]
<1>1. started \in [Deliveries -> 0..2]
  BY DEF TypeOK
<1>2. QED
  BY <1>1, PumpStartsOrNot

-----------------------------------------------------------------------------
(* What each entry point hands to `pump`. *)

QueueConsistent == Consistent(waiting, order, active, inFlight, runs)

\* Appending a task of repository r to its list, and r to the Map if it was not a key.
LEMMA PushArguments ==
  ASSUME TypeOK, QueueConsistent, NEW d \in Deliveries, NEW r, r = RepoOf[d]
  PROVE  Consistent([waiting EXCEPT ![r] = Append(@, d)],
                    IF waiting[r] = <<>> THEN Append(order, r) ELSE order,
                    active, inFlight, runs)
<1> DEFINE w == [waiting EXCEPT ![r] = Append(@, d)]
           o == IF waiting[r] = <<>> THEN Append(order, r) ELSE order
<1>1. /\ PumpTypes(waiting, order, active, inFlight, runs)
      /\ OwnTasks(waiting) /\ KeysExact(waiting, order) /\ Serial(active, inFlight, runs)
  BY DEF QueueConsistent, Consistent
<1>2. r \in Repos
  BY QueueConstants DEF QueueConstants
<1>a. waiting[r] \in Seq(Deliveries)
  BY <1>1, <1>2 DEF PumpTypes
<1>3. /\ Append(waiting[r], d) \in Seq(Deliveries)
      /\ Len(Append(waiting[r], d)) = Len(waiting[r]) + 1
      /\ Append(waiting[r], d)[Len(waiting[r]) + 1] = d
      /\ \A k \in 1..Len(waiting[r]) : Append(waiting[r], d)[k] = waiting[r][k]
      /\ Append(waiting[r], d) # <<>>
      /\ Len(waiting[r]) \in Nat
  BY <1>a, AppendProperties
<1>4. /\ w \in [Repos -> Seq(Deliveries)] /\ w[r] = Append(waiting[r], d)
      /\ \A q \in Repos \ {r} : w[q] = waiting[q]
  BY <1>1, <1>2, <1>3 DEF PumpTypes
<1>5. o \in Seq(Repos)
  BY <1>1, <1>2 DEF PumpTypes
<1> HIDE DEF w
<1>6. OwnTasks(w)
  <2> SUFFICES ASSUME NEW q \in Repos, NEW k \in 1..Len(w[q])
               PROVE  RepoOf[w[q][k]] = q
    BY DEF OwnTasks
  <2>1. CASE q # r
    BY <1>1, <1>4, <2>1 DEF OwnTasks
  <2>2. CASE q = r /\ k = Len(waiting[r]) + 1
    BY <1>3, <1>4, <2>2
  <2>3. CASE q = r /\ k # Len(waiting[r]) + 1
    <3>1. k \in 1..Len(waiting[r])
      BY <1>3, <1>4, <2>3
    <3>2. w[q][k] = waiting[r][k]
      BY <1>3, <1>4, <2>3, <3>1
    <3>3. QED
      BY <1>1, <1>2, <2>3, <3>1, <3>2 DEF OwnTasks
  <2>4. QED
    BY <2>1, <2>2, <2>3
<1>7. KeysExact(w, o)
  <2>1. CASE waiting[r] = <<>>
    <3>1. /\ o = Append(order, r) /\ Len(o) = Len(order) + 1 /\ Len(order) \in Nat
          /\ o[Len(order) + 1] = r /\ \A k \in 1..Len(order) : o[k] = order[k]
      BY <1>1, <1>2, <2>1 DEF PumpTypes
    <3>2. \A k \in 1..Len(order) : order[k] \in Repos \ {r}
      BY <1>1, <2>1 DEF KeysExact, PumpTypes
    <3> HIDE DEF o
    <3>3. \A k, l \in 1..Len(o) : o[k] = o[l] => k = l
      BY <1>1, <3>1, <3>2 DEF KeysExact
    <3>4. ASSUME NEW k \in 1..Len(o)
          PROVE  w[o[k]] # <<>>
      <4>1. CASE k = Len(order) + 1
        BY <1>3, <1>4, <3>1, <4>1
      <4>2. CASE k # Len(order) + 1
        <5>1. k \in 1..Len(order)
          BY <3>1, <4>2
        <5>2. order[k] \in Repos \ {r} /\ waiting[order[k]] # <<>> /\ o[k] = order[k]
          BY <1>1, <3>1, <3>2, <5>1 DEF KeysExact
        <5>3. QED BY <1>4, <5>2
      <4>3. QED BY <4>1, <4>2
    <3>5. ASSUME NEW q \in Repos, w[q] # <<>>
          PROVE  \E k \in 1..Len(o) : o[k] = q
      <4>1. CASE q = r
        BY <3>1, <4>1
      <4>2. CASE q # r
        <5>1. PICK k \in 1..Len(order) : order[k] = q
          BY <1>1, <1>4, <3>5, <4>2 DEF KeysExact
        <5>2. k \in 1..Len(o) /\ o[k] = q
          BY <3>1, <5>1
        <5>3. QED BY <5>2
      <4>3. QED BY <4>1, <4>2
    <3>6. QED
      BY <3>3, <3>4, <3>5 DEF KeysExact
  <2>2. CASE waiting[r] # <<>>
    <3>1. o = order
      BY <2>2
    <3>2. \A q \in Repos : w[q] # <<>> <=> waiting[q] # <<>>
      BY <1>3, <1>4, <2>2
    <3>3. QED
      BY <1>1, <3>1, <3>2 DEF KeysExact, PumpTypes
  <2>3. QED
    BY <2>1, <2>2
<1>8. QED
  BY <1>1, <1>4, <1>5, <1>6, <1>7 DEF Consistent, PumpTypes, w

\* A settled run takes its repository and its key out of the running ones.
LEMMA SettleArguments ==
  ASSUME TypeOK, QueueConsistent, NEW d \in Deliveries, runs[d] > 0
  PROVE  Consistent(waiting, order, active \ {RepoOf[d]}, inFlight \ {d},
                    [runs EXCEPT ![d] = @ - 1])
<1> DEFINE rs == [runs EXCEPT ![d] = @ - 1]
<1>1. /\ PumpTypes(waiting, order, active, inFlight, runs)
      /\ OwnTasks(waiting) /\ KeysExact(waiting, order) /\ Serial(active, inFlight, runs)
  BY DEF QueueConsistent, Consistent
<1>2. runs[d] = 1
  BY <1>1 DEF Serial, PumpTypes
<1>3. rs \in [Deliveries -> Nat] /\ rs[d] = 0 /\ \A e \in Deliveries \ {d} : rs[e] = runs[e]
  BY <1>1, <1>2 DEF PumpTypes
<1> HIDE DEF rs
<1>4. RunningIn(rs) = RunningIn(runs) \ {d} /\ d \in RunningIn(runs)
  BY <1>2, <1>3 DEF RunningIn
<1>5. Serial(active \ {RepoOf[d]}, inFlight \ {d}, rs)
  <2>1. \A e \in Deliveries : rs[e] <= 1
    BY <1>1, <1>3 DEF Serial
  <2>2. \A e, f \in RunningIn(rs) : RepoOf[e] = RepoOf[f] => e = f
    BY <1>1, <1>4 DEF Serial
  <2>3. active \ {RepoOf[d]} = {RepoOf[e] : e \in RunningIn(rs)}
    BY <1>1, <1>4 DEF Serial
  <2>4. QED
    BY <1>1, <1>4, <2>1, <2>2, <2>3 DEF Serial
<1>6. QED
  BY <1>1, <1>3, <1>5 DEF Consistent, PumpTypes, rs

-----------------------------------------------------------------------------
(* Type correctness and one run per repository. *)

SerialInv == TypeOK /\ QueueConsistent

LEMMA InitSerialInv == Init => SerialInv
<1> SUFFICES ASSUME Init PROVE SerialInv
  OBVIOUS
<1>1. TypeOK
  <2>1. accepting \in BOOLEAN /\ drained \in BOOLEAN
    BY DEF Init
  <2>2. waiting \in [Repos -> Seq(Deliveries)] /\ order \in Seq(Repos)
    BY DEF Init
  <2>3. completed \in Seq(Deliveries) /\ Len(completed) <= dedupeSize
    BY QueueConstants DEF Init, QueueConstants
  <2>4. runs \in [Deliveries -> Nat] /\ started \in [Deliveries -> 0..2] /\ waiters \in Nat
    BY DEF Init
  <2>5. QED
    BY <2>1, <2>2, <2>3, <2>4 DEF Init, TypeOK
<1>2. PumpTypes(waiting, order, active, inFlight, runs)
  BY <1>1 DEF TypeOK, PumpTypes
<1>3. OwnTasks(waiting) /\ KeysExact(waiting, order) /\ Serial(active, inFlight, runs)
  BY DEF Init, OwnTasks, KeysExact, Serial, RunningIn
<1>4. QED
  BY <1>1, <1>2, <1>3 DEF SerialInv, QueueConsistent, Consistent

\* The part of a step that goes through `pump`.
LEMMA PumpSerialInv ==
  ASSUME NEW w, NEW o, NEW act, NEW flight, NEW rs,
         Consistent(w, o, act, flight, rs), TypeOK, Pump(w, o, act, flight, rs),
         completed' \in Seq(Deliveries), Len(completed') <= dedupeSize,
         accepting' \in BOOLEAN, waiters' \in Nat, accepted' \subseteq Deliveries,
         finished' \subseteq Deliveries, superseded' \subseteq Deliveries,
         forgotten' \subseteq Deliveries, drained' \in BOOLEAN
  PROVE  SerialInv'
<1>1. Consistent(waiting', order', active', inFlight', runs')
  BY PumpConsistent
<1>2. started' \in [Deliveries -> 0..2]
  BY PumpStarted
<1>3. QED
  BY <1>1, <1>2 DEF SerialInv, QueueConsistent, Consistent, PumpTypes, TypeOK

LEMMA NextSerialInv == SerialInv /\ [Next]_vars => SerialInv'
<1> SUFFICES ASSUME SerialInv, [Next]_vars PROVE SerialInv'
  OBVIOUS
<1>0. TypeOK /\ QueueConsistent
  BY DEF SerialInv
<1>1. ASSUME NEW d \in Deliveries, Refuse(d) PROVE SerialInv'
  BY <1>1 DEF Refuse, vars, queueVars, historyVars, SerialInv, TypeOK, QueueConsistent,
              Consistent, PumpTypes, OwnTasks, KeysExact, Serial, RunningIn
<1>2. ASSUME NEW d \in Deliveries, Coalesce(d) PROVE SerialInv'
  <2> DEFINE r == RepoOf[d]
  <2>1. r \in Repos /\ waiting[r] \in Seq(Deliveries)
    BY <1>0, QueueConstants DEF QueueConstants, TypeOK
  <2>2. PICK i \in Coalescible(d) :
          /\ waiting' = [waiting EXCEPT ![r][i] = d]
          /\ completed' = BoundedAdd(completed, waiting[r][i])
          /\ forgotten' = forgotten \cup Evicted(completed, waiting[r][i])
          /\ superseded' = superseded \cup ({waiting[r][i]} \ {d})
    BY <1>2 DEF Coalesce
  <2>3. i \in 1..Len(waiting[r]) /\ waiting[r][i] \in Deliveries
    BY <2>1, <2>2 DEF Coalescible
  <2>4. /\ order' = order /\ active' = active /\ inFlight' = inFlight /\ runs' = runs
        /\ accepting' = accepting /\ waiters' = waiters /\ started' = started
        /\ finished' = finished /\ drained' = drained /\ accepted' = accepted \cup {d}
    BY <1>2 DEF Coalesce
  <2>5. completed' \in Seq(Deliveries) /\ Len(completed') <= dedupeSize
        /\ forgotten' \subseteq Deliveries
    <3> DEFINE replaced == waiting[r][i]
    <3>1. /\ completed' = BoundedAdd(completed, replaced) /\ replaced \in Deliveries
          /\ forgotten' = forgotten \cup Evicted(completed, replaced)
      BY <2>2, <2>3
    <3> HIDE DEF replaced
    <3>2. completed \in Seq(Deliveries) /\ Len(completed) <= dedupeSize /\ forgotten \subseteq Deliveries
      BY <1>0 DEF TypeOK
    <3>3. QED
      BY <3>1, <3>2, BoundedAddProperties
  <2>6. /\ waiting' \in [Repos -> Seq(Deliveries)]
        /\ \A q \in Repos \ {r} : waiting'[q] = waiting[q]
        /\ Len(waiting'[r]) = Len(waiting[r])
        /\ waiting'[r] \in Seq(Deliveries)
        /\ waiting'[r][i] = d
        /\ \A k \in 1..Len(waiting[r]) : k # i => waiting'[r][k] = waiting[r][k]
    <3>1. [waiting[r] EXCEPT ![i] = d] \in Seq(Deliveries)
          /\ Len([waiting[r] EXCEPT ![i] = d]) = Len(waiting[r])
      BY <2>1, <2>3, ExceptSeq
    <3>2. waiting' = [waiting EXCEPT ![r] = [waiting[r] EXCEPT ![i] = d]]
      BY <2>2
    <3>3. waiting'[r] = [waiting[r] EXCEPT ![i] = d]
      BY <1>0, <2>1, <3>2 DEF TypeOK
    <3>4. QED
      BY <1>0, <2>1, <2>3, <3>1, <3>2, <3>3 DEF TypeOK
  <2>7. TypeOK'
    BY <1>0, <2>2, <2>3, <2>4, <2>5, <2>6 DEF TypeOK
  <2>8. OwnTasks(waiting')
    BY <1>0, <2>1, <2>6 DEF OwnTasks, QueueConsistent, Consistent
  <2>9. KeysExact(waiting', order')
    <3>1. \A q \in Repos : waiting'[q] # <<>> <=> waiting[q] # <<>>
      BY <2>1, <2>3, <2>6
    <3>2. QED
      BY <1>0, <2>4, <3>1 DEF KeysExact, QueueConsistent, Consistent, PumpTypes
  <2>10. PumpTypes(waiting', order', active', inFlight', runs')
    BY <2>7 DEF TypeOK, PumpTypes
  <2>11. Serial(active', inFlight', runs')
    BY <1>0, <2>4 DEF QueueConsistent, Consistent
  <2>12. QED
    BY <2>7, <2>8, <2>9, <2>10, <2>11 DEF SerialInv, QueueConsistent, Consistent
<1>3. ASSUME NEW d \in Deliveries, Push(d) PROVE SerialInv'
  <2> DEFINE r == RepoOf[d]
             w == [waiting EXCEPT ![r] = Append(@, d)]
             o == IF waiting[r] = <<>> THEN Append(order, r) ELSE order
  <2>1. Consistent(w, o, active, inFlight, runs)
    BY <1>0, PushArguments
  <2>2. Pump(w, o, active, inFlight, runs)
    BY <1>3 DEF Push
  <2>3. /\ completed' = completed /\ accepting' = accepting /\ waiters' = waiters
        /\ accepted' = accepted \cup {d} /\ finished' = finished
        /\ superseded' = superseded /\ forgotten' = forgotten /\ drained' = drained
    BY <1>3 DEF Push
  <2> HIDE DEF w, o
  <2>4. QED
    <3>1. /\ completed' \in Seq(Deliveries) /\ Len(completed') <= dedupeSize
          /\ accepting' \in BOOLEAN /\ waiters' \in Nat /\ accepted' \subseteq Deliveries
          /\ finished' \subseteq Deliveries /\ superseded' \subseteq Deliveries
          /\ forgotten' \subseteq Deliveries /\ drained' \in BOOLEAN
      BY <1>0, <2>3 DEF TypeOK
    <3>2. QED
      BY <1>0, <2>1, <2>2, <3>1, PumpSerialInv
<1>4. ASSUME NEW d \in Deliveries, Settle(d) PROVE SerialInv'
  <2> DEFINE rs == [runs EXCEPT ![d] = @ - 1]
  <2>1. Consistent(waiting, order, active \ {RepoOf[d]}, inFlight \ {d}, rs)
    BY <1>0, <1>4, SettleArguments DEF Settle
  <2>2. Pump(waiting, order, active \ {RepoOf[d]}, inFlight \ {d}, rs)
    BY <1>4 DEF Settle
  <2>3. completed' \in Seq(Deliveries) /\ Len(completed') <= dedupeSize
        /\ forgotten' \subseteq Deliveries
    BY <1>0, <1>4, BoundedAddProperties DEF TypeOK, Settle
  <2>4. /\ accepting' \in BOOLEAN /\ waiters' \in Nat /\ accepted' \subseteq Deliveries
        /\ finished' \subseteq Deliveries /\ superseded' \subseteq Deliveries
        /\ drained' \in BOOLEAN
    <3>1. accepting' \in BOOLEAN /\ drained' \in BOOLEAN
      <4>1. accepting' = accepting /\ (drained' = (drained \/ waiters > 0) \/ drained' = drained)
        BY <1>4 DEF Settle
      <4>2. QED
        BY <1>0, <4>1 DEF TypeOK
    <3>2. waiters' = 0 \/ waiters' = waiters
      BY <1>4 DEF Settle
    <3>3. accepted' = accepted /\ superseded' = superseded /\ finished' = finished \cup {d}
      BY <1>4 DEF Settle
    <3>4. QED
      BY <1>0, <3>1, <3>2, <3>3 DEF TypeOK
  <2> HIDE DEF rs
  <2>5. QED
    BY <1>0, <2>1, <2>2, <2>3, <2>4, PumpSerialInv
<1>5. CASE Drain
  <2>1. Consistent(waiting, order, active, inFlight, runs)
    BY <1>0 DEF QueueConsistent
  <2>2. Pump(waiting, order, active, inFlight, runs)
    BY <1>5 DEF Drain
  <2>3. /\ completed' \in Seq(Deliveries) /\ Len(completed') <= dedupeSize
        /\ accepting' \in BOOLEAN /\ waiters' \in Nat /\ accepted' \subseteq Deliveries
        /\ finished' \subseteq Deliveries /\ superseded' \subseteq Deliveries
        /\ forgotten' \subseteq Deliveries /\ drained' \in BOOLEAN
    <3>1. accepting' \in BOOLEAN /\ drained' \in BOOLEAN
      <4>1. accepting' = FALSE /\ (drained' = TRUE \/ drained' = drained)
        BY <1>5 DEF Drain
      <4>2. QED
        BY <1>0, <4>1 DEF TypeOK
    <3>2. waiters' = waiters \/ waiters' = waiters + 1
      BY <1>5 DEF Drain
    <3>3. /\ completed' = completed /\ accepted' = accepted /\ finished' = finished
          /\ superseded' = superseded /\ forgotten' = forgotten
      BY <1>5 DEF Drain
    <3>4. QED
      BY <1>0, <3>1, <3>2, <3>3 DEF TypeOK
  <2>4. QED
    BY <1>0, <2>1, <2>2, <2>3, PumpSerialInv
<1>6. CASE UNCHANGED vars
  BY <1>6 DEF vars, queueVars, historyVars, SerialInv, TypeOK, QueueConsistent,
              Consistent, PumpTypes, OwnTasks, KeysExact, Serial, RunningIn
<1>7. QED
  BY <1>1, <1>2, <1>3, <1>4, <1>5, <1>6 DEF Next, Enqueue

LEMMA SerialInvariant == Spec => []SerialInv
BY InitSerialInv, NextSerialInv, PTL DEF Spec

\* Every variable of the queue keeps its type, whatever the forge delivers.
THEOREM TypeCorrect == Spec => []TypeOK
<1>1. SerialInv => TypeOK
  BY DEF SerialInv
<1>2. QED
  BY <1>1, SerialInvariant, PTL

\* No repository ever has two unsettled runs, for any number of slots.
THEOREM RepositoriesAreSerial == Spec => []SerialPerRepo
<1>1. SerialInv => SerialPerRepo
  BY DEF SerialInv, QueueConsistent, Consistent, Serial, SerialPerRepo, Running, RunningIn
<1>2. QED
  BY <1>1, SerialInvariant, PTL

-----------------------------------------------------------------------------
(* Backpressure, and no missed wake-up. *)

\* Backpressure and WorkConserving are inductive together with the finiteness of `active`:
\* a settled run frees one slot of a full house, or one repository of a queue that had a
\* slot to spare and so nothing else to start.
FlowInv == IsFiniteSet(active) /\ Backpressure /\ WorkConserving

\* After one start either the slots are full again or every repository that still has a
\* waiting task is running: the loop of `pump` does not iterate a second time.
OneStartIsEnough(w, act) ==
  \A q \in Repos \ act :
    /\ w[q] # <<>>
    /\ Cardinality(act \cup {q}) < maxConcurrentRepos
    => \A p \in Repos : w[p] # <<>> => p \in act \cup {q}

LEMMA PumpFlow ==
  ASSUME NEW w, NEW o, NEW act, NEW flight, NEW rs,
         Consistent(w, o, act, flight, rs), TypeOK, Pump(w, o, act, flight, rs),
         IsFiniteSet(act), Cardinality(act) <= maxConcurrentRepos,
         \A q \in Repos : Len(w[q]) <= maxQueuePerRepo,
         OneStartIsEnough(w, act)
  PROVE  FlowInv'
<1>0. PumpTypes(w, o, act, flight, rs) /\ KeysExact(w, o)
  BY DEF Consistent
<1>1. CASE /\ ~(HasSlot(act) /\ HasNext(o, act))
           /\ waiting' = w /\ order' = o /\ active' = act
  <2>1. ASSUME Cardinality(act) < maxConcurrentRepos, NEW q \in Repos, w[q] # <<>>
        PROVE  q \in act
    <3>1. ~HasNext(o, act)
      BY <1>1, <2>1 DEF HasSlot
    <3>2. PICK i \in 1..Len(o) : o[i] = q
      BY <1>0, <2>1 DEF KeysExact
    <3>3. i \in DOMAIN o
      BY <1>0 DEF PumpTypes
    <3>4. QED
      BY <3>1, <3>2, <3>3 DEF HasNext, Startable
  <2>2. QED
    BY <1>1, <2>1 DEF FlowInv, Backpressure, WorkConserving
<1>2. ASSUME HasSlot(act),
             NEW i \in 1..Len(o),
             o[i] \in Repos \ act,
             w[o[i]] # <<>>,
             waiting' = [w EXCEPT ![o[i]] = Tail(@)],
             active' = act \cup {o[i]}
      PROVE  FlowInv'
  <2>1. w[o[i]] \in Seq(Deliveries) /\ Len(Tail(w[o[i]])) = Len(w[o[i]]) - 1
    BY <1>0, <1>2 DEF PumpTypes
  <2>2. waiting'[o[i]] = Tail(w[o[i]]) /\ \A q \in Repos \ {o[i]} : waiting'[q] = w[q]
    BY <1>0, <1>2 DEF PumpTypes
  <2>3. IsFiniteSet(active') /\ Cardinality(active') = Cardinality(act) + 1
    BY <1>2, FS_AddElement
  <2>4. Cardinality(act) \in Nat /\ maxConcurrentRepos \in Nat /\ maxQueuePerRepo \in Nat
    BY FS_CardinalityType, QueueConstants DEF QueueConstants
  <2>5. Cardinality(active') <= maxConcurrentRepos
    BY <1>2, <2>3, <2>4 DEF HasSlot
  <2>6. \A q \in Repos : Len(waiting'[q]) <= maxQueuePerRepo
    <3>1. Len(waiting'[o[i]]) <= maxQueuePerRepo
      <4>1. Len(w[o[i]]) \in Nat /\ Len(w[o[i]]) <= maxQueuePerRepo
        BY <1>2, <2>1
      <4>2. QED
        BY <2>1, <2>2, <2>4, <4>1
    <3>2. QED
      BY <2>2, <3>1
  <2>7. ASSUME Cardinality(active') < maxConcurrentRepos, NEW q \in Repos, waiting'[q] # <<>>
        PROVE  q \in active'
    BY <1>2, <2>2, <2>7 DEF OneStartIsEnough
  <2>8. QED
    BY <2>3, <2>5, <2>6, <2>7 DEF FlowInv, Backpressure, WorkConserving
<1>3. QED
  BY <1>1, <1>2, PumpStartsOrNot

LEMMA InitFlowInv == Init => FlowInv
<1> SUFFICES ASSUME Init PROVE FlowInv
  OBVIOUS
<1>1. IsFiniteSet({}) /\ Cardinality({}) = 0
  BY FS_EmptySet
<1>2. QED
  BY <1>1, QueueConstants DEF Init, FlowInv, Backpressure, WorkConserving, QueueConstants

LEMMA NextFlowInv == SerialInv /\ FlowInv /\ [Next]_vars => FlowInv'
<1> SUFFICES ASSUME SerialInv, FlowInv, [Next]_vars PROVE FlowInv'
  OBVIOUS
<1>0. TypeOK /\ QueueConsistent
  BY DEF SerialInv
<1>a. /\ IsFiniteSet(active) /\ Cardinality(active) \in Nat
      /\ Cardinality(active) <= maxConcurrentRepos
      /\ \A q \in Repos : Len(waiting[q]) <= maxQueuePerRepo
  BY FS_CardinalityType DEF FlowInv, Backpressure
<1>b. maxConcurrentRepos \in Nat /\ maxQueuePerRepo \in Nat
  BY QueueConstants DEF QueueConstants
<1>1. ASSUME NEW d \in Deliveries, Refuse(d) PROVE FlowInv'
  BY <1>1 DEF Refuse, vars, queueVars, FlowInv, Backpressure, WorkConserving
<1>2. ASSUME NEW d \in Deliveries, Coalesce(d) PROVE FlowInv'
  <2> DEFINE r == RepoOf[d]
  <2>1. r \in Repos /\ waiting[r] \in Seq(Deliveries)
    BY <1>0, QueueConstants DEF QueueConstants, TypeOK
  <2>2. PICK i \in Coalescible(d) : waiting' = [waiting EXCEPT ![r][i] = d]
    BY <1>2 DEF Coalesce
  <2>3. i \in 1..Len(waiting[r])
    BY <2>1, <2>2 DEF Coalescible
  <2>4. [waiting[r] EXCEPT ![i] = d] \in Seq(Deliveries)
        /\ Len([waiting[r] EXCEPT ![i] = d]) = Len(waiting[r])
    BY <2>1, <2>3, ExceptSeq
  <2>5. waiting'[r] = [waiting[r] EXCEPT ![i] = d]
        /\ \A q \in Repos \ {r} : waiting'[q] = waiting[q]
    BY <1>0, <2>1, <2>2 DEF TypeOK
  <2>6. \A q \in Repos : /\ Len(waiting'[q]) = Len(waiting[q])
                         /\ waiting'[q] # <<>> => waiting[q] # <<>>
    BY <2>1, <2>3, <2>4, <2>5
  <2>7. active' = active
    BY <1>2 DEF Coalesce
  <2>8. QED
    BY <2>6, <2>7 DEF FlowInv, Backpressure, WorkConserving
<1>3. ASSUME NEW d \in Deliveries, Push(d) PROVE FlowInv'
  <2> DEFINE r == RepoOf[d]
             w == [waiting EXCEPT ![r] = Append(@, d)]
             o == IF waiting[r] = <<>> THEN Append(order, r) ELSE order
  <2>1. Consistent(w, o, active, inFlight, runs)
    BY <1>0, PushArguments
  <2>2. Pump(w, o, active, inFlight, runs)
    BY <1>3 DEF Push
  <2>3. r \in Repos /\ waiting[r] \in Seq(Deliveries)
    BY <1>0, QueueConstants DEF QueueConstants, TypeOK
  <2>4. w[r] = Append(waiting[r], d) /\ \A q \in Repos \ {r} : w[q] = waiting[q]
    BY <1>0, <2>3 DEF TypeOK
  <2>5. \A q \in Repos : Len(w[q]) <= maxQueuePerRepo
    <3>1. Len(waiting[r]) < maxQueuePerRepo /\ Len(waiting[r]) \in Nat
      BY <1>3, <2>3 DEF Push
    <3>2. Len(w[r]) = Len(waiting[r]) + 1
      BY <2>3, <2>4, AppendProperties
    <3>3. QED
      BY <1>a, <1>b, <2>4, <3>1, <3>2
  <2>6. OneStartIsEnough(w, active)
    <3> SUFFICES ASSUME NEW q \in Repos \ active, w[q] # <<>>,
                        Cardinality(active \cup {q}) < maxConcurrentRepos,
                        NEW p \in Repos, w[p] # <<>>
                 PROVE  p \in active \cup {q}
      BY DEF OneStartIsEnough
    <3>1. Cardinality(active \cup {q}) = Cardinality(active) + 1
      BY <1>a, FS_AddElement
    <3>2. Cardinality(active) < maxConcurrentRepos
      BY <1>a, <1>b, <3>1
    <3>3. \A x \in Repos : waiting[x] # <<>> => x \in active
      BY <3>2 DEF FlowInv, WorkConserving
    <3>4. q = r
      BY <2>4, <3>3
    <3>5. QED
      BY <2>4, <3>3, <3>4
  <2> HIDE DEF w, o
  <2>7. QED
    BY <1>0, <1>a, <2>1, <2>2, <2>5, <2>6, PumpFlow
<1>4. ASSUME NEW d \in Deliveries, Settle(d) PROVE FlowInv'
  <2> DEFINE r == RepoOf[d]
             act == active \ {r}
             rs == [runs EXCEPT ![d] = @ - 1]
  <2>1. Consistent(waiting, order, act, inFlight \ {d}, rs)
    BY <1>0, <1>4, SettleArguments DEF Settle
  <2>2. Pump(waiting, order, act, inFlight \ {d}, rs)
    BY <1>4 DEF Settle
  <2>3. r \in active
    <3>1. d \in RunningIn(runs)
      BY <1>4 DEF Settle, RunningIn
    <3>2. QED
      BY <1>0, <3>1 DEF QueueConsistent, Consistent, Serial
  <2>4. IsFiniteSet(act) /\ Cardinality(act) = Cardinality(active) - 1
    BY <1>a, <2>3, FS_RemoveElement
  <2>5. Cardinality(act) <= maxConcurrentRepos
    BY <1>a, <1>b, <2>4
  <2>6. OneStartIsEnough(waiting, act)
    <3> SUFFICES ASSUME NEW q \in Repos \ act, waiting[q] # <<>>,
                        Cardinality(act \cup {q}) < maxConcurrentRepos,
                        NEW p \in Repos, waiting[p] # <<>>
                 PROVE  p \in act \cup {q}
      BY DEF OneStartIsEnough
    <3>1. Cardinality(act \cup {q}) = Cardinality(act) + 1
      BY <2>4, FS_AddElement
    <3>2. Cardinality(active) < maxConcurrentRepos
      BY <1>a, <1>b, <2>4, <3>1
    <3>3. \A x \in Repos : waiting[x] # <<>> => x \in active
      BY <3>2 DEF FlowInv, WorkConserving
    <3>4. q = r
      BY <3>3
    <3>5. QED
      BY <3>3, <3>4
  <2> HIDE DEF act, rs
  <2>7. QED
    BY <1>0, <1>a, <2>1, <2>2, <2>4, <2>5, <2>6, PumpFlow
<1>5. CASE Drain
  <2>1. Consistent(waiting, order, active, inFlight, runs)
    BY <1>0 DEF QueueConsistent
  <2>2. Pump(waiting, order, active, inFlight, runs)
    BY <1>5 DEF Drain
  <2>3. OneStartIsEnough(waiting, active)
    <3> SUFFICES ASSUME NEW q \in Repos \ active, waiting[q] # <<>>,
                        Cardinality(active \cup {q}) < maxConcurrentRepos
                 PROVE  FALSE
      BY DEF OneStartIsEnough
    <3>1. Cardinality(active \cup {q}) = Cardinality(active) + 1
      BY <1>a, FS_AddElement
    <3>2. Cardinality(active) < maxConcurrentRepos
      BY <1>a, <1>b, <3>1
    <3>3. QED
      BY <3>2 DEF FlowInv, WorkConserving
  <2>4. QED
    BY <1>0, <1>a, <2>1, <2>2, <2>3, PumpFlow
<1>6. CASE UNCHANGED vars
  BY <1>6 DEF vars, queueVars, FlowInv, Backpressure, WorkConserving
<1>7. QED
  BY <1>1, <1>2, <1>3, <1>4, <1>5, <1>6 DEF Next, Enqueue

LEMMA FlowInvariant == Spec => []FlowInv
BY InitFlowInv, NextFlowInv, SerialInvariant, PTL DEF Spec

\* Never more repositories running than slots, nor more tasks waiting than a queue may hold.
THEOREM BackpressureHolds == Spec => []Backpressure
<1>1. FlowInv => Backpressure
  BY DEF FlowInv
<1>2. QED
  BY <1>1, FlowInvariant, PTL

\* A free slot is never left idle while a repository that is not running has a task waiting.
THEOREM NoMissedWakeUp == Spec => []WorkConserving
<1>1. FlowInv => WorkConserving
  BY DEF FlowInv
<1>2. QED
  BY <1>1, FlowInvariant, PTL

-----------------------------------------------------------------------------
(* The waiting tasks. *)

WaitsIn(w, d) == d \in Elements(w[RepoOf[d]])

Keyed(d) == CoalesceKeyOf[d] # NoKey

\* No two places of a list hold tasks of one change request.
OneWaiting(w) ==
  \A r \in Repos : \A i, j \in 1..Len(w[r]) :
    Keyed(w[r][i]) /\ CoalesceKeyOf[w[r][i]] = CoalesceKeyOf[w[r][j]] => i = j

\* The elements of a list are its head and those of its tail.
LEMMA HeadAndTail ==
  ASSUME NEW s \in Seq(Deliveries), s # <<>>
  PROVE  Elements(s) = {Head(s)} \cup Elements(Tail(s))
<1> DEFINE t == Tail(s)
<1>1. /\ Len(s) \in Nat \ {0} /\ t \in Seq(Deliveries) /\ Len(t) = Len(s) - 1
      /\ \A k \in 1..(Len(s) - 1) : t[k] = s[k + 1]
      /\ Head(s) = s[1]
  OBVIOUS
<1> HIDE DEF t
<1>2. ASSUME NEW e \in Elements(s)
      PROVE  e \in {Head(s)} \cup Elements(t)
  <2>1. PICK k \in 1..Len(s) : e = s[k]
    BY DEF Elements
  <2>2. CASE k = 1
    BY <1>1, <2>1, <2>2
  <2>3. CASE k # 1
    <3>1. k - 1 \in 1..Len(t) /\ k - 1 \in 1..(Len(s) - 1) /\ (k - 1) + 1 = k
      BY <1>1, <2>1, <2>3
    <3>2. t[k - 1] = e
      BY <1>1, <2>1, <3>1
    <3>3. QED
      BY <1>1, <3>1, <3>2 DEF Elements
  <2>4. QED
    BY <2>2, <2>3
<1>3. ASSUME NEW e \in Elements(t)
      PROVE  e \in Elements(s)
  <2>1. PICK k \in 1..Len(t) : e = t[k]
    BY <1>1 DEF Elements
  <2>2. k + 1 \in 1..Len(s) /\ s[k + 1] = e
    BY <1>1, <2>1
  <2>3. QED
    BY <2>2 DEF Elements
<1>4. Head(s) \in Elements(s)
  BY <1>1 DEF Elements
<1>5. QED
  BY <1>2, <1>3, <1>4 DEF t

\* The elements of a list with one more at its end.
LEMMA AppendedElements ==
  ASSUME NEW s \in Seq(Deliveries), NEW d \in Deliveries
  PROVE  Elements(Append(s, d)) = Elements(s) \cup {d}
<1>1. /\ DOMAIN Append(s, d) = 1..(Len(s) + 1) /\ DOMAIN s = 1..Len(s) /\ Len(s) \in Nat
      /\ Append(s, d)[Len(s) + 1] = d /\ \A k \in 1..Len(s) : Append(s, d)[k] = s[k]
  BY AppendProperties
<1>2. QED
  BY <1>1 DEF Elements

\* What `pump` does to the waiting tasks: it takes one task out of them and starts it, or
\* leaves them alone.  A task that carries a change request does not wait on after that.
LEMMA PumpTakesOne ==
  ASSUME NEW w, NEW o, NEW act, NEW flight, NEW rs,
         Consistent(w, o, act, flight, rs), TypeOK, Pump(w, o, act, flight, rs),
         OneWaiting(w)
  PROVE  /\ OneWaiting(waiting')
         /\ \/ /\ \A e \in Deliveries : WaitsIn(waiting', e) <=> WaitsIn(w, e)
               /\ inFlight' = flight /\ started' = started
            \/ \E t \in Deliveries :
                 /\ WaitsIn(w, t)
                 /\ \A e \in Deliveries : WaitsIn(waiting', e) => WaitsIn(w, e)
                 /\ \A e \in Deliveries \ {t} : WaitsIn(w, e) => WaitsIn(waiting', e)
                 /\ Keyed(t) => ~WaitsIn(waiting', t)
                 /\ inFlight' = flight \cup {t}
                 /\ started' = [started EXCEPT ![t] = IF @ = 0 THEN 1 ELSE 2]
<1>0. PumpTypes(w, o, act, flight, rs)
  BY DEF Consistent
<1>1. CASE waiting' = w /\ inFlight' = flight /\ started' = started
  BY <1>1
<1>2. ASSUME NEW i \in 1..Len(o),
             o[i] \in Repos \ act,
             w[o[i]] # <<>>,
             Head(w[o[i]]) \in Deliveries,
             RepoOf[Head(w[o[i]])] = o[i],
             waiting' = [w EXCEPT ![o[i]] = Tail(@)],
             inFlight' = flight \cup {Head(w[o[i]])},
             started' = [started EXCEPT ![Head(w[o[i]])] = IF @ = 0 THEN 1 ELSE 2]
      PROVE  /\ OneWaiting(waiting')
             /\ \E t \in Deliveries :
                 /\ WaitsIn(w, t)
                 /\ \A e \in Deliveries : WaitsIn(waiting', e) => WaitsIn(w, e)
                 /\ \A e \in Deliveries \ {t} : WaitsIn(w, e) => WaitsIn(waiting', e)
                 /\ Keyed(t) => ~WaitsIn(waiting', t)
                 /\ inFlight' = flight \cup {t}
                 /\ started' = [started EXCEPT ![t] = IF @ = 0 THEN 1 ELSE 2]
  <2> DEFINE r == o[i]
             s == w[r]
             t == Head(s)
  <2>1. r \in Repos /\ s \in Seq(Deliveries) /\ s # <<>> /\ t \in Deliveries /\ RepoOf[t] = r
    BY <1>0, <1>2 DEF PumpTypes
  <2>2. waiting'[r] = Tail(s) /\ \A q \in Repos \ {r} : waiting'[q] = w[q]
    BY <1>0, <1>2 DEF PumpTypes
  <2>3. /\ Len(s) \in Nat \ {0} /\ Tail(s) \in Seq(Deliveries) /\ Len(Tail(s)) = Len(s) - 1
        /\ \A k \in 1..(Len(s) - 1) : Tail(s)[k] = s[k + 1]
        /\ t = s[1]
    BY <2>1
  <2>4. Elements(s) = {t} \cup Elements(Tail(s))
    BY <2>1, HeadAndTail
  <2>5. inFlight' = flight \cup {t}
        /\ started' = [started EXCEPT ![t] = IF @ = 0 THEN 1 ELSE 2]
    BY <1>2
  <2> HIDE DEF r, s, t
  <2>a. w[r] = s
    BY DEF s
  <2>6. \A e \in Deliveries : WaitsIn(waiting', e) => WaitsIn(w, e)
    <3>1. \A e \in Deliveries : RepoOf[e] \in Repos
      BY QueueConstants DEF QueueConstants
    <3>2. QED
      BY <2>2, <2>4, <2>a, <3>1 DEF WaitsIn
  <2>7. \A e \in Deliveries \ {t} : WaitsIn(w, e) => WaitsIn(waiting', e)
    <3>1. \A e \in Deliveries : RepoOf[e] \in Repos
      BY QueueConstants DEF QueueConstants
    <3>2. QED
      BY <2>2, <2>4, <2>a, <3>1 DEF WaitsIn
  <2>8. WaitsIn(w, t)
    BY <2>1, <2>4, <2>a DEF WaitsIn
  <2>9. ASSUME Keyed(t), WaitsIn(waiting', t)
        PROVE  FALSE
    <3>1. t \in Elements(Tail(s))
      BY <2>1, <2>2, <2>9 DEF WaitsIn
    <3>2. PICK k \in 1..(Len(s) - 1) : t = Tail(s)[k]
      BY <2>3, <3>1 DEF Elements
    <3>3. k + 1 \in 1..Len(s) /\ 1 \in 1..Len(s) /\ k + 1 # 1 /\ s[k + 1] = s[1]
      BY <2>3, <3>2
    <3>4. QED
      BY <2>1, <2>3, <2>9, <2>a, <3>3 DEF OneWaiting
  <2>10. OneWaiting(waiting')
    <3> SUFFICES ASSUME NEW q \in Repos, NEW k \in 1..Len(waiting'[q]), NEW l \in 1..Len(waiting'[q]),
                        Keyed(waiting'[q][k]),
                        CoalesceKeyOf[waiting'[q][k]] = CoalesceKeyOf[waiting'[q][l]]
                 PROVE  k = l
      BY DEF OneWaiting
    <3>1. CASE q # r
      <4>1. waiting'[q] = w[q]
        BY <2>2, <3>1
      <4>2. QED
        BY <4>1 DEF OneWaiting
    <3>2. CASE q = r
      <4>1. /\ k + 1 \in 1..Len(s) /\ l + 1 \in 1..Len(s)
            /\ waiting'[q][k] = s[k + 1] /\ waiting'[q][l] = s[l + 1]
        <5>1. waiting'[q] = Tail(s)
          BY <2>2, <3>2
        <5>2. k \in 1..(Len(s) - 1) /\ l \in 1..(Len(s) - 1)
          BY <2>3, <5>1
        <5>3. QED
          BY <2>3, <5>1, <5>2
      <4>2. k + 1 = l + 1
        BY <2>1, <2>a, <4>1 DEF OneWaiting
      <4>3. QED
        BY <2>2, <2>3, <3>2, <4>2
    <3>3. QED
      BY <3>1, <3>2
  <2>11. QED
    BY <2>1, <2>5, <2>6, <2>7, <2>8, <2>9, <2>10
<1>3. QED
  BY <1>1, <1>2, PumpStartsOrNot

-----------------------------------------------------------------------------
(* What has become of the deliveries. *)

\* What the cache, the running keys and the lists say of the past, as far as the cache has
\* not forgotten it: whatever was started runs or is in the cache, what settled or was
\* replaced is in the cache, and a change request's task that waits was never started.
History(w, flight, st, comp, fin, sup, forg) ==
  /\ \A d \in flight \cup fin : st[d] > 0
  /\ (fin \cup sup) \ forg \subseteq Elements(comp)
  /\ \A d \in Deliveries \ forg : st[d] > 0 => d \in flight \cup Elements(comp)
  /\ \A d \in Deliveries \ forg : Keyed(d) => st[d] <= 1 /\ (WaitsIn(w, d) => st[d] = 0)
  /\ \A d \in sup \ forg : ~WaitsIn(w, d) /\ st[d] = 0

NoDrop(w, flight, acc, fin, sup) ==
  \A d \in acc : WaitsIn(w, d) \/ d \in flight \cup fin \cup sup

HistoryInv ==
  /\ OneWaiting(waiting)
  /\ History(waiting, inFlight, started, completed, finished, superseded, forgotten)
  /\ NoDrop(waiting, inFlight, accepted, finished, superseded)

\* `pump` keeps what is said of the past true.
LEMMA PumpHistory ==
  ASSUME NEW w, NEW o, NEW act, NEW flight, NEW rs,
         Consistent(w, o, act, flight, rs), TypeOK, Pump(w, o, act, flight, rs),
         OneWaiting(w),
         History(w, flight, started, completed', finished', superseded', forgotten'),
         NoDrop(w, flight, accepted', finished', superseded'),
         accepted' \subseteq Deliveries, finished' \subseteq Deliveries,
         superseded' \subseteq Deliveries
  PROVE  HistoryInv'
<1>0. started \in [Deliveries -> 0..2] /\ flight \subseteq Deliveries
  BY DEF TypeOK, Consistent, PumpTypes
<1>1. OneWaiting(waiting')
  BY PumpTakesOne
<1>2. CASE /\ \A e \in Deliveries : WaitsIn(waiting', e) <=> WaitsIn(w, e)
           /\ inFlight' = flight /\ started' = started
  BY <1>1, <1>2 DEF HistoryInv, History, NoDrop
<1>3. ASSUME NEW t \in Deliveries,
             WaitsIn(w, t),
             \A e \in Deliveries : WaitsIn(waiting', e) => WaitsIn(w, e),
             \A e \in Deliveries \ {t} : WaitsIn(w, e) => WaitsIn(waiting', e),
             Keyed(t) => ~WaitsIn(waiting', t),
             inFlight' = flight \cup {t},
             started' = [started EXCEPT ![t] = IF @ = 0 THEN 1 ELSE 2]
      PROVE  HistoryInv'
  <2>1. started'[t] = (IF started[t] = 0 THEN 1 ELSE 2) /\ started[t] \in 0..2
        /\ \A e \in Deliveries \ {t} : started'[e] = started[e]
    BY <1>0, <1>3
  <2>2. \A e \in inFlight' \cup finished' : started'[e] > 0
    BY <1>0, <1>3, <2>1 DEF History
  <2>3. \A e \in Deliveries \ forgotten' : started'[e] > 0 => e \in inFlight' \cup Elements(completed')
    BY <1>3, <2>1 DEF History
  <2>4. \A e \in Deliveries \ forgotten' :
          Keyed(e) => started'[e] <= 1 /\ (WaitsIn(waiting', e) => started'[e] = 0)
    BY <1>3, <2>1 DEF History
  <2>5. \A e \in superseded' \ forgotten' : ~WaitsIn(waiting', e) /\ started'[e] = 0
    BY <1>3, <2>1 DEF History
  <2>6. NoDrop(waiting', inFlight', accepted', finished', superseded')
    BY <1>3 DEF NoDrop
  <2>7. (finished' \cup superseded') \ forgotten' \subseteq Elements(completed')
    BY DEF History
  <2>8. QED
    BY <1>1, <2>2, <2>3, <2>4, <2>5, <2>6, <2>7 DEF HistoryInv, History
<1>4. QED
  BY <1>2, <1>3, PumpTakesOne

\* A delivery that `enqueue` takes was never started, settled or replaced, unless forgotten.
LEMMA FreshDelivery ==
  ASSUME TypeOK, HistoryInv, NEW d \in Deliveries, ~IsDuplicate(d)
  PROVE  d \in forgotten \/ (started[d] = 0 /\ d \notin finished \cup superseded)
<1>1. started[d] \in 0..2
  BY DEF TypeOK
<1>2. QED
  BY <1>1 DEF HistoryInv, History, IsDuplicate

\* Appending d to its list, which holds no task of d's change request.
LEMMA PushKeepsOneWaiting ==
  ASSUME TypeOK, OneWaiting(waiting), NEW d \in Deliveries, Coalescible(d) = {},
         NEW w, w = [waiting EXCEPT ![RepoOf[d]] = Append(@, d)]
  PROVE  /\ OneWaiting(w)
         /\ \A e \in Deliveries : WaitsIn(w, e) <=> (WaitsIn(waiting, e) \/ e = d)
<1> DEFINE r == RepoOf[d]
<1>1. r \in Repos /\ waiting[r] \in Seq(Deliveries) /\ \A e \in Deliveries : RepoOf[e] \in Repos
  BY QueueConstants DEF QueueConstants, TypeOK
<1>2. w[r] = Append(waiting[r], d) /\ \A q \in Repos \ {r} : w[q] = waiting[q]
  BY <1>1 DEF TypeOK
<1>3. /\ Len(waiting[r]) \in Nat /\ Len(w[r]) = Len(waiting[r]) + 1
      /\ w[r][Len(waiting[r]) + 1] = d
      /\ \A k \in 1..Len(waiting[r]) : w[r][k] = waiting[r][k]
  BY <1>1, <1>2, AppendProperties
<1>4. \A e \in Deliveries : WaitsIn(w, e) <=> (WaitsIn(waiting, e) \/ e = d)
  <2>1. Elements(w[r]) = Elements(waiting[r]) \cup {d}
    BY <1>1, <1>2, AppendedElements
  <2>2. QED
    BY <1>1, <1>2, <2>1 DEF WaitsIn
<1>5. OneWaiting(w)
  <2> SUFFICES ASSUME NEW q \in Repos, NEW k \in 1..Len(w[q]), NEW l \in 1..Len(w[q]),
                      Keyed(w[q][k]), CoalesceKeyOf[w[q][k]] = CoalesceKeyOf[w[q][l]]
               PROVE  k = l
    BY DEF OneWaiting
  <2>1. CASE q # r
    BY <1>2, <2>1 DEF OneWaiting
  <2>2. CASE q = r
    <3>1. \A m \in 1..Len(waiting[r]) : Keyed(d) => CoalesceKeyOf[waiting[r][m]] # CoalesceKeyOf[d]
      BY <1>1 DEF Coalescible, Keyed
    <3>2. CASE k \in 1..Len(waiting[r]) /\ l \in 1..Len(waiting[r])
      BY <1>1, <1>3, <2>2, <3>2 DEF OneWaiting
    <3>3. CASE k \in 1..Len(waiting[r]) /\ l = Len(waiting[r]) + 1
      BY <1>3, <2>2, <3>1, <3>3 DEF Keyed
    <3>4. CASE k = Len(waiting[r]) + 1 /\ l \in 1..Len(waiting[r])
      BY <1>3, <2>2, <3>1, <3>4 DEF Keyed
    <3>5. QED
      BY <1>3, <2>2, <3>2, <3>3, <3>4
  <2>3. QED
    BY <2>1, <2>2
<1>6. QED
  BY <1>4, <1>5

LEMMA PushHistory ==
  ASSUME SerialInv, HistoryInv, NEW d \in Deliveries, Push(d)
  PROVE  HistoryInv'
<1> DEFINE r == RepoOf[d]
           w == [waiting EXCEPT ![r] = Append(@, d)]
           o == IF waiting[r] = <<>> THEN Append(order, r) ELSE order
<1>0. TypeOK /\ QueueConsistent /\ OneWaiting(waiting)
  BY DEF SerialInv, HistoryInv
<1>1. Consistent(w, o, active, inFlight, runs)
  BY <1>0, PushArguments
<1>2. Pump(w, o, active, inFlight, runs)
  BY DEF Push
<1>3. /\ completed' = completed /\ accepted' = accepted \cup {d} /\ finished' = finished
      /\ superseded' = superseded /\ forgotten' = forgotten
      /\ ~IsDuplicate(d) /\ Coalescible(d) = {}
  BY DEF Push
<1>4. /\ OneWaiting(w)
      /\ \A e \in Deliveries : WaitsIn(w, e) <=> (WaitsIn(waiting, e) \/ e = d)
  BY <1>0, <1>3, PushKeepsOneWaiting
<1> HIDE DEF w, o
<1>5. History(w, inFlight, started, completed', finished', superseded', forgotten')
  <2>1. d \in forgotten \/ (started[d] = 0 /\ d \notin finished \cup superseded)
    BY <1>0, <1>3, FreshDelivery
  <2>2. superseded \subseteq Deliveries
    BY <1>0 DEF TypeOK
  <2>3. QED
    BY <1>3, <1>4, <2>1, <2>2 DEF HistoryInv, History
<1>6. NoDrop(w, inFlight, accepted', finished', superseded')
  <2>1. accepted \subseteq Deliveries
    BY <1>0 DEF TypeOK
  <2>2. QED
    BY <1>3, <1>4, <2>1 DEF HistoryInv, NoDrop
<1>7. accepted' \subseteq Deliveries /\ finished' \subseteq Deliveries /\ superseded' \subseteq Deliveries
  BY <1>0, <1>3 DEF TypeOK
<1>8. QED
  BY <1>0, <1>1, <1>2, <1>4, <1>5, <1>6, <1>7, PumpHistory

LEMMA SettleHistory ==
  ASSUME SerialInv, HistoryInv, NEW d \in Deliveries, Settle(d)
  PROVE  HistoryInv'
<1> DEFINE rs == [runs EXCEPT ![d] = @ - 1]
           act == active \ {RepoOf[d]}
           flight == inFlight \ {d}
<1>0. TypeOK /\ QueueConsistent
  BY DEF SerialInv
<1>1. Consistent(waiting, order, act, flight, rs)
  BY <1>0, SettleArguments DEF Settle
<1>2. Pump(waiting, order, act, flight, rs)
  BY DEF Settle
<1>3. /\ completed' = BoundedAdd(completed, d) /\ forgotten' = forgotten \cup Evicted(completed, d)
      /\ finished' = finished \cup {d} /\ accepted' = accepted /\ superseded' = superseded
  BY DEF Settle
<1>4. /\ d \in Elements(completed')
      /\ Elements(completed) \ Evicted(completed, d) \subseteq Elements(completed')
  BY <1>0, <1>3, BoundedAddProperties DEF TypeOK
<1>5. d \in inFlight
  BY <1>0 DEF Settle, QueueConsistent, Consistent, Serial, RunningIn
<1>6. History(waiting, flight, started, completed', finished', superseded', forgotten')
  <2>1. finished \subseteq Deliveries /\ superseded \subseteq Deliveries
    BY <1>0 DEF TypeOK
  <2>2. QED
    BY <1>3, <1>4, <1>5, <2>1 DEF HistoryInv, History
<1>7. NoDrop(waiting, flight, accepted', finished', superseded')
  BY <1>3 DEF HistoryInv, NoDrop
<1>8. accepted' \subseteq Deliveries /\ finished' \subseteq Deliveries /\ superseded' \subseteq Deliveries
  BY <1>0, <1>3 DEF TypeOK
<1>9. OneWaiting(waiting)
  BY DEF HistoryInv
<1> HIDE DEF rs, act, flight
<1>10. QED
  BY <1>0, <1>1, <1>2, <1>6, <1>7, <1>8, <1>9, PumpHistory

\* Coalescing puts d in the place of the only waiting task of its change request, possibly d
\* itself, and no other task moves.
LEMMA CoalesceSwaps ==
  ASSUME SerialInv, OneWaiting(waiting), NEW d \in Deliveries, Coalesce(d)
  PROVE  /\ OneWaiting(waiting')
         /\ \E x \in Deliveries :
              /\ Keyed(d) /\ CoalesceKeyOf[x] = CoalesceKeyOf[d]
              /\ WaitsIn(waiting, x) /\ WaitsIn(waiting', d)
              /\ \A e \in Deliveries \ {d, x} : WaitsIn(waiting', e) <=> WaitsIn(waiting, e)
              /\ x # d => ~WaitsIn(waiting', x) /\ ~WaitsIn(waiting, d)
              /\ completed' = BoundedAdd(completed, x)
              /\ forgotten' = forgotten \cup Evicted(completed, x)
              /\ superseded' = superseded \cup ({x} \ {d})
<1> DEFINE r == RepoOf[d]
           s == waiting[r]
<1>0. TypeOK /\ OwnTasks(waiting)
  BY DEF SerialInv, QueueConsistent, Consistent
<1>1. r \in Repos /\ s \in Seq(Deliveries) /\ \A e \in Deliveries : RepoOf[e] \in Repos
  BY <1>0, QueueConstants DEF QueueConstants, TypeOK
<1>2. PICK i \in Coalescible(d) :
        /\ waiting' = [waiting EXCEPT ![r][i] = d]
        /\ completed' = BoundedAdd(completed, s[i])
        /\ forgotten' = forgotten \cup Evicted(completed, s[i])
        /\ superseded' = superseded \cup ({s[i]} \ {d})
  BY DEF Coalesce
<1> DEFINE x == s[i]
           new == waiting'[r]
<1>3. /\ i \in 1..Len(s) /\ x \in Deliveries /\ RepoOf[x] = r
      /\ Keyed(d) /\ CoalesceKeyOf[x] = CoalesceKeyOf[d]
  <2>1. i \in 1..Len(s) /\ Keyed(d) /\ CoalesceKeyOf[x] = CoalesceKeyOf[d]
    BY <1>1, <1>2 DEF Coalescible, Keyed
  <2>2. QED
    BY <1>0, <1>1, <2>1 DEF OwnTasks
<1>4. /\ new \in Seq(Deliveries) /\ Len(new) = Len(s) /\ Len(s) \in Nat
      /\ new[i] = d /\ \A k \in 1..Len(s) : k # i => new[k] = s[k]
      /\ \A q \in Repos \ {r} : waiting'[q] = waiting[q]
  <2>1. [s EXCEPT ![i] = d] \in Seq(Deliveries) /\ Len([s EXCEPT ![i] = d]) = Len(s)
    BY <1>1, <1>3, ExceptSeq
  <2>2. waiting' = [waiting EXCEPT ![r] = [s EXCEPT ![i] = d]]
    BY <1>2
  <2>3. new = [s EXCEPT ![i] = d]
    BY <1>0, <1>1, <2>2 DEF TypeOK
  <2>4. QED
    BY <1>0, <1>1, <1>3, <2>1, <2>2, <2>3 DEF TypeOK
<1>5. Elements(s) = {s[k] : k \in 1..Len(s)} /\ Elements(new) = {new[k] : k \in 1..Len(s)}
  BY <1>1, <1>4 DEF Elements
<1>6. \A k \in 1..Len(s) : CoalesceKeyOf[s[k]] = CoalesceKeyOf[d] => k = i
  BY <1>1, <1>3 DEF OneWaiting, Keyed
<1>7. s[i] = x /\ waiting[r] = s /\ waiting'[r] = new /\ r = RepoOf[d]
  OBVIOUS
<1> HIDE DEF r, s, x, new
<1>8. OneWaiting(waiting')
  <2> SUFFICES ASSUME NEW q \in Repos, NEW k \in 1..Len(waiting'[q]), NEW l \in 1..Len(waiting'[q]),
                      Keyed(waiting'[q][k]),
                      CoalesceKeyOf[waiting'[q][k]] = CoalesceKeyOf[waiting'[q][l]]
               PROVE  k = l
    BY DEF OneWaiting
  <2>1. CASE q # r
    BY <1>4, <2>1 DEF OneWaiting
  <2>2. CASE q = r
    <3>1. \A m \in 1..Len(s) : CoalesceKeyOf[new[m]] = CoalesceKeyOf[s[m]]
      BY <1>3, <1>4, <1>7
    <3>2. k \in 1..Len(s) /\ l \in 1..Len(s) /\ Keyed(s[k]) /\ CoalesceKeyOf[s[k]] = CoalesceKeyOf[s[l]]
      BY <1>4, <1>7, <2>2, <3>1 DEF Keyed
    <3>3. QED
      BY <1>1, <1>7, <3>2 DEF OneWaiting
  <2>3. QED
    BY <2>1, <2>2
<1>9. WaitsIn(waiting, x) /\ WaitsIn(waiting', d)
  BY <1>3, <1>4, <1>5, <1>7 DEF WaitsIn
<1>10. ASSUME NEW e \in Deliveries \ {d, x}
       PROVE  WaitsIn(waiting', e) <=> WaitsIn(waiting, e)
  <2>1. CASE RepoOf[e] # r
    BY <1>1, <1>4, <2>1 DEF WaitsIn
  <2>2. CASE RepoOf[e] = r
    <3>1. e \in Elements(s) <=> e \in Elements(new)
      BY <1>4, <1>5, <1>7, <1>10
    <3>2. QED
      BY <1>7, <2>2, <3>1 DEF WaitsIn
  <2>3. QED
    BY <2>1, <2>2
<1>11. ASSUME x # d
       PROVE  ~WaitsIn(waiting', x) /\ ~WaitsIn(waiting, d)
  <2>1. d \notin Elements(s)
    BY <1>5, <1>6, <1>7, <1>11
  <2>2. x \notin Elements(new)
    BY <1>3, <1>4, <1>5, <1>6, <1>11
  <2>3. QED
    BY <1>3, <1>7, <2>1, <2>2 DEF WaitsIn
<1>12. QED
  BY <1>2, <1>3, <1>7, <1>8, <1>9, <1>10, <1>11

LEMMA CoalesceHistory ==
  ASSUME SerialInv, HistoryInv, NEW d \in Deliveries, Coalesce(d)
  PROVE  HistoryInv'
<1>0. TypeOK /\ OneWaiting(waiting)
  BY DEF SerialInv, HistoryInv
<1>1. PICK x \in Deliveries :
        /\ Keyed(d) /\ CoalesceKeyOf[x] = CoalesceKeyOf[d]
        /\ WaitsIn(waiting, x) /\ WaitsIn(waiting', d)
        /\ \A e \in Deliveries \ {d, x} : WaitsIn(waiting', e) <=> WaitsIn(waiting, e)
        /\ x # d => ~WaitsIn(waiting', x) /\ ~WaitsIn(waiting, d)
        /\ completed' = BoundedAdd(completed, x)
        /\ forgotten' = forgotten \cup Evicted(completed, x)
        /\ superseded' = superseded \cup ({x} \ {d})
  BY <1>0, CoalesceSwaps
<1>2. /\ inFlight' = inFlight /\ started' = started /\ finished' = finished
      /\ accepted' = accepted \cup {d} /\ ~IsDuplicate(d)
  BY DEF Coalesce
<1>3. /\ x \in Elements(completed')
      /\ Elements(completed) \ Evicted(completed, x) \subseteq Elements(completed')
  BY <1>0, <1>1, BoundedAddProperties DEF TypeOK
<1>4. d \in forgotten \/ (started[d] = 0 /\ d \notin finished \cup superseded)
  BY <1>0, <1>2, FreshDelivery
<1>5. Keyed(x)
  BY <1>1 DEF Keyed
<1>6. finished \subseteq Deliveries /\ superseded \subseteq Deliveries /\ accepted \subseteq Deliveries
  BY <1>0 DEF TypeOK
<1>7. History(waiting', inFlight', started', completed', finished', superseded', forgotten')
  <2>1. \A e \in inFlight' \cup finished' : started'[e] > 0
    BY <1>2 DEF HistoryInv, History
  <2>2. (finished' \cup superseded') \ forgotten' \subseteq Elements(completed')
    BY <1>1, <1>2, <1>3 DEF HistoryInv, History
  <2>3. \A e \in Deliveries \ forgotten' : started'[e] > 0 => e \in inFlight' \cup Elements(completed')
    BY <1>1, <1>2, <1>3 DEF HistoryInv, History
  <2>4. \A e \in Deliveries \ forgotten' :
          Keyed(e) => started'[e] <= 1 /\ (WaitsIn(waiting', e) => started'[e] = 0)
    BY <1>1, <1>2, <1>4, <1>5 DEF HistoryInv, History
  <2>5. \A e \in superseded' \ forgotten' : ~WaitsIn(waiting', e) /\ started'[e] = 0
    BY <1>1, <1>2, <1>4, <1>5, <1>6 DEF HistoryInv, History
  <2>6. QED
    BY <2>1, <2>2, <2>3, <2>4, <2>5 DEF History
<1>8. NoDrop(waiting', inFlight', accepted', finished', superseded')
  BY <1>1, <1>2, <1>6 DEF HistoryInv, NoDrop
<1>9. OneWaiting(waiting')
  BY <1>0, CoalesceSwaps
<1>10. QED
  BY <1>7, <1>8, <1>9 DEF HistoryInv

LEMMA DrainHistory ==
  ASSUME SerialInv, HistoryInv, Drain
  PROVE  HistoryInv'
<1>1. TypeOK /\ Consistent(waiting, order, active, inFlight, runs)
  BY DEF SerialInv, QueueConsistent
<1>2. Pump(waiting, order, active, inFlight, runs)
  BY DEF Drain
<1>3. /\ completed' = completed /\ accepted' = accepted /\ finished' = finished
      /\ superseded' = superseded /\ forgotten' = forgotten
  BY DEF Drain
<1>4. /\ accepted' \subseteq Deliveries /\ finished' \subseteq Deliveries
      /\ superseded' \subseteq Deliveries
  BY <1>1, <1>3 DEF TypeOK
<1>5. /\ OneWaiting(waiting)
      /\ History(waiting, inFlight, started, completed', finished', superseded', forgotten')
      /\ NoDrop(waiting, inFlight, accepted', finished', superseded')
  BY <1>3 DEF HistoryInv
<1>6. QED
  BY <1>1, <1>2, <1>4, <1>5, PumpHistory

LEMMA InitHistoryInv == Init => HistoryInv
<1> SUFFICES ASSUME Init PROVE HistoryInv
  OBVIOUS
<1>1. \A d \in Deliveries : RepoOf[d] \in Repos
  BY QueueConstants DEF QueueConstants
<1>2. \A d \in Deliveries : ~WaitsIn(waiting, d)
  BY <1>1 DEF Init, WaitsIn, Elements
<1>3. OneWaiting(waiting)
  BY DEF Init, OneWaiting
<1>4. \A d \in Deliveries : started[d] = 0
  BY DEF Init
<1>5. QED
  BY <1>2, <1>3, <1>4 DEF Init, HistoryInv, History, NoDrop

LEMMA NextHistoryInv == SerialInv /\ HistoryInv /\ [Next]_vars => HistoryInv'
<1> SUFFICES ASSUME SerialInv, HistoryInv, [Next]_vars PROVE HistoryInv'
  OBVIOUS
<1>1. ASSUME UNCHANGED vars PROVE HistoryInv'
  BY <1>1 DEF vars, queueVars, historyVars, HistoryInv, OneWaiting, History, NoDrop, WaitsIn, Elements
<1>2. ASSUME NEW d \in Deliveries, Refuse(d) PROVE HistoryInv'
  BY <1>1, <1>2 DEF Refuse
<1>3. ASSUME NEW d \in Deliveries, Coalesce(d) PROVE HistoryInv'
  BY <1>3, CoalesceHistory
<1>4. ASSUME NEW d \in Deliveries, Push(d) PROVE HistoryInv'
  BY <1>4, PushHistory
<1>5. ASSUME NEW d \in Deliveries, Settle(d) PROVE HistoryInv'
  BY <1>5, SettleHistory
<1>6. CASE Drain
  BY <1>6, DrainHistory
<1>7. QED
  BY <1>1, <1>2, <1>3, <1>4, <1>5, <1>6 DEF Next, Enqueue

LEMMA HistoryInvariant == Spec => []HistoryInv
BY InitHistoryInv, NextHistoryInv, SerialInvariant, PTL DEF Spec

-----------------------------------------------------------------------------
(* The promises. *)

\* At most one task waits for a change request, whatever the order of the events.
THEOREM OneWaits == Spec => []OneWaitingPerChange
<1>1. SerialInv /\ HistoryInv => OneWaitingPerChange
  <2> SUFFICES ASSUME SerialInv, HistoryInv,
                      NEW r \in Repos, NEW i \in DOMAIN waiting[r], NEW j \in DOMAIN waiting[r],
                      CoalesceKeyOf[waiting[r][i]] # NoKey,
                      CoalesceKeyOf[waiting[r][i]] = CoalesceKeyOf[waiting[r][j]]
               PROVE  i = j
    BY DEF OneWaitingPerChange
  <2>1. waiting[r] \in Seq(Deliveries)
    BY DEF SerialInv, TypeOK
  <2>2. i \in 1..Len(waiting[r]) /\ j \in 1..Len(waiting[r])
    BY <2>1
  <2>3. QED
    BY <2>2 DEF HistoryInv, OneWaiting, Keyed
<1>2. QED
  BY <1>1, SerialInvariant, HistoryInvariant, PTL

\* A delivery answered 'accepted' waits, runs, has settled or was replaced: `enqueue`,
\* `pump` and `settle` between them never lose one.
THEOREM NoneIsDropped == Spec => []NoSilentDrop
<1>1. SerialInv /\ HistoryInv => NoSilentDrop
  BY DEF SerialInv, QueueConsistent, Consistent, Serial, RunningIn, Running,
         HistoryInv, NoDrop, WaitsIn, NoSilentDrop, Waiting
<1>2. QED
  BY <1>1, SerialInvariant, HistoryInvariant, PTL

\* A replaced delivery that the cache still remembers does not wait and was never started,
\* however often the forge delivers it again.
THEOREM ReplacedNeverRuns == Spec => []SupersededNeverRuns
<1>1. HistoryInv => SupersededNeverRuns
  BY DEF HistoryInv, History, WaitsIn, SupersededNeverRuns, Waiting
<1>2. QED
  BY <1>1, HistoryInvariant, PTL

\* A delivery of a change request that the cache has not forgotten is started once at most.
THEOREM AtMostOneRun == Spec => []CoalescableAtMostOnce
<1>1. HistoryInv => CoalescableAtMostOnce
  BY DEF HistoryInv, History, Keyed, CoalescableAtMostOnce
<1>2. QED
  BY <1>1, HistoryInvariant, PTL

\* The promise of `drain` resolves in a quiet queue, and a quiet queue that accepts nothing
\* stays quiet: no run is left to settle.
QuietSinceDrained == drained => ~accepting /\ Quiet(active, order)

LEMMA NextQuietSinceDrained ==
  SerialInv /\ QuietSinceDrained /\ [Next]_vars => QuietSinceDrained'
<1> SUFFICES ASSUME SerialInv, QuietSinceDrained, [Next]_vars PROVE QuietSinceDrained'
  OBVIOUS
<1>0. accepting \in BOOLEAN /\ drained \in BOOLEAN
  BY DEF SerialInv, TypeOK
<1>1. ASSUME UNCHANGED vars PROVE QuietSinceDrained'
  BY <1>1 DEF vars, queueVars, historyVars, QuietSinceDrained, Quiet
<1>2. ASSUME NEW d \in Deliveries, Refuse(d) PROVE QuietSinceDrained'
  BY <1>1, <1>2 DEF Refuse
<1>3. ASSUME NEW d \in Deliveries, Coalesce(d) PROVE QuietSinceDrained'
  BY <1>3 DEF Coalesce, QuietSinceDrained
<1>4. ASSUME NEW d \in Deliveries, Push(d) PROVE QuietSinceDrained'
  BY <1>4 DEF Push, QuietSinceDrained
<1>5. ASSUME NEW d \in Deliveries, Settle(d) PROVE QuietSinceDrained'
  <2>1. ~drained
    <3>1. RepoOf[d] \in active
      BY <1>5 DEF Settle, SerialInv, QueueConsistent, Consistent, Serial, RunningIn
    <3>2. QED
      BY <3>1 DEF QuietSinceDrained, Quiet
  <2>2. accepting' = accepting
    BY <1>5 DEF Settle
  <2>3. CASE ~accepting /\ Quiet(active', order')
    BY <2>2, <2>3 DEF QuietSinceDrained
  <2>4. CASE ~(~accepting /\ Quiet(active', order'))
    <3>1. drained' = drained
      BY <1>5, <2>4 DEF Settle
    <3>2. QED
      BY <2>1, <3>1 DEF QuietSinceDrained
  <2>5. QED
    BY <2>3, <2>4
<1>6. CASE Drain
  <2>1. ~drained /\ accepting' = FALSE
    BY <1>6 DEF Drain, QuietSinceDrained
  <2>2. CASE Quiet(active', order')
    BY <2>1, <2>2 DEF QuietSinceDrained
  <2>3. CASE ~Quiet(active', order')
    BY <1>6, <2>1, <2>3 DEF Drain, QuietSinceDrained
  <2>4. QED
    BY <2>2, <2>3
<1>7. QED
  BY <1>1, <1>2, <1>3, <1>4, <1>5, <1>6 DEF Next, Enqueue

\* Nothing waits in a queue whose Map has no key.
LEMMA QuietMeansDone ==
  ASSUME SerialInv, HistoryInv, Quiet(active, order)
  PROVE  Running = {} /\ accepted \subseteq finished \cup superseded
<1>1. Running = {} /\ inFlight = {}
  <2>1. /\ inFlight = RunningIn(runs)
        /\ active = {RepoOf[d] : d \in RunningIn(runs)}
    BY DEF SerialInv, QueueConsistent, Consistent, Serial
  <2>2. active = {}
    BY DEF Quiet
  <2>3. RunningIn(runs) = {}
    BY <2>1, <2>2
  <2>4. Running = RunningIn(runs)
    BY DEF Running, RunningIn
  <2>5. QED
    BY <2>1, <2>3, <2>4
<1>2. \A r \in Repos : waiting[r] = <<>>
  BY DEF SerialInv, QueueConsistent, Consistent, KeysExact, Quiet
<1>3. \A d \in Deliveries : ~WaitsIn(waiting, d)
  BY <1>2, QueueConstants DEF QueueConstants, WaitsIn, Elements
<1>4. accepted \subseteq Deliveries
  BY DEF SerialInv, TypeOK
<1>5. QED
  BY <1>1, <1>3, <1>4 DEF HistoryInv, NoDrop

\* A resolved drain promise means that all the queue accepted was run to its end or replaced.
THEOREM DrainIsHonest == Spec => []DrainedMeansDone
<1>1. Init => QuietSinceDrained
  BY DEF Init, QuietSinceDrained
<1>2. Spec => []QuietSinceDrained
  BY <1>1, NextQuietSinceDrained, SerialInvariant, PTL DEF Spec
<1>3. SerialInv /\ HistoryInv /\ QuietSinceDrained => DrainedMeansDone
  BY QuietMeansDone DEF QuietSinceDrained, Quiet, DrainedMeansDone
<1>4. QED
  BY <1>2, <1>3, SerialInvariant, HistoryInvariant, PTL

-----------------------------------------------------------------------------
(* What stands for a delivery that was replaced. *)

\* d waits, runs or has run.
ServedIn(w, flight, fin, d) == WaitsIn(w, d) \/ d \in flight \cup fin

\* d itself is served, or an event of its change request is: the one that replaced it, the
\* one that replaced that, and so on.
AccountedIn(w, flight, fin, d) ==
  \E e \in Deliveries :
    /\ ServedIn(w, flight, fin, e)
    /\ e = d \/ (Keyed(d) /\ CoalesceKeyOf[e] = CoalesceKeyOf[d])

\* All that the queue serves or remembers it has accepted, and all that it has accepted is
\* accounted for.
Accountable(w, flight, acc, comp, fin) ==
  /\ \A d \in Deliveries : ServedIn(w, flight, fin, d) => d \in acc
  /\ Elements(comp) \subseteq acc
  /\ \A d \in acc : AccountedIn(w, flight, fin, d)

AccountInv == Accountable(waiting, inFlight, accepted, completed, finished)

\* `pump` only moves a task from waiting to running.
LEMMA PumpServes ==
  ASSUME NEW w, NEW o, NEW act, NEW flight, NEW rs, NEW fin,
         Consistent(w, o, act, flight, rs), TypeOK, Pump(w, o, act, flight, rs),
         OneWaiting(w), NEW d \in Deliveries
  PROVE  ServedIn(waiting', inFlight', fin, d) <=> ServedIn(w, flight, fin, d)
<1>1. CASE /\ \A e \in Deliveries : WaitsIn(waiting', e) <=> WaitsIn(w, e)
           /\ inFlight' = flight
  BY <1>1 DEF ServedIn
<1>2. ASSUME NEW t \in Deliveries,
             WaitsIn(w, t),
             \A e \in Deliveries : WaitsIn(waiting', e) => WaitsIn(w, e),
             \A e \in Deliveries \ {t} : WaitsIn(w, e) => WaitsIn(waiting', e),
             inFlight' = flight \cup {t}
      PROVE  ServedIn(waiting', inFlight', fin, d) <=> ServedIn(w, flight, fin, d)
  <2>1. CASE d = t
    BY <1>2, <2>1 DEF ServedIn
  <2>2. CASE d # t
    BY <1>2, <2>2 DEF ServedIn
  <2>3. QED
    BY <2>1, <2>2
<1>3. QED
  BY <1>1, <1>2, PumpTakesOne

\* So it keeps every account.
LEMMA PumpAccount ==
  ASSUME NEW w, NEW o, NEW act, NEW flight, NEW rs,
         Consistent(w, o, act, flight, rs), TypeOK, Pump(w, o, act, flight, rs),
         OneWaiting(w), Accountable(w, flight, accepted', completed', finished')
  PROVE  AccountInv'
<1>1. \A d \in Deliveries :
        ServedIn(waiting', inFlight', finished', d) <=> ServedIn(w, flight, finished', d)
  BY PumpServes
<1>2. QED
  BY <1>1 DEF AccountInv, Accountable, AccountedIn

LEMMA PushAccount ==
  ASSUME SerialInv, OneWaiting(waiting), AccountInv, NEW d \in Deliveries, Push(d)
  PROVE  AccountInv'
<1> DEFINE r == RepoOf[d]
           w == [waiting EXCEPT ![r] = Append(@, d)]
           o == IF waiting[r] = <<>> THEN Append(order, r) ELSE order
<1>0. TypeOK /\ QueueConsistent
  BY DEF SerialInv
<1>1. Consistent(w, o, active, inFlight, runs)
  BY <1>0, PushArguments
<1>2. Pump(w, o, active, inFlight, runs)
  BY DEF Push
<1>3. /\ completed' = completed /\ accepted' = accepted \cup {d} /\ finished' = finished
      /\ Coalescible(d) = {}
  BY DEF Push
<1>4. /\ OneWaiting(w)
      /\ \A e \in Deliveries : WaitsIn(w, e) <=> (WaitsIn(waiting, e) \/ e = d)
  BY <1>0, <1>3, PushKeepsOneWaiting
<1> HIDE DEF w, o
<1>5. \A e \in Deliveries :
        ServedIn(w, inFlight, finished', e) <=> (ServedIn(waiting, inFlight, finished, e) \/ e = d)
  BY <1>3, <1>4 DEF ServedIn
<1>6. Accountable(w, inFlight, accepted', completed', finished')
  BY <1>3, <1>5 DEF AccountInv, Accountable, AccountedIn
<1>7. QED
  BY <1>0, <1>1, <1>2, <1>4, <1>6, PumpAccount

LEMMA SettleAccount ==
  ASSUME SerialInv, OneWaiting(waiting), AccountInv, NEW d \in Deliveries, Settle(d)
  PROVE  AccountInv'
<1> DEFINE rs == [runs EXCEPT ![d] = @ - 1]
           act == active \ {RepoOf[d]}
           flight == inFlight \ {d}
<1>0. TypeOK /\ QueueConsistent
  BY DEF SerialInv
<1>1. Consistent(waiting, order, act, flight, rs)
  BY <1>0, SettleArguments DEF Settle
<1>2. Pump(waiting, order, act, flight, rs)
  BY DEF Settle
<1>3. /\ completed' = BoundedAdd(completed, d) /\ finished' = finished \cup {d}
      /\ accepted' = accepted
  BY DEF Settle
<1>4. Elements(completed') \subseteq Elements(completed) \cup {d}
  BY <1>0, <1>3, BoundedAddProperties DEF TypeOK
<1>5. d \in inFlight
  BY <1>0 DEF Settle, QueueConsistent, Consistent, Serial, RunningIn
<1>6. \A e \in Deliveries :
        ServedIn(waiting, flight, finished', e) <=> ServedIn(waiting, inFlight, finished, e)
  BY <1>3, <1>5 DEF ServedIn
<1>7. d \in accepted
  BY <1>5 DEF AccountInv, Accountable, ServedIn
<1> HIDE DEF rs, act, flight
<1>8. Accountable(waiting, flight, accepted', completed', finished')
  BY <1>3, <1>4, <1>6, <1>7 DEF AccountInv, Accountable, AccountedIn
<1>9. QED
  BY <1>0, <1>1, <1>2, <1>8, PumpAccount

\* The delivery that takes x's place stands for x, and for all that x stood for.
LEMMA CoalesceAccount ==
  ASSUME SerialInv, OneWaiting(waiting), AccountInv, NEW d \in Deliveries, Coalesce(d)
  PROVE  AccountInv'
<1>0. TypeOK
  BY DEF SerialInv
<1>1. PICK x \in Deliveries :
        /\ Keyed(d) /\ CoalesceKeyOf[x] = CoalesceKeyOf[d]
        /\ WaitsIn(waiting, x) /\ WaitsIn(waiting', d)
        /\ \A e \in Deliveries \ {d, x} : WaitsIn(waiting', e) <=> WaitsIn(waiting, e)
        /\ completed' = BoundedAdd(completed, x)
  BY CoalesceSwaps
<1>2. inFlight' = inFlight /\ finished' = finished /\ accepted' = accepted \cup {d}
  BY DEF Coalesce
<1>3. Elements(completed') \subseteq Elements(completed) \cup {x}
  BY <1>0, <1>1, BoundedAddProperties DEF TypeOK
<1>4. x \in accepted
  BY <1>1 DEF AccountInv, Accountable, ServedIn
<1>5. ServedIn(waiting', inFlight', finished', d)
  BY <1>1 DEF ServedIn
<1>6. \A e \in Deliveries \ {d, x} :
        ServedIn(waiting', inFlight', finished', e) <=> ServedIn(waiting, inFlight, finished, e)
  BY <1>1, <1>2 DEF ServedIn
<1>7. ASSUME NEW e \in Deliveries, ServedIn(waiting', inFlight', finished', e)
      PROVE  e \in accepted'
  BY <1>2, <1>4, <1>6, <1>7 DEF AccountInv, Accountable
<1>8. ASSUME NEW e \in accepted'
      PROVE  AccountedIn(waiting', inFlight', finished', e)
  <2>1. CASE e = d
    BY <1>5, <2>1 DEF AccountedIn
  <2>2. CASE e # d
    <3>1. PICK f \in Deliveries :
            /\ ServedIn(waiting, inFlight, finished, f)
            /\ f = e \/ (Keyed(e) /\ CoalesceKeyOf[f] = CoalesceKeyOf[e])
      BY <1>2, <1>8, <2>2 DEF AccountInv, Accountable, AccountedIn
    <3>2. CASE f \in {d, x}
      <4>1. Keyed(e) /\ CoalesceKeyOf[d] = CoalesceKeyOf[e]
        BY <1>1, <2>2, <3>1, <3>2 DEF Keyed
      <4>2. QED
        BY <1>5, <4>1 DEF AccountedIn
    <3>3. CASE f \notin {d, x}
      <4>1. ServedIn(waiting', inFlight', finished', f)
        BY <1>6, <3>1, <3>3
      <4>2. QED
        BY <3>1, <4>1 DEF AccountedIn
    <3>4. QED
      BY <3>2, <3>3
  <2>3. QED
    BY <2>1, <2>2
<1>9. Elements(completed') \subseteq accepted'
  BY <1>2, <1>3, <1>4 DEF AccountInv, Accountable
<1>10. QED
  BY <1>7, <1>8, <1>9 DEF AccountInv, Accountable

LEMMA DrainAccount ==
  ASSUME SerialInv, OneWaiting(waiting), AccountInv, Drain
  PROVE  AccountInv'
<1>1. TypeOK /\ Consistent(waiting, order, active, inFlight, runs)
  BY DEF SerialInv, QueueConsistent
<1>2. Pump(waiting, order, active, inFlight, runs)
  BY DEF Drain
<1>3. completed' = completed /\ accepted' = accepted /\ finished' = finished
  BY DEF Drain
<1>4. Accountable(waiting, inFlight, accepted', completed', finished')
  BY <1>3 DEF AccountInv
<1>5. QED
  BY <1>1, <1>2, <1>4, PumpAccount

LEMMA InitAccountInv == Init => AccountInv
<1> SUFFICES ASSUME Init PROVE AccountInv
  OBVIOUS
<1>1. \A d \in Deliveries : ~ServedIn(waiting, inFlight, finished, d)
  BY QueueConstants DEF QueueConstants, Init, ServedIn, WaitsIn, Elements
<1>2. Elements(completed) = {} /\ accepted = {}
  BY DEF Init, Elements
<1>3. QED
  BY <1>1, <1>2 DEF AccountInv, Accountable

LEMMA NextAccountInv == SerialInv /\ HistoryInv /\ AccountInv /\ [Next]_vars => AccountInv'
<1> SUFFICES ASSUME SerialInv, OneWaiting(waiting), AccountInv, [Next]_vars PROVE AccountInv'
  BY DEF HistoryInv
<1>1. ASSUME UNCHANGED vars PROVE AccountInv'
  BY <1>1 DEF vars, queueVars, historyVars, AccountInv, Accountable, AccountedIn, ServedIn,
              WaitsIn, Elements
<1>2. ASSUME NEW d \in Deliveries, Refuse(d) PROVE AccountInv'
  BY <1>1, <1>2 DEF Refuse
<1>3. ASSUME NEW d \in Deliveries, Coalesce(d) PROVE AccountInv'
  BY <1>3, CoalesceAccount
<1>4. ASSUME NEW d \in Deliveries, Push(d) PROVE AccountInv'
  BY <1>4, PushAccount
<1>5. ASSUME NEW d \in Deliveries, Settle(d) PROVE AccountInv'
  BY <1>5, SettleAccount
<1>6. CASE Drain
  BY <1>6, DrainAccount
<1>7. QED
  BY <1>1, <1>2, <1>3, <1>4, <1>5, <1>6 DEF Next, Enqueue

\* What the queue has accepted is accounted for, for ever: it waits, runs or has run, or an
\* event of its change request does so in its place.
THEOREM EveryoneAccountedFor == Spec => []AccountInv
BY InitAccountInv, NextAccountInv, SerialInvariant, HistoryInvariant, PTL DEF Spec

-----------------------------------------------------------------------------
(* What the queue's caller sees of a step: the promises of `run`. *)

\* `pump` calls `run` once at most, for a task that has no unsettled promise.
StartsOne(before, after) ==
  after = before \/ \E t \in Deliveries : before[t] = 0 /\ after = [before EXCEPT ![t] = 1]

LEMMA PumpStartsOne ==
  ASSUME NEW w, NEW o, NEW act, NEW flight, NEW rs,
         Consistent(w, o, act, flight, rs), TypeOK, Pump(w, o, act, flight, rs)
  PROVE  StartsOne(rs, runs')
<1>1. CASE runs' = rs
  BY <1>1 DEF StartsOne
<1>2. ASSUME NEW i \in 1..Len(o),
             o[i] \in Repos \ act,
             Head(w[o[i]]) \in Deliveries,
             RepoOf[Head(w[o[i]])] = o[i],
             runs' = [rs EXCEPT ![Head(w[o[i]])] = @ + 1]
      PROVE  StartsOne(rs, runs')
  <2> DEFINE t == Head(w[o[i]])
  <2>1. rs \in [Deliveries -> Nat] /\ Serial(act, flight, rs)
    BY DEF Consistent, PumpTypes
  <2>2. rs[t] = 0
    BY <1>2, <2>1 DEF Serial, RunningIn
  <2>3. runs' = [rs EXCEPT ![t] = 1]
    BY <1>2, <2>1, <2>2
  <2> HIDE DEF t
  <2>4. t \in Deliveries
    BY <1>2 DEF t
  <2>5. QED
    BY <2>2, <2>3, <2>4 DEF StartsOne
<1>3. QED
  BY <1>1, <1>2, PumpStartsOrNot

LEMMA EnqueueStartsOne ==
  ASSUME SerialInv, NEW d \in Deliveries, Enqueue(d)
  PROVE  StartsOne(runs, runs')
<1>0. TypeOK /\ QueueConsistent
  BY DEF SerialInv
<1>1. CASE Refuse(d)
  BY <1>1 DEF Refuse, vars, queueVars, StartsOne
<1>2. CASE Coalesce(d)
  BY <1>2 DEF Coalesce, StartsOne
<1>3. CASE Push(d)
  <2> DEFINE r == RepoOf[d]
             w == [waiting EXCEPT ![r] = Append(@, d)]
             o == IF waiting[r] = <<>> THEN Append(order, r) ELSE order
  <2>1. Consistent(w, o, active, inFlight, runs)
    BY <1>0, PushArguments
  <2>2. Pump(w, o, active, inFlight, runs)
    BY <1>3 DEF Push
  <2> HIDE DEF w, o
  <2>3. QED
    BY <1>0, <2>1, <2>2, PumpStartsOne
<1>4. QED
  BY <1>1, <1>2, <1>3 DEF Enqueue

LEMMA SettleStartsOne ==
  ASSUME SerialInv, NEW d \in Deliveries, Settle(d)
  PROVE  runs[d] = 1 /\ StartsOne([runs EXCEPT ![d] = 0], runs')
<1> DEFINE rs == [runs EXCEPT ![d] = @ - 1]
<1>0. TypeOK /\ QueueConsistent
  BY DEF SerialInv
<1>1. Consistent(waiting, order, active \ {RepoOf[d]}, inFlight \ {d}, rs)
  BY <1>0, SettleArguments DEF Settle
<1>2. Pump(waiting, order, active \ {RepoOf[d]}, inFlight \ {d}, rs)
  BY DEF Settle
<1>3. runs[d] = 1 /\ rs = [runs EXCEPT ![d] = 0]
  <2>1. runs[d] \in Nat /\ runs[d] <= 1 /\ runs[d] > 0
    BY <1>0 DEF Settle, TypeOK, QueueConsistent, Consistent, Serial
  <2>2. runs[d] = 1 /\ runs[d] - 1 = 0
    BY <2>1
  <2>3. QED
    BY <2>2
<1> HIDE DEF rs
<1>4. StartsOne(rs, runs')
  BY <1>0, <1>1, <1>2, PumpStartsOne
<1>5. QED
  BY <1>3, <1>4

LEMMA DrainStartsOne ==
  ASSUME SerialInv, Drain
  PROVE  StartsOne(runs, runs')
BY PumpStartsOne DEF SerialInv, QueueConsistent, Drain

-----------------------------------------------------------------------------
(* The queue implements the life of a delivery. *)

\* Every delivery carries a change request (a push or a ping is not known by one).
AllKeyed == \A d \in Deliveries : Keyed(d)

\* The invariants of the queue, as long as the cache has not overflowed.
LifeInv == SerialInv /\ FlowInv /\ HistoryInv /\ forgotten = {}

\* Where a delivery is in its life can then be read off one part of the state.
StatusTells ==
  \A d \in Deliveries :
    /\ StatusOf(d) \in {"new", "queued", "running", "done", "replaced"}
    /\ StatusOf(d) = "running" <=> d \in inFlight
    /\ StatusOf(d) = "queued" <=> Waiting(d)
    /\ StatusOf(d) = "replaced" <=> d \in superseded
    /\ StatusOf(d) = "done" <=> d \in finished \ inFlight

LEMMA StatusIsTold ==
  ASSUME AllKeyed
  PROVE  LifeInv => StatusTells
<1> SUFFICES ASSUME LifeInv, NEW d \in Deliveries
             PROVE  /\ StatusOf(d) \in {"new", "queued", "running", "done", "replaced"}
                    /\ StatusOf(d) = "running" <=> d \in inFlight
                    /\ StatusOf(d) = "queued" <=> Waiting(d)
                    /\ StatusOf(d) = "replaced" <=> d \in superseded
                    /\ StatusOf(d) = "done" <=> d \in finished \ inFlight
  BY DEF StatusTells
<1>1. inFlight = Running
  BY DEF LifeInv, SerialInv, QueueConsistent, Consistent, Serial, RunningIn, Running
<1>2. started[d] \in 0..2
  BY DEF LifeInv, SerialInv, TypeOK
<1>3. Waiting(d) => started[d] = 0
  BY DEF AllKeyed, LifeInv, HistoryInv, History, Waiting, WaitsIn
<1>4. d \in inFlight \cup finished => started[d] > 0
  BY DEF LifeInv, HistoryInv, History
<1>5. d \in superseded => ~Waiting(d) /\ started[d] = 0
  BY DEF LifeInv, HistoryInv, History, Waiting, WaitsIn
<1>6. QED
  BY <1>1, <1>2, <1>3, <1>4, <1>5 DEF StatusOf

\* What a step may do to the deliveries, one by one.
MovesRightly ==
  \A j \in Deliveries :
    /\ StatusOf(j)' # StatusOf(j) => <<StatusOf(j), StatusOf(j)'>> \in L!Moves
    /\ StatusOf(j) # "replaced" /\ StatusOf(j)' = "replaced" =>
         \E k \in Deliveries : /\ CoalesceKeyOf[k] = CoalesceKeyOf[j]
                               /\ StatusOf(k) = "new" /\ StatusOf(k)' = "queued"

\* A step ends in `pump` on these values and replaces nothing: the deliveries in `joined`
\* join the waiting ones, or the runs of those in `ended` have ended.
EndsInPump(w, o, act, flight, rs, joined, ended) ==
  /\ Consistent(w, o, act, flight, rs) /\ Pump(w, o, act, flight, rs) /\ OneWaiting(w)
  /\ joined \subseteq Deliveries /\ ended \subseteq inFlight
  /\ joined = {} \/ ended = {}
  /\ \A e \in joined : StatusOf(e) = "new"
  /\ \A e \in Deliveries : WaitsIn(w, e) <=> Waiting(e) \/ e \in joined
  /\ flight = inFlight \ ended
  /\ finished' = finished \cup ended
  /\ superseded' = superseded

LEMMA PumpMoves ==
  ASSUME AllKeyed, LifeInv, StatusTells, StatusTells',
         NEW w, NEW o, NEW act, NEW flight, NEW rs, NEW joined, NEW ended,
         EndsInPump(w, o, act, flight, rs, joined, ended)
  PROVE  MovesRightly
<1> USE DEF EndsInPump
<1>0. TypeOK
  BY DEF LifeInv, SerialInv
<1>1. \A e \in Deliveries : WaitsIn(waiting', e) <=> Waiting(e)'
  BY DEF WaitsIn, Waiting
<1>2. CASE /\ \A e \in Deliveries : WaitsIn(waiting', e) <=> WaitsIn(w, e)
           /\ inFlight' = flight
  BY <1>1, <1>2 DEF StatusTells, MovesRightly, L!Moves
<1>3. ASSUME NEW t \in Deliveries,
             WaitsIn(w, t),
             \A e \in Deliveries : WaitsIn(waiting', e) => WaitsIn(w, e),
             \A e \in Deliveries \ {t} : WaitsIn(w, e) => WaitsIn(waiting', e),
             Keyed(t) => ~WaitsIn(waiting', t),
             inFlight' = flight \cup {t}
      PROVE  MovesRightly
  <2>1. ~Waiting(t)' /\ t \in inFlight'
    BY <1>1, <1>3 DEF AllKeyed
  <2>2. StatusOf(t) \in {"new", "queued"} /\ StatusOf(t)' = "running"
    BY <1>3, <2>1 DEF StatusTells
  <2>3. \A e \in Deliveries \ {t} : Waiting(e)' <=> Waiting(e) \/ e \in joined
    BY <1>1, <1>3
  <2>4. \A e \in Deliveries \ {t} : e \in inFlight' <=> e \in inFlight \ ended
    BY <1>3
  <2>5. QED
    BY <2>2, <2>3, <2>4 DEF StatusTells, MovesRightly, L!Moves
<1>4. QED
  BY <1>0, <1>2, <1>3, PumpTakesOne

LEMMA EnqueueMoves ==
  ASSUME AllKeyed, LifeInv, StatusTells, StatusTells', NEW d \in Deliveries, ~IsDuplicate(d)
  PROVE  StatusOf(d) \in {"new", "queued"}
<1>1. d \notin finished \cup superseded
  BY FreshDelivery DEF LifeInv, SerialInv
<1>2. d \notin inFlight
  BY DEF IsDuplicate
<1>3. QED
  BY <1>1, <1>2 DEF StatusTells

\* One step of the queue, whichever it is.
LEMMA NextMoves ==
  ASSUME AllKeyed, LifeInv, StatusTells, StatusTells', Next
  PROVE  MovesRightly
<1>0. /\ TypeOK /\ QueueConsistent /\ SerialInv /\ HistoryInv
      /\ Consistent(waiting, order, active, inFlight, runs) /\ OneWaiting(waiting)
  BY DEF LifeInv, SerialInv, QueueConsistent, HistoryInv
<1>a. \A e \in Deliveries : WaitsIn(waiting, e) <=> Waiting(e)
  BY DEF WaitsIn, Waiting
<1>1. ASSUME NEW d \in Deliveries, Refuse(d) PROVE MovesRightly
  BY <1>1 DEF Refuse, vars, queueVars, historyVars, MovesRightly, StatusOf, Running, Waiting, Elements
<1>2. ASSUME NEW d \in Deliveries, Coalesce(d) PROVE MovesRightly
  <2>1. PICK x \in Deliveries :
          /\ CoalesceKeyOf[x] = CoalesceKeyOf[d]
          /\ WaitsIn(waiting, x) /\ WaitsIn(waiting', d)
          /\ \A e \in Deliveries \ {d, x} : WaitsIn(waiting', e) <=> WaitsIn(waiting, e)
          /\ x # d => ~WaitsIn(waiting', x) /\ ~WaitsIn(waiting, d)
          /\ superseded' = superseded \cup ({x} \ {d})
    BY <1>0, <1>2, CoalesceSwaps
  <2>2. inFlight' = inFlight /\ finished' = finished /\ StatusOf(d) \in {"new", "queued"}
    BY <1>2, EnqueueMoves DEF Coalesce
  <2>3. \A e \in Deliveries : WaitsIn(waiting', e) <=> Waiting(e)'
    BY DEF WaitsIn, Waiting
  <2>4. \A e \in Deliveries \ {d, x} : StatusOf(e)' = StatusOf(e)
    BY <1>a, <2>1, <2>2, <2>3 DEF StatusTells
  <2>5. CASE x = d
    <3>1. StatusOf(d) = "queued" /\ StatusOf(d)' = "queued"
      BY <1>a, <2>1, <2>3, <2>5 DEF StatusTells
    <3>2. QED
      BY <2>4, <2>5, <3>1 DEF MovesRightly
  <2>6. CASE x # d
    <3>1. StatusOf(d) = "new" /\ StatusOf(d)' = "queued"
      BY <1>a, <2>1, <2>2, <2>3, <2>6 DEF StatusTells
    <3>2. StatusOf(x) = "queued" /\ StatusOf(x)' = "replaced"
      BY <1>a, <2>1, <2>6 DEF StatusTells
    <3>3. QED
      BY <2>1, <2>4, <3>1, <3>2 DEF MovesRightly, L!Moves
  <2>7. QED
    BY <2>5, <2>6
<1>3. ASSUME NEW d \in Deliveries, Push(d) PROVE MovesRightly
  <2> DEFINE r == RepoOf[d]
             w == [waiting EXCEPT ![r] = Append(@, d)]
             o == IF waiting[r] = <<>> THEN Append(order, r) ELSE order
  <2>1. Consistent(w, o, active, inFlight, runs)
    BY <1>0, PushArguments
  <2>2. Pump(w, o, active, inFlight, runs)
    BY <1>3 DEF Push
  <2>3. OneWaiting(w) /\ \A e \in Deliveries : WaitsIn(w, e) <=> Waiting(e) \/ e \in {d}
    <3>1. Coalescible(d) = {}
      BY <1>3 DEF Push
    <3>2. OneWaiting(w) /\ \A e \in Deliveries : WaitsIn(w, e) <=> (WaitsIn(waiting, e) \/ e = d)
      BY <1>0, <3>1, PushKeepsOneWaiting
    <3> HIDE DEF w
    <3>3. QED
      BY <1>a, <3>2
  <2>4. StatusOf(d) = "new"
    <3>1. waiting[r] \in Seq(Deliveries)
      BY <1>0, QueueConstants DEF QueueConstants, TypeOK
    <3>2. ~Waiting(d)
      BY <1>3, <3>1 DEF Push, Coalescible, Waiting, Elements, AllKeyed, Keyed
    <3>3. QED
      BY <1>3, <3>2, EnqueueMoves DEF Push, StatusTells
  <2>5. finished' = finished /\ superseded' = superseded
    BY <1>3 DEF Push
  <2> HIDE DEF w, o
  <2>6. EndsInPump(w, o, active, inFlight, runs, {d}, {})
    BY <2>1, <2>2, <2>3, <2>4, <2>5 DEF EndsInPump
  <2>7. QED
    BY <2>6, PumpMoves
<1>4. ASSUME NEW d \in Deliveries, Settle(d) PROVE MovesRightly
  <2> DEFINE rs == [runs EXCEPT ![d] = @ - 1]
             act == active \ {RepoOf[d]}
             flight == inFlight \ {d}
  <2>1. Consistent(waiting, order, act, flight, rs)
    BY <1>0, <1>4, SettleArguments DEF Settle
  <2>2. Pump(waiting, order, act, flight, rs)
    BY <1>4 DEF Settle
  <2>3. finished' = finished \cup {d} /\ superseded' = superseded
    BY <1>4 DEF Settle
  <2>4. {d} \subseteq inFlight
    BY <1>0, <1>4 DEF Settle, Consistent, Serial, RunningIn
  <2> HIDE DEF rs, act
  <2>5. EndsInPump(waiting, order, act, flight, rs, {}, {d})
    BY <1>0, <1>a, <2>1, <2>2, <2>3, <2>4 DEF EndsInPump
  <2>6. QED
    BY <2>5, PumpMoves
<1>5. CASE Drain
  <2>1. Pump(waiting, order, active, inFlight, runs)
    BY <1>5 DEF Drain
  <2>2. finished' = finished /\ superseded' = superseded
    BY <1>5 DEF Drain
  <2>3. EndsInPump(waiting, order, active, inFlight, runs, {}, {})
    BY <1>0, <1>a, <2>1, <2>2 DEF EndsInPump
  <2>4. QED
    BY <2>3, PumpMoves
<1>6. QED
  BY <1>1, <1>2, <1>3, <1>4, <1>5 DEF Next, Enqueue

\* The abstract guards on the running deliveries are the queue's own invariants.
RunsRightly ==
  /\ \A j, k \in Deliveries :
       StatusOf(j) = "running" /\ StatusOf(k) = "running" /\ RepoOf[j] = RepoOf[k] => j = k
  /\ Cardinality({j \in Deliveries : StatusOf(j) = "running"}) <= maxConcurrentRepos

LEMMA LifeRunsRightly == LifeInv /\ StatusTells => RunsRightly
<1> SUFFICES ASSUME LifeInv, StatusTells PROVE RunsRightly
  OBVIOUS
<1> DEFINE R == {j \in Deliveries : StatusOf(j) = "running"}
           f == [j \in R |-> RepoOf[j]]
<1>1. /\ inFlight = RunningIn(runs) /\ active = {RepoOf[d] : d \in RunningIn(runs)}
      /\ \A d, e \in RunningIn(runs) : RepoOf[d] = RepoOf[e] => d = e
  BY DEF LifeInv, SerialInv, QueueConsistent, Consistent, Serial
<1>2. R = RunningIn(runs)
  BY <1>1 DEF StatusTells, RunningIn
<1>3. IsFiniteSet(active) /\ Cardinality(active) <= maxConcurrentRepos
  BY DEF LifeInv, FlowInv, Backpressure
<1> HIDE DEF R, f
<1>4. f \in Injection(R, active)
  <2>1. f \in [R -> active]
    BY <1>1, <1>2 DEF f
  <2>2. \A j, k \in R : f[j] = f[k] => j = k
    BY <1>1, <1>2 DEF f
  <2>3. QED
    BY <2>1, <2>2 DEF Injection, IsInjective
<1>5. IsFiniteSet(R) /\ Cardinality(R) <= Cardinality(active)
  BY <1>3, <1>4, FS_Injection
<1>6. Cardinality(R) \in Nat /\ Cardinality(active) \in Nat /\ maxConcurrentRepos \in Nat
  BY <1>3, <1>5, FS_CardinalityType, QueueConstants DEF QueueConstants
<1>7. Cardinality(R) <= maxConcurrentRepos
  BY <1>3, <1>5, <1>6
<1>8. \A j, k \in Deliveries :
        StatusOf(j) = "running" /\ StatusOf(k) = "running" /\ RepoOf[j] = RepoOf[k] => j = k
  BY <1>1 DEF StatusTells
<1>9. QED
  BY <1>7, <1>8 DEF RunsRightly, R

-----------------------------------------------------------------------------
LEMMA InitLife ==
  ASSUME AllKeyed
  PROVE  Init => L!Init
<1> SUFFICES ASSUME Init PROVE L!Init
  OBVIOUS
<1>1. \A d \in Deliveries : RepoOf[d] \in Repos
  BY QueueConstants DEF QueueConstants
<1>2. \A d \in Deliveries : StatusOf(d) = "new"
  BY <1>1 DEF Init, StatusOf, Running, Waiting, Elements
<1>3. QED
  BY <1>2 DEF L!Init, Life

LEMMA StepLife ==
  ASSUME AllKeyed
  PROVE  LifeInv /\ StatusTells /\ StatusTells' /\ RunsRightly' /\ [Next]_vars => [L!Next]_Life
<1> SUFFICES ASSUME LifeInv, StatusTells, StatusTells', RunsRightly', [Next]_vars
             PROVE  [L!Next]_Life
  OBVIOUS
<1>1. CASE UNCHANGED vars
  BY <1>1 DEF vars, queueVars, historyVars, Life, StatusOf, Running, Waiting, Elements
<1>2. CASE Next
  <2>1. MovesRightly
    BY <1>2, NextMoves
  <2>2. /\ \A j, k \in Deliveries : StatusOf(j)' = "running" /\ StatusOf(k)' = "running"
                                    /\ RepoOf[j] = RepoOf[k] => j = k
        /\ Cardinality({j \in Deliveries : StatusOf(j)' = "running"}) <= maxConcurrentRepos
    BY DEF RunsRightly
  <2>3. \A j \in Deliveries : Life[j] = StatusOf(j) /\ Life'[j] = StatusOf(j)'
    BY DEF Life
  <2>4. Life' \in [Deliveries -> L!Status]
    BY DEF Life, StatusTells, L!Status
  <2>5. \A j \in Deliveries : Life'[j] # Life[j] => <<Life[j], Life'[j]>> \in L!Moves
    BY <2>1, <2>3 DEF MovesRightly
  <2>6. \A j \in Deliveries : Life[j] # "replaced" /\ Life'[j] = "replaced" => L!ReplacedByArrival(j)
    BY <2>1, <2>3 DEF MovesRightly, L!ReplacedByArrival
  <2>7. {j \in Deliveries : Life'[j] = "running"} = {j \in Deliveries : StatusOf(j)' = "running"}
    BY <2>3
  <2>8. L!InStatus(Life', "running") = {j \in Deliveries : Life'[j] = "running"}
    BY DEF L!InStatus
  <2>9. Cardinality(L!InStatus(Life', "running")) <= maxConcurrentRepos
    BY <2>2, <2>7, <2>8
  <2>10. \A j, k \in L!InStatus(Life', "running") : RepoOf[j] = RepoOf[k] => j = k
    BY <2>2, <2>3, <2>8
  <2>11. QED
    BY <2>4, <2>5, <2>6, <2>9, <2>10 DEF L!Next, L!Cardinality, Cardinality
<1>3. QED
  BY <1>1, <1>2

\* Where every delivery carries a change request, the queue implements the life of a delivery
\* for as long as its cache has not overflowed: nothing runs twice, comes back after it was
\* replaced, or vanishes once accepted.
THEOREM QueueImplements ==
  ASSUME AllKeyed
  PROVE  Spec /\ [](forgotten = {}) => ImplementsLifecycle
<1>1. Init => L!Init
  BY InitLife
<1>2. LifeInv => StatusTells
  BY StatusIsTold
<1>3. LifeInv /\ StatusTells /\ StatusTells' /\ RunsRightly' /\ [Next]_vars => [L!Next]_Life
  BY StepLife
<1>4. SerialInv /\ FlowInv /\ HistoryInv /\ forgotten = {} => LifeInv
  BY DEF LifeInv
<1>5. QED
  BY <1>1, <1>2, <1>3, <1>4, LifeRunsRightly, SerialInvariant, FlowInvariant, HistoryInvariant, PTL
     DEF Spec, ImplementsLifecycle, L!Spec

-----------------------------------------------------------------------------
(* A cache that has room for every delivery forgets none. *)

RoomForAll == IsFiniteSet(Deliveries) /\ Cardinality(Deliveries) <= dedupeSize

NoTwice(keys) == \A i, j \in 1..Len(keys) : keys[i] = keys[j] => i = j

LEMMA RoomMeansNoEviction ==
  ASSUME RoomForAll, NEW keys \in Seq(Deliveries), NoTwice(keys), NEW k \in Deliveries
  PROVE  Evicted(keys, k) = {} /\ NoTwice(BoundedAdd(keys, k))
<1>1. CASE k \in Elements(keys)
  BY <1>1 DEF Evicted, BoundedAdd
<1>2. CASE k \notin Elements(keys)
  <2> DEFINE f == [i \in 1..Len(keys) |-> keys[i]]
             others == Deliveries \ {k}
  <2>0. Len(keys) \in Nat /\ \A i \in 1..Len(keys) : keys[i] \in others
    BY <1>2 DEF Elements
  <2>1. f \in Injection(1..Len(keys), others)
    BY <2>0 DEF Injection, IsInjective, NoTwice
  <2>2. IsFiniteSet(others) /\ Cardinality(others) = Cardinality(Deliveries) - 1
    BY FS_RemoveElement DEF RoomForAll
  <2>3. Cardinality(1..Len(keys)) = Len(keys)
    BY <2>0, FS_Interval
  <2> HIDE DEF f, others
  <2>4. Cardinality(1..Len(keys)) <= Cardinality(others)
    BY <2>1, <2>2, FS_Injection
  <2>5. Cardinality(Deliveries) \in Nat /\ dedupeSize \in Nat
    BY FS_CardinalityType, QueueConstants DEF RoomForAll, QueueConstants
  <2>6. Len(keys) < dedupeSize
    BY <2>0, <2>2, <2>3, <2>4, <2>5 DEF RoomForAll
  <2>7. Evicted(keys, k) = {} /\ BoundedAdd(keys, k) = Append(keys, k)
    BY <1>2, <2>0, <2>5, <2>6 DEF Evicted, BoundedAdd
  <2>8. /\ Len(Append(keys, k)) = Len(keys) + 1 /\ Append(keys, k)[Len(keys) + 1] = k
        /\ \A i \in 1..Len(keys) : Append(keys, k)[i] = keys[i] /\ keys[i] # k
    BY <1>2, AppendProperties DEF Elements
  <2>9. NoTwice(Append(keys, k))
    BY <2>0, <2>8 DEF NoTwice
  <2>10. QED
    BY <2>7, <2>9
<1>3. QED
  BY <1>1, <1>2

NoneForgotten == forgotten = {} /\ NoTwice(completed)

LEMMA NextNoneForgotten ==
  ASSUME RoomForAll
  PROVE  SerialInv /\ NoneForgotten /\ [Next]_vars => NoneForgotten'
<1> SUFFICES ASSUME SerialInv, NoneForgotten, [Next]_vars PROVE NoneForgotten'
  OBVIOUS
<1>0. /\ completed \in Seq(Deliveries) /\ waiting \in [Repos -> Seq(Deliveries)]
      /\ forgotten = {} /\ NoTwice(completed)
  BY DEF SerialInv, TypeOK, NoneForgotten
<1>1. ASSUME completed' = completed, forgotten' = forgotten PROVE NoneForgotten'
  BY <1>0, <1>1 DEF NoneForgotten, NoTwice
<1>2. ASSUME NEW k \in Deliveries, completed' = BoundedAdd(completed, k),
             forgotten' = forgotten \cup Evicted(completed, k)
      PROVE  NoneForgotten'
  <2>1. Evicted(completed, k) = {} /\ NoTwice(BoundedAdd(completed, k))
    BY <1>0, RoomMeansNoEviction
  <2>2. NoTwice(completed')
    BY <1>2, <2>1
  <2>3. NoTwice(completed)'
    BY <2>2 DEF NoTwice
  <2>4. QED
    BY <1>0, <1>2, <2>1, <2>3 DEF NoneForgotten
<1>3. ASSUME NEW d \in Deliveries, Refuse(d) PROVE NoneForgotten'
  BY <1>1, <1>3 DEF Refuse, vars, queueVars, historyVars
<1>4. ASSUME NEW d \in Deliveries, Coalesce(d) PROVE NoneForgotten'
  <2>1. PICK i \in Coalescible(d) :
          /\ completed' = BoundedAdd(completed, waiting[RepoOf[d]][i])
          /\ forgotten' = forgotten \cup Evicted(completed, waiting[RepoOf[d]][i])
    BY <1>4 DEF Coalesce
  <2>2. RepoOf[d] \in Repos
    BY QueueConstants DEF QueueConstants
  <2>3. waiting[RepoOf[d]][i] \in Deliveries
    BY <1>0, <2>1, <2>2 DEF Coalescible
  <2>4. QED
    BY <1>2, <2>1, <2>3
<1>5. ASSUME NEW d \in Deliveries, Push(d) PROVE NoneForgotten'
  BY <1>1, <1>5 DEF Push
<1>6. ASSUME NEW d \in Deliveries, Settle(d) PROVE NoneForgotten'
  BY <1>2, <1>6 DEF Settle
<1>7. CASE Drain
  BY <1>1, <1>7 DEF Drain
<1>8. CASE UNCHANGED vars
  BY <1>1, <1>8 DEF vars, queueVars, historyVars
<1>9. QED
  BY <1>3, <1>4, <1>5, <1>6, <1>7, <1>8 DEF Next, Enqueue

\* As many places in the cache as there are deliveries: it never forgets one.
THEOREM LargeCacheForgetsNone ==
  ASSUME RoomForAll
  PROVE  Spec => [](forgotten = {})
<1>1. Init => NoneForgotten
  BY DEF Init, NoneForgotten, NoTwice
<1>2. SerialInv /\ NoneForgotten /\ [Next]_vars => NoneForgotten'
  BY NextNoneForgotten
<1>3. NoneForgotten => forgotten = {}
  BY DEF NoneForgotten
<1>4. QED
  BY <1>1, <1>2, <1>3, SerialInvariant, PTL DEF Spec

\* So with such a cache the queue implements the life of a delivery outright.
THEOREM LargeCacheImplements ==
  ASSUME AllKeyed, RoomForAll
  PROVE  Spec => ImplementsLifecycle
BY QueueImplements, LargeCacheForgetsNone, PTL
=============================================================================

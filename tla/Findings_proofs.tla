----------------------------- MODULE Findings_proofs -----------------------------
(***************************************************************************)
(* Proofs about findings: what becomes of a proposal that is validated,    *)
(* merged over the shards, calibrated and clustered, and what an accepted  *)
(* exception suppresses, for any proposals, rules, overrides and memory.   *)
(***************************************************************************)
EXTENDS Findings, Paths_proofs

-----------------------------------------------------------------------------
(***************************************************************************)
(* Validation: every proposal becomes a finding that passed all checks, or *)
(* a reason why it did not.                                                *)
(***************************************************************************)
Passes(proposals, diffs, rules, i) ==
  /\ PlaceRejection(proposals[i]) = NoText /\ NarrowRejection(proposals[i]) = NoText
  /\ ~ExceedsSizeCap(FindingOf(proposals, diffs, rules, i))

Passed(proposals, diffs, rules) ==
  {FindingOf(proposals, diffs, rules, i) :
     i \in {j \in DOMAIN proposals : Passes(proposals, diffs, rules, j)}}

Reasons(proposals) ==
  (UNION {{PlaceRejection(proposals[i]), NarrowRejection(proposals[i])} : i \in DOMAIN proposals})
    \cup {"size-cap", "duplicate"}

Tallies(F, R, K) == [findings : Seq(F), discarded : Seq(R), seen : SUBSET K]
Told(acc) == Len(acc.findings) + Len(acc.discarded)

ValidStates(proposals, diffs, rules) ==
  Tallies(Passed(proposals, diffs, rules), Reasons(proposals),
          {PublishKey(f) : f \in Passed(proposals, diffs, rules)})

LEMMA DiscardProperties ==
  ASSUME NEW F, NEW R, NEW K, NEW acc \in Tallies(F, R, K), NEW reason \in R
  PROVE  Discard(acc, reason) \in Tallies(F, R, K) /\ Told(Discard(acc, reason)) = Told(acc) + 1
<1> DEFINE more == Append(acc.discarded, reason)
           next == [acc EXCEPT !.discarded = more]
<1>1. acc.findings \in Seq(F) /\ acc.discarded \in Seq(R)
  BY DEF Tallies
<1>2. /\ more \in Seq(R) /\ Len(more) = Len(acc.discarded) + 1
      /\ Len(acc.findings) \in Nat /\ Len(acc.discarded) \in Nat
  BY <1>1, AppendProperties
<1>3. Discard(acc, reason) = next
  BY DEF Discard
<1> HIDE DEF more
<1>4. next \in Tallies(F, R, K) /\ next.findings = acc.findings /\ next.discarded = more
  BY <1>2 DEF Tallies
<1> HIDE DEF next
<1>5. Told(next) = Told(acc) + 1
  <2>1. Told(next) = Len(acc.findings) + (Len(acc.discarded) + 1)
    BY <1>2, <1>4, Zenon DEF Told
  <2>2. \A m, n \in Nat : m + (n + 1) = (m + n) + 1
    OBVIOUS
  <2>3. QED
    BY <1>2, <2>1, <2>2, Zenon DEF Told
<1>6. QED
  BY <1>3, <1>4, <1>5

LEMMA KeepProperties ==
  ASSUME NEW F, NEW R, NEW K, NEW acc \in Tallies(F, R, K), NEW f \in F, PublishKey(f) \in K
  PROVE  Keep(acc, f) \in Tallies(F, R, K) /\ Told(Keep(acc, f)) = Told(acc) + 1
<1> DEFINE more == Append(acc.findings, f)
           keys == acc.seen \cup {PublishKey(f)}
           next == [acc EXCEPT !.findings = more, !.seen = keys]
<1>1. acc.findings \in Seq(F) /\ acc.discarded \in Seq(R) /\ acc.seen \in SUBSET K
  BY DEF Tallies
<1>2. /\ more \in Seq(F) /\ Len(more) = Len(acc.findings) + 1
      /\ Len(acc.findings) \in Nat /\ Len(acc.discarded) \in Nat
  BY <1>1, AppendProperties
<1>3. keys \in SUBSET K
  BY <1>1
<1>4. Keep(acc, f) = next
  BY DEF Keep
<1> HIDE DEF more, keys
<1>5. next \in Tallies(F, R, K) /\ next.findings = more /\ next.discarded = acc.discarded
  BY <1>2, <1>3 DEF Tallies
<1> HIDE DEF next
<1>6. Told(next) = Told(acc) + 1
  <2>1. Told(next) = (Len(acc.findings) + 1) + Len(acc.discarded)
    BY <1>2, <1>5, Zenon DEF Told
  <2>2. \A m, n \in Nat : (m + 1) + n = (m + n) + 1
    OBVIOUS
  <2>3. QED
    BY <1>2, <2>1, <2>2, Zenon DEF Told
<1>7. QED
  BY <1>4, <1>5, <1>6

LEMMA ValidateOneProperties ==
  ASSUME NEW proposals, NEW diffs, NEW rules, NEW i \in DOMAIN proposals,
         NEW acc \in ValidStates(proposals, diffs, rules)
  PROVE  LET next == ValidateOne(acc, proposals[i], FindingOf(proposals, diffs, rules, i))
         IN  next \in ValidStates(proposals, diffs, rules) /\ Told(next) = Told(acc) + 1
<1> DEFINE f     == FindingOf(proposals, diffs, rules, i)
           next  == ValidateOne(acc, proposals[i], f)
           F     == Passed(proposals, diffs, rules)
           R     == Reasons(proposals)
           K     == {PublishKey(g) : g \in F}
<1>1. /\ PlaceRejection(proposals[i]) \in R /\ NarrowRejection(proposals[i]) \in R
      /\ "size-cap" \in R /\ "duplicate" \in R
  BY DEF Reasons
<1>2. acc \in Tallies(F, R, K)
  BY DEF ValidStates
<1>3. Passes(proposals, diffs, rules, i) => f \in F /\ PublishKey(f) \in K
  BY DEF Passed
<1>4. \/ \E reason \in R : next = Discard(acc, reason)
      \/ Passes(proposals, diffs, rules, i) /\ next = Keep(acc, f)
  <2> HIDE DEF R
  <2>1. QED
    BY <1>1 DEF ValidateOne, Passes
<1> HIDE DEF f, next, F, R, K
<1>5. ASSUME NEW reason \in R, next = Discard(acc, reason)
      PROVE  next \in Tallies(F, R, K) /\ Told(next) = Told(acc) + 1
  BY <1>2, <1>5, DiscardProperties
<1>6. ASSUME Passes(proposals, diffs, rules, i), next = Keep(acc, f)
      PROVE  next \in Tallies(F, R, K) /\ Told(next) = Told(acc) + 1
  BY <1>2, <1>3, <1>6, KeepProperties
<1>7. next \in Tallies(F, R, K) /\ Told(next) = Told(acc) + 1
  BY <1>4, <1>5, <1>6
<1>8. QED
  BY <1>7 DEF ValidStates, f, next, F, R, K

LEMMA NothingIsValid ==
  ASSUME NEW proposals, NEW diffs, NEW rules
  PROVE  NothingValidated \in ValidStates(proposals, diffs, rules) /\ Told(NothingValidated) = 0
BY DEF NothingValidated, ValidStates, Tallies, Told

Validates(proposals, diffs, rules, upTo) ==
  upTo = [n \in 0..Len(proposals) |->
           IF n = 0 THEN NothingValidated
           ELSE ValidateOne(upTo[n - 1], proposals[n], FindingOf(proposals, diffs, rules, n))]

LEMMA ValidateIsValidates ==
  ASSUME NEW proposals, NEW diffs, NEW rules, NEW some, Validates(proposals, diffs, rules, some)
  PROVE  \E upTo : /\ Validates(proposals, diffs, rules, upTo)
                   /\ Validate(proposals, diffs, rules) = upTo[Len(proposals)]
BY DEF Validates, Validate

LEMMA ValidationExists ==
  ASSUME NEW T, NEW proposals \in Seq(T), NEW diffs, NEW rules
  PROVE  \E upTo : Validates(proposals, diffs, rules, upTo)
<1> DEFINE N == Len(proposals)
           S == ValidStates(proposals, diffs, rules)
           One(acc, n) == ValidateOne(acc, proposals[n], FindingOf(proposals, diffs, rules, n))
           step == [n \in 1..N |-> [acc \in S |-> One(acc, n)]]
<1>1. N \in Nat /\ DOMAIN proposals = 1..N
  OBVIOUS
<1>2. NothingValidated \in S
  BY NothingIsValid
<1>3. \A n \in 1..N : \A acc \in S : One(acc, n) \in S
  BY <1>1, ValidateOneProperties
<1> HIDE DEF N, S, One
<1>4. \A n \in 1..N : \A acc \in S : step[n][acc] = One(acc, n)
  OBVIOUS
<1>5. LeadsOn(S, N, step)
  BY <1>3, <1>4 DEF LeadsOn
<1> HIDE DEF step
<1>6. PICK g : IsIteration(S, NothingValidated, N, step, g)
  BY <1>1, <1>2, <1>5, Iterates, Zenon
<1>7. \A n \in 1..N : g[n] = One(g[n - 1], n)
  <2> TAKE n \in 1..N
  <2>1. n - 1 \in 0..N
    BY <1>1
  <2>2. QED
    BY <1>4, <1>6, <2>1 DEF IsIteration
<1>8. \A n \in 0..N : n # 0 => n \in 1..N
  BY <1>1
<1>9. g = [n \in 0..N |-> IF n = 0 THEN NothingValidated ELSE One(g[n - 1], n)]
  BY <1>6, <1>7, <1>8 DEF IsIteration
<1>10. QED
  BY <1>9 DEF Validates, N, One

\* No proposal gets lost in validation.
LEMMA ValidateProperties ==
  ASSUME NEW T, NEW proposals \in Seq(T), NEW diffs, NEW rules
  PROVE  LET all == Validate(proposals, diffs, rules)
         IN  /\ all.findings \in Seq(Passed(proposals, diffs, rules))
             /\ Len(all.findings) + Len(all.discarded) = Len(proposals)
<1> DEFINE N == Len(proposals)
           S == ValidStates(proposals, diffs, rules)
           Holds(n, acc) == acc \in S /\ Told(acc) = n
<1>1. N \in Nat /\ DOMAIN proposals = 1..N
  OBVIOUS
<1>2. PICK upTo : Validates(proposals, diffs, rules, upTo) /\ Validate(proposals, diffs, rules) = upTo[N]
  BY ValidationExists, ValidateIsValidates
<1>3. /\ upTo[0] = NothingValidated
      /\ \A n \in 1..N :
           upTo[n] = ValidateOne(upTo[n - 1], proposals[n], FindingOf(proposals, diffs, rules, n))
  <2>1. \A n \in 0..N :
          upTo[n] = IF n = 0 THEN NothingValidated
                    ELSE ValidateOne(upTo[n - 1], proposals[n], FindingOf(proposals, diffs, rules, n))
    BY <1>2, Zenon DEF Validates
  <2>2. 0 \in 0..N /\ \A n \in 1..N : n \in 0..N /\ n # 0
    BY <1>1
  <2>3. QED
    BY <2>1, <2>2
<1> DEFINE I == {n \in 0..N : Holds(n, upTo[n])}
<1>4. 0 \in I
  <2>1. NothingValidated \in S /\ Told(NothingValidated) = 0 /\ 0 \in 0..N
    BY <1>1, NothingIsValid
  <2>2. QED
    BY <1>3, <2>1
<1>5. ASSUME NEW n \in 1..N, n - 1 \in I PROVE n \in I
  <2>1. upTo[n - 1] \in S /\ Told(upTo[n - 1]) = n - 1
    BY <1>5
  <2>2. upTo[n] \in S /\ Told(upTo[n]) = Told(upTo[n - 1]) + 1
    BY <1>1, <1>3, <2>1, ValidateOneProperties
  <2>3. n \in 0..N /\ (n - 1) + 1 = n
    BY <1>1
  <2> HIDE DEF S
  <2>4. QED
    BY <2>1, <2>2, <2>3
<1>6. N \in I
  <2>1. N \in 0..N
    BY <1>1
  <2> HIDE DEF N, I
  <2>2. QED
    BY <1>1, <1>4, <1>5, <2>1, Induction
<1>7. QED
  BY <1>2, <1>6 DEF ValidStates, Tallies, Told

-----------------------------------------------------------------------------
(***************************************************************************)
(* Merging: what stays of the findings with one dedupe key.  S holds the   *)
(* shards, F the findings.                                                 *)
(***************************************************************************)
Alike(f, g) == DedupeKey(f) = DedupeKey(g)
Ranked(F) == \A f \in F : f.severity \in Int
GroupOf(S, F) == [finding : F, shardHits : SUBSET S]

\* Of the first n entries that are like f, the first most severe one is entry e, which is f.
Leads(sharded, n, f, e) ==
  /\ e \in 1..n /\ sharded[e][2] = f
  /\ \A d \in 1..n : Alike(sharded[d][2], f) =>
       \/ sharded[d][2].severity > f.severity
       \/ sharded[d][2].severity = f.severity /\ d >= e

HasGroup(entry, groups_) ==
  \E g \in DOMAIN groups_ : Alike(entry[2], groups_[g].finding) /\ entry[1] \in groups_[g].shardHits

OneGroupEach(groups_) ==
  \A g, h \in DOMAIN groups_ : Alike(groups_[g].finding, groups_[h].finding) => g = h

Merged(S, F, sharded, n, groups_) ==
  /\ groups_ \in Seq(GroupOf(S, F))
  /\ OneGroupEach(groups_)
  /\ \A g \in DOMAIN groups_ : \E e \in 1..n : Leads(sharded, n, groups_[g].finding, e)
  /\ \A e \in 1..n : HasGroup(sharded[e], groups_)

\* A finding unlike all others opens a group, every other one joins its group.
Opens(next, groups_, f, shard) ==
  /\ \A g \in DOMAIN groups_ : ~Alike(groups_[g].finding, f)
  /\ Len(next) = Len(groups_) + 1
  /\ \A g \in DOMAIN groups_ : next[g] = groups_[g]
  /\ next[Len(groups_) + 1].finding = f /\ next[Len(groups_) + 1].shardHits = {shard}

Joins(next, groups_, f, shard, g) ==
  /\ g \in DOMAIN groups_ /\ Alike(groups_[g].finding, f)
  /\ DOMAIN next = DOMAIN groups_
  /\ \A h \in DOMAIN groups_ : h # g => next[h] = groups_[h]
  /\ next[g].finding = IF MoreSevere(f, groups_[g].finding) THEN f ELSE groups_[g].finding
  /\ next[g].shardHits = groups_[g].shardHits \cup {shard}

LEMMA MergeOneProperties ==
  ASSUME NEW S, NEW F, NEW groups_ \in Seq(GroupOf(S, F)), NEW entry \in S \X F
  PROVE  LET next == MergeOne(groups_, entry)
         IN  /\ next \in Seq(GroupOf(S, F))
             /\ \/ Opens(next, groups_, entry[2], entry[1])
                \/ \E g \in DOMAIN groups_ : Joins(next, groups_, entry[2], entry[1], g)
<1> DEFINE next  == MergeOne(groups_, entry)
           f     == entry[2]
           shard == entry[1]
           same  == GroupWith(groups_, f)
<1>1. f \in F /\ shard \in S /\ {shard} \in SUBSET S
  OBVIOUS
<1>2. same = {g \in DOMAIN groups_ : Alike(groups_[g].finding, f)}
  BY DEF GroupWith, Alike
<1>3. CASE same = {}
  <2> DEFINE new == [finding |-> f, shardHits |-> {shard}]
  <2>1. new \in GroupOf(S, F) /\ new.finding = f /\ new.shardHits = {shard}
    BY <1>1 DEF GroupOf
  <2>2. next = Append(groups_, new)
    BY <1>3 DEF MergeOne
  <2>3. \A g \in DOMAIN groups_ : ~Alike(groups_[g].finding, f)
    BY <1>2, <1>3
  <2> HIDE DEF new, next, f, shard, same
  <2>4. /\ next \in Seq(GroupOf(S, F)) /\ Len(next) = Len(groups_) + 1
        /\ \A g \in 1..Len(groups_) : next[g] = groups_[g]
        /\ next[Len(groups_) + 1] = new
    BY <2>1, <2>2, AppendProperties
  <2>5. DOMAIN groups_ = 1..Len(groups_)
    OBVIOUS
  <2>6. Opens(next, groups_, f, shard)
    BY <2>1, <2>3, <2>4, <2>5, Zenon DEF Opens
  <2>7. QED
    BY <2>4, <2>6 DEF next, f, shard
<1>4. CASE same # {}
  <2> DEFINE g   == Min(same)
             old == groups_[g]
             new == [finding   |-> IF MoreSevere(f, old.finding) THEN f ELSE old.finding,
                     shardHits |-> old.shardHits \cup {shard}]
  <2>1. g \in same
    <3>1. same \in SUBSET Nat
      BY <1>2
    <3> HIDE DEF same
    <3>2. QED
      BY <1>4, <3>1, LeastNatural DEF Min
  <2>2. g \in DOMAIN groups_ /\ Alike(groups_[g].finding, f)
    BY <1>2, <2>1
  <2>3. next = [groups_ EXCEPT ![g] = new]
    BY <1>4 DEF MergeOne
  <2> HIDE DEF g
  <2>4. old \in GroupOf(S, F)
    BY <2>2
  <2>5. /\ new \in GroupOf(S, F)
        /\ new.finding = IF MoreSevere(f, old.finding) THEN f ELSE old.finding
        /\ new.shardHits = old.shardHits \cup {shard}
    BY <1>1, <2>4 DEF GroupOf
  <2> HIDE DEF new, next, f, shard, same
  <2>6. /\ next \in Seq(GroupOf(S, F)) /\ DOMAIN next = DOMAIN groups_ /\ next[g] = new
        /\ \A h \in DOMAIN groups_ : h # g => next[h] = groups_[h]
    BY <2>2, <2>3, <2>5
  <2>7. Joins(next, groups_, f, shard, g)
    BY <2>2, <2>5, <2>6 DEF Joins
  <2>8. QED
    BY <2>2, <2>6, <2>7 DEF next, f, shard
<1>5. QED
  BY <1>3, <1>4

LEMMA OpeningMerges ==
  ASSUME NEW S, NEW F, Ranked(F), NEW sharded \in Seq(S \X F), NEW n \in 1..Len(sharded),
         NEW groups_, Merged(S, F, sharded, n - 1, groups_),
         NEW next \in Seq(GroupOf(S, F)), Opens(next, groups_, sharded[n][2], sharded[n][1])
  PROVE  Merged(S, F, sharded, n, next)
<1> DEFINE f     == sharded[n][2]
           shard == sharded[n][1]
           top   == Len(groups_) + 1
<1>1. groups_ \in Seq(GroupOf(S, F)) /\ OneGroupEach(groups_)
  BY DEF Merged
<1>2. /\ DOMAIN next = (DOMAIN groups_) \cup {top}
      /\ \A g \in DOMAIN groups_ : next[g] = groups_[g] /\ g # top
  BY <1>1 DEF Opens
<1>3. \A g \in DOMAIN groups_ : ~Alike(groups_[g].finding, f)
  BY DEF Opens
<1>4. next[top].finding = f /\ next[top].shardHits = {shard}
  BY DEF Opens
<1>5. f \in F
  OBVIOUS
<1>6. 1..n = (1..(n - 1)) \cup {n}
  OBVIOUS
<1>7. OneGroupEach(next)
  BY <1>1, <1>2, <1>3, <1>4 DEF OneGroupEach, Alike
<1>8. ASSUME NEW g \in DOMAIN next PROVE \E e \in 1..n : Leads(sharded, n, next[g].finding, e)
  <2>1. CASE g \in DOMAIN groups_
    <3>1. PICK e \in 1..(n - 1) : Leads(sharded, n - 1, groups_[g].finding, e)
      BY <2>1 DEF Merged
    <3>2. ~Alike(sharded[n][2], groups_[g].finding)
      BY <1>3, <2>1 DEF Alike
    <3>3. Leads(sharded, n, groups_[g].finding, e)
      BY <1>6, <3>1, <3>2 DEF Leads
    <3>4. QED
      BY <1>2, <1>6, <2>1, <3>1, <3>3
  <2>2. CASE g = top
    <3>1. \A d \in 1..(n - 1) : ~Alike(sharded[d][2], f)
      <4> TAKE d \in 1..(n - 1)
      <4>1. PICK h \in DOMAIN groups_ : Alike(sharded[d][2], groups_[h].finding)
        BY DEF Merged, HasGroup
      <4>2. QED
        BY <1>3, <4>1 DEF Alike
    <3>2. f.severity = f.severity /\ n >= n /\ n \in 1..n
      BY <1>5
    <3>3. Leads(sharded, n, f, n)
      BY <1>6, <3>1, <3>2 DEF Leads
    <3>4. QED
      BY <1>4, <2>2, <3>2, <3>3
  <2>3. QED
    BY <1>2, <2>1, <2>2
<1>9. ASSUME NEW e \in 1..n PROVE HasGroup(sharded[e], next)
  <2>1. CASE e \in 1..(n - 1)
    BY <1>2, <2>1 DEF Merged, HasGroup
  <2>2. CASE e = n
    BY <1>2, <1>4, <2>2 DEF HasGroup, Alike
  <2>3. QED
    BY <1>6, <2>1, <2>2
<1>10. QED
  BY <1>7, <1>8, <1>9 DEF Merged

LEMMA JoiningMerges ==
  ASSUME NEW S, NEW F, Ranked(F), NEW sharded \in Seq(S \X F), NEW n \in 1..Len(sharded),
         NEW groups_, Merged(S, F, sharded, n - 1, groups_),
         NEW next \in Seq(GroupOf(S, F)), NEW g \in DOMAIN groups_,
         Joins(next, groups_, sharded[n][2], sharded[n][1], g)
  PROVE  Merged(S, F, sharded, n, next)
<1> DEFINE f     == sharded[n][2]
           shard == sharded[n][1]
           old   == groups_[g].finding
<1>1. groups_ \in Seq(GroupOf(S, F)) /\ OneGroupEach(groups_)
  BY DEF Merged
<1>2. /\ DOMAIN next = DOMAIN groups_ /\ Alike(old, f)
      /\ \A h \in DOMAIN groups_ : h # g => next[h] = groups_[h]
  BY DEF Joins
<1>3. next[g].finding = (IF MoreSevere(f, old) THEN f ELSE old)
      /\ next[g].shardHits = groups_[g].shardHits \cup {shard}
  BY DEF Joins
<1>4. f \in F /\ old \in F /\ f.severity \in Int /\ old.severity \in Int
  <2>1. f \in F
    OBVIOUS
  <2>2. groups_[g] \in GroupOf(S, F)
    BY <1>1
  <2>3. old \in F
    BY <2>2 DEF GroupOf
  <2>4. QED
    BY <2>1, <2>3 DEF Ranked
<1>5. 1..n = (1..(n - 1)) \cup {n}
  OBVIOUS
<1>6. Alike(next[g].finding, old)
  BY <1>2, <1>3 DEF Alike
<1>7. OneGroupEach(next)
  BY <1>1, <1>2, <1>6 DEF OneGroupEach, Alike
<1>8. ASSUME NEW h \in DOMAIN next PROVE \E e \in 1..n : Leads(sharded, n, next[h].finding, e)
  <2>1. PICK e \in 1..(n - 1) : Leads(sharded, n - 1, groups_[h].finding, e)
    BY <1>2 DEF Merged
  <2>2. CASE h # g
    <3>1. ~Alike(sharded[n][2], groups_[h].finding)
      BY <1>1, <1>2, <2>2 DEF OneGroupEach, Alike
    <3>2. Leads(sharded, n, groups_[h].finding, e)
      BY <1>5, <2>1, <3>1 DEF Leads
    <3>3. QED
      BY <1>2, <1>5, <2>2, <2>1, <3>2
  <2>3. CASE h = g /\ MoreSevere(f, old)
    <3>1. \A d \in 1..(n - 1) : Alike(sharded[d][2], f) => sharded[d][2].severity > f.severity
      <4> TAKE d \in 1..(n - 1)
      <4> SUFFICES ASSUME Alike(sharded[d][2], f) PROVE sharded[d][2].severity > f.severity
        OBVIOUS
      <4>1. Alike(sharded[d][2], old)
        BY <1>2 DEF Alike
      <4>2. sharded[d][2].severity > old.severity \/ sharded[d][2].severity = old.severity
        BY <2>1, <2>3, <4>1 DEF Leads
      <4>3. sharded[d][2].severity \in Int
        BY DEF Ranked
      <4>4. f.severity < old.severity
        BY <2>3 DEF MoreSevere
      <4>5. QED
        BY <1>4, <4>2, <4>3, <4>4
    <3>2. f.severity = f.severity /\ n >= n /\ n \in 1..n
      BY <1>5
    <3>3. Leads(sharded, n, f, n)
      BY <1>5, <3>1, <3>2 DEF Leads
    <3>4. QED
      BY <1>3, <2>3, <3>2, <3>3
  <2>4. CASE h = g /\ ~MoreSevere(f, old)
    <3>1. f.severity > old.severity \/ f.severity = old.severity
      BY <1>4, <2>4 DEF MoreSevere
    <3>2. n >= e
      BY <2>1
    <3>3. Leads(sharded, n, old, e)
      BY <1>5, <2>1, <2>4, <3>1, <3>2 DEF Leads
    <3>4. QED
      BY <1>3, <1>5, <2>1, <2>4, <3>3
  <2>5. QED
    BY <2>2, <2>3, <2>4
<1>9. ASSUME NEW e \in 1..n PROVE HasGroup(sharded[e], next)
  <2>1. CASE e \in 1..(n - 1)
    <3>1. PICK h \in DOMAIN groups_ : Alike(sharded[e][2], groups_[h].finding)
                                      /\ sharded[e][1] \in groups_[h].shardHits
      BY <2>1 DEF Merged, HasGroup
    <3>2. Alike(sharded[e][2], next[h].finding) /\ sharded[e][1] \in next[h].shardHits
      BY <1>2, <1>3, <1>6, <3>1 DEF Alike
    <3>3. QED
      BY <1>2, <3>2 DEF HasGroup
  <2>2. CASE e = n
    BY <1>2, <1>3, <1>6, <2>2 DEF HasGroup, Alike
  <2>3. QED
    BY <1>5, <2>1, <2>2
<1>10. QED
  BY <1>7, <1>8, <1>9 DEF Merged

Merges(sharded, upTo) ==
  upTo = [n \in 0..Len(sharded) |-> IF n = 0 THEN <<>> ELSE MergeOne(upTo[n - 1], sharded[n])]

LEMMA MergeIsMerges ==
  ASSUME NEW sharded, NEW some, Merges(sharded, some)
  PROVE  \E upTo : Merges(sharded, upTo) /\ MergeFindings(sharded) = upTo[Len(sharded)]
BY DEF Merges, MergeFindings

LEMMA MergingExists ==
  ASSUME NEW S, NEW F, NEW sharded \in Seq(S \X F)
  PROVE  \E upTo : Merges(sharded, upTo)
<1> DEFINE N == Len(sharded)
           States == Seq(GroupOf(S, F))
           One(groups_, n) == MergeOne(groups_, sharded[n])
           step == [n \in 1..N |-> [groups_ \in States |-> One(groups_, n)]]
<1>1. N \in Nat /\ \A n \in 1..N : sharded[n] \in S \X F
  OBVIOUS
<1>2. <<>> \in States
  OBVIOUS
<1>3. \A n \in 1..N : \A groups_ \in States : One(groups_, n) \in States
  BY <1>1, MergeOneProperties
<1> HIDE DEF N, States, One
<1>4. \A n \in 1..N : \A groups_ \in States : step[n][groups_] = One(groups_, n)
  OBVIOUS
<1>5. LeadsOn(States, N, step)
  BY <1>3, <1>4 DEF LeadsOn
<1> HIDE DEF step
<1>6. PICK g : IsIteration(States, <<>>, N, step, g)
  BY <1>1, <1>2, <1>5, Iterates, Zenon
<1>7. \A n \in 1..N : g[n] = One(g[n - 1], n)
  <2> TAKE n \in 1..N
  <2>1. n - 1 \in 0..N
    BY <1>1
  <2>2. QED
    BY <1>4, <1>6, <2>1 DEF IsIteration
<1>8. \A n \in 0..N : n # 0 => n \in 1..N
  BY <1>1
<1>9. g = [n \in 0..N |-> IF n = 0 THEN <<>> ELSE One(g[n - 1], n)]
  BY <1>6, <1>7, <1>8 DEF IsIteration
<1>10. QED
  BY <1>9 DEF Merges, N, One

\* Each key has one group, which holds the first most severe finding and every shard's hit.
LEMMA MergeProperties ==
  ASSUME NEW S, NEW F, Ranked(F), NEW sharded \in Seq(S \X F)
  PROVE  Merged(S, F, sharded, Len(sharded), MergeFindings(sharded))
<1> DEFINE N == Len(sharded)
           Holds(n, groups_) == Merged(S, F, sharded, n, groups_)
<1>1. N \in Nat /\ \A n \in 1..N : sharded[n] \in S \X F
  OBVIOUS
<1>2. PICK upTo : Merges(sharded, upTo) /\ MergeFindings(sharded) = upTo[N]
  BY MergingExists, MergeIsMerges
<1>3. upTo[0] = <<>> /\ \A n \in 1..N : upTo[n] = MergeOne(upTo[n - 1], sharded[n])
  <2>1. \A n \in 0..N : upTo[n] = IF n = 0 THEN <<>> ELSE MergeOne(upTo[n - 1], sharded[n])
    BY <1>2, Zenon DEF Merges
  <2>2. 0 \in 0..N /\ \A n \in 1..N : n \in 0..N /\ n # 0
    BY <1>1
  <2>3. QED
    BY <2>1, <2>2
<1> DEFINE I == {n \in 0..N : Holds(n, upTo[n])}
<1>4. 0 \in I
  <2>1. Merged(S, F, sharded, 0, <<>>)
    BY DEF Merged, OneGroupEach
  <2>2. 0 \in 0..N
    BY <1>1
  <2>3. QED
    BY <1>3, <2>1, <2>2
<1>5. ASSUME NEW n \in 1..N, n - 1 \in I PROVE n \in I
  <2> DEFINE before == upTo[n - 1]
             after  == upTo[n]
  <2>1. Merged(S, F, sharded, n - 1, before)
    BY <1>5
  <2>2. before \in Seq(GroupOf(S, F))
    BY <2>1 DEF Merged
  <2>3. /\ after \in Seq(GroupOf(S, F))
        /\ \/ Opens(after, before, sharded[n][2], sharded[n][1])
           \/ \E g \in DOMAIN before : Joins(after, before, sharded[n][2], sharded[n][1], g)
    <3>1. after = MergeOne(before, sharded[n])
      BY <1>3
    <3> HIDE DEF after, before
    <3>2. QED
      BY <1>1, <2>2, <3>1, MergeOneProperties
  <2> HIDE DEF before, after
  <2>4. Merged(S, F, sharded, n, after)
    BY <2>1, <2>3, OpeningMerges, JoiningMerges
  <2>5. n \in 0..N
    BY <1>1
  <2>6. QED
    BY <2>4, <2>5 DEF after
<1>6. N \in I
  <2>1. N \in 0..N
    BY <1>1
  <2> HIDE DEF N, I
  <2>2. QED
    BY <1>1, <1>4, <1>5, <2>1, Induction
<1>7. QED
  BY <1>2, <1>6

-----------------------------------------------------------------------------
(* Clustering: every finding has a representative, which is as severe. *)

StandsIn(r, f) ==
  /\ r.rule = f.rule /\ r.anchor.path = f.anchor.path /\ r.title.loose = f.title.loose
  /\ r.severity <= f.severity

LEMMA StandingIsTransitive ==
  ASSUME NEW F, Ranked(F), NEW f \in F, NEW g \in F, NEW h \in F, StandsIn(f, g), StandsIn(g, h)
  PROVE  StandsIn(f, h)
<1>1. f.severity \in Int /\ g.severity \in Int /\ h.severity \in Int
  BY DEF Ranked
<1>2. f.severity <= h.severity
  BY <1>1 DEF StandsIn
<1>3. QED
  BY <1>2 DEF StandsIn

LEMMA ClusterOneProperties ==
  ASSUME NEW F, Ranked(F), NEW reps \in Seq(F), NEW f \in F, NEW window
  PROVE  LET next == ClusterOne(reps, f, window)
         IN  /\ next \in Seq(F)
             /\ \E g \in DOMAIN next : StandsIn(next[g], f)
             /\ \A h \in DOMAIN reps : h \in DOMAIN next /\ StandsIn(next[h], reps[h])
<1> DEFINE next == ClusterOne(reps, f, window)
           near == {g \in DOMAIN reps : Near(reps[g], f, window)}
<1>1. \A g \in F : g.severity \in Int /\ StandsIn(g, g)
  <2>1. \A g \in F : g.severity \in Int
    BY DEF Ranked
  <2>2. \A g \in F : g.severity <= g.severity
    BY <2>1
  <2>3. QED
    BY <2>1, <2>2 DEF StandsIn
<1>2. \A h \in DOMAIN reps : reps[h] \in F
  OBVIOUS
<1>3. CASE near = {}
  <2>1. next = Append(reps, f)
    BY <1>3 DEF ClusterOne
  <2> HIDE DEF next, near
  <2>2. /\ next \in Seq(F) /\ Len(next) = Len(reps) + 1
        /\ \A h \in 1..Len(reps) : next[h] = reps[h]
        /\ next[Len(reps) + 1] = f
    BY <2>1, AppendProperties
  <2>3. DOMAIN reps = 1..Len(reps) /\ DOMAIN next = 1..(Len(reps) + 1) /\ Len(reps) \in Nat
    BY <2>2
  <2>4. \E g \in DOMAIN next : StandsIn(next[g], f)
    BY <1>1, <2>2, <2>3
  <2>5. \A h \in DOMAIN reps : h \in DOMAIN next /\ StandsIn(next[h], reps[h])
    BY <1>1, <1>2, <2>2, <2>3
  <2>6. QED
    BY <2>2, <2>4, <2>5 DEF next
<1>4. CASE near # {}
  <2> DEFINE g   == Min(near)
             old == reps[g]
             new == IF BetterRepresentative(f, old) THEN f ELSE old
  <2>1. g \in near
    <3>1. near \in SUBSET Nat
      OBVIOUS
    <3> HIDE DEF near
    <3>2. QED
      BY <1>4, <3>1, LeastNatural DEF Min
  <2>2. g \in DOMAIN reps /\ Near(old, f, window)
    BY <2>1
  <2>3. next = [reps EXCEPT ![g] = new]
    BY <1>4 DEF ClusterOne
  <2> HIDE DEF g, near
  <2>4. old \in F /\ f \in F
    BY <2>2
  <2> HIDE DEF old
  <2>5. /\ old.rule = f.rule /\ old.anchor.path = f.anchor.path /\ old.title.loose = f.title.loose
        /\ old.severity \in Int /\ f.severity \in Int
    BY <1>1, <2>2, <2>4 DEF Near
  <2>6. new \in F /\ StandsIn(new, f) /\ StandsIn(new, old)
    <3>1. CASE BetterRepresentative(f, old)
      <4>1. new = f /\ f.severity <= old.severity
        BY <2>5, <3>1 DEF BetterRepresentative
      <4>2. QED
        BY <1>1, <2>4, <2>5, <4>1 DEF StandsIn
    <3>2. CASE ~BetterRepresentative(f, old)
      <4>1. new = old /\ old.severity <= f.severity
        BY <2>5, <3>2 DEF BetterRepresentative
      <4>2. QED
        BY <1>1, <2>4, <2>5, <4>1 DEF StandsIn
    <3>3. QED
      BY <3>1, <3>2
  <2> HIDE DEF new, next
  <2>7. next \in Seq(F) /\ DOMAIN next = DOMAIN reps /\ next[g] = new
        /\ \A h \in DOMAIN reps : h # g => next[h] = reps[h]
    BY <2>2, <2>3, <2>6
  <2>8. \A h \in DOMAIN reps : h \in DOMAIN next /\ StandsIn(next[h], reps[h])
    <3> TAKE h \in DOMAIN reps
    <3>1. CASE h = g
      BY <2>6, <2>7, <3>1 DEF old
    <3>2. CASE h # g
      BY <1>1, <1>2, <2>7, <3>2
    <3>3. QED
      BY <2>7, <3>1, <3>2
  <2>9. QED
    BY <2>2, <2>6, <2>7, <2>8 DEF next
<1>5. QED
  BY <1>3, <1>4

Clusters(list, window, upTo) ==
  upTo = [n \in 0..Len(list) |->
           IF n = 0 THEN <<>> ELSE ClusterOne(upTo[n - 1], list[n], window)]

LEMMA ClusterIsClusters ==
  ASSUME NEW list, NEW window, NEW some, Clusters(list, window, some)
  PROVE  \E upTo : /\ Clusters(list, window, upTo)
                   /\ ClusterWithinShard(list, window) =
                        IF window <= 0 THEN list ELSE upTo[Len(list)]
BY DEF Clusters, ClusterWithinShard

LEMMA ClusteringExists ==
  ASSUME NEW F, Ranked(F), NEW list \in Seq(F), NEW window
  PROVE  \E upTo : Clusters(list, window, upTo)
<1> DEFINE N == Len(list)
           States == Seq(F)
           One(reps, n) == ClusterOne(reps, list[n], window)
           step == [n \in 1..N |-> [reps \in States |-> One(reps, n)]]
<1>1. N \in Nat /\ \A n \in 1..N : list[n] \in F
  OBVIOUS
<1>2. <<>> \in States
  OBVIOUS
<1>3. \A n \in 1..N : \A reps \in States : One(reps, n) \in States
  BY <1>1, ClusterOneProperties
<1> HIDE DEF N, States, One
<1>4. \A n \in 1..N : \A reps \in States : step[n][reps] = One(reps, n)
  OBVIOUS
<1>5. LeadsOn(States, N, step)
  BY <1>3, <1>4 DEF LeadsOn
<1> HIDE DEF step
<1>6. PICK g : IsIteration(States, <<>>, N, step, g)
  BY <1>1, <1>2, <1>5, Iterates, Zenon
<1>7. \A n \in 1..N : g[n] = One(g[n - 1], n)
  <2> TAKE n \in 1..N
  <2>1. n - 1 \in 0..N
    BY <1>1
  <2>2. QED
    BY <1>4, <1>6, <2>1 DEF IsIteration
<1>8. \A n \in 0..N : n # 0 => n \in 1..N
  BY <1>1
<1>9. g = [n \in 0..N |-> IF n = 0 THEN <<>> ELSE One(g[n - 1], n)]
  BY <1>6, <1>7, <1>8 DEF IsIteration
<1>10. QED
  BY <1>9 DEF Clusters, N, One

\* Each of the first n findings has one that stands for it.
Represented(F, list, n, reps) ==
  /\ reps \in Seq(F)
  /\ \A i \in 1..n : \E g \in DOMAIN reps : StandsIn(reps[g], list[i])

LEMMA ClusterProperties ==
  ASSUME NEW F, Ranked(F), NEW list \in Seq(F), NEW window
  PROVE  Represented(F, list, Len(list), ClusterWithinShard(list, window))
<1> DEFINE N == Len(list)
           Holds(n, reps) == Represented(F, list, n, reps)
<1>1. N \in Nat /\ \A n \in 1..N : list[n] \in F
  OBVIOUS
<1>2. PICK upTo : /\ Clusters(list, window, upTo)
                  /\ ClusterWithinShard(list, window) = IF window <= 0 THEN list ELSE upTo[N]
  BY ClusteringExists, ClusterIsClusters
<1>3. upTo[0] = <<>> /\ \A n \in 1..N : upTo[n] = ClusterOne(upTo[n - 1], list[n], window)
  <2>1. \A n \in 0..N : upTo[n] = IF n = 0 THEN <<>> ELSE ClusterOne(upTo[n - 1], list[n], window)
    BY <1>2, Zenon DEF Clusters
  <2>2. 0 \in 0..N /\ \A n \in 1..N : n \in 0..N /\ n # 0
    BY <1>1
  <2>3. QED
    BY <2>1, <2>2
<1> DEFINE I == {n \in 0..N : Holds(n, upTo[n])}
<1>4. 0 \in I
  <2>1. Represented(F, list, 0, <<>>)
    BY DEF Represented
  <2>2. 0 \in 0..N
    BY <1>1
  <2>3. QED
    BY <1>3, <2>1, <2>2
<1>5. ASSUME NEW n \in 1..N, n - 1 \in I PROVE n \in I
  <2> DEFINE before == upTo[n - 1]
             after  == upTo[n]
  <2>1. Represented(F, list, n - 1, before)
    BY <1>5
  <2>2. before \in Seq(F)
    BY <2>1 DEF Represented
  <2>3. /\ after \in Seq(F)
        /\ \E g \in DOMAIN after : StandsIn(after[g], list[n])
        /\ \A h \in DOMAIN before : h \in DOMAIN after /\ StandsIn(after[h], before[h])
    <3>1. after = ClusterOne(before, list[n], window)
      BY <1>3
    <3> HIDE DEF after, before
    <3>2. QED
      BY <1>1, <2>2, <3>1, ClusterOneProperties
  <2>4. \A i \in 1..N : list[i] \in F
    BY <1>1
  <2> HIDE DEF before, after
  <2>5. ASSUME NEW i \in 1..n PROVE \E g \in DOMAIN after : StandsIn(after[g], list[i])
    <3>1. CASE i = n
      BY <2>3, <3>1
    <3>2. CASE i # n
      <4>1. i \in 1..(n - 1) /\ i \in 1..N
        BY <1>1, <3>2
      <4>2. PICK h \in DOMAIN before : StandsIn(before[h], list[i])
        BY <2>1, <4>1 DEF Represented
      <4>3. h \in DOMAIN after /\ StandsIn(after[h], before[h])
        BY <2>3
      <4>4. after[h] \in F /\ before[h] \in F /\ list[i] \in F
        BY <2>2, <2>3, <2>4, <4>1, <4>3
      <4>5. StandsIn(after[h], list[i])
        BY <4>2, <4>3, <4>4, StandingIsTransitive
      <4>6. QED
        BY <4>3, <4>5
    <3>3. QED
      BY <3>1, <3>2
  <2>6. n \in 0..N
    BY <1>1
  <2>7. QED
    BY <2>3, <2>5, <2>6 DEF after, Represented
<1>6. N \in I
  <2>1. N \in 0..N
    BY <1>1
  <2> HIDE DEF N, I
  <2>2. QED
    BY <1>1, <1>4, <1>5, <2>1, Induction
<1>7. Represented(F, list, N, list)
  <2>1. \A i \in 1..N : StandsIn(list[i], list[i])
    <3>1. \A i \in 1..N : list[i].severity \in Int
      BY <1>1 DEF Ranked
    <3>2. \A i \in 1..N : list[i].severity <= list[i].severity
      BY <3>1
    <3>3. QED
      BY <3>2 DEF StandsIn
  <2>2. QED
    BY <2>1 DEF Represented
<1>8. QED
  BY <1>2, <1>6, <1>7

-----------------------------------------------------------------------------
(* Suppression. *)

LEMMA SuppressProperties ==
  ASSUME NEW F, NEW list \in Seq(F), NEW resolved
  PROVE  LET all == SuppressResolved(list, resolved)
         IN  /\ all.findings \in Seq(F) /\ all.suppressed \in Seq(F)
             /\ Range(list) = Range(all.findings) \cup Range(all.suppressed)
             /\ \A f \in Range(all.findings) : SuppressedBy(f, resolved) = <<>>
             /\ \A f \in Range(all.suppressed) : SuppressedBy(f, resolved) # <<>>
<1> DEFINE accepted == {i \in DOMAIN list : SuppressedBy(list[i], resolved) # <<>>}
           all == SuppressResolved(list, resolved)
           rest == DOMAIN list \ accepted
<1>1. all.findings = Picked(list, rest) /\ all.suppressed = Picked(list, accepted)
  BY DEF SuppressResolved
<1>2. /\ accepted \cap DOMAIN list = accepted /\ rest \cap DOMAIN list = rest
      /\ accepted \cup rest = DOMAIN list
  OBVIOUS
<1>3. /\ \A i \in rest : SuppressedBy(list[i], resolved) = <<>>
      /\ \A i \in accepted : SuppressedBy(list[i], resolved) # <<>>
  OBVIOUS
<1> HIDE DEF accepted, rest, all
<1>4. /\ all.findings \in Seq(F)
      /\ \A f : f \in Range(all.findings) <=> \E i \in rest : f = list[i]
  BY <1>1, <1>2, PickedProperties
<1>5. /\ all.suppressed \in Seq(F)
      /\ \A f : f \in Range(all.suppressed) <=> \E i \in accepted : f = list[i]
  BY <1>1, <1>2, PickedProperties
<1>6. Range(list) = Range(all.findings) \cup Range(all.suppressed)
  BY <1>2, <1>4, <1>5 DEF Range
<1>7. QED
  BY <1>3, <1>4, <1>5, <1>6 DEF all

-----------------------------------------------------------------------------
(* Findings that passed the validation. *)

\* A finding is the record of its fields.
AFinding(f) ==
  /\ f = [findingId |-> f.findingId, severity |-> f.severity, title |-> f.title, body |-> f.body,
          anchor |-> f.anchor, rule |-> f.rule, scenario |-> f.scenario, patch |-> f.patch]
  /\ f.severity \in Severity

LEMMA ReasonsAreTexts ==
  /\ "missing-path" # NoText /\ "unsafe-path" # NoText /\ "invalid-line" # NoText
  /\ "missing-title" # NoText /\ "missing-body" # NoText /\ "missing-severity" # NoText
  /\ "unknown-severity" # NoText /\ "invalid-patch" # NoText
BY Zenon DEF NoText

LEMMA PlacePasses ==
  ASSUME NEW raw, IsProposal(raw), PlaceRejection(raw) = NoText
  PROVE  IsSafeRelativePath(raw.path) /\ raw.line > 0
<1> DEFINE checks == << <<raw.path = NoPath, "missing-path">>,
                        <<~IsSafeRelativePath(raw.path), "unsafe-path">>,
                        <<raw.line <= 0, "invalid-line">> >>
<1>1. FirstFailure(checks) = NoText
  BY DEF PlaceRejection
<1>2. /\ checks[1][2] = "missing-path" /\ checks[2][2] = "unsafe-path" /\ checks[3][2] = "invalid-line"
      /\ DOMAIN checks = {1, 2, 3}
  OBVIOUS
<1>2b. (checks[2][1] <=> ~IsSafeRelativePath(raw.path)) /\ (checks[3][1] <=> raw.line <= 0)
  OBVIOUS
<1> HIDE DEF checks
<1>3. \A i \in DOMAIN checks : checks[i][2] # NoText
  BY <1>2, ReasonsAreTexts
<1>4. DOMAIN checks \in SUBSET Nat
  BY <1>2
<1>5. \A i \in DOMAIN checks : ~checks[i][1]
  BY <1>1, <1>3, <1>4, NoneFails, Zenon
<1>6. IsSafeRelativePath(raw.path) /\ ~(raw.line <= 0)
  BY <1>2, <1>2b, <1>5
<1>7. QED
  BY <1>6 DEF IsProposal

LEMMA NarrowingPasses ==
  ASSUME NEW raw, IsProposal(raw), NarrowRejection(raw) = NoText
  PROVE  raw.severity \in Severity /\ raw.title.length > 0 /\ raw.body > 0
<1> DEFINE checks == << <<raw.title.length = 0, "missing-title">>,
                        <<raw.body = 0, "missing-body">>,
                        <<raw.severity = NoSeverity, "missing-severity">>,
                        <<raw.severity = UnknownSeverity, "unknown-severity">>,
                        <<PlaceRejection(raw) # NoText, PlaceRejection(raw)>>,
                        <<raw.patch # NoPatch /\ ~UsablePatch(raw.patch), "invalid-patch">> >>
<1>1. FirstFailure(checks) = NoText
  BY DEF NarrowRejection
<1>2. /\ checks[1][2] = "missing-title" /\ checks[2][2] = "missing-body"
      /\ checks[3][2] = "missing-severity" /\ checks[4][2] = "unknown-severity"
      /\ checks[5][2] = PlaceRejection(raw) /\ checks[6][2] = "invalid-patch"
      /\ DOMAIN checks = {1, 2, 3, 4, 5, 6}
  OBVIOUS
<1>3. /\ checks[1][1] <=> raw.title.length = 0
      /\ checks[2][1] <=> raw.body = 0
      /\ checks[3][1] <=> raw.severity = NoSeverity
      /\ checks[4][1] <=> raw.severity = UnknownSeverity
      /\ checks[5][1] <=> PlaceRejection(raw) # NoText
  OBVIOUS
<1> HIDE DEF checks
<1>4. \A i \in DOMAIN checks : checks[i][1] => checks[i][2] # NoText
  BY <1>2, <1>3, ReasonsAreTexts
<1>5. DOMAIN checks \in SUBSET Nat
  BY <1>2
<1>6. \A i \in DOMAIN checks : ~checks[i][1]
  BY <1>1, <1>4, <1>5, NoneFails, Zenon
<1>7. /\ raw.title.length # 0 /\ raw.body # 0
      /\ raw.severity # NoSeverity /\ raw.severity # UnknownSeverity
  BY <1>2, <1>3, <1>6
<1>8. QED
  BY <1>7 DEF IsProposal

\* What the narrowing makes of a severity.
LEMMA EffectiveSeverityProperties ==
  ASSUME NEW severity \in Severity, NEW scenario, NEW requires
  PROVE  LET rank == EffectiveSeverity(severity, scenario, requires)
         IN  rank \in Severity /\ (rank = Blocker => scenario)
<1>1. /\ Downgrade(severity) \in Severity /\ Downgrade(severity) # Blocker
      /\ Blocker \in Severity
  BY DEF Downgrade, Severity, Blocker, Info
<1>2. CASE ~scenario /\ (severity = Blocker \/ requires)
  BY <1>1, <1>2 DEF EffectiveSeverity
<1>3. CASE ~(~scenario /\ (severity = Blocker \/ requires))
  BY <1>3 DEF EffectiveSeverity
<1>4. QED
  BY <1>2, <1>3

\* A finding comes from its proposal, and is anchored where the diff resolves its place.
ComesFrom(f, raw, diffs) ==
  /\ IsProposal(raw) /\ PlaceRejection(raw) = NoText /\ NarrowRejection(raw) = NoText
  /\ f.title = raw.title /\ f.body = raw.body /\ f.rule = raw.rule
  /\ f.anchor = Resolve(diffs, raw.path, raw.line)
  /\ f.severity = Blocker => f.scenario

LEMMA PassedProperties ==
  ASSUME NEW proposals, \A i \in DOMAIN proposals : IsProposal(proposals[i]),
         NEW diffs, NEW rules, NEW f \in Passed(proposals, diffs, rules)
  PROVE  /\ AFinding(f) /\ ~ExceedsSizeCap(f)
         /\ \E i \in DOMAIN proposals : ComesFrom(f, proposals[i], diffs)
<1>1. PICK i \in DOMAIN proposals :
        Passes(proposals, diffs, rules, i) /\ f = FindingOf(proposals, diffs, rules, i)
  BY DEF Passed
<1> DEFINE raw      == proposals[i]
           requires == RequiresScenario(rules, raw.rule)
           rank     == EffectiveSeverity(raw.severity, raw.scenario, requires)
           place    == Resolve(diffs, raw.path, raw.line)
<1>2. IsProposal(raw) /\ PlaceRejection(raw) = NoText /\ NarrowRejection(raw) = NoText
  BY <1>1 DEF Passes
<1>3. raw.severity \in Severity
  BY <1>2, NarrowingPasses
<1>4. rank \in Severity /\ (rank = Blocker => raw.scenario)
  BY <1>3, EffectiveSeverityProperties
<1>5. f = [findingId |-> i, severity |-> rank, title |-> raw.title, body |-> raw.body,
           anchor |-> place, rule |-> raw.rule, scenario |-> raw.scenario, patch |-> raw.patch]
  BY <1>1 DEF FindingOf, Narrow
<1> HIDE DEF raw, rank, place
<1>6. /\ AFinding(f) /\ f.title = raw.title /\ f.body = raw.body /\ f.rule = raw.rule
      /\ f.anchor = place /\ f.severity = rank /\ f.scenario = raw.scenario
  BY <1>4, <1>5 DEF AFinding
<1>7. ComesFrom(f, raw, diffs)
  BY <1>2, <1>4, <1>6 DEF ComesFrom, place
<1>8. QED
  BY <1>1, <1>6, <1>7 DEF raw, Passes

-----------------------------------------------------------------------------
(* What maintainers accepted. *)

\* What `suppressResolved` takes for covered is what the exception means.
LEMMA CoversIffAccepts ==
  ASSUME NEW e, IsException(e), NEW f, Len(f.anchor.path) \in Nat
  PROVE  Covers(e, f) <=> Accepts(e, f)
<1>1. e.kind \in {"exact", "rule", "glob"}
  BY DEF IsException
<1>2. CASE e.kind = "exact"
  <2>1. Covers(e, f) <=> MemoryKey(e.path, e.rule, e.title) = FindingMemoryKey(f)
    BY <1>2 DEF Covers
  <2>2. Accepts(e, f) <=> /\ e.path = f.anchor.path /\ e.rule = f.rule
                          /\ e.title.lower = f.title.lower
    BY <1>2 DEF Accepts
  <2>3. QED
    BY <2>1, <2>2 DEF MemoryKey, FindingMemoryKey
<1>3. CASE e.kind = "rule"
  <2>1. Covers(e, f) <=> e.rule # NoText /\ f.rule = e.rule
    BY <1>3 DEF Covers
  <2>2. Accepts(e, f) <=> e.rule = f.rule /\ f.rule # NoText
    BY <1>3 DEF Accepts
  <2>3. QED
    BY <2>1, <2>2
<1>4. CASE e.kind = "glob"
  <2>1. e.pattern # <<>> /\ IsList(e.pattern)
    BY <1>4 DEF IsException
  <2>2. Len(e.pattern) \in Nat
    BY <2>1, ListElements
  <2>3. MatchesGlob(e.pattern, f.anchor.path) <=> PatternMeans(e.pattern, f.anchor.path)
    BY <2>2, GlobsMeanWhatTheySay
  <2>4. Covers(e, f) <=> /\ e.pattern # <<>> /\ MatchesGlob(e.pattern, f.anchor.path)
                         /\ e.rule \in {NoText, f.rule}
    BY <1>4 DEF Covers
  <2>5. Accepts(e, f) <=> /\ PatternMeans(e.pattern, f.anchor.path)
                          /\ e.rule = NoText \/ e.rule = f.rule
    BY <1>4 DEF Accepts
  <2>6. QED
    BY <2>1, <2>3, <2>4, <2>5
<1>5. QED
  BY <1>1, <1>2, <1>3, <1>4


\* Something suppresses a finding exactly when an exception covers it.
LEMMA SuppressedByProperties ==
  ASSUME NEW f, NEW known, IsList(known), \A e \in Range(known) : IsException(e)
  PROVE  SuppressedBy(f, known) # <<>> <=> \E e \in Range(known) : Covers(e, f)
<1> DEFINE covering == {i \in DOMAIN known : Covers(known[i], f)}
           wild     == {i \in covering : IsWildcard(known[i])}
           exact    == covering \ wild
<1>1. DOMAIN known = 1..Len(known) /\ Len(known) \in Nat
  BY ListElements
<1>2. covering # {} <=> \E e \in Range(known) : Covers(e, f)
  BY DEF Range
<1>3. \A x : <<x>> # <<>>
  OBVIOUS
<1>4. CASE covering = {}
  <2>1. exact = {} /\ wild = {}
    BY <1>4
  <2>2. SuppressedBy(f, known) = <<>>
    BY <2>1 DEF SuppressedBy
  <2>3. QED
    BY <1>2, <1>4, <2>2
<1>5. CASE covering # {}
  <2>1. exact # {} \/ wild # {}
    BY <1>5
  <2>2. \/ SuppressedBy(f, known) = <<known[Max(exact)]>>
        \/ SuppressedBy(f, known) = <<FirstAt(known, wild)>>
    BY <2>1 DEF SuppressedBy
  <2>3. QED
    BY <1>2, <1>3, <1>5, <2>2
<1>6. QED
  BY <1>4, <1>5

=============================================================================

-------------------------- MODULE ChangeRequest_proofs --------------------------
(***************************************************************************)
(* Proofs about what the runs of a change request leave at its forge, for  *)
(* any runs, any findings and patches, any comments that are there before, *)
(* and however many requests fail; and about the progress reporter, for    *)
(* any stages, any throttle and any length of the run.                     *)
(***************************************************************************)
EXTENDS ChangeRequest, Paths_proofs, FiniteSetTheorems, SequenceTheorems, TLAPS

\* The composition with the reporter adds no step to the runs.
LEMMA RequestsArePublications == RequestSpec => Spec
<1>1. RequestInit => Init
  BY DEF RequestInit
<1>2. [RequestNext]_RequestVars => [Next]_pubVars
  BY DEF RequestNext, RequestVars
<1>3. QED
  BY <1>1, <1>2, PTL DEF RequestSpec, Spec

-----------------------------------------------------------------------------
(* The state's shape. *)

Steps == {"list", "post", "plan", "write", "gate", "base", "contents"} \cup Ended

\* The comments there can be: those that were there, and the runs' own.
Commented ==
  Range(given.comments)
    \cup {CommentOf(r, f.key, answered) : r \in Runs, f \in UNION {Range(Findings(q)) : q \in Runs},
                                          answered \in BOOLEAN}

Shape ==
  /\ scenario \in DOMAIN Scenarios
  /\ comments \in Seq(Commented)
  /\ step \in [Runs -> Steps]
  /\ at \in [Runs -> Nat \ {0}]
  /\ DOMAIN known = Runs
  /\ listed \in [Runs -> Nat]

LEMMA GivenIsReal ==
  ASSUME Shape
  PROVE  /\ given.runs \subseteq Runs
         /\ given.patches \in Seq(Range(given.patches))
         /\ given.comments \in Seq(Range(given.comments))
         /\ \A c \in Range(given.comments) : c.run \notin Runs
         /\ \A r \in Runs : Findings(r) \in Seq(Range(Findings(r)))
BY ScenariosAreReal DEF ScenariosAreReal, Shape, given, IsList, Findings

\* A scenario lasts.
LEMMA GivenStays ==
  ASSUME scenario' = scenario
  PROVE  /\ given' = given /\ Commented' = Commented
         /\ \A r : Findings(r)' = Findings(r)
BY DEF given, Commented, Findings

LEMMA InitShape == Init => Shape
<1> SUFFICES ASSUME Init PROVE Shape
  OBVIOUS
<1>1. given.comments \in Seq(Range(given.comments))
  BY ScenariosAreReal DEF ScenariosAreReal, Init, given, IsList
<1>2. comments \in Seq(Commented)
  BY <1>1 DEF Init, Commented
<1>3. QED
  BY <1>2 DEF Init, Shape, Steps

\* What a run's steps after its publication do to the comments' side: nothing.
Later(r) ==
  /\ step[r] \notin {"list", "post"}
  /\ UNCHANGED <<scenario, comments, known, stats, listed>>
  /\ \E to \in Steps \ {"list", "post"}, n \in Nat \ {0} :
       step' = [step EXCEPT ![r] = to] /\ at' = [at EXCEPT ![r] = n]
  /\ replies' = replies \/ replies' = Append(replies, Blocked(r))

FixStep(r) ==
  \/ Plan(r) \/ Write(r) \/ Gate(r)
  \/ ReadBase(r) \/ ReadContent(r)
  \/ CommitToGitHub(r) \/ CommitToGitLab(r) \/ CommitLocally(r)

LEMMA GoesOn ==
  ASSUME Shape, NEW r \in Runs, NEW to \in Steps, Goes(r, to) \/ (step[r] = to /\ Advances(r))
  PROVE  \E n \in Nat \ {0} : step' = [step EXCEPT ![r] = to] /\ at' = [at EXCEPT ![r] = n]
<1>1. CASE Goes(r, to)
  <2>1. 1 \in Nat \ {0} /\ step' = [step EXCEPT ![r] = to] /\ at' = [at EXCEPT ![r] = 1]
    BY <1>1 DEF Goes
  <2>2. QED
    BY <2>1
<1>2. CASE step[r] = to /\ Advances(r)
  <2>1. at[r] + 1 \in Nat \ {0} /\ step' = [step EXCEPT ![r] = to]
    BY <1>2 DEF Shape, Advances
  <2>2. QED
    BY <1>2, <2>1 DEF Advances
<1>3. QED
  BY <1>1, <1>2

LEMMA FixStepIsLater ==
  ASSUME Shape, NEW r \in Runs, FixStep(r)
  PROVE  Later(r)
<1> USE DEF Later, forgeVars, mutateVars
<1>0. {"plan", "write", "gate", "base", "contents", "done", "failed", "rejected", "blocked"}
        \subseteq Steps \ {"list", "post"}
  BY DEF Steps, Ended
<1>1. CASE Plan(r)
  BY <1>0, <1>1, GoesOn DEF Plan
<1>2. CASE Write(r)
  BY <1>0, <1>2, GoesOn DEF Write, Works
<1>3. CASE Gate(r)
  BY <1>0, <1>3, GoesOn DEF Gate
<1>4. CASE ReadBase(r)
  BY <1>0, <1>4, GoesOn DEF ReadBase
<1>5. CASE ReadContent(r)
  BY <1>0, <1>5, GoesOn DEF ReadContent
<1>6. CASE CommitToGitHub(r)
  BY <1>0, <1>6, GoesOn DEF CommitToGitHub
<1>7. CASE CommitToGitLab(r)
  BY <1>0, <1>7, GoesOn DEF CommitToGitLab
<1>8. CASE CommitLocally(r)
  BY <1>0, <1>8, GoesOn DEF CommitLocally
<1>9. QED
  BY <1>1, <1>2, <1>3, <1>4, <1>5, <1>6, <1>7, <1>8 DEF FixStep

\* What a post leaves: a comment of the run more, whose answer came, or was lost; or nothing.
PostedAs(r) ==
  LET f == Findings(r)[at[r]]
  IN  \/ /\ comments' = Append(comments, CommentOf(r, f.key, TRUE))
         /\ IF given.forge = "local" THEN known' = known ELSE Learns(r, f.key)
         /\ Counts(r, "published")
      \/ /\ comments' = Append(comments, CommentOf(r, f.key, FALSE))
         /\ known' = known /\ Counts(r, "failed") /\ given.forge # "local"
      \/ comments' = comments /\ known' = known /\ Counts(r, "failed") /\ given.forge # "local"

LEMMA PostIsPosted ==
  ASSUME NEW r \in Runs, Post(r)
  PROVE  PostedAs(r)
BY DEF Post, PostedAs, Forgets

LEMMA AppendedComment ==
  ASSUME Shape, NEW r \in Runs, at[r] <= Len(Findings(r)), NEW answered \in BOOLEAN,
         comments' = Append(comments, CommentOf(r, Findings(r)[at[r]].key, answered))
  PROVE  /\ comments' \in Seq(Commented)
         /\ Len(comments') = Len(comments) + 1 /\ Len(comments) \in Nat
         /\ \A i \in 1..Len(comments) : comments'[i] = comments[i]
         /\ comments'[Len(comments) + 1] = CommentOf(r, Findings(r)[at[r]].key, answered)
<1>1. Findings(r)[at[r]] \in Range(Findings(r))
  <2>1. Findings(r) \in Seq(Range(Findings(r)))
    BY GivenIsReal
  <2>2. at[r] \in DOMAIN Findings(r)
    BY <2>1 DEF Shape
  <2>3. QED
    BY <2>2 DEF Range
<1>2. CommentOf(r, Findings(r)[at[r]].key, answered) \in Commented
  BY <1>1 DEF Commented
<1>3. comments \in Seq(Commented)
  BY DEF Shape
<1>4. QED
  BY <1>2, <1>3, AppendProperties

LEMMA NextShape == Shape /\ [Next]_pubVars => Shape'
<1> SUFFICES ASSUME Shape, [Next]_pubVars PROVE Shape'
  OBVIOUS
<1>0. {"list", "post", "plan", "done", "failed"} \subseteq Steps
  BY DEF Steps, Ended
<1>1. CASE UNCHANGED pubVars
  BY <1>1, GivenStays DEF pubVars, forgeVars, mutateVars, Shape
<1>2. CASE Push
  BY <1>2, GivenStays DEF Push, forgeVars, mutateVars, Shape
<1>3. ASSUME NEW r \in Runs, FixStep(r)
      PROVE  Shape'
  <2>1. Later(r)
    BY <1>3, FixStepIsLater
  <2>2. QED
    BY <2>1, GivenStays DEF Later, Shape
<1>4. ASSUME NEW r \in Runs, List(r)
      PROVE  Shape'
  <2>1. Len(comments) \in Nat
    BY DEF Shape
  <2>2. \E to \in Steps, n \in Nat \ {0} :
          step' = [step EXCEPT ![r] = to] /\ at' = [at EXCEPT ![r] = n]
    BY <1>0, <1>4, GoesOn DEF List
  <2>3. /\ DOMAIN known' = Runs /\ listed' \in [Runs -> Nat]
        /\ scenario' = scenario /\ comments' = comments
    BY <1>4, <2>1 DEF List, Shape, forgeVars
  <2>4. QED
    BY <2>2, <2>3, GivenStays DEF Shape
<1>5. ASSUME NEW r \in Runs, Skip(r)
      PROVE  Shape'
  <2>1. \E to \in Steps, n \in Nat \ {0} :
          step' = [step EXCEPT ![r] = to] /\ at' = [at EXCEPT ![r] = n]
    BY <1>0, <1>5, GoesOn DEF Skip
  <2>2. UNCHANGED <<scenario, comments, known, listed>>
    BY <1>5 DEF Skip, forgeVars
  <2>3. QED
    BY <2>1, <2>2, GivenStays DEF Shape
<1>6. ASSUME NEW r \in Runs, Post(r)
      PROVE  Shape'
  <2>1. \E to \in Steps, n \in Nat \ {0} :
          step' = [step EXCEPT ![r] = to] /\ at' = [at EXCEPT ![r] = n]
    BY <1>0, <1>6, GoesOn DEF Post
  <2>2. UNCHANGED <<scenario, listed>> /\ at[r] <= Len(Findings(r))
    BY <1>6 DEF Post
  <2>3. PostedAs(r)
    BY <1>6, PostIsPosted
  <2>4. comments' \in Seq(Commented)
    BY <2>2, <2>3, AppendedComment DEF PostedAs, Shape
  <2>5. DOMAIN known' = Runs
    BY <2>3 DEF PostedAs, Learns, Shape
  <2>6. QED
    BY <2>1, <2>2, <2>4, <2>5, GivenStays DEF Shape
<1>7. ASSUME NEW r \in Runs, RefsMissing(r) \/ Summarize(r)
      PROVE  Shape'
  <2>1. \E to \in Steps, n \in Nat \ {0} :
          step' = [step EXCEPT ![r] = to] /\ at' = [at EXCEPT ![r] = n]
    BY <1>0, <1>7, GoesOn DEF RefsMissing, Summarize
  <2>2. UNCHANGED <<scenario, comments, known, listed>>
    BY <1>7 DEF RefsMissing, Summarize, forgeVars
  <2>3. QED
    BY <2>1, <2>2, GivenStays DEF Shape
<1>8. QED
  BY <1>1, <1>2, <1>3, <1>4, <1>5, <1>6, <1>7, GivenIsReal DEF Next, RunStep, FixStep

-----------------------------------------------------------------------------
(* One comment per finding. *)

\* A run that posts knows the keys of the bot's comments that it listed, and of its own that
\* were answered; one that has not listed yet has posted nothing.
Informed(r) ==
  /\ listed[r] <= Len(comments)
  /\ step[r] = "list" => \A i \in 1..Len(comments) : comments[i].run # r
  /\ step[r] = "post" /\ given.forge # "local" =>
       \A i \in 1..Len(comments) :
         \/ comments[i].by = Bot /\ i <= readCap /\ i <= listed[r]
         \/ comments[i].run = r /\ comments[i].answered
         => comments[i].key \in known[r]

OnceInv == CommentedOnce /\ \A r \in Runs : Informed(r)

\* Comments that stay, of a run that does not begin to post.
LEMMA StaysInformed ==
  ASSUME Shape, NEW r \in Runs, Informed(r), comments' = comments, scenario' = scenario,
         listed'[r] = listed[r], known'[r] = known[r],
         step'[r] = step[r] \/ step'[r] \notin {"list", "post"}
  PROVE  Informed(r)'
BY GivenStays DEF Informed

LEMMA StaysOnce ==
  ASSUME Shape, CommentedOnce, comments' = comments, scenario' = scenario, listed' = listed
  PROVE  CommentedOnce'
BY GivenStays DEF CommentedOnce

LEMMA ListKeepsOnce ==
  ASSUME Shape, OnceInv, NEW r \in Runs, List(r)
  PROVE  OnceInv'
<1>0. /\ step[r] = "list" /\ comments' = comments /\ scenario' = scenario
      /\ Len(comments) \in Nat /\ DOMAIN comments = 1..Len(comments) /\ readCap \in Nat
  BY ScenariosAreReal DEF List, forgeVars, Shape, ScenariosAreReal
<1>1. CASE Goes(r, "failed") /\ UNCHANGED <<known, listed>>
  <2>1. \A q \in Runs : step'[q] = step[q] \/ step'[q] \notin {"list", "post"}
    BY <1>1 DEF Goes, Shape
  <2>2. QED
    BY <1>0, <1>1, <2>1, StaysInformed, StaysOnce DEF OnceInv
<1>2. CASE /\ known' = IF given.forge = "local" THEN known
                       ELSE [known EXCEPT ![r] = KeysOf(comments)]
           /\ listed' = [listed EXCEPT ![r] = Len(comments)]
           /\ Goes(r, "post")
  <2>1. /\ listed'[r] = Len(comments) /\ step'[r] = "post"
        /\ \A q \in Runs \ {r} : listed'[q] = listed[q] /\ step'[q] = step[q] /\ known'[q] = known[q]
    BY <1>2 DEF Goes, Shape
  <2>2. given.forge # "local" => known'[r] = KeysOf(comments)
    BY <1>2 DEF Shape
  <2>3. \A i \in 1..Len(comments) : comments[i].run # r
    BY <1>0 DEF OnceInv, Informed
  <2>4. Informed(r)'
    BY <1>0, <2>1, <2>2, <2>3, GivenStays DEF Informed, KeysOf
  <2>5. \A q \in Runs \ {r} : Informed(q)'
    BY <1>0, <2>1, StaysInformed DEF OnceInv
  <2>6. CommentedOnce'
    <3>1. \A j \in 1..Len(comments) :
            comments[j].run \in Runs => listed'[comments[j].run] = listed[comments[j].run]
      BY <2>1, <2>3
    <3>2. QED
      BY <1>0, <3>1, GivenStays DEF OnceInv, CommentedOnce
  <2>7. QED
    BY <2>4, <2>5, <2>6 DEF OnceInv
<1>3. QED
  BY <1>1, <1>2 DEF List

\* A post is of a key the run does not know: the other comments with that key came after it
\* had listed, were not read, or are its own and were never answered.
LEMMA PostKeepsOnce ==
  ASSUME Shape, OnceInv, NEW r \in Runs, Post(r)
  PROVE  OnceInv'
<1> DEFINE n == Len(comments)
           key == Findings(r)[at[r]].key
<1>1. /\ step[r] = "post" /\ step' = step /\ listed' = listed /\ scenario' = scenario
      /\ at[r] <= Len(Findings(r)) /\ key \notin known[r]
  BY DEF Post, Advances
<1>2. PostedAs(r)
  BY PostIsPosted
<1>3. /\ n \in Nat /\ DOMAIN comments = 1..n /\ readCap \in Nat
      /\ listed \in [Runs -> Nat] /\ \A q \in Runs : listed[q] <= n
  BY ScenariosAreReal DEF Shape, ScenariosAreReal, OnceInv, Informed
<1>4. CASE comments' = comments /\ known' = known
  BY <1>1, <1>4, StaysInformed, StaysOnce DEF OnceInv
<1>5. ASSUME NEW answered \in BOOLEAN,
             comments' = Append(comments, CommentOf(r, key, answered)),
             known' = known \/ Learns(r, key),
             answered /\ given.forge # "local" => Learns(r, key)
      PROVE  OnceInv'
  <2>1. /\ Len(comments') = n + 1 /\ DOMAIN comments' = 1..(n + 1)
        /\ \A i \in 1..n : comments'[i] = comments[i]
        /\ comments'[n + 1] = [by |-> Bot, key |-> key, run |-> r, answered |-> answered]
    BY <1>1, <1>3, <1>5, AppendedComment DEF CommentOf
  <2>2. /\ \A q \in Runs : known[q] \subseteq known'[q]
        /\ answered /\ given.forge # "local" => key \in known'[r]
    BY <1>5 DEF Learns, Shape
  <2> HIDE DEF n, key
  <2>a. n = Len(comments)
    BY DEF n
  <2>3. ASSUME NEW q \in Runs
        PROVE  Informed(q)'
    <3>1. Informed(q)
      BY DEF OnceInv
    <3>2. (listed[q] <= Len(comments))'
      BY <1>1, <1>3, <2>1
    <3>3. step'[q] = "list" => \A i \in 1..(n + 1) : comments'[i].run # q
      BY <1>1, <1>3, <2>1, <2>a, <3>1 DEF Informed
    <3>4. ASSUME step'[q] = "post", given.forge # "local", NEW i \in 1..(n + 1),
                 \/ comments'[i].by = Bot /\ i <= readCap /\ i <= listed[q]
                 \/ comments'[i].run = q /\ comments'[i].answered
          PROVE  comments'[i].key \in known'[q]
      <4>1. CASE i \in 1..n
        BY <1>1, <2>1, <2>2, <2>a, <3>1, <3>4, <4>1 DEF Informed
      <4>2. CASE i = n + 1
        <5>1. q = r /\ answered
          BY <1>3, <2>1, <3>4, <4>2
        <5>2. QED
          BY <2>1, <2>2, <3>4, <4>2, <5>1
      <4>3. QED
        BY <1>3, <4>1, <4>2
    <3>5. QED
      BY <1>1, <2>1, <3>2, <3>3, <3>4, GivenStays DEF Informed
  <2>4. CommentedOnce'
    <3> SUFFICES ASSUME given.forge # "local",
                        NEW i \in 1..(n + 1), NEW j \in 1..(n + 1),
                        i < j, comments'[i].by = Bot, comments'[j].by = Bot,
                        comments'[i].key = comments'[j].key, comments'[j].run \in Runs
                 PROVE  \/ i > readCap
                        \/ /\ i > listed[comments'[j].run]
                           /\ comments'[i].run = comments'[j].run => ~comments'[i].answered
      BY <1>1, <2>1, GivenStays DEF CommentedOnce
    <3>1. CASE j \in 1..n
      <4>1. i \in 1..n
        BY <1>3, <3>1
      <4>2. QED
        BY <1>3, <2>1, <3>1, <4>1 DEF OnceInv, CommentedOnce
    <3>2. CASE j = n + 1
      <4>1. i \in 1..n /\ comments'[i] = comments[i] /\ comments[i].key = key
        BY <1>3, <2>1, <3>2
      <4>2. comments[i].key \notin known[r] /\ comments'[j].run = r
        BY <1>1, <2>1, <3>2, <4>1 DEF key
      <4>3. /\ ~(comments[i].by = Bot /\ i <= readCap /\ i <= listed[r])
            /\ ~(comments[i].run = r /\ comments[i].answered)
        BY <1>1, <2>a, <4>1, <4>2 DEF OnceInv, Informed
      <4>4. i \in Nat /\ listed[r] \in Nat
        BY <1>3
      <4>5. QED
        BY <1>3, <4>1, <4>2, <4>3, <4>4
    <3>3. QED
      BY <1>3, <3>1, <3>2
  <2>5. QED
    BY <2>3, <2>4 DEF OnceInv
<1> HIDE DEF n
<1>6. QED
  BY <1>2, <1>4, <1>5 DEF PostedAs

LEMMA OtherStepsKeepOnce ==
  ASSUME Shape, OnceInv, UNCHANGED <<scenario, comments, known, listed>>,
         \A q \in Runs : step'[q] = step[q] \/ step'[q] \notin {"list", "post"}
  PROVE  OnceInv'
BY StaysInformed, StaysOnce DEF OnceInv

LEMMA NextOnce == Shape /\ OnceInv /\ [Next]_pubVars => OnceInv'
<1> SUFFICES ASSUME Shape, OnceInv, [Next]_pubVars PROVE OnceInv'
  OBVIOUS
<1>1. CASE UNCHANGED pubVars
  BY <1>1, OtherStepsKeepOnce DEF pubVars, forgeVars
<1>2. CASE Push
  BY <1>2, OtherStepsKeepOnce DEF Push
<1>3. ASSUME NEW r \in Runs, FixStep(r)
      PROVE  OnceInv'
  <2>1. Later(r)
    BY <1>3, FixStepIsLater
  <2>2. QED
    BY <2>1, OtherStepsKeepOnce DEF Later, Shape
<1>4. ASSUME NEW r \in Runs, List(r)
      PROVE  OnceInv'
  BY <1>4, ListKeepsOnce
<1>5. ASSUME NEW r \in Runs, Post(r)
      PROVE  OnceInv'
  BY <1>5, PostKeepsOnce
<1>6. ASSUME NEW r \in Runs, Skip(r)
      PROVE  OnceInv'
  BY <1>6, OtherStepsKeepOnce DEF Skip, Advances, forgeVars
<1>7. ASSUME NEW r \in Runs, RefsMissing(r) \/ Summarize(r)
      PROVE  OnceInv'
  <2>1. UNCHANGED <<scenario, comments, known, listed>>
    BY <1>7 DEF RefsMissing, Summarize, forgeVars
  <2>2. \A q \in Runs : step'[q] = step[q] \/ step'[q] \notin {"list", "post"}
    BY <1>7 DEF RefsMissing, Summarize, Goes, Shape
  <2>3. QED
    BY <2>1, <2>2, OtherStepsKeepOnce
<1>8. QED
  BY <1>1, <1>2, <1>3, <1>4, <1>5, <1>6, <1>7, GivenIsReal DEF Next, RunStep, FixStep

LEMMA ShapeInvariant == Spec => []Shape
BY InitShape, NextShape, PTL DEF Spec

\* A finding that several runs report, or that one run reports again after a request that
\* failed, is commented once: two comments of the bot carry one key only if the later run
\* had read the comments before the earlier was posted (and, if that is its own, never had
\* the answer to it), or if the earlier is beyond the pages that are read.
THEOREM FindingsCommentedOnce == RequestSpec => []CommentedOnce
<1>1. Init => OnceInv
  <2> SUFFICES ASSUME Init PROVE OnceInv
    OBVIOUS
  <2>1. Shape
    BY InitShape
  <2>2. comments = given.comments /\ Len(comments) \in Nat
    BY <2>1 DEF Init, Shape
  <2>3. \A i \in 1..Len(comments) : comments[i].run \notin Runs
    <3>1. \A i \in 1..Len(comments) : comments[i] \in Range(given.comments)
      BY <2>1, <2>2 DEF Shape, Range
    <3>2. QED
      BY <2>1, <3>1, GivenIsReal
  <2>4. CommentedOnce
    BY <2>1, <2>3 DEF CommentedOnce, Shape
  <2>5. \A r \in Runs : Informed(r)
    BY <2>2, <2>3 DEF Init, Informed
  <2>6. QED
    BY <2>4, <2>5 DEF OnceInv
<1>2. Spec => []OnceInv
  BY <1>1, NextOnce, ShapeInvariant, PTL DEF Spec
<1>3. OnceInv => CommentedOnce
  BY DEF OnceInv
<1>4. QED
  BY <1>2, <1>3, RequestsArePublications, PTL

-----------------------------------------------------------------------------
(* No finding is forgotten. *)

Stats == [published : Nat, degraded : Nat, failed : Nat]
KeysFound(r) == {f.key : f \in Range(Findings(r))}
Replies ==
  [run : Runs, kind : {"summary", "validation"}, stats : Stats,
   inline : SUBSET UNION {KeysFound(r) : r \in Runs},
   degraded : SUBSET UNION {KeysFound(r) : r \in Runs}]

\* The keys in the bot's comments, a run's answered comments, and of its first n findings
\* those that are not anchored and those that are in no comment.
KeysPosted == {comments[i].key : i \in {j \in 1..Len(comments) : comments[j].by = Bot}}
Own(r) == {i \in 1..Len(comments) : comments[i].run = r /\ comments[i].answered}
Loose(r, n) == {i \in 1..n : ~Findings(r)[i].anchored}
Bare(r, n) == {i \in 1..n : Findings(r)[i].anchored /\ Findings(r)[i].key \notin KeysPosted}

\* What a run counted of its first n findings adds up.
Counted(r, n) ==
  stats[r].degraded = Cardinality(Loose(r, n)) /\ Cardinality(Bare(r, n)) <= stats[r].failed

Tallied(r) ==
  /\ known[r] \subseteq KeysPosted
  /\ stats[r].published = Cardinality(Own(r))
  /\ step[r] = "list" => stats[r] = NoStats
  /\ step[r] = "post" => \E n \in 0..Len(Findings(r)) : at[r] = n + 1 /\ Counted(r, n)

\* A summary tells the figures its run ended with.
IsTrue(s) ==
  s.kind = "summary" =>
    /\ step[s.run] \notin {"list", "post"}
    /\ s.stats = stats[s.run]
    /\ s.inline \cup s.degraded = KeysFound(s.run)
    /\ Counted(s.run, Len(Findings(s.run)))

TallyInv ==
  /\ stats \in [Runs -> Stats]
  /\ replies \in Seq(Replies)
  /\ \A r \in Runs : Tallied(r)
  /\ \A s \in Range(replies) : IsTrue(s)

\* The counted sets are finite, and one finding more adds it to one of them at most.
LEMMA CountsAreFinite ==
  ASSUME NEW r, NEW n \in Nat
  PROVE  /\ IsFiniteSet(Loose(r, n)) /\ Cardinality(Loose(r, n)) \in Nat
         /\ IsFiniteSet(Bare(r, n)) /\ Cardinality(Bare(r, n)) \in Nat
<1>1. IsFiniteSet(1..n)
  BY FS_Interval
<1>2. Loose(r, n) \subseteq 1..n /\ Bare(r, n) \subseteq 1..n
  BY DEF Loose, Bare
<1>3. QED
  BY <1>1, <1>2, FS_Subset, FS_CardinalityType

LEMMA OneMoreFinding ==
  ASSUME NEW r, NEW n \in Nat
  PROVE  LET f == Findings(r)[n + 1]
         IN  /\ Cardinality(Loose(r, n + 1)) =
                  Cardinality(Loose(r, n)) + (IF f.anchored THEN 0 ELSE 1)
             /\ Cardinality(Bare(r, n + 1)) <= Cardinality(Bare(r, n)) + 1
             /\ ~f.anchored \/ f.key \in KeysPosted => Bare(r, n + 1) = Bare(r, n)
<1> DEFINE f == Findings(r)[n + 1]
<1>1. 1..(n + 1) = (1..n) \cup {n + 1} /\ n + 1 \notin 1..n
  OBVIOUS
<1>2. /\ IsFiniteSet(Loose(r, n)) /\ Cardinality(Loose(r, n)) \in Nat
      /\ IsFiniteSet(Bare(r, n)) /\ Cardinality(Bare(r, n)) \in Nat
  BY CountsAreFinite
<1>3. n + 1 \notin Loose(r, n) /\ n + 1 \notin Bare(r, n)
  BY <1>1 DEF Loose, Bare
<1>4. Loose(r, n + 1) = IF f.anchored THEN Loose(r, n) ELSE Loose(r, n) \cup {n + 1}
  BY <1>1 DEF Loose
<1>5. Bare(r, n + 1) = IF f.anchored /\ f.key \notin KeysPosted THEN Bare(r, n) \cup {n + 1}
                       ELSE Bare(r, n)
  BY <1>1 DEF Bare
<1>6. /\ Cardinality(Loose(r, n) \cup {n + 1}) = Cardinality(Loose(r, n)) + 1
      /\ Cardinality(Bare(r, n) \cup {n + 1}) = Cardinality(Bare(r, n)) + 1
  BY <1>2, <1>3, FS_AddElement
<1> HIDE DEF f
<1>7. /\ Cardinality(Loose(r, n + 1)) = Cardinality(Loose(r, n)) + (IF f.anchored THEN 0 ELSE 1)
      /\ Cardinality(Bare(r, n + 1)) <= Cardinality(Bare(r, n)) + 1
      /\ ~f.anchored \/ f.key \in KeysPosted => Bare(r, n + 1) = Bare(r, n)
  BY <1>2, <1>4, <1>5, <1>6
<1>8. QED
  BY <1>7 DEF f

\* Comments are only added, so what is in a comment stays in one.
LEMMA CountsStay ==
  ASSUME scenario' = scenario, KeysPosted \subseteq KeysPosted', NEW r, NEW n \in Nat
  PROVE  /\ Loose(r, n)' = Loose(r, n) /\ Bare(r, n)' \subseteq Bare(r, n)
         /\ Cardinality(Bare(r, n)') <= Cardinality(Bare(r, n))
         /\ Cardinality(Bare(r, n)') \in Nat
<1>1. Loose(r, n)' = Loose(r, n) /\ Bare(r, n)' \subseteq Bare(r, n)
  BY GivenStays DEF Loose, Bare
<1>2. QED
  BY <1>1, CountsAreFinite, FS_Subset, FS_CardinalityType

LEMMA CountedStays ==
  ASSUME scenario' = scenario, KeysPosted \subseteq KeysPosted', stats \in [Runs -> Stats],
         NEW r \in Runs, stats'[r] = stats[r], NEW n \in Nat, Counted(r, n)
  PROVE  Counted(r, n)'
<1>1. stats[r].failed \in Nat
  BY DEF Stats
<1>2. /\ Cardinality(Loose(r, n)') = Cardinality(Loose(r, n))
      /\ Cardinality(Bare(r, n)') <= Cardinality(Bare(r, n))
      /\ Cardinality(Bare(r, n)') \in Nat /\ Cardinality(Bare(r, n)) \in Nat
  BY CountsStay, CountsAreFinite
<1>3. QED
  BY <1>1, <1>2 DEF Counted

LEMMA StaysTallied ==
  ASSUME scenario' = scenario, comments' = comments, stats \in [Runs -> Stats],
         NEW r \in Runs, Tallied(r), stats'[r] = stats[r], known'[r] = known[r],
         (step'[r] = step[r] /\ at'[r] = at[r]) \/ step'[r] \notin {"list", "post"}
  PROVE  Tallied(r)'
<1>1. KeysPosted' = KeysPosted /\ Own(r)' = Own(r)
  BY DEF KeysPosted, Own
<1>2. step'[r] = "list" => stats'[r] = NoStats
  BY DEF Tallied
<1>3. step'[r] = "post" => \E n \in 0..Len(Findings(r)') : at'[r] = n + 1 /\ Counted(r, n)'
  BY <1>1, CountedStays, GivenStays DEF Tallied
<1>4. QED
  BY <1>1, <1>2, <1>3 DEF Tallied

\* What a summary said stays so once its run has published.
LEMMA StaysTrue ==
  ASSUME Shape, scenario' = scenario, KeysPosted \subseteq KeysPosted',
         stats \in [Runs -> Stats], NEW s \in Replies, IsTrue(s),
         s.kind = "summary" => /\ stats'[s.run] = stats[s.run]
                               /\ step'[s.run] \notin {"list", "post"}
  PROVE  IsTrue(s)'
<1> SUFFICES ASSUME s.kind = "summary" PROVE IsTrue(s)'
  BY DEF IsTrue
<1>1. s.run \in Runs
  BY DEF Replies
<1>2. PICK n \in Nat : n = Len(Findings(s.run))
  BY <1>1, GivenIsReal
<1>3. Counted(s.run, n)'
  BY <1>1, <1>2, CountedStays DEF IsTrue
<1>4. Findings(s.run)' = Findings(s.run) /\ KeysFound(s.run)' = KeysFound(s.run)
  BY GivenStays DEF KeysFound
<1>5. Counted(s.run, Len(Findings(s.run)))'
  BY <1>2, <1>3, <1>4
<1>6. QED
  BY <1>4, <1>5 DEF IsTrue

\* A step of a run that has not published yet bears on no summary.
LEMMA RepliesStayTrue ==
  ASSUME Shape, TallyInv, scenario' = scenario, KeysPosted \subseteq KeysPosted',
         NEW r \in Runs, step[r] \in {"list", "post"},
         \A q \in Runs \ {r} : stats'[q] = stats[q] /\ step'[q] = step[q]
  PROVE  \A s \in Range(replies) : IsTrue(s)'
<1> TAKE s \in Range(replies)
<1>1. s \in Replies /\ IsTrue(s)
  BY DEF TallyInv, Range
<1>2. s.kind = "summary" => s.run \in Runs \ {r} /\ step[s.run] \notin {"list", "post"}
  BY <1>1 DEF IsTrue, Replies
<1>3. QED
  BY <1>1, <1>2, StaysTrue DEF TallyInv

LEMMA RepliesTyped == scenario' = scenario => Replies' = Replies
BY GivenStays DEF Replies, KeysFound

LEMMA CountsAdds ==
  ASSUME stats \in [Runs -> Stats], NEW r \in Runs,
         NEW field \in {"published", "degraded", "failed"}, Counts(r, field)
  PROVE  /\ stats' \in [Runs -> Stats]
         /\ stats'[r].published = stats[r].published + (IF field = "published" THEN 1 ELSE 0)
         /\ stats'[r].degraded = stats[r].degraded + (IF field = "degraded" THEN 1 ELSE 0)
         /\ stats'[r].failed = stats[r].failed + (IF field = "failed" THEN 1 ELSE 0)
         /\ \A q \in Runs \ {r} : stats'[q] = stats[q]
<1> DEFINE counted == [stats[r] EXCEPT ![field] = @ + 1]
<1>1. stats[r] \in Stats
  OBVIOUS
<1>2. /\ counted \in Stats
      /\ counted.published = stats[r].published + (IF field = "published" THEN 1 ELSE 0)
      /\ counted.degraded = stats[r].degraded + (IF field = "degraded" THEN 1 ELSE 0)
      /\ counted.failed = stats[r].failed + (IF field = "failed" THEN 1 ELSE 0)
  BY <1>1 DEF Stats
<1>3. stats' = [stats EXCEPT ![r] = counted]
  BY DEF Counts
<1> HIDE DEF counted
<1>4. QED
  BY <1>2, <1>3

LEMMA ListTallies ==
  ASSUME Shape, TallyInv, NEW r \in Runs, List(r)
  PROVE  TallyInv'
<1>1. /\ step[r] = "list" /\ scenario' = scenario /\ comments' = comments
      /\ stats' = stats /\ replies' = replies
  BY DEF List, forgeVars
<1>2. KeysPosted' = KeysPosted /\ Own(r)' = Own(r)
  BY <1>1 DEF KeysPosted, Own
<1>3. \A q \in Runs \ {r} : step'[q] = step[q] /\ at'[q] = at[q] /\ known'[q] = known[q]
  BY DEF List, Goes, Shape
<1>4. \A q \in Runs \ {r} : Tallied(q)'
  BY <1>1, <1>3, StaysTallied DEF TallyInv
<1>5. Tallied(r)'
  <2>1. known'[r] \subseteq KeysPosted
    <3>1. known[r] \subseteq KeysPosted
      BY DEF TallyInv, Tallied
    <3>2. KeysOf(comments) \subseteq KeysPosted
      BY DEF KeysOf, KeysPosted, Shape
    <3>3. QED
      BY <3>1, <3>2 DEF List, Shape
  <2>2. step'[r] \in {"post", "failed"} /\ at'[r] = 1
    BY DEF List, Goes, Shape
  <2>3. stats[r] = NoStats /\ stats[r].published = Cardinality(Own(r))
    BY <1>1 DEF TallyInv, Tallied
  <2>4. 0 \in 0..Len(Findings(r)') /\ 1 = 0 + 1
    BY <1>1, GivenIsReal, GivenStays
  <2>5. Counted(r, 0)'
    <3>1. Loose(r, 0)' = {} /\ Bare(r, 0)' = {}
      BY DEF Loose, Bare
    <3>2. QED
      BY <1>1, <2>3, <3>1, FS_EmptySet DEF Counted, NoStats
  <2>6. QED
    BY <1>1, <1>2, <2>1, <2>2, <2>3, <2>4, <2>5 DEF Tallied
<1>6. \A s \in Range(replies') : IsTrue(s)'
  BY <1>1, <1>2, <1>3, RepliesStayTrue
<1>7. QED
  BY <1>1, <1>4, <1>5, <1>6, RepliesTyped DEF TallyInv

LEMMA SkipTallies ==
  ASSUME Shape, TallyInv, NEW r \in Runs, Skip(r)
  PROVE  TallyInv'
<1> DEFINE f == Findings(r)[at[r]]
<1>1. /\ step[r] = "post" /\ at[r] <= Len(Findings(r)) /\ scenario' = scenario
      /\ comments' = comments /\ replies' = replies /\ known' = known /\ step' = step
      /\ at' = [at EXCEPT ![r] = @ + 1]
  BY DEF Skip, Advances, forgeVars
<1>2. KeysPosted' = KeysPosted /\ Own(r)' = Own(r)
  BY <1>1 DEF KeysPosted, Own
<1>4. \/ ~f.anchored /\ Counts(r, "degraded")
      \/ f.anchored /\ f.key \in known[r] /\ stats' = stats
  BY DEF Skip
<1>0. stats \in [Runs -> Stats] /\ stats[r] \in Stats
  BY DEF TallyInv
<1>5. /\ stats' \in [Runs -> Stats] /\ \A q \in Runs \ {r} : stats'[q] = stats[q]
      /\ stats'[r].published = stats[r].published /\ stats'[r].failed = stats[r].failed
      /\ stats'[r].degraded = stats[r].degraded + (IF f.anchored THEN 0 ELSE 1)
  <2>1. CASE Counts(r, "degraded") /\ ~f.anchored
    BY <1>0, <2>1, CountsAdds DEF Stats
  <2>2. CASE stats' = stats /\ f.anchored
    BY <1>0, <2>2 DEF Stats
  <2>3. QED
    BY <1>4, <2>1, <2>2
<1>6. \A q \in Runs \ {r} : Tallied(q)'
  BY <1>1, <1>5, StaysTallied DEF TallyInv, Shape
<1>7. Tallied(r)'
  <2>1. PICK n \in 0..Len(Findings(r)) : at[r] = n + 1 /\ Counted(r, n)
    BY <1>1 DEF TallyInv, Tallied
  <2>2. /\ n \in Nat /\ n + 1 \in 0..Len(Findings(r)') /\ at'[r] = (n + 1) + 1
    BY <1>1, <2>1, GivenIsReal, GivenStays DEF Shape
  <2>3. known[r] \subseteq KeysPosted
    BY DEF TallyInv, Tallied
  <2>4. Counted(r, n + 1)'
    <3>1. /\ Cardinality(Loose(r, n + 1)) =
               Cardinality(Loose(r, n)) + (IF f.anchored THEN 0 ELSE 1)
          /\ Cardinality(Bare(r, n + 1)) = Cardinality(Bare(r, n))
      BY <1>4, <2>1, <2>2, <2>3, OneMoreFinding
    <3>2. /\ Cardinality(Loose(r, n + 1)') = Cardinality(Loose(r, n + 1))
          /\ Cardinality(Bare(r, n + 1)') <= Cardinality(Bare(r, n + 1))
          /\ Cardinality(Bare(r, n + 1)') \in Nat /\ Cardinality(Bare(r, n)) \in Nat
      BY <1>1, <1>2, <2>2, CountsStay, CountsAreFinite
    <3> HIDE DEF f
    <3>3. stats[r].failed \in Nat
      BY <1>0 DEF Stats
    <3>4. QED
      BY <1>5, <2>1, <3>1, <3>2, <3>3 DEF Counted
  <2>5. stats'[r].published = Cardinality(Own(r))
    BY <1>5 DEF TallyInv, Tallied
  <2>6. QED
    BY <1>1, <1>2, <2>2, <2>3, <2>4, <2>5 DEF Tallied
<1>8. \A s \in Range(replies') : IsTrue(s)'
  BY <1>1, <1>2, <1>5, RepliesStayTrue
<1>9. QED
  BY <1>1, <1>5, <1>6, <1>7, <1>8, RepliesTyped DEF TallyInv

\* What a post does to the comments' keys and to the runs' own comments.
LEMMA PostedKeys ==
  ASSUME Shape, NEW r \in Runs, Post(r)
  PROVE  LET key == Findings(r)[at[r]].key
         IN  /\ KeysPosted \subseteq KeysPosted'
             /\ \A q \in Runs \ {r} : Own(q)' = Own(q)
             /\ \/ /\ Counts(r, "published") /\ key \in KeysPosted'
                   /\ Cardinality(Own(r)') = Cardinality(Own(r)) + 1
                \/ Counts(r, "failed") /\ Own(r)' = Own(r)
<1> DEFINE n == Len(comments)
           key == Findings(r)[at[r]].key
<1>0. PostedAs(r)
  BY PostIsPosted
<1>1. at[r] <= Len(Findings(r)) /\ n \in Nat
  BY DEF Post, Shape
<1>2. CASE comments' = comments /\ Counts(r, "failed")
  BY <1>2 DEF KeysPosted, Own
<1>3. ASSUME NEW answered \in BOOLEAN, comments' = Append(comments, CommentOf(r, key, answered))
      PROVE  /\ KeysPosted \subseteq KeysPosted' /\ key \in KeysPosted'
             /\ \A q \in Runs \ {r} : Own(q)' = Own(q)
             /\ Own(r)' = IF answered THEN Own(r) \cup {n + 1} ELSE Own(r)
  <2>1. /\ Len(comments') = n + 1 /\ \A i \in 1..n : comments'[i] = comments[i]
        /\ comments'[n + 1] = [by |-> Bot, key |-> key, run |-> r, answered |-> answered]
    BY <1>1, <1>3, AppendedComment DEF CommentOf
  <2> HIDE DEF key
  <2>2. 1..(n + 1) = (1..n) \cup {n + 1}
    BY <1>1
  <2>3. KeysPosted \subseteq KeysPosted' /\ key \in KeysPosted'
    BY <2>1, <2>2 DEF KeysPosted
  <2>4. \A q \in Runs \ {r} : Own(q)' = Own(q)
    BY <2>1, <2>2 DEF Own
  <2>5. Own(r)' = IF answered THEN Own(r) \cup {n + 1} ELSE Own(r)
    BY <2>1, <2>2 DEF Own
  <2>6. QED
    BY <2>3, <2>4, <2>5
<1>4. Cardinality(Own(r) \cup {n + 1}) = Cardinality(Own(r)) + 1
  <2>1. Own(r) \subseteq 1..n
    BY DEF Own
  <2>2. IsFiniteSet(1..n) /\ n + 1 \notin 1..n
    BY <1>1, FS_Interval
  <2>3. QED
    BY <2>1, <2>2, FS_Subset, FS_AddElement
<1>5. QED
  BY <1>0, <1>2, <1>3, <1>4 DEF PostedAs

LEMMA PostTallies ==
  ASSUME Shape, TallyInv, NEW r \in Runs, Post(r)
  PROVE  TallyInv'
<1> DEFINE f == Findings(r)[at[r]]
<1>0. stats \in [Runs -> Stats] /\ stats[r] \in Stats
  BY DEF TallyInv
<1>1. /\ step[r] = "post" /\ at[r] <= Len(Findings(r)) /\ scenario' = scenario
      /\ replies' = replies /\ step' = step
      /\ at' = [at EXCEPT ![r] = @ + 1] /\ f.anchored
  BY DEF Post, Advances
<1>2. /\ KeysPosted \subseteq KeysPosted' /\ \A q \in Runs \ {r} : Own(q)' = Own(q)
      /\ \/ /\ Counts(r, "published") /\ f.key \in KeysPosted'
            /\ Cardinality(Own(r)') = Cardinality(Own(r)) + 1
         \/ Counts(r, "failed") /\ Own(r)' = Own(r)
  BY PostedKeys
<1>3. /\ \A q \in Runs \ {r} : known'[q] = known[q]
      /\ known'[r] = known[r] \/ (known'[r] = known[r] \cup {f.key} /\ Counts(r, "published"))
  <2>1. PostedAs(r)
    BY PostIsPosted
  <2>2. QED
    BY <2>1 DEF PostedAs, Learns, Shape
<1>4. /\ stats' \in [Runs -> Stats] /\ \A q \in Runs \ {r} : stats'[q] = stats[q]
      /\ stats'[r].degraded = stats[r].degraded
      /\ Counts(r, "published") => /\ stats'[r].published = stats[r].published + 1
                                   /\ stats'[r].failed = stats[r].failed
      /\ Counts(r, "failed") => /\ stats'[r].published = stats[r].published
                                /\ stats'[r].failed = stats[r].failed + 1
  <2>1. ASSUME Counts(r, "published")
        PROVE  /\ stats' \in [Runs -> Stats] /\ \A q \in Runs \ {r} : stats'[q] = stats[q]
               /\ stats'[r].degraded = stats[r].degraded
               /\ stats'[r].published = stats[r].published + 1
               /\ stats'[r].failed = stats[r].failed
    BY <1>0, <2>1, CountsAdds DEF Stats
  <2>2. ASSUME Counts(r, "failed")
        PROVE  /\ stats' \in [Runs -> Stats] /\ \A q \in Runs \ {r} : stats'[q] = stats[q]
               /\ stats'[r].degraded = stats[r].degraded
               /\ stats'[r].published = stats[r].published
               /\ stats'[r].failed = stats[r].failed + 1
    BY <1>0, <2>2, CountsAdds DEF Stats
  <2>3. QED
    BY <1>2, <2>1, <2>2
<1>5. ASSUME NEW q \in Runs \ {r} PROVE Tallied(q)'
  <2>1. Tallied(q) /\ stats'[q] = stats[q] /\ stats \in [Runs -> Stats]
    BY <1>4 DEF TallyInv
  <2>2. step'[q] = step[q] /\ at'[q] = at[q]
    BY <1>1 DEF Shape
  <2>3. step'[q] = "post" =>
          \E n \in 0..Len(Findings(q)') : at'[q] = n + 1 /\ Counted(q, n)'
    BY <1>1, <1>2, <2>1, <2>2, CountedStays, GivenStays DEF Tallied
  <2>4. QED
    BY <1>2, <1>3, <2>1, <2>2, <2>3 DEF Tallied
<1>6. Tallied(r)'
  <2>1. PICK n \in 0..Len(Findings(r)) : at[r] = n + 1 /\ Counted(r, n)
    BY <1>1 DEF TallyInv, Tallied
  <2>2. /\ n \in Nat /\ n + 1 \in 0..Len(Findings(r)') /\ at'[r] = (n + 1) + 1
    BY <1>1, <2>1, GivenIsReal, GivenStays DEF Shape
  <2>3. known[r] \subseteq KeysPosted /\ stats[r].published = Cardinality(Own(r))
    BY DEF TallyInv, Tallied
  <2>4. Counted(r, n + 1)'
    <3>0. /\ Cardinality(Bare(r, n)) \in Nat /\ Cardinality(Loose(r, n)) \in Nat
          /\ n + 1 \in Nat /\ Cardinality(Bare(r, n + 1)) \in Nat
      BY <2>2, CountsAreFinite
    <3>1. /\ Cardinality(Loose(r, n + 1)) = Cardinality(Loose(r, n))
          /\ Cardinality(Bare(r, n + 1)) <= Cardinality(Bare(r, n)) + 1
      BY <1>1, <2>1, <2>2, <3>0, OneMoreFinding
    <3>2. /\ Cardinality(Loose(r, n + 1)') = Cardinality(Loose(r, n + 1))
          /\ Cardinality(Bare(r, n + 1)') <= Cardinality(Bare(r, n + 1))
          /\ Cardinality(Bare(r, n + 1)') \in Nat
      BY <1>1, <1>2, <2>2, CountsStay
    <3>3. f.key \in KeysPosted' => Bare(r, n + 1)' \subseteq Bare(r, n)
      <4>1. Bare(r, n + 1)' \subseteq Bare(r, n + 1)
        BY <1>1, <1>2, <2>2, CountsStay
      <4>2. f.key \in KeysPosted' => n + 1 \notin Bare(r, n + 1)'
        BY <1>1, <2>1, GivenStays DEF Bare
      <4>3. Bare(r, n + 1) \subseteq Bare(r, n) \cup {n + 1}
        BY <2>2 DEF Bare
      <4>4. QED
        BY <4>1, <4>2, <4>3
    <3>4. f.key \in KeysPosted' => Cardinality(Bare(r, n + 1)') <= Cardinality(Bare(r, n))
      BY <2>2, <3>3, CountsAreFinite, FS_Subset
    <3>5. stats[r].failed \in Nat /\ stats[r].degraded = Cardinality(Loose(r, n))
          /\ Cardinality(Bare(r, n)) <= stats[r].failed
      BY <1>0, <2>1 DEF Stats, Counted
    <3> HIDE DEF f
    <3>6. Cardinality(Bare(r, n + 1)') <= stats'[r].failed
      BY <1>2, <1>4, <3>0, <3>1, <3>2, <3>4, <3>5
    <3>7. QED
      BY <1>4, <3>1, <3>2, <3>5, <3>6 DEF Counted
  <2>5. stats'[r].published = Cardinality(Own(r)')
    BY <1>2, <1>4, <2>3
  <2>6. known'[r] \subseteq KeysPosted'
    <3>1. Counts(r, "published") => f.key \in KeysPosted'
      <4>1. ~(Counts(r, "published") /\ Counts(r, "failed"))
        BY <1>0, <1>4 DEF Stats
      <4>2. QED
        BY <1>2, <4>1
    <3>2. QED
      BY <1>2, <1>3, <2>3, <3>1
  <2>7. QED
    BY <1>1, <2>2, <2>4, <2>5, <2>6 DEF Tallied
<1>7. \A s \in Range(replies') : IsTrue(s)'
  BY <1>1, <1>2, <1>4, RepliesStayTrue
<1>8. QED
  BY <1>1, <1>4, <1>5, <1>6, <1>7, RepliesTyped DEF TallyInv

LEMMA AppendedReply ==
  ASSUME Shape, TallyInv, scenario' = scenario, NEW reply \in Replies,
         replies' = Append(replies, reply),
         IsTrue(reply)', \A s \in Range(replies) : IsTrue(s)'
  PROVE  replies' \in Seq(Replies') /\ \A s \in Range(replies') : IsTrue(s)'
<1>1. replies \in Seq(Replies) /\ Len(replies) \in Nat
  BY DEF TallyInv
<1>2. replies' \in Seq(Replies) /\ Len(replies') = Len(replies) + 1
  BY <1>1
<1>3. \A i \in 1..Len(replies') : replies'[i] = reply \/ replies'[i] \in Range(replies)
  BY <1>1, <1>2 DEF Range
<1>4. DOMAIN replies' = 1..Len(replies')
  BY <1>2
<1>5. \A s \in Range(replies') : s = reply \/ s \in Range(replies)
  BY <1>3, <1>4 DEF Range
<1>6. QED
  BY <1>2, <1>5, RepliesTyped

\* The publication ends: without a summary, or with one that says what was counted.
LEMMA EndTallies ==
  ASSUME Shape, TallyInv, NEW r \in Runs, RefsMissing(r) \/ Summarize(r)
  PROVE  TallyInv'
<1>1. /\ step[r] = "post" /\ scenario' = scenario /\ comments' = comments
      /\ stats' = stats /\ known' = known
  BY DEF RefsMissing, Summarize, forgeVars
<1>2. /\ step'[r] \notin {"list", "post"}
      /\ \A q \in Runs \ {r} : step'[q] = step[q] /\ at'[q] = at[q]
  BY DEF RefsMissing, Summarize, Goes, Shape
<1>3. KeysPosted' = KeysPosted
  BY <1>1 DEF KeysPosted
<1>4. \A q \in Runs : Tallied(q)'
  BY <1>1, <1>2, StaysTallied DEF TallyInv
<1>5. \A s \in Range(replies) : IsTrue(s)'
  BY <1>1, <1>2, <1>3, RepliesStayTrue
<1>6. \/ replies' = replies
      \/ replies' = Append(replies, SummaryOf(r)) /\ at[r] > Len(Findings(r))
  BY DEF RefsMissing, Summarize, forgeVars
<1>7. CASE replies' = replies
  BY <1>1, <1>4, <1>5, <1>7, RepliesTyped DEF TallyInv
<1>8. CASE replies' = Append(replies, SummaryOf(r)) /\ at[r] > Len(Findings(r))
  <2>0. PICK reply : reply = SummaryOf(r)
    OBVIOUS
  <2>1. /\ reply.run = r /\ reply.kind = "summary" /\ reply.stats = stats[r]
        /\ reply.inline \cup reply.degraded = KeysFound(r)
    BY <2>0 DEF SummaryOf, KeysFound
  <2>2. reply \in Replies
    <3>1. stats[r] \in Stats
      BY DEF TallyInv
    <3>2. /\ {f.key : f \in {g \in Range(Findings(r)) : g.anchored}} \subseteq KeysFound(r)
          /\ {f.key : f \in {g \in Range(Findings(r)) : ~g.anchored}} \subseteq KeysFound(r)
      BY DEF KeysFound
    <3>3. KeysFound(r) \subseteq UNION {KeysFound(q) : q \in Runs}
      OBVIOUS
    <3>4. QED
      BY <2>0, <3>1, <3>2, <3>3 DEF SummaryOf, Replies
  <2>3. PICK n \in 0..Len(Findings(r)) : at[r] = n + 1 /\ Counted(r, n)
    BY <1>1 DEF TallyInv, Tallied
  <2>4. n = Len(Findings(r)) /\ n \in Nat
    BY <1>8, <2>3, GivenIsReal
  <2>5. Counted(r, n)'
    BY <1>1, <1>3, <2>3, <2>4, CountedStays DEF TallyInv
  <2>6. Findings(r)' = Findings(r) /\ KeysFound(r)' = KeysFound(r)
    BY <1>1, GivenStays DEF KeysFound
  <2>7. Counted(r, Len(Findings(r)))'
    BY <2>4, <2>5, <2>6
  <2>8. IsTrue(reply)'
    BY <1>1, <1>2, <2>1, <2>6, <2>7 DEF IsTrue
  <2>9. replies' \in Seq(Replies') /\ \A s \in Range(replies') : IsTrue(s)'
    BY <1>1, <1>5, <1>8, <2>0, <2>2, <2>8, AppendedReply
  <2>10. QED
    BY <1>1, <1>4, <2>9 DEF TallyInv
<1>9. QED
  BY <1>6, <1>7, <1>8

\* What comes after the publication counts nothing, and tells at most that a validation failed.
LEMMA LaterTallies ==
  ASSUME Shape, TallyInv, NEW r \in Runs, Later(r)
  PROVE  TallyInv'
<1>1. /\ scenario' = scenario /\ comments' = comments /\ stats' = stats /\ known' = known
      /\ step[r] \notin {"list", "post"} /\ step'[r] \notin {"list", "post"}
      /\ \A q \in Runs \ {r} : step'[q] = step[q] /\ at'[q] = at[q]
  BY DEF Later, Shape
<1>2. KeysPosted' = KeysPosted
  BY <1>1 DEF KeysPosted
<1>3. \A q \in Runs : Tallied(q)'
  BY <1>1, StaysTallied DEF TallyInv
<1>4. \A s \in Range(replies) : IsTrue(s)'
  <2> TAKE s \in Range(replies)
  <2>1. s \in Replies /\ IsTrue(s)
    BY DEF TallyInv, Range
  <2>2. s.kind = "summary" => s.run \in Runs /\ step[s.run] \notin {"list", "post"}
    BY <2>1 DEF IsTrue, Replies
  <2>3. s.kind = "summary" => stats'[s.run] = stats[s.run] /\ step'[s.run] \notin {"list", "post"}
    BY <1>1, <2>2
  <2>4. QED
    BY <1>1, <1>2, <2>1, <2>3, StaysTrue DEF TallyInv
<1>5. CASE replies' = replies
  BY <1>1, <1>3, <1>4, <1>5, RepliesTyped DEF TallyInv
<1>6. CASE replies' = Append(replies, Blocked(r))
  <2>1. PICK reply : reply = Blocked(r)
    OBVIOUS
  <2>2. reply.kind = "validation" /\ reply \in Replies
    BY <2>1 DEF Blocked, Replies, TallyInv
  <2>3. IsTrue(reply)'
    BY <2>2 DEF IsTrue
  <2>4. replies' \in Seq(Replies') /\ \A s \in Range(replies') : IsTrue(s)'
    BY <1>1, <1>4, <1>6, <2>1, <2>2, <2>3, AppendedReply
  <2>5. QED
    BY <1>1, <1>3, <2>4 DEF TallyInv
<1>7. QED
  BY <1>5, <1>6 DEF Later

LEMMA RestTallies ==
  ASSUME Shape, TallyInv, UNCHANGED <<scenario, comments, replies, step, at, known, stats>>
  PROVE  TallyInv'
<1>1. KeysPosted' = KeysPosted
  BY DEF KeysPosted
<1>2. \A q \in Runs : Tallied(q)'
  BY StaysTallied DEF TallyInv
<1>3. \A s \in Range(replies) : IsTrue(s)'
  <2> TAKE s \in Range(replies)
  <2>1. s \in Replies /\ IsTrue(s)
    BY DEF TallyInv, Range
  <2>2. s.kind = "summary" => stats'[s.run] = stats[s.run] /\ step'[s.run] \notin {"list", "post"}
    BY <2>1 DEF IsTrue
  <2>3. QED
    BY <1>1, <2>1, <2>2, StaysTrue DEF TallyInv
<1>4. QED
  BY <1>2, <1>3, RepliesTyped DEF TallyInv

LEMMA NextTally == Shape /\ TallyInv /\ [Next]_pubVars => TallyInv'
<1> SUFFICES ASSUME Shape, TallyInv, [Next]_pubVars PROVE TallyInv'
  OBVIOUS
<1>1. CASE UNCHANGED pubVars
  BY <1>1, RestTallies DEF pubVars, forgeVars
<1>2. CASE Push
  BY <1>2, RestTallies DEF Push
<1>3. ASSUME NEW r \in Runs, RunStep(r)
      PROVE  TallyInv'
  BY <1>3, ListTallies, SkipTallies, PostTallies, EndTallies, FixStepIsLater, LaterTallies
     DEF RunStep, FixStep
<1>4. QED
  BY <1>1, <1>2, <1>3, GivenIsReal DEF Next

LEMMA InitTally == Init => TallyInv
<1> SUFFICES ASSUME Init PROVE TallyInv
  OBVIOUS
<1>1. Shape
  BY InitShape
<1>2. comments = given.comments /\ replies = <<>> /\ Len(comments) \in Nat
  BY <1>1 DEF Init, Shape
<1>3. \A i \in 1..Len(comments) : comments[i].run \notin Runs
  <2>1. \A i \in 1..Len(comments) : comments[i] \in Range(given.comments)
    BY <1>1, <1>2 DEF Shape, Range
  <2>2. QED
    BY <1>1, <2>1, GivenIsReal
<1>4. ASSUME NEW r \in Runs PROVE Tallied(r)
  <2>1. Own(r) = {} /\ Cardinality({}) = 0
    BY <1>3, FS_EmptySet DEF Own
  <2>2. QED
    BY <2>1 DEF Init, Tallied, NoStats
<1>5. stats \in [Runs -> Stats]
  BY DEF Init, NoStats, Stats
<1>6. replies \in Seq(Replies) /\ Range(replies) = {}
  BY <1>2 DEF Range
<1>7. QED
  BY <1>4, <1>5, <1>6 DEF TallyInv

\* No finding of a run that has published is lost: each is listed in the summary, and each
\* anchored one is in a comment of the bot unless it is among those that the summary counts
\* as failed; and what the summary counts adds up.
THEOREM EveryFindingIsTold == RequestSpec => []NothingForgotten
<1>1. Spec => []TallyInv
  BY InitTally, NextTally, ShapeInvariant, PTL DEF Spec
<1>2. Shape /\ TallyInv => NothingForgotten
  <2> SUFFICES ASSUME Shape, TallyInv, NEW s \in Range(replies), s.kind = "summary"
               PROVE  LET own      == Findings(s.run)
                          anchored == {i \in DOMAIN own : own[i].anchored}
                          posted   == {c.key : c \in {d \in Range(comments) : d.by = Bot}}
                          bare     == {i \in anchored : own[i].key \notin posted}
                      IN  /\ s.inline \cup s.degraded = {own[i].key : i \in DOMAIN own}
                          /\ s.stats.degraded = Len(own) - Cardinality(anchored)
                          /\ Cardinality(bare) <= s.stats.failed
                          /\ s.stats.published = Cardinality({i \in DOMAIN comments :
                                   comments[i].run = s.run /\ comments[i].answered})
    BY DEF NothingForgotten
  <2> DEFINE own == Findings(s.run)
             n == Len(own)
             anchored == {i \in DOMAIN own : own[i].anchored}
             posted   == {c.key : c \in {d \in Range(comments) : d.by = Bot}}
             bare     == {i \in anchored : own[i].key \notin posted}
  <2>1. s \in Replies /\ IsTrue(s)
    BY DEF TallyInv, Range
  <2>2. s.run \in Runs /\ s.stats = stats[s.run] /\ stats[s.run] \in Stats
    BY <2>1 DEF IsTrue, Replies, TallyInv
  <2>3. own \in Seq(Range(own)) /\ n \in Nat /\ DOMAIN own = 1..n
    BY <2>2, GivenIsReal
  <2>4. DOMAIN comments = 1..Len(comments)
    BY DEF Shape
  <2>5. s.inline \cup s.degraded = {own[i].key : i \in DOMAIN own}
    BY <2>1 DEF IsTrue, KeysFound, Range
  <2>6. anchored = (1..n) \ Loose(s.run, n) /\ Loose(s.run, n) \subseteq 1..n
    BY <2>3 DEF Loose
  <2>7. Cardinality(Loose(s.run, n)) = n - Cardinality(anchored)
    <3>1. IsFiniteSet(1..n) /\ Cardinality(1..n) = n
      <4> HIDE DEF n
      <4>1. QED
        BY <2>3, FS_Interval
    <3>2. /\ (1..n) \cap Loose(s.run, n) = Loose(s.run, n)
          /\ Cardinality(Loose(s.run, n)) \in Nat
      BY <2>3, <2>6, CountsAreFinite
    <3>3. Cardinality(anchored) = n - Cardinality(Loose(s.run, n))
      BY <2>6, <3>1, <3>2, FS_Difference
    <3> HIDE DEF n, anchored
    <3>4. QED
      BY <2>3, <3>2, <3>3
  <2>8. bare = Bare(s.run, n)
    <3>1. posted = KeysPosted
      BY <2>4 DEF KeysPosted, Range
    <3>2. QED
      BY <2>3, <3>1 DEF Bare
  <2>9. Counted(s.run, n) /\ Tallied(s.run)
    BY <2>1, <2>2 DEF IsTrue, TallyInv
  <2>10. s.stats.published = Cardinality({i \in DOMAIN comments :
                               comments[i].run = s.run /\ comments[i].answered})
    BY <2>2, <2>4, <2>9 DEF Tallied, Own
  <2>11. s.stats.degraded = n - Cardinality(anchored) /\ Cardinality(bare) <= s.stats.failed
    BY <2>2, <2>7, <2>8, <2>9 DEF Counted
  <2>12. QED
    BY <2>5, <2>10, <2>11
<1>3. QED
  BY <1>1, <1>2, ShapeInvariant, RequestsArePublications, PTL

-----------------------------------------------------------------------------
(* All or nothing is written. *)

\* A patch that phase 1 lets pass, on the files as they were; and what such patches write.
Passes(patch) ==
  LET applied == AppliedTo(given.files, patch)
  IN  /\ applied.ok
      /\ ~RejectsWrite(patch.path, patch.hunks, ContentOf(given.files, FileOf(patch)),
                       applied.content, given.changed, given.binary)
AllPass == \A i \in DOMAIN Patched : Passes(Patched[i])
Planned ==
  {[path |-> FileOf(Patched[i]), content |-> AppliedTo(given.files, Patched[i]).content] :
     i \in DOMAIN Patched}

\* A workspace is untouched until its run has looked at every patch, what differs in it is
\* what a patch wrote, and only a run that has ended may have made a branch.
Careful(r) ==
  /\ step[r] \in {"list", "post", "plan"} => disk[r] = given.files
  /\ disk[r] # given.files => AllPass
  /\ step[r] = "write" => AllPass /\ plan[r] \in Seq(Planned)
  /\ \A p \in DOMAIN disk[r] :
       disk[r][p] # ContentOf(given.files, p) =>
         \E w \in Planned : w.path = p /\ disk[r][p] = w.content
  /\ step[r] \notin {"done", "failed"} => \A b \in DOMAIN branches : branches[b].by # r

CarefulInv ==
  DOMAIN disk = Runs /\ DOMAIN plan = Runs /\ \A r \in Runs : Careful(r)

LEMMA WhatIsPlannedStays ==
  ASSUME scenario' = scenario
  PROVE  AllPass' = AllPass /\ Planned' = Planned
BY GivenStays DEF AllPass, Planned, Passes, AppliedTo, Patched, ContentOf

\* A step that leaves a workspace, and the plan of a run that writes, as they are.
LEMMA StaysCareful ==
  ASSUME scenario' = scenario, NEW q \in Runs, Careful(q), disk'[q] = disk[q],
         step'[q] \in {"list", "post", "plan"} => step[q] \in {"list", "post", "plan"},
         step'[q] = "write" => step[q] = "write" /\ plan'[q] = plan[q],
         step'[q] \notin {"done", "failed"} =>
           /\ step[q] \notin {"done", "failed"}
           /\ \A b \in DOMAIN branches' :
                (b \in DOMAIN branches /\ branches'[b] = branches[b]) \/ branches'[b].by # q
  PROVE  Careful(q)'
<1>1. AllPass' = AllPass /\ Planned' = Planned
  BY WhatIsPlannedStays
<1>2. \A p : ContentOf(given.files, p)' = ContentOf(given.files, p)
  BY GivenStays DEF ContentOf
<1>3. given.files' = given.files
  BY GivenStays
<1>4. step'[q] \notin {"done", "failed"} => \A b \in DOMAIN branches' : branches'[b].by # q
  BY DEF Careful
<1>5. QED
  BY <1>1, <1>2, <1>3, <1>4 DEF Careful

\* Of the steps of a run that write nothing, plan nothing and make no branch.
LEMMA IdlyCareful ==
  ASSUME Shape, CarefulInv, scenario' = scenario, UNCHANGED <<disk, branches>>,
         NEW r \in Runs, \A q \in Runs \ {r} : step'[q] = step[q] /\ plan'[q] = plan[q],
         DOMAIN plan' = DOMAIN plan, step[r] \notin {"done", "failed"}, step'[r] # "write",
         step'[r] \in {"list", "post", "plan"} => step[r] \in {"list", "post", "plan"}
  PROVE  CarefulInv'
<1>1. \A q \in Runs : Careful(q)'
  BY StaysCareful DEF CarefulInv
<1>2. QED
  BY <1>1 DEF CarefulInv

LEMMA RestIsCareful ==
  ASSUME CarefulInv, UNCHANGED <<scenario, step, disk, plan, branches>>
  PROVE  CarefulInv'
BY StaysCareful DEF CarefulInv

\* A run that ends with a branch or without one.
LEMMA CommitIsCareful ==
  ASSUME Shape, CarefulInv, scenario' = scenario, UNCHANGED <<disk, plan>>,
         NEW r \in Runs, \A q \in Runs \ {r} : step'[q] = step[q],
         step'[r] \in {"done", "failed"},
         branches' = branches \/ \E made : made.by = r /\ branches' = With(branches, Name(r), made)
  PROVE  CarefulInv'
<1>1. ASSUME NEW q \in Runs \ {r}, NEW b \in DOMAIN branches'
      PROVE  (b \in DOMAIN branches /\ branches'[b] = branches[b]) \/ branches'[b].by # q
  <2>1. CASE branches' = branches
    BY <2>1
  <2>2. ASSUME NEW made, made.by = r, branches' = With(branches, Name(r), made)
        PROVE  (b \in DOMAIN branches /\ branches'[b] = branches[b]) \/ branches'[b].by # q
    BY <2>2 DEF With
  <2>3. QED
    BY <2>1, <2>2
<1>2. \A q \in Runs \ {r} : Careful(q)'
  BY <1>1, StaysCareful DEF CarefulInv
<1>3. Careful(r)'
  BY StaysCareful DEF CarefulInv
<1>4. QED
  BY <1>2, <1>3 DEF CarefulInv

LEMMA PlanIsCareful ==
  ASSUME Shape, CarefulInv, NEW r \in Runs, Plan(r)
  PROVE  CarefulInv'
<1>1. /\ step[r] = "plan" /\ UNCHANGED <<scenario, disk, branches>>
      /\ plan' = [plan EXCEPT ![r] = PlanOf(r, Patched)]
      /\ step' = [step EXCEPT ![r] = IF Patched = <<>> THEN "done"
                                     ELSE IF plan'[r] = <<>> THEN "rejected" ELSE "write"]
  BY DEF Plan, Goes, forgeVars
<1>2. /\ \A q \in Runs \ {r} : step'[q] = step[q] /\ plan'[q] = plan[q]
      /\ DOMAIN plan' = Runs /\ plan'[r] = PlanOf(r, Patched)
      /\ step'[r] \in {"done", "rejected", "write"}
      /\ step'[r] = "write" => PlanOf(r, Patched) # <<>>
  BY <1>1 DEF Shape, CarefulInv
<1>3. \A q \in Runs \ {r} : Careful(q)'
  BY <1>1, <1>2, StaysCareful DEF CarefulInv
<1>4. disk[r] = given.files /\ Careful(r)
  BY <1>1 DEF CarefulInv, Careful
<1>5. CASE step'[r] # "write"
  <2>1. Careful(r)'
    BY <1>1, <1>2, <1>4, <1>5, StaysCareful
  <2>2. QED
    BY <1>1, <1>2, <1>3, <2>1 DEF CarefulInv
<1>6. CASE step'[r] = "write"
  <2>1. \A i \in DOMAIN Patched : ~Refused(r, Patched[i])
    BY <1>2, <1>6 DEF PlanOf
  <2>2. AllPass
    BY <1>4, <2>1 DEF AllPass, Passes, Refused
  <2>3. plan'[r] = [i \in DOMAIN Patched |->
                     [path |-> FileOf(Patched[i]),
                      content |-> AppliedTo(given.files, Patched[i]).content]]
    BY <1>2, <1>4, <2>1 DEF PlanOf
  <2>4. DOMAIN Patched = 1..Len(Patched) /\ Len(Patched) \in Nat
    BY GivenIsReal DEF Patched
  <2>5. plan'[r] \in Seq(Planned)
    <3>1. \A i \in 1..Len(Patched) :
            [path |-> FileOf(Patched[i]), content |-> AppliedTo(given.files, Patched[i]).content]
              \in Planned
      BY <2>4 DEF Planned
    <3>2. plan'[r] \in [1..Len(Patched) -> Planned]
      BY <2>3, <2>4, <3>1
    <3>3. QED
      BY <2>4, <3>2
  <2>6. \A p \in DOMAIN disk[r] : disk[r][p] = ContentOf(given.files, p)
    BY <1>4 DEF ContentOf
  <2>7. /\ AllPass' /\ plan'[r] \in Seq(Planned') /\ disk'[r] = given.files'
        /\ \A p \in DOMAIN disk'[r] : disk'[r][p] = ContentOf(given.files, p)'
    BY <1>1, <1>4, <2>2, <2>5, <2>6, WhatIsPlannedStays, GivenStays DEF ContentOf
  <2>8. \A b \in DOMAIN branches' : branches'[b].by # r
    BY <1>1, <1>4 DEF Careful
  <2>9. Careful(r)'
    BY <1>6, <2>7, <2>8 DEF Careful
  <2>10. QED
    BY <1>1, <1>2, <1>3, <2>9 DEF CarefulInv
<1>7. QED
  BY <1>5, <1>6

LEMMA WriteIsCareful ==
  ASSUME Shape, CarefulInv, NEW r \in Runs, Write(r)
  PROVE  CarefulInv'
<1>1. step[r] = "write" /\ UNCHANGED <<scenario, branches, plan>>
  BY DEF Write, forgeVars
<1>2. /\ Careful(r) /\ DOMAIN plan = Runs /\ DOMAIN disk = Runs
      /\ AllPass /\ plan[r] \in Seq(Planned)
  BY <1>1 DEF CarefulInv, Careful
<1>3. CASE disk' = disk /\ (Goes(r, "gate") \/ Goes(r, "failed"))
  <2>1. step'[r] \in {"gate", "failed"} /\ \A q \in Runs \ {r} : step'[q] = step[q]
    BY <1>3 DEF Goes, Shape
  <2>2. QED
    BY <1>1, <1>3, <2>1, IdlyCareful
<1>4. CASE /\ Advances(r) /\ at[r] <= Len(plan[r])
           /\ disk' = [disk EXCEPT ![r] = With(@, plan[r][at[r]].path, plan[r][at[r]].content)]
  <2>1. PICK w \in Planned : w = plan[r][at[r]]
    <3>1. at[r] \in 1..Len(plan[r])
      BY <1>2, <1>4 DEF Shape
    <3>2. QED
      BY <1>2, <3>1
  <2>2. /\ disk'[r] = With(disk[r], w.path, w.content) /\ DOMAIN disk' = Runs
        /\ \A q \in Runs \ {r} : disk'[q] = disk[q]
        /\ step' = step
    BY <1>2, <1>4, <2>1 DEF Advances
  <2>3. \A q \in Runs \ {r} : Careful(q)'
    BY <1>1, <2>2, StaysCareful DEF CarefulInv
  <2>4. \A p \in DOMAIN disk'[r] :
          disk'[r][p] # ContentOf(given.files, p) =>
            \E v \in Planned : v.path = p /\ disk'[r][p] = v.content
    <3> SUFFICES ASSUME NEW p \in DOMAIN disk'[r], disk'[r][p] # ContentOf(given.files, p)
                 PROVE  \E v \in Planned : v.path = p /\ disk'[r][p] = v.content
      OBVIOUS
    <3>1. CASE p = w.path
      BY <2>2, <3>1 DEF With
    <3>2. CASE p # w.path
      <4>1. p \in DOMAIN disk[r] /\ disk'[r][p] = disk[r][p]
        BY <2>2, <3>2 DEF With
      <4>2. QED
        BY <1>2, <4>1 DEF Careful
    <3>3. QED
      BY <3>1, <3>2
  <2>5. Careful(r)'
    <3>1. AllPass' /\ Planned' = Planned /\ given' = given
      BY <1>1, <1>2, WhatIsPlannedStays, GivenStays
    <3>2. \A p : ContentOf(given.files, p)' = ContentOf(given.files, p)
      BY <3>1 DEF ContentOf
    <3>3. \A b \in DOMAIN branches' : branches'[b].by # r
      BY <1>1, <1>2 DEF Careful
    <3>4. QED
      BY <1>1, <1>2, <2>2, <2>4, <3>1, <3>2, <3>3 DEF Careful
  <2>6. QED
    BY <1>1, <1>2, <2>2, <2>3, <2>5 DEF CarefulInv
<1>5. at[r] \in Nat /\ Len(plan[r]) \in Nat
  BY <1>2 DEF Shape
<1>6. QED
  BY <1>3, <1>4, <1>5 DEF Write

\* The steps that come before a run plans, and those in which it validates and reads.
IdleStep(r) ==
  \/ List(r) \/ Skip(r) \/ Post(r) \/ RefsMissing(r) \/ Summarize(r)
  \/ Gate(r) \/ ReadBase(r) \/ ReadContent(r)

LEMMA IdleStepIsCareful ==
  ASSUME Shape, CarefulInv, NEW r \in Runs, IdleStep(r)
  PROVE  CarefulInv'
<1>1. scenario' = scenario /\ UNCHANGED <<disk, branches>>
  BY DEF IdleStep, List, Skip, Post, RefsMissing, Summarize, Gate, ReadBase, ReadContent,
         forgeVars, mutateVars
<1>2. DOMAIN plan' = DOMAIN plan /\ \A q \in Runs \ {r} : plan'[q] = plan[q]
  BY DEF IdleStep, List, Skip, Post, RefsMissing, Summarize, Gate, ReadBase, ReadContent,
         forgeVars, mutateVars, CarefulInv
<1>3. \/ step[r] = "list" /\ (Goes(r, "post") \/ Goes(r, "failed"))
      \/ step[r] = "post" /\ Advances(r)
      \/ step[r] = "post" /\ (Goes(r, "plan") \/ Goes(r, "done") \/ Goes(r, "failed"))
      \/ step[r] = "gate" /\ (Goes(r, "base") \/ Goes(r, "blocked") \/ Goes(r, "failed"))
      \/ step[r] = "base" /\ (Goes(r, "contents") \/ Goes(r, "failed"))
      \/ step[r] = "contents" /\ (Advances(r) \/ Goes(r, "failed"))
  BY DEF IdleStep, List, Skip, Post, RefsMissing, Summarize, Gate, ReadBase, ReadContent
<1>4. /\ \A q \in Runs \ {r} : step'[q] = step[q]
      /\ step[r] \notin {"done", "failed"} /\ step'[r] # "write"
      /\ step'[r] \in {"list", "post", "plan"} => step[r] \in {"list", "post", "plan"}
  BY <1>3 DEF Goes, Advances, Shape
<1>5. QED
  BY <1>1, <1>2, <1>4, IdlyCareful

LEMMA CommitStepIsCareful ==
  ASSUME Shape, CarefulInv, NEW r \in Runs,
         CommitToGitHub(r) \/ CommitToGitLab(r) \/ CommitLocally(r)
  PROVE  CarefulInv'
<1>1. scenario' = scenario /\ UNCHANGED <<disk, plan>>
  BY DEF CommitToGitHub, CommitToGitLab, CommitLocally, mutateVars
<1>2. Goes(r, "done") \/ Goes(r, "failed")
  BY DEF CommitToGitHub, CommitToGitLab, CommitLocally
<1>3. step'[r] \in {"done", "failed"} /\ \A q \in Runs \ {r} : step'[q] = step[q]
  BY <1>2 DEF Goes, Shape
<1>4. \A from, entries : Branch(r, from, entries).by = r
  BY DEF Branch
<1>5. branches' = branches \/ \E made : made.by = r /\ branches' = With(branches, Name(r), made)
  BY <1>4 DEF CommitToGitHub, CommitToGitLab, CommitLocally, Creates
<1>6. QED
  BY <1>1, <1>3, <1>5, CommitIsCareful

LEMMA NextCareful == Shape /\ CarefulInv /\ [Next]_pubVars => CarefulInv'
<1> SUFFICES ASSUME Shape, CarefulInv, [Next]_pubVars PROVE CarefulInv'
  OBVIOUS
<1>1. CASE UNCHANGED pubVars
  BY <1>1, RestIsCareful DEF pubVars, forgeVars, mutateVars
<1>2. CASE Push
  BY <1>2, RestIsCareful DEF Push, mutateVars
<1>3. ASSUME NEW r \in Runs, RunStep(r)
      PROVE  CarefulInv'
  BY <1>3, IdleStepIsCareful, PlanIsCareful, WriteIsCareful, CommitStepIsCareful
     DEF RunStep, IdleStep
<1>4. QED
  BY <1>1, <1>2, <1>3, GivenIsReal DEF Next

LEMMA InitCareful == Init => CarefulInv
BY DEF Init, CarefulInv, Careful, ContentOf

-----------------------------------------------------------------------------
(* What phase 1 lets pass is behind no red line. *)

\* Dropping the leading `./` leaves the last segment of a path.
LEMMA NormalPathKeepsTheName ==
  ASSUME NEW path, IsList(path)
  PROVE  /\ Len(NormalPath(path)) \in Nat
         /\ NormalPath(path) # <<>> => Last(NormalPath(path)) = Last(path)
<1> DEFINE own == {i \in DOMAIN path : path[i] # "." \/ i = Len(path)}
<1>1. path \in Seq(Range(path)) /\ DOMAIN path = 1..Len(path) /\ Len(path) \in Nat
  BY DEF IsList
<1>2. CASE own = {}
  BY <1>2 DEF NormalPath
<1>3. CASE own # {}
  <2>1. own \in SUBSET Nat /\ own \subseteq 1..Len(path)
    BY <1>1
  <2>2. PICK first \in own : first = Min(own)
    <3> HIDE DEF own
    <3>1. \E i \in own : \A j \in own : i <= j
      BY <1>3, <2>1, LeastNatural
    <3>2. QED
      BY <3>1 DEF Min
  <2>3. NormalPath(path) = SubSeq(path, first, Len(path))
    BY <1>3, <2>2 DEF NormalPath
  <2>4. first \in 1..Len(path)
    BY <2>1, <2>2
  <2> HIDE DEF own
  <2>5. /\ Len(NormalPath(path)) = Len(path) - first + 1
        /\ \A i \in 1..(Len(path) - first + 1) : NormalPath(path)[i] = path[first + i - 1]
    BY <1>1, <2>3, <2>4, SubSeqProperties
  <2>6. NormalPath(path)[Len(NormalPath(path))] = path[Len(path)]
    BY <1>1, <2>4, <2>5
  <2>7. QED
    BY <1>1, <2>4, <2>5, <2>6 DEF Last
<1>4. QED
  BY <1>2, <1>3

LEMMA PassedIsBehindNoRedLine ==
  ASSUME Shape, NEW patch, IsList(patch.path), Passes(patch), NormalPath(patch.path) = FileOf(patch)
  PROVE  LET file   == FileOf(patch)
             before == ContentOf(given.files, file)
         IN  /\ ~Guarded(file)
             /\ IsManifest(file) =>
                  ScriptsOf(AppliedTo(given.files, patch).content) = ScriptsOf(before)
<1> DEFINE file   == FileOf(patch)
           before == ContentOf(given.files, file)
<1>1. /\ ~RedLine(patch.path, patch.hunks, given.changed, given.binary)
      /\ IsManifest(patch.path) =>
           ScriptsOf(before) = ScriptsOf(AppliedTo(given.files, patch).content)
  BY DEF Passes, RejectsWrite, ScriptsChanged
<1>0. NormalPath(patch.path) = file
  OBVIOUS
<1> HIDE DEF file
<1>2. /\ IsSafeRelativePath(file) /\ file \notin given.binary
      /\ \A pattern \in protectedPaths : ~MatchesGlob(pattern, file)
      /\ Last(file) \in Lockfiles => ManifestFor(file) \in given.changed
  BY <1>0, <1>1 DEF RedLine
<1>3. Len(file) \in Nat /\ Last(file) = Last(patch.path)
  BY <1>0, <1>2, NormalPathKeepsTheName DEF IsSafeRelativePath
<1>4. ASSUME NEW pattern \in protectedPaths PROVE ~PatternMeans(pattern, file)
  <2>1. Len(pattern) \in Nat
    BY ProtectedAreReal DEF ProtectedAreReal, IsList
  <2>2. QED
    BY <1>2, <1>3, <2>1, GlobsMeanWhatTheySay
<1>5. ~Guarded(file)
  BY <1>2, <1>4 DEF Guarded
<1>6. IsManifest(file) => ScriptsOf(AppliedTo(given.files, patch).content) = ScriptsOf(before)
  BY <1>1, <1>3 DEF IsManifest
<1>7. QED
  BY <1>5, <1>6 DEF file

\* A fix is written whole or not at all: a workspace that differs from the change request's
\* head was written by patches that phase 1 let pass, every one of them; but for files that a patch
\* names with empty segments or dots, which the red lines do not see through, no file behind a red
\* line differs and every manifest has the scripts it had; and a run that validation stopped has
\* made no branch (mutate, rejectWrite).
THEOREM NoPartialFix == RequestSpec => []AllOrNothing
<1>1. Spec => []CarefulInv
  BY InitCareful, NextCareful, ShapeInvariant, PTL DEF Spec
<1>2. Shape /\ CarefulInv => AllOrNothing
  <2> SUFFICES ASSUME Shape, CarefulInv, NEW r \in Runs
               PROVE  /\ \A p \in DOMAIN disk[r] : IsSpelledOut(p) => RedLineHolds(r, p)
                      /\ disk[r] # given.files => \A i \in DOMAIN Patched :
                           AppliedTo(given.files, Patched[i]).ok
                      /\ step[r] = "blocked" => \A b \in DOMAIN branches : branches[b].by # r
    BY DEF AllOrNothing
  <2>1. Careful(r)
    BY DEF CarefulInv
  <2>2. ASSUME NEW p \in DOMAIN disk[r], IsSpelledOut(p), disk[r][p] # ContentOf(given.files, p)
        PROVE  /\ ~Guarded(p)
               /\ IsManifest(p) => ScriptsOf(disk[r][p]) = ScriptsOf(ContentOf(given.files, p))
    <3>1. disk[r] # given.files
      BY <2>2 DEF ContentOf
    <3>2. PICK i \in DOMAIN Patched :
            p = FileOf(Patched[i]) /\ disk[r][p] = AppliedTo(given.files, Patched[i]).content
      BY <2>1, <2>2 DEF Careful, Planned
    <3>3. Passes(Patched[i])
      BY <2>1, <3>1, <3>2 DEF Careful, AllPass
    <3>4. IsList(Patched[i].path)
      <4>1. Patched[i] \in Range(given.patches)
        BY <3>2 DEF Range, Patched
      <4>2. QED
        BY <4>1, ScenariosAreReal DEF ScenariosAreReal, IsPatch, Shape, given
    <3>5. NormalPath(Patched[i].path) = FileOf(Patched[i])
      BY <2>2, <3>2 DEF IsSpelledOut
    <3>6. QED
      BY <3>2, <3>3, <3>4, <3>5, PassedIsBehindNoRedLine
  <2>3. disk[r] # given.files => \A i \in DOMAIN Patched : AppliedTo(given.files, Patched[i]).ok
    BY <2>1 DEF Careful, AllPass, Passes
  <2>4. step[r] = "blocked" => \A b \in DOMAIN branches : branches[b].by # r
    BY <2>1 DEF Careful
  <2>5. \A p \in DOMAIN disk[r] : IsSpelledOut(p) => RedLineHolds(r, p)
    BY <2>2 DEF RedLineHolds
  <2>6. QED
    BY <2>3, <2>4, <2>5
<1>3. QED
  BY <1>1, <1>2, ShapeInvariant, RequestsArePublications, PTL

-----------------------------------------------------------------------------
(* What a hunk does to a file. *)

\* What a provider reads a hunk of a diff as.
IsHunk(hunk) == IsList(hunk.lines) /\ hunk.old \in Nat /\ CountOf(hunk.count) \in Nat

\* A line of the new side, were there no marker behind it.
Unmarked(content, hunk, i) ==
  IF hunk.lines[i].kind = "context" THEN content[OldPlace(hunk, i)] ELSE Line(hunk.lines[i].text)

\* Where all lines come from.
HasLines(T, content, hunk) ==
  /\ Range(content) \subseteq T /\ BlankLine \in T
  /\ \A i \in DOMAIN hunk.lines :
       /\ Unmarked(content, hunk, i) \in T /\ NewLine(content, hunk, i) \in T
       /\ LastLine(hunk.lines[i].text) \in T

\* What is put out after n lines is the new side so far, but for a marker that is yet to come.
OutIs(T, content, hunk, start, n, picked, s) ==
  IF s.last \in {"add", "context"}
  THEN \E body \in Seq(T), k \in NewLines(hunk) :
         /\ picked = Append(body, NewLine(content, hunk, k))
         /\ s.out = start \o Append(body, Unmarked(content, hunk, k))
         /\ Unmarked(content, hunk, k).text = hunk.lines[k].text
         /\ k <= n /\ \A m \in (k + 1)..n : hunk.lines[m].kind = "blank"
  ELSE s.out = start \o picked

\* One element more at the end.
LEMMA LastAppended ==
  ASSUME NEW T, NEW body \in Seq(T), NEW x \in T
  PROVE  Append(body, x) # <<>> /\ Last(Append(body, x)) = x /\ Front(Append(body, x)) = body
<1> DEFINE N    == Len(body)
           more == Append(body, x)
<1>1. /\ N \in Nat /\ Len(more) = N + 1 /\ more[N + 1] = x /\ more \in Seq(T)
      /\ \A i \in 1..N : more[i] = body[i]
  OBVIOUS
<1> HIDE DEF more
<1>2. more # <<>> /\ Last(more) = x
  BY <1>1 DEF Last
<1>3. SubSeq(more, 1, N) = body
  BY <1>1
<1>4. Front(more) = body
  BY <1>1, <1>3 DEF Front
<1>5. QED
  BY <1>2, <1>4 DEF more

\* The old lines up to a line, counted.
LEMMA OldPlaces ==
  ASSUME NEW hunk, IsHunk(hunk)
  PROVE  /\ Target(hunk) \in Int /\ OldPlace(hunk, 0) = Target(hunk)
         /\ OldPlace(hunk, Len(hunk.lines)) = EndOf(hunk)
         /\ \A n \in 0..Len(hunk.lines) :
              OldPlace(hunk, n) \in Int /\ Target(hunk) <= OldPlace(hunk, n)
         /\ \A n \in 1..Len(hunk.lines) :
              OldPlace(hunk, n) = OldPlace(hunk, n - 1) + IF n \in OldLines(hunk) THEN 1 ELSE 0
<1> DEFINE N      == Len(hunk.lines)
           old    == OldLines(hunk)
           Now(n) == {j \in old : j <= n}
<1>1. N \in Nat /\ old \subseteq 1..N /\ DOMAIN hunk.lines = 1..N
  BY ListElements DEF IsHunk, OldLines
<1>0. \A j \in old : j \in Nat /\ 1 <= j /\ j <= N
  BY <1>1
<1>2. Target(hunk) \in Int
  BY DEF IsHunk, Target
<1>3. \A n : OldPlace(hunk, n) = Target(hunk) + Cardinality(Now(n))
  BY DEF OldPlace
<1>4. EndOf(hunk) = Target(hunk) + Cardinality(old)
  BY DEF EndOf
<1> HIDE DEF N, old
<1>5. \A n \in 0..N : IsFiniteSet(Now(n)) /\ Cardinality(Now(n)) \in Nat
  <2> TAKE n \in 0..N
  <2>1. IsFiniteSet(1..N)
    BY <1>1, FS_Interval
  <2>2. Now(n) \subseteq 1..N
    BY <1>1
  <2>3. QED
    BY <2>1, <2>2, FS_Subset, FS_CardinalityType
<1>6. Cardinality(Now(0)) = 0
  <2>1. Now(0) = {}
    BY <1>0
  <2>2. QED
    BY <2>1, FS_EmptySet
<1>7. Now(N) = old
  BY <1>0
<1>8. ASSUME NEW n \in 1..N
      PROVE  Cardinality(Now(n)) = Cardinality(Now(n - 1)) + IF n \in old THEN 1 ELSE 0
  <2>0. n - 1 \in 0..N /\ n \in Nat
    BY <1>1
  <2>1. IsFiniteSet(Now(n - 1)) /\ Cardinality(Now(n - 1)) \in Nat
    BY <1>5, <2>0
  <2>2. CASE n \in old
    <3>0. n \notin Now(n - 1) /\ n \in Now(n)
      BY <2>0, <2>2
    <3>1. \A j \in old : j <= n <=> j <= n - 1 \/ j = n
      BY <1>0, <2>0
    <3>2. Now(n) = Now(n - 1) \cup {n}
      BY <2>2, <3>0, <3>1
    <3> HIDE DEF Now
    <3>3. Cardinality(Now(n)) = Cardinality(Now(n - 1)) + 1
      BY <2>1, <3>0, <3>2, FS_AddElement
    <3>4. QED
      BY <2>2, <3>3
  <2>3. CASE n \notin old
    <3>1. Now(n) = Now(n - 1)
      BY <1>0, <2>0, <2>3
    <3> HIDE DEF Now
    <3>2. QED
      BY <2>1, <2>3, <3>1
  <2>4. QED
    BY <2>2, <2>3
<1> DEFINE C == [n \in 0..N |-> Cardinality(Now(n))]
<1>9. /\ C[0] = 0 /\ C[N] = Cardinality(old) /\ \A n \in 0..N : C[n] \in Nat
      /\ \A n \in 0..N : OldPlace(hunk, n) = Target(hunk) + C[n]
      /\ \A n \in 1..N : C[n] = C[n - 1] + IF n \in old THEN 1 ELSE 0
  <2>1. 0 \in 0..N /\ N \in 0..N /\ \A n \in 1..N : n \in 0..N /\ n - 1 \in 0..N
    BY <1>1
  <2> HIDE DEF Now
  <2>2. QED
    BY <1>3, <1>5, <1>6, <1>7, <1>8, <2>1
<1> HIDE DEF C
<1>10. 0 \in 0..N /\ N \in 0..N /\ \A n \in 1..N : n \in 0..N /\ n - 1 \in 0..N
  BY <1>1
<1>11. OldPlace(hunk, 0) = Target(hunk) /\ OldPlace(hunk, N) = EndOf(hunk)
  BY <1>2, <1>4, <1>9, <1>10
<1>12. \A n \in 1..N :
         OldPlace(hunk, n) = OldPlace(hunk, n - 1) + IF n \in old THEN 1 ELSE 0
  <2> TAKE n \in 1..N
  <2>1. C[n - 1] \in Nat /\ C[n] \in Nat
    BY <1>9, <1>10
  <2>2. QED
    BY <1>2, <1>9, <1>10, <2>1
<1>13. \A n \in 0..N : OldPlace(hunk, n) \in Int /\ Target(hunk) <= OldPlace(hunk, n)
  BY <1>2, <1>9
<1>14. QED
  BY <1>2, <1>11, <1>12, <1>13 DEF N, old

\* One line of a hunk.
LEMMA OneLine ==
  ASSUME NEW T, NEW content, NEW hunk, IsHunk(hunk), HasLines(T, content, hunk),
         NEW start \in Seq(T), NEW n \in 1..Len(hunk.lines), NEW before \in Seq(T), NEW s,
         s.ok, s.cursor = OldPlace(hunk, n - 1), OutIs(T, content, hunk, start, n - 1, before, s)
  PROVE  LET t      == HunkLine(s, content, hunk.lines[n])
             picked == IF n \in NewLines(hunk) THEN Append(before, NewLine(content, hunk, n))
                       ELSE before
         IN  /\ t.ok \in BOOLEAN /\ (t.ok <=> LineMatches(content, hunk, n))
             /\ t.ok => t.cursor = OldPlace(hunk, n)
             /\ t.ok => OutIs(T, content, hunk, start, n, picked, t)
<1> DEFINE line   == hunk.lines[n]
           t      == HunkLine(s, content, line)
           picked == IF n \in NewLines(hunk) THEN Append(before, NewLine(content, hunk, n))
                     ELSE before
<1>1. /\ n \in Nat /\ n - 1 \in Nat /\ n - 1 < n /\ Len(hunk.lines) \in Nat
      /\ DOMAIN hunk.lines = 1..Len(hunk.lines) /\ n \in DOMAIN hunk.lines
  BY ListElements DEF IsHunk
<1>2. /\ OldPlace(hunk, n - 1) \in Int
      /\ OldPlace(hunk, n) = OldPlace(hunk, n - 1) + IF n \in OldLines(hunk) THEN 1 ELSE 0
  <2>1. n - 1 \in 0..Len(hunk.lines)
    BY <1>1
  <2>2. QED
    BY <2>1, OldPlaces
<1>3. /\ n \in OldLines(hunk) <=> line.kind \in {"remove", "context"}
      /\ n \in NewLines(hunk) <=> line.kind \in {"add", "context"}
  BY <1>1 DEF OldLines, NewLines
<1>4. /\ Unmarked(content, hunk, n) \in T /\ NewLine(content, hunk, n) \in T
      /\ \A k \in NewLines(hunk) : k \in DOMAIN hunk.lines
  BY <1>1 DEF HasLines, NewLines
\* Before a line that is no marker and not blank, all markers have come.
<1>5. line.kind \notin {"eof", "blank"} => s.out = start \o before
  <2>1. CASE s.last \in {"add", "context"} /\ line.kind \notin {"eof", "blank"}
    <3>1. PICK body \in Seq(T), k \in NewLines(hunk) :
            /\ before = Append(body, NewLine(content, hunk, k))
            /\ s.out = start \o Append(body, Unmarked(content, hunk, k))
            /\ k <= n - 1 /\ \A m \in (k + 1)..(n - 1) : hunk.lines[m].kind = "blank"
      BY <2>1 DEF OutIs
    <3>2. ~IsMarkedLast(hunk, k)
      <4> SUFFICES ASSUME NEW j \in (k + 1)..Len(hunk.lines), hunk.lines[j].kind = "eof",
                          \A m \in (k + 1)..(j - 1) : hunk.lines[m].kind = "blank"
                   PROVE  FALSE
        BY DEF IsMarkedLast
      <4>0. k \in Nat
        BY <1>1, <1>4
      <4>1. CASE j <= n - 1
        BY <3>1, <4>0, <4>1, <1>1
      <4>2. CASE j = n
        BY <2>1, <4>2
      <4>3. CASE j > n
        <5>1. n \in (k + 1)..(j - 1)
          BY <1>1, <3>1, <4>0, <4>3
        <5>2. QED
          BY <2>1, <5>1
      <4>4. QED
        BY <1>1, <4>0, <4>1, <4>2, <4>3
    <3>3. NewLine(content, hunk, k) = Unmarked(content, hunk, k)
      BY <3>2 DEF NewLine, Unmarked
    <3>4. QED
      BY <3>1, <3>3
  <2>2. CASE s.last \notin {"add", "context"}
    BY <2>2 DEF OutIs
  <2>3. QED
    BY <2>1, <2>2
\* A line of the new side.
<1>6. ASSUME NEW kind \in {"add", "context"}, line.kind = kind, t.ok,
             t.out = Append(s.out, Unmarked(content, hunk, n)), t.last = kind,
             Unmarked(content, hunk, n).text = line.text
      PROVE  OutIs(T, content, hunk, start, n, picked, t)
  <2>1. s.out = start \o before /\ n \in NewLines(hunk)
    BY <1>3, <1>5, <1>6
  <2>2. t.out = start \o Append(before, Unmarked(content, hunk, n))
    <3>1. Append(start \o before, Unmarked(content, hunk, n))
            = start \o Append(before, Unmarked(content, hunk, n))
      BY <1>4
    <3>2. QED
      BY <1>6, <2>1, <3>1
  <2>3. picked = Append(before, NewLine(content, hunk, n))
    BY <2>1
  <2>4. n <= n /\ \A m \in (n + 1)..n : hunk.lines[m].kind = "blank"
    BY <1>1
  <2>5. t.last \in {"add", "context"}
    BY <1>6
  <2> HIDE DEF t, picked
  <2>6. QED
    BY <1>6, <2>1, <2>2, <2>3, <2>4, <2>5 DEF OutIs
<1>7. CASE line.kind = "eof"
  <2>1. t = Applying(s.cursor, IF s.last \in {"add", "context"} THEN Unended(s.out) ELSE s.out,
                     "none")
    BY <1>7 DEF HunkLine
  <2>2. /\ t.ok = TRUE /\ t.cursor = s.cursor /\ t.last = "none"
        /\ t.out = IF s.last \in {"add", "context"} THEN Unended(s.out) ELSE s.out
    BY <2>1 DEF Applying
  <2>3. LineMatches(content, hunk, n) /\ OldPlace(hunk, n) = OldPlace(hunk, n - 1)
        /\ picked = before
    BY <1>2, <1>3, <1>7 DEF LineMatches
  <2>4. t.out = start \o before
    <3>1. CASE s.last \in {"add", "context"}
      <4>1. PICK body \in Seq(T), k \in NewLines(hunk) :
              /\ before = Append(body, NewLine(content, hunk, k))
              /\ s.out = start \o Append(body, Unmarked(content, hunk, k))
              /\ Unmarked(content, hunk, k).text = hunk.lines[k].text
              /\ k <= n - 1 /\ \A m \in (k + 1)..(n - 1) : hunk.lines[m].kind = "blank"
        BY <3>1 DEF OutIs
      <4>2. k \in DOMAIN hunk.lines /\ k \in Nat
        BY <1>1, <1>4
      <4>3. IsMarkedLast(hunk, k)
        <5>1. n \in (k + 1)..Len(hunk.lines)
          BY <1>1, <4>1, <4>2
        <5>2. QED
          BY <1>7, <4>1, <5>1 DEF IsMarkedLast
      <4>4. NewLine(content, hunk, k) = LastLine(hunk.lines[k].text)
        BY <4>3 DEF NewLine
      <4> DEFINE bare == Unmarked(content, hunk, k)
                 last == LastLine(hunk.lines[k].text)
      <4>5. bare \in T /\ last \in T
        BY <4>2 DEF HasLines
      <4>6. s.out = Append(start \o body, bare) /\ start \o body \in Seq(T)
        BY <4>1, <4>5
      <4>7. Unended(s.out) = Append(start \o body, LastLine(bare.text))
        <5> DEFINE o == start \o body
        <5>1. s.out = Append(o, bare) /\ o \in Seq(T)
          BY <4>6
        <5> HIDE DEF o, bare
        <5>2. s.out # <<>> /\ Last(s.out) = bare /\ Front(s.out) = o
          BY <4>5, <5>1, LastAppended
        <5>3. QED
          BY <5>2 DEF Unended, o
      <4>8. Append(start \o body, last) = start \o Append(body, last)
        <5>1. body \in Seq(T)
          BY <4>1
        <5> HIDE DEF last, bare
        <5>2. QED
          BY <4>5, <5>1, SMTT(60)
      <4>9. QED
        BY <2>2, <3>1, <4>1, <4>4, <4>7, <4>8
    <3>2. CASE s.last \notin {"add", "context"}
      BY <2>2, <3>2 DEF OutIs
    <3>3. QED
      BY <3>1, <3>2
  <2> HIDE DEF t, picked
  <2>5. OutIs(T, content, hunk, start, n, picked, t)
    BY <2>2, <2>3, <2>4 DEF OutIs
  <2>6. QED
    BY <2>2, <2>3, <2>5 DEF t, picked
<1>8. CASE line.kind = "add"
  <2>1. t = Applying(s.cursor, Append(s.out, Line(line.text)), "add")
    BY <1>8 DEF HunkLine
  <2>2. t.ok = TRUE /\ t.cursor = s.cursor /\ t.last = "add"
        /\ t.out = Append(s.out, Line(line.text))
    BY <2>1 DEF Applying
  <2>3. LineMatches(content, hunk, n) /\ OldPlace(hunk, n) = OldPlace(hunk, n - 1)
    BY <1>2, <1>3, <1>8 DEF LineMatches
  <2>4. Unmarked(content, hunk, n) = Line(line.text) /\ Line(line.text).text = line.text
    BY <1>8 DEF Unmarked, Line
  <2> HIDE DEF t, picked, line
  <2>5. OutIs(T, content, hunk, start, n, picked, t)
    BY <1>6, <1>8, <2>2, <2>4
  <2>6. QED
    BY <2>2, <2>3, <2>5 DEF t, picked, line
<1>9. CASE line.kind \in {"remove", "context"}
  <2>1. n \in OldLines(hunk) /\ OldPlace(hunk, n) = s.cursor + 1 /\ s.cursor \in Int
    BY <1>2, <1>3, <1>9
  <2>2. IsNext(s, content, line) <=> LineMatches(content, hunk, n)
    <3>1. Len(content) \in Int => (s.cursor < Len(content) <=> s.cursor + 1 <= Len(content))
      BY <2>1
    <3>2. QED
      BY <1>9, <2>1, <3>1 DEF IsNext, LineMatches
  <2>3. CASE ~IsNext(s, content, line)
    <3>1. t = Failed
      BY <1>9, <2>3 DEF HunkLine
    <3>2. t.ok = FALSE
      BY <3>1 DEF Failed
    <3>3. QED
      BY <2>2, <2>3, <3>2
  <2>4. CASE IsNext(s, content, line) /\ line.kind = "remove"
    <3>1. t = Applying(s.cursor + 1, s.out, "remove") /\ picked = before
      BY <1>3, <2>4 DEF HunkLine
    <3>2. t.ok = TRUE /\ t.cursor = s.cursor + 1 /\ t.last = "remove" /\ t.out = s.out
      BY <3>1 DEF Applying
    <3>3. t.out = start \o before
      BY <1>5, <2>4, <3>2
    <3> HIDE DEF t, picked, line
    <3>4. OutIs(T, content, hunk, start, n, picked, t)
      BY <3>1, <3>2, <3>3 DEF OutIs
    <3>5. QED
      BY <2>1, <2>2, <2>4, <3>2, <3>4 DEF t, picked, line
  <2>5. CASE IsNext(s, content, line) /\ line.kind = "context"
    <3>1. t = Applying(s.cursor + 1, Append(s.out, content[s.cursor + 1]), "context")
      BY <2>5 DEF HunkLine
    <3>2. /\ t.ok = TRUE /\ t.cursor = s.cursor + 1 /\ t.last = "context"
          /\ t.out = Append(s.out, content[s.cursor + 1])
      BY <3>1 DEF Applying
    <3>3. Unmarked(content, hunk, n) = content[s.cursor + 1] /\ content[s.cursor + 1].text = line.text
      BY <2>1, <2>5 DEF Unmarked, IsNext
    <3> HIDE DEF t, picked, line
    <3>4. OutIs(T, content, hunk, start, n, picked, t)
      BY <1>6, <2>5, <3>2, <3>3
    <3>5. QED
      BY <2>1, <2>2, <2>5, <3>2, <3>4 DEF t, picked, line
  <2>6. QED
    BY <1>9, <2>3, <2>4, <2>5
<1>10. CASE line.kind = "blank"
  <2>1. t = s /\ picked = before
    BY <1>3, <1>10 DEF HunkLine
  <2>2. LineMatches(content, hunk, n) /\ OldPlace(hunk, n) = OldPlace(hunk, n - 1)
    BY <1>2, <1>3, <1>10 DEF LineMatches
  <2>3. OutIs(T, content, hunk, start, n, before, s)
    <3>1. CASE s.last \in {"add", "context"}
      <4>1. PICK body \in Seq(T), k \in NewLines(hunk) :
              /\ before = Append(body, NewLine(content, hunk, k))
              /\ s.out = start \o Append(body, Unmarked(content, hunk, k))
              /\ Unmarked(content, hunk, k).text = hunk.lines[k].text
              /\ k <= n - 1 /\ \A m \in (k + 1)..(n - 1) : hunk.lines[m].kind = "blank"
        BY <3>1 DEF OutIs
      <4>2. k \in Nat
        BY <1>1, <1>4
      <4>3. k <= n /\ \A m \in (k + 1)..n : hunk.lines[m].kind = "blank"
        BY <1>1, <1>10, <4>1, <4>2
      <4>4. QED
        BY <3>1, <4>1, <4>3 DEF OutIs
    <3>2. CASE s.last \notin {"add", "context"}
      BY <3>2 DEF OutIs
    <3>3. QED
      BY <3>1, <3>2
  <2>4. QED
    BY <2>1, <2>2, <2>3
<1>11. CASE line.kind \notin {"add", "remove", "context", "eof", "blank"}
  <2>1. t = Failed /\ ~LineMatches(content, hunk, n)
    BY <1>11 DEF HunkLine, LineMatches
  <2>2. t.ok = FALSE
    BY <2>1 DEF Failed
  <2>3. QED
    BY <2>1, <2>2
<1>12. QED
  BY <1>7, <1>8, <1>9, <1>10, <1>11

\* A hunk, line after line.
LinesDone(acc, content, hunk, m, upTo) ==
  upTo = [n \in 0..m |-> IF n = 0 THEN HunkStart(acc, content, hunk)
                         ELSE HunkLine(upTo[n - 1], content, hunk.lines[n])]

LEMMA HunkIsLines ==
  ASSUME NEW acc, NEW content, NEW hunk, NEW some,
         LinesDone(acc, content, hunk, Len(hunk.lines), some)
  PROVE  \E upTo : /\ LinesDone(acc, content, hunk, Len(hunk.lines), upTo)
                   /\ ApplyHunk(acc, content, hunk) = upTo[Len(hunk.lines)]
BY DEF LinesDone, ApplyHunk

LEMMA HunkRuns ==
  ASSUME NEW acc, NEW content, NEW hunk, IsHunk(hunk)
  PROVE  \E upTo : /\ upTo[0] = HunkStart(acc, content, hunk)
                   /\ upTo[Len(hunk.lines)] = ApplyHunk(acc, content, hunk)
                   /\ \A n \in 1..Len(hunk.lines) :
                        upTo[n] = HunkLine(upTo[n - 1], content, hunk.lines[n])
<1> DEFINE N       == Len(hunk.lines)
           reached == {m \in 0..N : \E upTo : LinesDone(acc, content, hunk, m, upTo)}
<1>1. N \in Nat /\ 0 \in 0..N /\ N \in 0..N
  BY ListElements DEF IsHunk
<1>2. 0 \in reached
  <2> DEFINE g == [n \in 0..0 |-> HunkStart(acc, content, hunk)]
  <2>1. g = [n \in 0..0 |-> IF n = 0 THEN HunkStart(acc, content, hunk)
                            ELSE HunkLine(g[n - 1], content, hunk.lines[n])]
    OBVIOUS
  <2> HIDE DEF g
  <2>2. LinesDone(acc, content, hunk, 0, g)
    BY <2>1 DEF LinesDone
  <2>3. QED
    BY <1>1, <2>2
<1>3. ASSUME NEW m \in 1..N, m - 1 \in reached PROVE m \in reached
  <2>1. PICK g : LinesDone(acc, content, hunk, m - 1, g)
    BY <1>3
  <2>2. \A n \in 0..(m - 1) : g[n] = IF n = 0 THEN HunkStart(acc, content, hunk)
                                     ELSE HunkLine(g[n - 1], content, hunk.lines[n])
    BY <2>1, Zenon DEF LinesDone
  <2> DEFINE h == [n \in 0..m |-> IF n = m THEN HunkLine(g[m - 1], content, hunk.lines[m])
                                  ELSE g[n]]
  <2>3. m \in Nat /\ m # 0 /\ m \in 0..m /\ m - 1 \in 0..m /\ m - 1 # m /\ m \in 0..N
        /\ (\A n \in 0..m : n = m \/ (n \in 0..(m - 1) /\ n # m))
        /\ (\A n \in 0..m : n = 0 \/ (n - 1 \in 0..m /\ n - 1 # m))
    BY <1>1
  <2>4. h[m] = HunkLine(h[m - 1], content, hunk.lines[m])
    BY <2>3
  <2>5. \A n \in 0..(m - 1) : h[n] = IF n = 0 THEN HunkStart(acc, content, hunk)
                                     ELSE HunkLine(h[n - 1], content, hunk.lines[n])
    <3> TAKE n \in 0..(m - 1)
    <3>1. n \in 0..m /\ n # m
      BY <2>3
    <3>2. h[n] = g[n] /\ (n # 0 => h[n - 1] = g[n - 1])
      BY <2>3, <3>1
    <3> HIDE DEF h
    <3>3. QED
      BY <2>2, <3>2
  <2>6. h = [n \in 0..m |-> h[n]]
    OBVIOUS
  <2> HIDE DEF h
  <2>7. \A n \in 0..m : h[n] = IF n = 0 THEN HunkStart(acc, content, hunk)
                               ELSE HunkLine(h[n - 1], content, hunk.lines[n])
    BY <2>3, <2>4, <2>5
  <2>8. LinesDone(acc, content, hunk, m, h)
    BY <2>6, <2>7 DEF LinesDone
  <2>9. QED
    BY <2>3, <2>8
<1> HIDE DEF reached
<1>4. N \in reached
  <2> HIDE DEF N
  <2>1. \A n \in 0..N : n \in reached
    BY <1>1, <1>2, <1>3, Induction
  <2>2. QED
    BY <1>1, <2>1
<1>5. PICK upTo : LinesDone(acc, content, hunk, N, upTo) /\ ApplyHunk(acc, content, hunk) = upTo[N]
  BY <1>4, HunkIsLines DEF reached
<1>6. \A n \in 0..N : upTo[n] = IF n = 0 THEN HunkStart(acc, content, hunk)
                                ELSE HunkLine(upTo[n - 1], content, hunk.lines[n])
  BY <1>5, Zenon DEF LinesDone
<1>7. \A n \in 1..N : n \in 0..N /\ n # 0
  BY <1>1
<1>8. QED
  BY <1>1, <1>5, <1>6, <1>7

\* A state of the loop over hunks, as far as the next hunk depends on it.
IsApplying(T, acc) == acc.ok \in BOOLEAN /\ (acc.ok => acc.cursor \in Nat /\ acc.out \in Seq(T))

\* The new side, line after line.
NewSideGrows(content, hunk, upTo) ==
  /\ upTo[Len(hunk.lines)] = NewSide(content, hunk) /\ upTo[0] = <<>>
  /\ \A n \in 1..Len(hunk.lines) :
       upTo[n] = IF n \in NewLines(hunk) THEN Append(upTo[n - 1], NewLine(content, hunk, n))
                 ELSE upTo[n - 1]

LEMMA NewSideIsGrown ==
  ASSUME NEW T, NEW content, NEW hunk, IsHunk(hunk),
         \A i \in DOMAIN hunk.lines : NewLine(content, hunk, i) \in T
  PROVE  \E upTo : NewSideGrows(content, hunk, upTo)
<1> DEFINE N   == Len(hunk.lines)
           new == [i \in DOMAIN hunk.lines |-> NewLine(content, hunk, i)]
<1>1. N \in Nat /\ DOMAIN hunk.lines = 1..N
  BY ListElements DEF IsHunk
<1>2. new \in Seq(T) /\ Len(new) = N /\ \A n \in 1..N : new[n] = NewLine(content, hunk, n)
  BY <1>1
<1>3. NewSide(content, hunk) = Picked(new, NewLines(hunk))
  BY DEF NewSide
<1> HIDE DEF new
<1>4. PICK upTo :
        /\ Picked(new, NewLines(hunk)) = upTo[Len(new)] /\ upTo[0] = <<>>
        /\ \A n \in 1..Len(new) :
             upTo[n] = IF n \in NewLines(hunk) THEN Append(upTo[n - 1], new[n]) ELSE upTo[n - 1]
  BY <1>2, PickedRuns
<1>5. NewSideGrows(content, hunk, upTo)
  BY <1>2, <1>3, <1>4 DEF NewSideGrows
<1>6. QED
  BY <1>5

\* A hunk applies exactly when it is not before the cursor and its old lines are the file's, and
\* then it leaves the lines up to it and its new side.
HunkPut(acc, content, hunk) ==
  Kept(content, acc.cursor, Target(hunk)) \o NewSide(content, hunk)

HunkLeaves(T, content, hunk, acc, after) ==
  /\ IsApplying(T, after)
  /\ after.ok <=> /\ acc.ok /\ acc.cursor <= Target(hunk)
                  /\ \A i \in DOMAIN hunk.lines : LineMatches(content, hunk, i)
  /\ after.ok => /\ after.cursor = EndOf(hunk) /\ HunkPut(acc, content, hunk) \in Seq(T)
                 /\ after.out = acc.out \o HunkPut(acc, content, hunk)

LEMMA HunkMeans ==
  ASSUME NEW T, NEW content, NEW hunk, IsList(content), IsHunk(hunk), HasLines(T, content, hunk),
         NEW acc, IsApplying(T, acc)
  PROVE  HunkLeaves(T, content, hunk, acc, ApplyHunk(acc, content, hunk))
<1> DEFINE N     == Len(hunk.lines)
           kept  == Kept(content, acc.cursor, Target(hunk))
           start == acc.out \o kept
           new   == [i \in DOMAIN hunk.lines |-> NewLine(content, hunk, i)]
           after == ApplyHunk(acc, content, hunk)
           begins == acc.ok /\ acc.cursor <= Target(hunk)
<1>1. N \in Nat /\ DOMAIN hunk.lines = 1..N /\ Target(hunk) \in Int
  BY ListElements, OldPlaces DEF IsHunk
<1>2. new \in Seq(T) /\ Len(new) = N
  BY <1>1 DEF HasLines
<1>3. PICK p : NewSideGrows(content, hunk, p)
  BY NewSideIsGrown DEF HasLines
<1>4. PICK u : /\ u[0] = HunkStart(acc, content, hunk) /\ u[N] = after
               /\ \A n \in 1..N : u[n] = HunkLine(u[n - 1], content, hunk.lines[n])
  BY HunkRuns
<1>5. \A n \in 1..N : new[n] = NewLine(content, hunk, n) /\ new[n] \in T
  BY <1>1, <1>2
<1>6. begins => kept \in Seq(T) /\ start \in Seq(T) /\ acc.cursor \in Nat
  <2> SUFFICES ASSUME begins PROVE kept \in Seq(T) /\ acc.out \in Seq(T) /\ acc.cursor \in Nat
    OBVIOUS
  <2>1. acc.cursor \in Nat /\ acc.out \in Seq(T) /\ Target(hunk) - acc.cursor \in Nat
    BY <1>1 DEF IsApplying
  <2>2. \A i \in 1..(Target(hunk) - acc.cursor) :
          (IF acc.cursor + i <= Len(content) THEN content[acc.cursor + i] ELSE BlankLine) \in T
    <3> TAKE i \in 1..(Target(hunk) - acc.cursor)
    <3>1. CASE acc.cursor + i <= Len(content)
      <4>1. acc.cursor + i \in DOMAIN content
        BY <2>1, <3>1, ListElements
      <4>2. content[acc.cursor + i] \in T
        BY <4>1, ListElements DEF HasLines
      <4>3. QED
        BY <3>1, <4>2
    <3>2. CASE ~(acc.cursor + i <= Len(content))
      BY <3>2 DEF HasLines
    <3>3. QED
      BY <3>1, <3>2
  <2>3. kept \in [1..(Target(hunk) - acc.cursor) -> T]
    BY <2>2 DEF Kept
  <2>4. QED
    BY <2>1, <2>3
<1> DEFINE Holds(n) ==
             /\ p[n] \in Seq(T) /\ u[n].ok \in BOOLEAN
             /\ u[n].ok <=> begins /\ \A i \in 1..n : LineMatches(content, hunk, i)
             /\ u[n].ok => /\ u[n].cursor = OldPlace(hunk, n)
                           /\ OutIs(T, content, hunk, start, n, p[n], u[n])
           S == {n \in 0..N : Holds(n)}
<1>7. 0 \in S
  <2>1. CASE ~begins
    <3>1. u[0] = Failed
      BY <1>1, <1>4, <2>1 DEF HunkStart, IsApplying
    <3>2. u[0].ok = FALSE
      BY <3>1 DEF Failed
    <3>3. p[0] \in Seq(T) /\ 0 \in 0..N
      BY <1>1, <1>3 DEF NewSideGrows
    <3>4. Holds(0)
      BY <2>1, <3>2, <3>3
    <3> HIDE DEF Holds
    <3>5. QED
      BY <3>3, <3>4
  <2>2. CASE begins
    <3>1. u[0] = Applying(Target(hunk), start, "none")
      BY <1>1, <1>4, <2>2 DEF HunkStart, IsApplying
    <3>2. start \in Seq(T)
      BY <1>6, <2>2
    <3> HIDE DEF start
    <3>3. u[0].ok = TRUE /\ u[0].cursor = Target(hunk) /\ u[0].out = start /\ u[0].last = "none"
      BY <3>1 DEF Applying
    <3>4. start \o <<>> = start
      BY <3>2
    <3>5. OutIs(T, content, hunk, start, 0, p[0], u[0])
      BY <1>3, <3>3, <3>4 DEF OutIs, NewSideGrows
    <3>6. u[0].cursor = OldPlace(hunk, 0)
      BY <3>3, OldPlaces
    <3>7. p[0] \in Seq(T) /\ 0 \in 0..N /\ 1..0 = {}
      BY <1>1, <1>3 DEF NewSideGrows
    <3>8. Holds(0)
      BY <2>2, <3>3, <3>5, <3>6, <3>7
    <3> HIDE DEF Holds
    <3>9. QED
      BY <3>7, <3>8
  <2>3. QED
    BY <2>1, <2>2
<1>8. ASSUME NEW n \in 1..N, n - 1 \in S PROVE n \in S
  <2>1. n \in 0..N /\ n - 1 \in 0..N /\ 1..n = (1..(n - 1)) \cup {n} /\ n \in DOMAIN hunk.lines
    BY <1>1
  <2>2. Holds(n - 1)
    BY <1>8
  <2>3. u[n] = HunkLine(u[n - 1], content, hunk.lines[n])
        /\ p[n] = IF n \in NewLines(hunk) THEN Append(p[n - 1], NewLine(content, hunk, n))
                  ELSE p[n - 1]
    BY <1>3, <1>4, <1>5 DEF NewSideGrows
  <2>4. p[n] \in Seq(T)
    <3>1. p[n - 1] \in Seq(T) /\ NewLine(content, hunk, n) \in T
      BY <1>5, <2>2
    <3>2. Append(p[n - 1], NewLine(content, hunk, n)) \in Seq(T)
      BY <3>1
    <3>3. QED
      BY <2>3, <3>1, <3>2
  <2>5. CASE ~u[n - 1].ok
    <3>1. u[n].ok = FALSE
      BY <2>3, <2>5 DEF HunkLine, Failed
    <3>2. ~(begins /\ \A i \in 1..n : LineMatches(content, hunk, i))
      BY <2>1, <2>2, <2>5
    <3>3. QED
      BY <2>1, <2>4, <3>1, <3>2
  <2>6. CASE u[n - 1].ok
    <3> DEFINE s == u[n - 1]
               before == p[n - 1]
    <3>1. /\ s.ok /\ s.cursor = OldPlace(hunk, n - 1) /\ before \in Seq(T) /\ begins
          /\ OutIs(T, content, hunk, start, n - 1, before, s)
          /\ \A i \in 1..(n - 1) : LineMatches(content, hunk, i)
      BY <2>2, <2>6
    <3>2. start \in Seq(T)
      BY <1>6, <3>1
    <3>3. /\ u[n].ok \in BOOLEAN /\ (u[n].ok <=> LineMatches(content, hunk, n))
          /\ u[n].ok => u[n].cursor = OldPlace(hunk, n)
          /\ u[n].ok => OutIs(T, content, hunk, start, n, p[n], u[n])
      <4> HIDE DEF s, before, start, begins
      <4>1. LET t      == HunkLine(s, content, hunk.lines[n])
                picked == IF n \in NewLines(hunk) THEN Append(before, NewLine(content, hunk, n))
                          ELSE before
            IN  /\ t.ok \in BOOLEAN /\ (t.ok <=> LineMatches(content, hunk, n))
                /\ t.ok => t.cursor = OldPlace(hunk, n)
                /\ t.ok => OutIs(T, content, hunk, start, n, picked, t)
        BY <3>1, <3>2, OneLine
      <4>2. u[n] = HunkLine(s, content, hunk.lines[n])
            /\ p[n] = IF n \in NewLines(hunk) THEN Append(before, NewLine(content, hunk, n))
                      ELSE before
        BY <2>3 DEF s, before
      <4>3. QED
        BY <4>1, <4>2
    <3>4. (\A i \in 1..n : LineMatches(content, hunk, i)) <=> LineMatches(content, hunk, n)
      BY <2>1, <3>1
    <3> HIDE DEF start, s, before
    <3>5. Holds(n)
      BY <2>4, <3>1, <3>3, <3>4
    <3>6. QED
      BY <2>1, <3>5
  <2>7. QED
    BY <2>2, <2>5, <2>6
<1> HIDE DEF S, Holds
<1>9. Holds(N)
  <2> HIDE DEF N
  <2>1. \A n \in 0..N : n \in S
    BY <1>1, <1>7, <1>8, Induction
  <2>2. N \in 0..N
    BY <1>1
  <2>3. QED
    BY <2>1, <2>2 DEF S
<1>10. after.ok \in BOOLEAN
       /\ (after.ok <=> begins /\ \A i \in DOMAIN hunk.lines : LineMatches(content, hunk, i))
  BY <1>1, <1>4, <1>9 DEF Holds
<1>11. ASSUME after.ok PROVE after.cursor = EndOf(hunk) /\ after.cursor \in Nat
  <2>1. after.cursor = OldPlace(hunk, N)
    BY <1>4, <1>9, <1>11 DEF Holds
  <2>2. N \in 0..N /\ OldPlace(hunk, N) = EndOf(hunk) /\ OldPlace(hunk, N) \in Int
        /\ Target(hunk) <= OldPlace(hunk, N)
    BY <1>1, OldPlaces
  <2>3. acc.cursor <= Target(hunk) /\ acc.cursor \in Nat
    BY <1>6, <1>10, <1>11
  <2>4. QED
    BY <1>1, <2>1, <2>2, <2>3
<1>12. ASSUME after.ok PROVE after.out = start \o p[N]
  <2>1. OutIs(T, content, hunk, start, N, p[N], after)
    BY <1>4, <1>9, <1>12 DEF Holds
  <2>2. CASE after.last \in {"add", "context"}
    <3>1. PICK body \in Seq(T), k \in NewLines(hunk) :
            /\ p[N] = Append(body, NewLine(content, hunk, k))
            /\ after.out = start \o Append(body, Unmarked(content, hunk, k))
            /\ \A m \in (k + 1)..N : hunk.lines[m].kind = "blank"
      BY <2>1, <2>2 DEF OutIs
    <3>2. ~IsMarkedLast(hunk, k)
      BY <3>1 DEF IsMarkedLast
    <3>3. NewLine(content, hunk, k) = Unmarked(content, hunk, k)
      BY <3>2 DEF NewLine, Unmarked
    <3>4. QED
      BY <3>1, <3>3
  <2>3. CASE after.last \notin {"add", "context"}
    BY <2>1, <2>3 DEF OutIs
  <2>4. QED
    BY <2>2, <2>3
<1>13. ASSUME after.ok
       PROVE  /\ after.out \in Seq(T) /\ kept \o NewSide(content, hunk) \in Seq(T)
              /\ after.out = acc.out \o (kept \o NewSide(content, hunk))
  <2>1. kept \in Seq(T) /\ start \in Seq(T) /\ acc.out \in Seq(T)
    BY <1>6, <1>10, <1>13 DEF IsApplying
  <2>2. NewSide(content, hunk) = p[N] /\ p[N] \in Seq(T)
    BY <1>3, <1>9 DEF NewSideGrows, Holds
  <2>3. (acc.out \o kept) \o p[N] = acc.out \o (kept \o p[N])
    <3> DEFINE a == acc.out
               b == kept
               c == p[N]
    <3>1. a \in Seq(T) /\ b \in Seq(T) /\ c \in Seq(T)
      BY <2>1, <2>2
    <3> HIDE DEF a, b, c
    <3>2. (a \o b) \o c = a \o (b \o c)
      BY <3>1
    <3>3. QED
      BY <3>2 DEF a, b, c
  <2>4. after.out = start \o p[N]
    BY <1>12, <1>13
  <2>5. start \o p[N] \in Seq(T)
    <3> HIDE DEF start
    <3>1. QED
      BY <2>1, <2>2
  <2>6. kept \o p[N] \in Seq(T)
    <3> HIDE DEF kept
    <3>1. QED
      BY <2>1, <2>2
  <2>7. QED
    BY <2>2, <2>3, <2>4, <2>5, <2>6
<1>14. IsApplying(T, after)
  BY <1>10, <1>11, <1>13 DEF IsApplying
<1>15. HunkPut(acc, content, hunk) = kept \o NewSide(content, hunk)
  BY DEF HunkPut
<1> HIDE DEF kept, start, after, begins
<1>16. QED
  <2>1. after.ok => /\ after.cursor = EndOf(hunk) /\ HunkPut(acc, content, hunk) \in Seq(T)
                    /\ after.out = acc.out \o HunkPut(acc, content, hunk)
    BY <1>11, <1>13, <1>15
  <2>2. after.ok <=> /\ acc.ok /\ acc.cursor <= Target(hunk)
                     /\ \A i \in DOMAIN hunk.lines : LineMatches(content, hunk, i)
    BY <1>10 DEF begins
  <2>3. QED
    BY <1>14, <2>1, <2>2 DEF HunkLeaves, after

\* Hunk after hunk.
HunksDone(content, hunks, m, upTo) ==
  upTo = [n \in 0..m |-> IF n = 0 THEN Applying(0, <<>>, "none")
                         ELSE ApplyHunk(upTo[n - 1], content, hunks[n])]

LEMMA ApplyIsHunks ==
  ASSUME NEW content, NEW hunks, NEW some, HunksDone(content, hunks, Len(hunks), some)
  PROVE  \E upTo : /\ HunksDone(content, hunks, Len(hunks), upTo)
                   /\ ApplyHunks(content, hunks) = upTo[Len(hunks)]
BY DEF HunksDone, ApplyHunks

LEMMA HunksRun ==
  ASSUME NEW content, NEW hunks, IsList(hunks)
  PROVE  \E upTo : /\ upTo[0] = Applying(0, <<>>, "none")
                   /\ upTo[Len(hunks)] = ApplyHunks(content, hunks)
                   /\ \A n \in 1..Len(hunks) :
                        upTo[n] = ApplyHunk(upTo[n - 1], content, hunks[n])
<1> DEFINE N       == Len(hunks)
           reached == {m \in 0..N : \E upTo : HunksDone(content, hunks, m, upTo)}
<1>1. N \in Nat /\ 0 \in 0..N /\ N \in 0..N
  BY ListElements
<1>2. 0 \in reached
  <2> DEFINE g == [n \in 0..0 |-> Applying(0, <<>>, "none")]
  <2>1. g = [n \in 0..0 |-> IF n = 0 THEN Applying(0, <<>>, "none")
                            ELSE ApplyHunk(g[n - 1], content, hunks[n])]
    OBVIOUS
  <2> HIDE DEF g
  <2>2. HunksDone(content, hunks, 0, g)
    BY <2>1 DEF HunksDone
  <2>3. QED
    BY <1>1, <2>2
<1>3. ASSUME NEW m \in 1..N, m - 1 \in reached PROVE m \in reached
  <2>1. PICK g : HunksDone(content, hunks, m - 1, g)
    BY <1>3
  <2>2. \A n \in 0..(m - 1) : g[n] = IF n = 0 THEN Applying(0, <<>>, "none")
                                     ELSE ApplyHunk(g[n - 1], content, hunks[n])
    BY <2>1, Zenon DEF HunksDone
  <2> DEFINE h == [n \in 0..m |-> IF n = m THEN ApplyHunk(g[m - 1], content, hunks[m]) ELSE g[n]]
  <2>3. m \in Nat /\ m # 0 /\ m \in 0..m /\ m - 1 \in 0..m /\ m - 1 # m /\ m \in 0..N
        /\ (\A n \in 0..m : n = m \/ (n \in 0..(m - 1) /\ n # m))
        /\ (\A n \in 0..m : n = 0 \/ (n - 1 \in 0..m /\ n - 1 # m))
    BY <1>1
  <2>4. h[m] = ApplyHunk(h[m - 1], content, hunks[m])
    BY <2>3
  <2>5. \A n \in 0..(m - 1) : h[n] = IF n = 0 THEN Applying(0, <<>>, "none")
                                     ELSE ApplyHunk(h[n - 1], content, hunks[n])
    <3> TAKE n \in 0..(m - 1)
    <3>1. n \in 0..m /\ n # m
      BY <2>3
    <3>2. h[n] = g[n] /\ (n # 0 => h[n - 1] = g[n - 1])
      BY <2>3, <3>1
    <3> HIDE DEF h
    <3>3. QED
      BY <2>2, <3>2
  <2>6. h = [n \in 0..m |-> h[n]]
    OBVIOUS
  <2> HIDE DEF h
  <2>7. \A n \in 0..m : h[n] = IF n = 0 THEN Applying(0, <<>>, "none")
                               ELSE ApplyHunk(h[n - 1], content, hunks[n])
    BY <2>3, <2>4, <2>5
  <2>8. HunksDone(content, hunks, m, h)
    BY <2>6, <2>7 DEF HunksDone
  <2>9. QED
    BY <2>3, <2>8
<1> HIDE DEF reached
<1>4. N \in reached
  <2> HIDE DEF N
  <2>1. \A n \in 0..N : n \in reached
    BY <1>1, <1>2, <1>3, Induction
  <2>2. QED
    BY <1>1, <2>1
<1>5. PICK upTo : HunksDone(content, hunks, N, upTo) /\ ApplyHunks(content, hunks) = upTo[N]
  BY <1>4, ApplyIsHunks DEF reached
<1>6. \A n \in 0..N : upTo[n] = IF n = 0 THEN Applying(0, <<>>, "none")
                                ELSE ApplyHunk(upTo[n - 1], content, hunks[n])
  BY <1>5, Zenon DEF HunksDone
<1>7. \A n \in 1..N : n \in 0..N /\ n # 0
  BY <1>1
<1>8. QED
  BY <1>1, <1>5, <1>6, <1>7

HunkFits(content, hunks, h) ==
  /\ EndBefore(hunks, h) <= Target(hunks[h])
  /\ \A i \in DOMAIN hunks[h].lines : LineMatches(content, hunks[h], i)

HunkPiece(content, hunks, h) ==
  Kept(content, EndBefore(hunks, h), Target(hunks[h])) \o NewSide(content, hunks[h])

\* Hunks apply exactly when each lines up after the one before, and put out their pieces.
LEMMA HunksMean ==
  ASSUME NEW content, NEW hunks, IsList(content), IsList(hunks),
         \A h \in DOMAIN hunks : IsHunk(hunks[h])
  PROVE  LET all == ApplyHunks(content, hunks)
         IN  /\ all.ok \in BOOLEAN
             /\ all.ok <=> \A h \in DOMAIN hunks : HunkFits(content, hunks, h)
             /\ all.ok /\ hunks # <<>> =>
                  /\ all.cursor = EndOf(Last(hunks)) /\ all.cursor \in Nat /\ IsList(all.out)
                  /\ all.out = FlattenSeq([h \in DOMAIN hunks |-> HunkPiece(content, hunks, h)])
<1> DEFINE N == Len(hunks)
           T == Range(content) \cup {BlankLine}
                  \cup UNION {{Unmarked(content, hunks[h], i) : i \in DOMAIN hunks[h].lines}
                                \cup {NewLine(content, hunks[h], i) : i \in DOMAIN hunks[h].lines}
                                \cup {LastLine(hunks[h].lines[i].text) : i \in DOMAIN hunks[h].lines} :
                                  h \in DOMAIN hunks}
           piece(h) == HunkPiece(content, hunks, h)
<1>1. N \in Nat /\ DOMAIN hunks = 1..N
  BY ListElements
<1>2. \A h \in 1..N : HasLines(T, content, hunks[h]) /\ IsHunk(hunks[h])
  BY <1>1 DEF HasLines
<1> HIDE DEF T
<1>3. PICK u : /\ u[0] = Applying(0, <<>>, "none") /\ u[N] = ApplyHunks(content, hunks)
               /\ \A n \in 1..N : u[n] = ApplyHunk(u[n - 1], content, hunks[n])
  BY HunksRun
<1> DEFINE Holds(n) ==
             /\ IsApplying(T, u[n])
             /\ u[n].ok <=> \A h \in 1..n : HunkFits(content, hunks, h)
             /\ u[n].ok => u[n].cursor = EndBefore(hunks, n + 1)
             /\ u[n].ok /\ n # 0 =>
                  u[n - 1].ok /\ piece(n) \in Seq(T) /\ u[n].out = u[n - 1].out \o piece(n)
           S == {n \in 0..N : Holds(n)}
<1>4. /\ u[0].ok = TRUE /\ u[0].cursor = 0 /\ u[0].out = <<>>
  BY <1>3 DEF Applying
<1>5. 0 \in S
  <2>1. 0 \in 0..N /\ 1..0 = {} /\ EndBefore(hunks, 0 + 1) = 0
    BY <1>1 DEF EndBefore
  <2>2. IsApplying(T, u[0])
    <3>1. 0 \in Nat /\ <<>> \in Seq(T) /\ TRUE \in BOOLEAN
      OBVIOUS
    <3>2. QED
      BY <1>4, <3>1 DEF IsApplying
  <2>3. Holds(0)
    BY <1>4, <2>1, <2>2
  <2> HIDE DEF Holds
  <2>4. QED
    BY <2>1, <2>3
<1>6. ASSUME NEW n \in 1..N, n - 1 \in S PROVE n \in S
  <2>1. n \in 0..N /\ n # 0 /\ 1..n = (1..(n - 1)) \cup {n} /\ (n - 1) + 1 = n /\ n + 1 # 1
        /\ (n + 1) - 1 = n
    BY <1>1
  <2>2. Holds(n - 1)
    BY <1>6
  <2> DEFINE acc == u[n - 1]
             hunk == hunks[n]
             after == u[n]
  <2>3. IsApplying(T, acc) /\ IsHunk(hunk) /\ HasLines(T, content, hunk)
    BY <1>2, <2>2
  <2>4. after = ApplyHunk(acc, content, hunk)
    BY <1>3
  <2> HIDE DEF acc, hunk, after, Holds
  <2>5. /\ IsApplying(T, after)
        /\ after.ok <=> /\ acc.ok /\ acc.cursor <= Target(hunk)
                        /\ \A i \in DOMAIN hunk.lines : LineMatches(content, hunk, i)
        /\ after.ok => /\ after.cursor = EndOf(hunk)
                       /\ Kept(content, acc.cursor, Target(hunk))
                            \o NewSide(content, hunk) \in Seq(T)
                       /\ after.out = acc.out \o (Kept(content, acc.cursor, Target(hunk))
                                                    \o NewSide(content, hunk))
    <3>1. HunkLeaves(T, content, hunk, acc, after)
      BY <2>3, <2>4, HunkMeans
    <3>2. QED
      BY <3>1 DEF HunkLeaves, HunkPut
  <2>6. /\ acc.ok <=> \A h \in 1..(n - 1) : HunkFits(content, hunks, h)
        /\ acc.ok => acc.cursor = EndBefore(hunks, n)
    BY <2>1, <2>2 DEF Holds, acc
  <2>7. acc.ok =>
          /\ HunkFits(content, hunks, n) <=>
                acc.cursor <= Target(hunk) /\ \A i \in DOMAIN hunk.lines : LineMatches(content, hunk, i)
          /\ piece(n) = Kept(content, acc.cursor, Target(hunk)) \o NewSide(content, hunk)
    BY <2>6 DEF HunkFits, HunkPiece, hunk
  <2>8. EndBefore(hunks, n + 1) = EndOf(hunk)
    BY <2>1 DEF EndBefore, hunk
  <2>9. (\A h \in 1..n : HunkFits(content, hunks, h))
          <=> (\A h \in 1..(n - 1) : HunkFits(content, hunks, h)) /\ HunkFits(content, hunks, n)
    BY <2>1
  <2> HIDE DEF piece
  <2>10. Holds(n)
    BY <2>1, <2>5, <2>6, <2>7, <2>8, <2>9 DEF Holds, acc, after
  <2>11. QED
    BY <2>1, <2>10
<1> HIDE DEF S, Holds
<1>7. \A n \in 0..N : Holds(n)
  <2> HIDE DEF N
  <2>1. \A n \in 0..N : n \in S
    BY <1>1, <1>5, <1>6, Induction
  <2>2. QED
    BY <2>1 DEF S
<1>8. N \in 0..N
  BY <1>1
<1>9. Holds(N) /\ u[N] = ApplyHunks(content, hunks)
  BY <1>3, <1>7, <1>8
<1>10. /\ u[N].ok \in BOOLEAN
       /\ u[N].ok <=> \A h \in DOMAIN hunks : HunkFits(content, hunks, h)
  BY <1>1, <1>9 DEF Holds, IsApplying
<1>11. ASSUME u[N].ok, hunks # <<>>
       PROVE  /\ u[N].cursor = EndOf(Last(hunks))
              /\ u[N].out = FlattenSeq([h \in DOMAIN hunks |-> piece(h)])
  <2>1. N # 0 /\ N + 1 # 1 /\ (N + 1) - 1 = N /\ N \in 1..N /\ 1 \in 1..N
    <3>1. N # 0
      BY <1>11 DEF IsList
    <3>2. QED
      BY <1>1, <3>1
  <2>2. u[N].cursor = EndOf(Last(hunks))
    BY <1>9, <1>11, <2>1 DEF Holds, EndBefore, Last
  <2>3. \A n \in 1..N : u[n].ok
    <3> TAKE n \in 1..N
    <3>1. \A h \in 1..N : HunkFits(content, hunks, h)
      BY <1>1, <1>10, <1>11
    <3>2. \A h \in 1..n : h \in 1..N
      BY <1>1
    <3>3. Holds(n)
      BY <1>1, <1>7
    <3>4. QED
      BY <3>1, <3>2, <3>3 DEF Holds
  <2>4. \A n \in 1..N : piece(n) \in Seq(T) /\ u[n].out = u[n - 1].out \o piece(n)
    <3> TAKE n \in 1..N
    <3>1. Holds(n) /\ n # 0
      BY <1>1, <1>7
    <3> HIDE DEF piece
    <3>2. QED
      BY <2>3, <3>1 DEF Holds
  <2> DEFINE pieces == [h \in DOMAIN hunks |-> piece(h)]
  <2>5. pieces \in Seq(Seq(T)) /\ Len(pieces) = N /\ \A h \in 1..N : pieces[h] = piece(h)
    <3> HIDE DEF piece
    <3>1. QED
      BY <1>1, <2>4
  <2> HIDE DEF pieces, piece
  <2>6. PICK f : Flattens(pieces, f) /\ FlattenSeq(pieces) = f[N]
    <3>1. Len(pieces) # 0
      BY <2>1, <2>5
    <3>2. \E f : Flattens(pieces, f)
      BY <2>5, FlattenExists
    <3>3. QED
      BY <2>5, <3>1, <3>2, FlattenIsFlattens
  <2>7. \A i \in 1..N : f[i] = IF i = 1 THEN pieces[i] ELSE f[i - 1] \o pieces[i]
    <3>1. \A i \in 1..Len(pieces) : f[i] = IF i = 1 THEN pieces[i] ELSE f[i - 1] \o pieces[i]
      BY <2>6, Zenon DEF Flattens
    <3>2. QED
      BY <2>5, <3>1
  <2> DEFINE R == {n \in 0..N : n = 0 \/ u[n].out = f[n]}
  <2>8. 0 \in R
    BY <1>1
  <2>9. ASSUME NEW n \in 1..N, n - 1 \in R PROVE n \in R
    <3>1. u[n].out = u[n - 1].out \o piece(n) /\ pieces[n] = piece(n) /\ piece(n) \in Seq(T)
          /\ n \in 0..N
      BY <1>1, <2>4, <2>5
    <3>2. CASE n = 1
      <4>1. <<>> \o piece(n) = piece(n)
        BY <3>1
      <4>2. u[n - 1].out = <<>>
        BY <1>4, <3>2
      <4>3. f[n] = piece(n)
        BY <2>7, <3>1, <3>2
      <4>4. QED
        BY <3>1, <4>1, <4>2, <4>3
    <3>3. CASE n # 1
      <4>0. n - 1 # 0
        BY <1>1, <3>3
      <4>1. u[n - 1].out = f[n - 1] /\ f[n] = f[n - 1] \o pieces[n]
        BY <2>7, <2>9, <3>3, <4>0
      <4>2. QED
        BY <3>1, <4>1
    <3>4. QED
      BY <3>2, <3>3
  <2> HIDE DEF R
  <2>10. u[N].out = f[N]
    <3> HIDE DEF N
    <3>1. \A n \in 0..N : n \in R
      BY <1>1, <2>8, <2>9, Induction
    <3>2. QED
      BY <1>8, <2>1, <3>1 DEF R
  <2>11. QED
    BY <2>2, <2>6, <2>10 DEF pieces
<1>12. u[N].ok => u[N].cursor \in Nat /\ IsList(u[N].out)
  <2>1. u[N].ok => u[N].cursor \in Nat /\ u[N].out \in Seq(T)
    BY <1>9 DEF Holds, IsApplying
  <2>2. QED
    BY <2>1, IsListOf
<1>13. QED
  BY <1>9, <1>10, <1>11, <1>12

\* What lists are made into is a list.
LEMMA ConcatIsList ==
  ASSUME NEW first, NEW second, IsList(first), IsList(second)
  PROVE  IsList(first \o second)
<1> DEFINE T == Range(first) \cup Range(second)
<1>1. first \in Seq(T) /\ second \in Seq(T)
  BY DEF IsList
<1> HIDE DEF T
<1>2. first \o second \in Seq(T)
  BY <1>1
<1>3. QED
  BY <1>2, IsListOf

LEMMA TailIsList ==
  ASSUME NEW list, IsList(list), NEW from \in Nat
  PROVE  IsList(SubSeq(list, from + 1, Len(list)))
<1> DEFINE T == Range(list)
<1>1. list \in Seq(T)
  BY DEF IsList
<1> HIDE DEF T
<1>2. SubSeq(list, from + 1, Len(list)) \in Seq(T)
  <2>1. Len(list) \in Nat /\ \A i \in (from + 1)..Len(list) : list[i] \in T
    BY <1>1
  <2>2. QED
    BY <1>1, <2>1
<1>3. QED
  BY <1>2, IsListOf

\* Rejoined lines are a list of lines.
LEMMA RejoinedAreLines ==
  ASSUME NEW lines, IsList(lines)
  PROVE  IsList(Rejoin(lines))
<1> DEFINE places   == [i \in DOMAIN lines |-> i]
           ends     == Picked(places, {i \in DOMAIN lines : lines[i].newline \/ i = Len(lines)})
           From(k)  == IF k = 1 THEN 1 ELSE ends[k - 1] + 1
           joined   == [k \in DOMAIN ends |->
                         [text |-> TextOf(SubSeq(lines, From(k), ends[k])),
                          newline |-> lines[ends[k]].newline]]
<1>1. places \in Seq(Nat)
  BY ListElements
<1>2. ends \in Seq(Nat)
  <2> HIDE DEF places
  <2>1. QED
    BY <1>1, PickedProperties
<1> HIDE DEF ends
<1>3. DOMAIN ends = 1..Len(ends) /\ Len(ends) \in Nat
  BY <1>2
<1>4. joined \in Seq(Range(joined))
  <2> DEFINE L == Len(ends)
  <2>1. joined \in [1..L -> Range(joined)] /\ L \in Nat
    BY <1>3 DEF Range
  <2> HIDE DEF joined, L
  <2>2. QED
    BY <2>1
<1> DEFINE T == Range(joined)
<1>5. Rejoin(lines) = IF joined # <<>> /\ Last(joined) = LastLine("") THEN Front(joined) ELSE joined
  BY DEF Rejoin, ends
<1> HIDE DEF joined
<1>6. joined # <<>> => Front(joined) \in Seq(T)
  <2> SUFFICES ASSUME joined # <<>> PROVE Front(joined) \in Seq(T)
    OBVIOUS
  <2>1. joined \in Seq(T)
    BY <1>4
  <2> HIDE DEF T
  <2>2. Len(joined) - 1 \in Nat
    BY <2>1
  <2>3. SubSeq(joined, 1, Len(joined) - 1) \in Seq(T)
    BY <2>1, <2>2
  <2>4. QED
    BY <2>3 DEF Front
<1>7. Rejoin(lines) \in Seq(T)
  BY <1>4, <1>5, <1>6
<1> HIDE DEF T
<1>8. QED
  BY <1>7, IsListOf

\* Applying succeeds exactly when every hunk lines up with the file, none before the end of the one
\* before, and leaves what that comes to, guesses included.
LEMMA ApplyingComesTo ==
  ASSUME NEW content, NEW hunks, IsList(content), IsList(hunks),
         \A h \in DOMAIN hunks : IsHunk(hunks[h])
  PROVE  LET applied == Apply(content, hunks)
         IN  /\ applied.ok <=> LinesUp(content, hunks)
             /\ applied.ok => applied.content = Meant(content, hunks) /\ IsList(applied.content)
<1> DEFINE all == ApplyHunks(content, hunks)
           applied == Apply(content, hunks)
           parts == [h \in DOMAIN hunks |-> HunkPiece(content, hunks, h)]
           tail == SubSeq(content, all.cursor + 1, Len(content))
<1>1. /\ all.ok \in BOOLEAN
      /\ all.ok <=> \A h \in DOMAIN hunks : HunkFits(content, hunks, h)
      /\ all.ok /\ hunks # <<>> =>
           /\ all.cursor = EndOf(Last(hunks)) /\ all.cursor \in Nat /\ IsList(all.out)
           /\ all.out = FlattenSeq(parts)
  BY HunksMean
<1>2. LinesUp(content, hunks) <=> all.ok /\ hunks # <<>>
  BY <1>1 DEF LinesUp, HunkFits
<1>3. CASE ~(all.ok /\ hunks # <<>>)
  <2>1. applied = Failed
    BY <1>3 DEF Apply
  <2>2. applied.ok = FALSE
    BY <2>1 DEF Failed
  <2>3. QED
    BY <1>2, <1>3, <2>2
<1>4. CASE all.ok /\ hunks # <<>>
  <2>1. applied = [ok |-> TRUE, content |-> Rejoin(all.out \o tail)]
    BY <1>4 DEF Apply
  <2>2. applied.ok = TRUE /\ applied.content = Rejoin(all.out \o tail)
    BY <2>1
  <2>3. Meant(content, hunks) = Rejoin(all.out \o tail)
    <3>1. parts = [h \in DOMAIN hunks |-> Kept(content, EndBefore(hunks, h), Target(hunks[h]))
                                            \o NewSide(content, hunks[h])]
      BY DEF HunkPiece
    <3>2. tail = SubSeq(content, EndOf(Last(hunks)) + 1, Len(content))
      BY <1>1, <1>4
    <3> HIDE DEF parts, tail
    <3>3. QED
      BY <1>1, <1>4, <3>1, <3>2 DEF Meant
  <2>4. IsList(all.out \o tail)
    <3>1. IsList(all.out) /\ IsList(tail)
      BY <1>1, <1>4, TailIsList
    <3> HIDE DEF tail
    <3>2. QED
      BY <3>1, ConcatIsList
  <2>5. IsList(applied.content)
    BY <2>2, <2>4, RejoinedAreLines
  <2>6. QED
    BY <1>2, <1>4, <2>2, <2>3, <2>5
<1>5. QED
  BY <1>3, <1>4

-----------------------------------------------------------------------------
(* What a patch says, and what applying makes of it. *)

\* A line of a file, as splitLines gives it.
IsLine(line) == line = [text |-> line.text, newline |-> line.newline] /\ line.newline \in BOOLEAN

\* The text of one line is its own.
RunsTogether(lines, upTo) ==
  upTo = [n \in 1..Len(lines) |-> IF n = 1 THEN lines[1].text ELSE upTo[n - 1] \o lines[n].text]

LEMMA TextRuns ==
  ASSUME NEW lines, NEW some, RunsTogether(lines, some)
  PROVE  \E upTo : RunsTogether(lines, upTo) /\ TextOf(lines) = upTo[Len(lines)]
BY DEF RunsTogether, TextOf

LEMMA OneLineIsItsText ==
  ASSUME NEW lines, Len(lines) = 1
  PROVE  TextOf(lines) = lines[1].text
<1> DEFINE some == [n \in 1..1 |-> lines[1].text]
<1>1. \A n \in 1..1 : n = 1
  OBVIOUS
<1>2. some = [n \in 1..1 |-> IF n = 1 THEN lines[1].text ELSE some[n - 1] \o lines[n].text]
  BY <1>1
<1>3. RunsTogether(lines, some)
  BY <1>2 DEF RunsTogether
<1> HIDE DEF some
<1>4. PICK upTo : RunsTogether(lines, upTo) /\ TextOf(lines) = upTo[1]
  BY <1>3, TextRuns
<1>5. upTo = [n \in 1..1 |-> IF n = 1 THEN lines[1].text ELSE upTo[n - 1] \o lines[n].text]
  BY <1>4 DEF RunsTogether
<1>6. upTo[1] = lines[1].text
  BY <1>5
<1>7. QED
  BY <1>4, <1>6

\* Picking every element leaves a list as it is.
LEMMA AllPicked ==
  ASSUME NEW T, NEW list \in Seq(T), NEW places, DOMAIN list \subseteq places
  PROVE  Picked(list, places) = list
<1> DEFINE N == Len(list)
<1>1. PICK upTo :
        /\ Picked(list, places) = upTo[N] /\ upTo[0] = <<>>
        /\ \A n \in 1..N :
             upTo[n] = IF n \in places THEN Append(upTo[n - 1], list[n]) ELSE upTo[n - 1]
  BY PickedRuns
<1>2. N \in Nat /\ DOMAIN list = 1..N /\ \A n \in 1..N : list[n] \in T
  OBVIOUS
<1>3. \A n \in 0..N : SubSeq(list, 1, n) \in Seq(T) /\ Len(SubSeq(list, 1, n)) = n
  BY <1>2
<1> DEFINE S == {n \in 0..N : upTo[n] = SubSeq(list, 1, n)}
<1>4. 0 \in S
  <2>1. SubSeq(list, 1, 0) = <<>>
    BY SubSeqEmpty
  <2>2. upTo[0] = SubSeq(list, 1, 0)
    BY <1>1, <2>1
  <2>3. QED
    BY <1>2, <2>2
<1>5. \A n \in 1..N : n - 1 \in S => n \in S
  <2> TAKE n \in 1..N
  <2> SUFFICES ASSUME upTo[n - 1] = SubSeq(list, 1, n - 1) PROVE n \in S
    OBVIOUS
  <2>1. upTo[n] = Append(SubSeq(list, 1, n - 1), list[n])
    BY <1>1, <1>2
  <2>2. Append(SubSeq(list, 1, n - 1), list[n]) = SubSeq(list, 1, n)
    BY <1>2
  <2>3. upTo[n] = SubSeq(list, 1, n)
    BY <2>1, <2>2
  <2>4. n \in 0..N
    BY <1>2
  <2>5. QED
    BY <2>3, <2>4
<1> HIDE DEF S
<1>6. N \in S
  BY <1>2, <1>4, <1>5, Induction
<1>7. SubSeq(list, 1, N) = list
  BY <1>2
<1>8. QED
  BY <1>1, <1>6, <1>7 DEF S

\* Lines of which only the last may be without a newline do not run together.
LEMMA RejoinKeeps ==
  ASSUME NEW T, NEW lines \in Seq(T), \A x \in T : IsLine(x), IsFileText(lines)
  PROVE  Rejoin(lines) = lines
<1> DEFINE N        == Len(lines)
           places   == [i \in DOMAIN lines |-> i]
           ending   == {i \in DOMAIN lines : lines[i].newline \/ i = Len(lines)}
           ends     == Picked(places, ending)
           From(k)  == IF k = 1 THEN 1 ELSE ends[k - 1] + 1
           joined   == [k \in DOMAIN ends |->
                         [text |-> TextOf(SubSeq(lines, From(k), ends[k])),
                          newline |-> lines[ends[k]].newline]]
<1>1. N \in Nat /\ DOMAIN lines = 1..N /\ \A i \in 1..N : lines[i] \in T
  OBVIOUS
<1>2. ends = places
  <2>1. places \in Seq(Nat) /\ DOMAIN places = 1..N
    BY <1>1
  <2>2. DOMAIN places \subseteq ending
    BY <1>1, <2>1 DEF IsFileText
  <2> HIDE DEF places, ending
  <2>3. QED
    BY <2>1, <2>2, AllPicked
<1>3. joined = lines
  <2>1. DOMAIN ends = 1..N /\ \A k \in 1..N : ends[k] = k
    BY <1>1, <1>2
  <2> HIDE DEF ends
  <2>2. \A k \in 1..N : From(k) = k
    BY <1>1, <2>1
  <2>3. ASSUME NEW k \in 1..N
        PROVE  [text |-> TextOf(SubSeq(lines, From(k), ends[k])), newline |-> lines[ends[k]].newline]
                 = lines[k]
    <3>1. From(k) = k /\ ends[k] = k
      BY <2>1, <2>2
    <3>2. Len(SubSeq(lines, k, k)) = 1 /\ SubSeq(lines, k, k)[1] = lines[k]
      BY <1>1
    <3>3. TextOf(SubSeq(lines, k, k)) = lines[k].text
      BY <3>2, OneLineIsItsText
    <3>4. lines[k] = [text |-> lines[k].text, newline |-> lines[k].newline]
      BY <1>1 DEF IsLine
    <3>5. QED
      BY <3>1, <3>3, <3>4
  <2>4. joined = [k \in 1..N |-> lines[k]]
    BY <2>1, <2>3
  <2>5. lines = [k \in 1..N |-> lines[k]]
    BY <1>1
  <2>6. QED
    BY <2>4, <2>5
<1>4. Rejoin(lines) = IF joined # <<>> /\ Last(joined) = LastLine("") THEN Front(joined) ELSE joined
  BY DEF Rejoin
<1> HIDE DEF joined
<1>5. N # 0 => N \in DOMAIN lines
  <2>1. N \in Nat /\ DOMAIN lines = 1..N
    BY <1>1
  <2> HIDE DEF N
  <2>2. QED
    BY <2>1
<1>6. ~(lines # <<>> /\ Last(lines) = LastLine(""))
  <2> SUFFICES ASSUME lines # <<>>, Last(lines) = LastLine("") PROVE FALSE
    OBVIOUS
  <2>1. N # 0
    <3>1. \A seq \in Seq(T) : seq # <<>> => Len(seq) \in Nat \ {0}
      BY EmptySeq
    <3>2. QED
      BY <3>1
  <2>2. N \in DOMAIN lines
    BY <1>5, <2>1
  <2> DEFINE last == lines[N]
  <2>3. last = [text |-> "", newline |-> FALSE]
    BY DEF Last, LastLine
  <2>4. last.newline \/ last.text # ""
    BY <2>2 DEF IsFileText
  <2> HIDE DEF last
  <2>5. last.newline = FALSE /\ last.text = ""
    BY <2>3
  <2>6. QED
    BY <2>4, <2>5
<1>7. QED
  BY <1>3, <1>4, <1>6

\* The old lines up to one are some of all.
LEMMA OldPlaceIsBeforeEnd ==
  ASSUME NEW hunk, IsHunk(hunk), NEW i \in OldLines(hunk)
  PROVE  Target(hunk) < OldPlace(hunk, i) /\ OldPlace(hunk, i) <= EndOf(hunk)
<1> DEFINE N == Len(hunk.lines)
<1>1. N \in Nat /\ DOMAIN hunk.lines = 1..N /\ i \in 1..N /\ OldLines(hunk) \subseteq 1..N
  BY ListElements DEF IsHunk, OldLines
<1>2. Target(hunk) < OldPlace(hunk, i)
  <2>1. i - 1 \in 0..N
    BY <1>1
  <2>2. OldPlace(hunk, i) = OldPlace(hunk, i - 1) + 1 /\ OldPlace(hunk, i - 1) \in Int
        /\ Target(hunk) <= OldPlace(hunk, i - 1) /\ Target(hunk) \in Int
    BY <1>1, <2>1, OldPlaces
  <2>3. QED
    BY <2>2
<1>3. OldPlace(hunk, i) <= EndOf(hunk)
  <2> DEFINE now == {j \in OldLines(hunk) : j <= i}
  <2>1. IsFiniteSet(OldLines(hunk))
    <3>1. IsFiniteSet(1..N)
      <4>1. N \in Nat
        BY <1>1
      <4> HIDE DEF N
      <4>2. QED
        BY <4>1, FS_Interval
    <3> DEFINE places == 1..N
    <3>2. IsFiniteSet(places) /\ OldLines(hunk) \in SUBSET places
      BY <1>1, <3>1
    <3> HIDE DEF places
    <3>3. QED
      BY <3>2, FS_Subset
  <2>2. now \subseteq OldLines(hunk)
    OBVIOUS
  <2>3. /\ Cardinality(now) \in Nat /\ Cardinality(OldLines(hunk)) \in Nat
        /\ Cardinality(now) <= Cardinality(OldLines(hunk))
    BY <2>1, <2>2, FS_Subset, FS_CardinalityType
  <2>4. OldPlace(hunk, i) = Target(hunk) + Cardinality(now)
        /\ EndOf(hunk) = Target(hunk) + Cardinality(OldLines(hunk))
    BY DEF OldPlace, EndOf
  <2>5. Target(hunk) \in Int
    BY OldPlaces
  <2> HIDE DEF now
  <2>6. QED
    BY <2>3, <2>4, <2>5
<1>4. QED
  BY <1>2, <1>3

\* Where hunks in order begin and end.
LEMMA PlacesInOrder ==
  ASSUME NEW hunks, IsList(hunks), \A h \in DOMAIN hunks : IsHunk(hunks[h]),
         \A h \in DOMAIN hunks : EndBefore(hunks, h) <= Target(hunks[h])
  PROVE  \A h \in DOMAIN hunks :
           /\ EndBefore(hunks, h) \in Nat /\ Target(hunks[h]) \in Nat /\ EndOf(hunks[h]) \in Nat
           /\ Target(hunks[h]) <= EndOf(hunks[h])
<1> DEFINE N == Len(hunks)
           Holds(h) == EndBefore(hunks, h) \in Nat /\ Target(hunks[h]) \in Nat
                       /\ EndOf(hunks[h]) \in Nat /\ Target(hunks[h]) <= EndOf(hunks[h])
           S == {n \in 0..N : n # 0 => Holds(n)}
<1>1. N \in Nat /\ DOMAIN hunks = 1..N
  BY ListElements
<1>2. \A h \in 1..N : /\ Target(hunks[h]) \in Int /\ EndOf(hunks[h]) \in Int
                      /\ Target(hunks[h]) <= EndOf(hunks[h])
  <2> TAKE h \in 1..N
  <2>1. IsHunk(hunks[h]) /\ Len(hunks[h].lines) \in Nat
    BY <1>1, ListElements DEF IsHunk
  <2>2. Len(hunks[h].lines) \in 0..Len(hunks[h].lines)
    BY <2>1
  <2>3. QED
    BY <2>1, <2>2, OldPlaces
<1>3. 0 \in S
  BY <1>1
<1>4. \A n \in 1..N : n - 1 \in S => n \in S
  <2> TAKE n \in 1..N
  <2> SUFFICES ASSUME n - 1 \in S PROVE n \in S
    OBVIOUS
  <2>1. EndBefore(hunks, n) \in Nat
    <3>1. CASE n = 1
      BY <3>1 DEF EndBefore
    <3>2. CASE n # 1
      <4>1. n - 1 \in 1..N /\ n - 1 # 0
        BY <1>1, <3>2
      <4>2. Holds(n - 1)
        BY <4>1
      <4>3. QED
        BY <3>2, <4>2 DEF EndBefore
    <3>3. QED
      BY <3>1, <3>2
  <2>2. EndBefore(hunks, n) <= Target(hunks[n])
    BY <1>1
  <2>3. Holds(n)
    BY <1>2, <2>1, <2>2
  <2>4. QED
    BY <2>3
<1> HIDE DEF S
<1>5. \A n \in 0..N : n \in S
  BY <1>1, <1>3, <1>4, Induction
<1>6. QED
  BY <1>1, <1>5 DEF S

\* A hunk whose old lines are the file's, newlines included, and which has no empty line.
SaysWhatIs(content, hunk) ==
  /\ \A i \in DOMAIN hunk.lines : hunk.lines[i].kind \in {"add", "remove", "context", "eof"}
  /\ \A i \in OldLines(hunk) : content[OldPlace(hunk, i)] = LineSaid(hunk, i)

\* Its new side is what it says.
LEMMA NewSideIsSaid ==
  ASSUME NEW content, NEW hunk, IsHunk(hunk), SaysWhatIs(content, hunk)
  PROVE  NewSide(content, hunk) = NewSideSaid(hunk)
<1> DEFINE N == Len(hunk.lines)
<1>1. N \in Nat /\ DOMAIN hunk.lines = 1..N
  BY ListElements DEF IsHunk
<1>2. ASSUME NEW i \in 1..N
      PROVE  NewLine(content, hunk, i) = LineSaid(hunk, i)
  <2>1. IsMarkedLast(hunk, i) <=> IsMarked(hunk, i)
    <3>1. ASSUME IsMarked(hunk, i) PROVE IsMarkedLast(hunk, i)
      <4>1. i + 1 \in (i + 1)..N /\ \A k \in (i + 1)..(i + 1 - 1) : FALSE
        BY <1>1, <3>1 DEF IsMarked
      <4>2. QED
        BY <3>1, <4>1 DEF IsMarked, IsMarkedLast
    <3>2. ASSUME IsMarkedLast(hunk, i) PROVE IsMarked(hunk, i)
      <4>1. PICK j \in (i + 1)..N :
              hunk.lines[j].kind = "eof" /\ \A k \in (i + 1)..(j - 1) : hunk.lines[k].kind = "blank"
        BY <3>2 DEF IsMarkedLast
      <4>2. \A k \in 1..N : hunk.lines[k].kind # "blank"
        BY <1>1 DEF SaysWhatIs
      <4>3. j = i + 1
        <5> SUFFICES ASSUME j # i + 1 PROVE FALSE
          OBVIOUS
        <5>1. i + 1 \in (i + 1)..(j - 1) /\ i + 1 \in 1..N
          BY <1>1, <4>1
        <5>2. QED
          BY <4>1, <4>2, <5>1
      <4>4. QED
        BY <1>1, <4>1, <4>3 DEF IsMarked
    <3>3. QED
      BY <3>1, <3>2
  <2>2. CASE IsMarked(hunk, i)
    BY <2>1, <2>2 DEF NewLine, LineSaid, LastLine
  <2>3. CASE ~IsMarked(hunk, i) /\ hunk.lines[i].kind = "context"
    <3>1. i \in OldLines(hunk)
      BY <1>1, <2>3 DEF OldLines
    <3>2. QED
      BY <2>1, <2>3, <3>1 DEF NewLine, SaysWhatIs
  <2>4. CASE ~IsMarked(hunk, i) /\ hunk.lines[i].kind # "context"
    BY <2>1, <2>4 DEF NewLine, LineSaid, Line
  <2>5. QED
    BY <2>2, <2>3, <2>4
<1>3. [i \in DOMAIN hunk.lines |-> NewLine(content, hunk, i)]
        = [i \in DOMAIN hunk.lines |-> LineSaid(hunk, i)]
  BY <1>1, <1>2
<1>4. QED
  BY <1>3 DEF NewSide, NewSideSaid

\* Every hunk in order, in the file, and saying what is there.
SaysInOrder(content, hunks) ==
  /\ hunks # <<>>
  /\ \A h \in DOMAIN hunks :
       /\ EndBefore(hunks, h) <= Target(hunks[h]) /\ EndOf(hunks[h]) <= Len(content)
       /\ SaysWhatIs(content, hunks[h])

\* Such hunks apply, and what they come to is what they say, the lines run together.
LEMMA SaidIsMeant ==
  ASSUME NEW content, NEW hunks, IsList(content), IsList(hunks),
         \A h \in DOMAIN hunks : IsHunk(hunks[h]), \A i \in DOMAIN content : IsLine(content[i]),
         SaysInOrder(content, hunks)
  PROVE  LinesUp(content, hunks) /\ Meant(content, hunks) = Rejoin(Said(content, hunks))
<1>1. \A h \in DOMAIN hunks :
        /\ EndBefore(hunks, h) \in Nat /\ Target(hunks[h]) \in Nat /\ EndOf(hunks[h]) \in Nat
        /\ Target(hunks[h]) <= EndOf(hunks[h])
  BY PlacesInOrder DEF SaysInOrder
<1>2. Len(content) \in Nat /\ DOMAIN content = 1..Len(content)
  BY ListElements
<1>3. LinesUp(content, hunks)
  <2>1. ASSUME NEW h \in DOMAIN hunks, NEW i \in DOMAIN hunks[h].lines
        PROVE  LineMatches(content, hunks[h], i)
    <3>1. SaysWhatIs(content, hunks[h]) /\ EndOf(hunks[h]) <= Len(content) /\ EndOf(hunks[h]) \in Nat
      BY <1>1 DEF SaysInOrder
    <3>2. hunks[h].lines[i].kind \in {"add", "remove", "context", "eof"}
      BY <3>1 DEF SaysWhatIs
    <3>3. ASSUME i \in OldLines(hunks[h])
          PROVE  /\ OldPlace(hunks[h], i) <= Len(content)
                 /\ content[OldPlace(hunks[h], i)].text = hunks[h].lines[i].text
      <4>1. Len(hunks[h].lines) \in Nat /\ i \in 0..Len(hunks[h].lines)
        BY <2>1, ListElements DEF IsHunk
      <4>2. OldPlace(hunks[h], i) \in Int
        BY <4>1, OldPlaces
      <4>3. OldPlace(hunks[h], i) <= EndOf(hunks[h])
        BY <3>3, OldPlaceIsBeforeEnd
      <4>4. content[OldPlace(hunks[h], i)].text = hunks[h].lines[i].text
        <5>1. content[OldPlace(hunks[h], i)] = LineSaid(hunks[h], i)
          BY <3>1, <3>3 DEF SaysWhatIs
        <5>2. LineSaid(hunks[h], i).text = hunks[h].lines[i].text
          BY DEF LineSaid
        <5>3. QED
          BY <5>1, <5>2
      <4>5. QED
        BY <1>2, <3>1, <4>2, <4>3, <4>4
    <3>4. QED
      BY <3>2, <3>3 DEF LineMatches
  <2>2. QED
    BY <2>1 DEF SaysInOrder, LinesUp
<1>4. ASSUME NEW h \in DOMAIN hunks
      PROVE  Kept(content, EndBefore(hunks, h), Target(hunks[h])) \o NewSide(content, hunks[h])
               = SubSeq(content, EndBefore(hunks, h) + 1, Target(hunks[h])) \o NewSideSaid(hunks[h])
  <2> DEFINE from == EndBefore(hunks, h)
             to   == Target(hunks[h])
  <2>1. from \in Nat /\ to \in Nat /\ from <= to /\ to <= Len(content)
    BY <1>1, <1>2 DEF SaysInOrder
  <2> HIDE DEF from, to
  <2>2. Kept(content, from, to) = [i \in 1..(to - from) |-> content[from + i]]
    BY <1>2, <2>1 DEF Kept
  <2>3. SubSeq(content, from + 1, to) = [i \in 1..(to - from) |-> content[from + i]]
    <3>1. content \in Seq(Range(content))
      BY DEF IsList
    <3> DEFINE T == Range(content)
               part == SubSeq(content, from + 1, to)
    <3> HIDE DEF T
    <3>2. \A i \in (from + 1)..to : content[i] \in T
      BY <1>2, <2>1, <3>1 DEF T, Range
    <3>3. /\ part \in Seq(T) /\ Len(part) = to - from
          /\ \A i \in 1..(to - from) : part[i] = content[from + i]
      BY <2>1, <3>1, <3>2 DEF T
    <3> HIDE DEF part
    <3>4. DOMAIN part = 1..(to - from) /\ part = [i \in DOMAIN part |-> part[i]]
      BY <2>1, <3>3
    <3>5. QED
      BY <3>3, <3>4 DEF part
  <2>4. NewSide(content, hunks[h]) = NewSideSaid(hunks[h])
    BY NewSideIsSaid DEF SaysInOrder
  <2>5. QED
    BY <2>2, <2>3, <2>4 DEF from, to
<1>5. [h \in DOMAIN hunks |-> Kept(content, EndBefore(hunks, h), Target(hunks[h]))
                                \o NewSide(content, hunks[h])]
      = [h \in DOMAIN hunks |-> SubSeq(content, EndBefore(hunks, h) + 1, Target(hunks[h]))
                                  \o NewSideSaid(hunks[h])]
  BY <1>4
<1>6. Meant(content, hunks) = Rejoin(Said(content, hunks))
  BY <1>5 DEF Meant, Said
<1>7. QED
  BY <1>3, <1>6

\* What hunks say is a list of lines.
LEMMA SaidIsLines ==
  ASSUME NEW content, NEW hunks, IsList(content), IsList(hunks),
         \A h \in DOMAIN hunks : IsHunk(hunks[h]), \A i \in DOMAIN content : IsLine(content[i]),
         SaysInOrder(content, hunks)
  PROVE  \E T : Said(content, hunks) \in Seq(T) /\ \A x \in T : IsLine(x)
<1> DEFINE T == Range(content)
                  \cup UNION {{LineSaid(hunks[h], i) : i \in DOMAIN hunks[h].lines} : h \in DOMAIN hunks}
           N == Len(hunks)
           piece(h) == SubSeq(content, EndBefore(hunks, h) + 1, Target(hunks[h]))
                         \o NewSideSaid(hunks[h])
           tail == SubSeq(content, EndOf(Last(hunks)) + 1, Len(content))
<1>1. N \in Nat /\ DOMAIN hunks = 1..N /\ Len(content) \in Nat /\ DOMAIN content = 1..Len(content)
  BY ListElements
<1>2. \A x \in T : IsLine(x)
  <2>1. \A h \in DOMAIN hunks : \A i \in DOMAIN hunks[h].lines : IsLine(LineSaid(hunks[h], i))
    BY DEF IsLine, LineSaid, IsMarked
  <2>2. \A x \in Range(content) : IsLine(x)
    BY DEF Range
  <2>3. QED
    BY <2>1, <2>2
<1>3. content \in Seq(T)
  <2>1. content \in Seq(Range(content)) /\ Range(content) \subseteq T
    BY DEF IsList
  <2> DEFINE R == Range(content)
  <2> HIDE DEF R, T
  <2>2. QED
    BY <2>1 DEF R
<1>4. \A h \in 1..N : \A i \in DOMAIN hunks[h].lines : LineSaid(hunks[h], i) \in T
  BY <1>1
<1> HIDE DEF T
<1>5. \A i \in 1..Len(content) : content[i] \in T
  BY <1>1, <1>3
<1>6. \A h \in DOMAIN hunks :
        /\ EndBefore(hunks, h) \in Nat /\ Target(hunks[h]) \in Nat /\ EndOf(hunks[h]) \in Nat
        /\ Target(hunks[h]) <= EndOf(hunks[h])
  BY PlacesInOrder DEF SaysInOrder
<1>7. ASSUME NEW from \in Nat, NEW to \in Nat, to <= Len(content)
      PROVE  SubSeq(content, from + 1, to) \in Seq(T)
  <2>1. \A i \in (from + 1)..to : content[i] \in T
    BY <1>1, <1>5, <1>7
  <2>2. QED
    BY <1>1, <1>3, <1>7, <2>1
<1>8. \A h \in 1..N : piece(h) \in Seq(T)
  <2> TAKE h \in 1..N
  <2>1. SubSeq(content, EndBefore(hunks, h) + 1, Target(hunks[h])) \in Seq(T)
    <3>1. /\ EndBefore(hunks, h) \in Nat /\ Target(hunks[h]) \in Nat /\ EndOf(hunks[h]) \in Nat
          /\ Target(hunks[h]) <= EndOf(hunks[h])
      BY <1>1, <1>6
    <3>2. EndOf(hunks[h]) <= Len(content)
      BY <1>1 DEF SaysInOrder
    <3>3. Target(hunks[h]) <= Len(content)
      BY <1>1, <3>1, <3>2
    <3>4. QED
      BY <1>7, <3>1, <3>3
  <2>2. NewSideSaid(hunks[h]) \in Seq(T)
    <3> DEFINE lines == [i \in DOMAIN hunks[h].lines |-> LineSaid(hunks[h], i)]
    <3>1. Len(hunks[h].lines) \in Nat /\ DOMAIN hunks[h].lines = 1..Len(hunks[h].lines)
      BY <1>1, ListElements DEF IsHunk
    <3>2. lines \in Seq(T)
      <4>1. \A i \in 1..Len(hunks[h].lines) : LineSaid(hunks[h], i) \in T
        BY <1>4, <3>1
      <4>2. lines \in [1..Len(hunks[h].lines) -> T]
        BY <3>1, <4>1
      <4> HIDE DEF lines
      <4>3. QED
        BY <3>1, <4>2
    <3> HIDE DEF lines
    <3>3. Picked(lines, NewLines(hunks[h])) \in Seq(T)
      BY <3>2, PickedProperties
    <3>4. QED
      BY <3>3 DEF NewSideSaid, lines
  <2>3. QED
    BY <2>1, <2>2
<1> DEFINE pieces == [h \in DOMAIN hunks |-> piece(h)]
<1>9. pieces \in Seq(Seq(T))
  <2> HIDE DEF piece
  <2>1. QED
    BY <1>1, <1>8
<1>10. FlattenSeq(pieces) \in Seq(T)
  <2> HIDE DEF pieces
  <2>1. QED
    BY <1>9, FlattenProperties
<1>11. tail \in Seq(T)
  <2>1. N \in DOMAIN hunks /\ Last(hunks) = hunks[N]
    <3>1. N # 0
      BY <1>1 DEF SaysInOrder, IsList
    <3>2. QED
      BY <1>1, <3>1 DEF Last
  <2>2. EndOf(Last(hunks)) \in Nat
    BY <1>6, <2>1
  <2>3. QED
    BY <1>1, <1>7, <2>2
<1>12. Said(content, hunks) = FlattenSeq(pieces) \o tail
  BY DEF Said
<1> HIDE DEF pieces, tail
<1>13. Said(content, hunks) \in Seq(T)
  BY <1>10, <1>11, <1>12
<1>14. QED
  BY <1>2, <1>13

\* Hunks that apply without a guess are in order, in the file, and say what is there.
LEMMA AppliedWithoutAGuess ==
  ASSUME NEW content, NEW hunks, IsList(content), IsList(hunks),
         \A h \in DOMAIN hunks : IsHunk(hunks[h]), \A i \in DOMAIN content : IsLine(content[i]),
         LinesUp(content, hunks), ~Guesses(content, hunks)
  PROVE  SaysInOrder(content, hunks)
<1>1. \A h \in DOMAIN hunks :
        /\ EndBefore(hunks, h) \in Nat /\ Target(hunks[h]) \in Nat /\ EndOf(hunks[h]) \in Nat
        /\ Target(hunks[h]) <= EndOf(hunks[h])
  BY PlacesInOrder DEF LinesUp
<1>2. Len(content) \in Nat /\ DOMAIN content = 1..Len(content)
  BY ListElements
<1>3. ASSUME NEW h \in DOMAIN hunks
      PROVE  EndOf(hunks[h]) <= Len(content) /\ SaysWhatIs(content, hunks[h])
  <2> DEFINE hunk == hunks[h]
             N    == Len(hunk.lines)
             S    == {n \in 0..N : OldPlace(hunk, n) <= Len(content)}
  <2>1. IsHunk(hunk) /\ N \in Nat /\ DOMAIN hunk.lines = 1..N
    BY <1>3, ListElements DEF IsHunk
  <2>2. \A i \in 1..N : LineMatches(content, hunk, i)
    BY <1>3, <2>1 DEF LinesUp
  <2>3. Target(hunk) <= Len(content) /\ \A i \in 1..N : hunk.lines[i].kind # "blank"
    BY <1>1, <1>2, <1>3, <2>1 DEF Guesses
  <2> HIDE DEF hunk
  <2>4. /\ Target(hunk) \in Int /\ OldPlace(hunk, 0) = Target(hunk) /\ OldPlace(hunk, N) = EndOf(hunk)
        /\ \A n \in 0..N : OldPlace(hunk, n) \in Int
        /\ \A n \in 1..N : OldPlace(hunk, n) = OldPlace(hunk, n - 1) + IF n \in OldLines(hunk) THEN 1 ELSE 0
    BY <2>1, OldPlaces
  <2>5. 0 \in S
    BY <2>1, <2>3, <2>4
  <2>6. \A n \in 1..N : n - 1 \in S => n \in S
    <3> TAKE n \in 1..N
    <3> SUFFICES ASSUME n - 1 \in S PROVE n \in S
      OBVIOUS
    <3>1. n \in OldLines(hunk) => OldPlace(hunk, n) <= Len(content)
      BY <2>2 DEF LineMatches
    <3>2. n - 1 \in 0..N /\ n \in 0..N
      BY <2>1
    <3>3. n \notin OldLines(hunk) => OldPlace(hunk, n) = OldPlace(hunk, n - 1)
      BY <2>4, <3>2
    <3>4. QED
      BY <3>1, <3>2, <3>3
  <2> HIDE DEF N, S
  <2>7. N \in S
    <3>1. N \in 0..N
      BY <2>1
    <3>2. QED
      BY <2>1, <2>5, <2>6, <3>1, Induction
  <2>8. EndOf(hunk) <= Len(content)
    BY <2>4, <2>7 DEF S
  <2>9. \A i \in DOMAIN hunk.lines : hunk.lines[i].kind \in {"add", "remove", "context", "eof"}
    BY <2>1, <2>2, <2>3 DEF LineMatches
  <2>10. ASSUME NEW i \in OldLines(hunk)
         PROVE  content[OldPlace(hunk, i)] = LineSaid(hunk, i)
    <3>1. i \in 1..N /\ i \in 0..N
      BY <2>1 DEF OldLines
    <3>2. OldPlace(hunk, i) <= Len(content) /\ content[OldPlace(hunk, i)].text = hunk.lines[i].text
      BY <2>2, <3>1 DEF LineMatches
    <3>3. Target(hunk) < OldPlace(hunk, i) /\ OldPlace(hunk, i) \in Int
      BY <2>1, <2>4, <3>1, OldPlaceIsBeforeEnd
    <3>4. OldPlace(hunk, i) \in DOMAIN content
      BY <1>1, <1>2, <1>3, <3>2, <3>3 DEF hunk
    <3>5. content[OldPlace(hunk, i)].newline = LineSaid(hunk, i).newline
      BY <1>3 DEF Guesses, hunk
    <3> DEFINE line == content[OldPlace(hunk, i)]
    <3>6. line = [text |-> line.text, newline |-> line.newline]
      BY <3>4 DEF IsLine
    <3>7. line.text = hunk.lines[i].text /\ line.newline = ~IsMarked(hunk, i)
      BY <3>2, <3>5 DEF LineSaid
    <3> HIDE DEF line
    <3>8. line = [text |-> hunk.lines[i].text, newline |-> ~IsMarked(hunk, i)]
      BY <3>6, <3>7
    <3>9. QED
      BY <3>8 DEF line, LineSaid
  <2>11. QED
    BY <2>8, <2>9, <2>10 DEF hunk, SaysWhatIs
<1>4. QED
  BY <1>3 DEF SaysInOrder, LinesUp

\* A unified diff that says what is in the file applies, and the file it leaves is what it says;
\* and one that applies says so unless applying it took one of the named guesses
\* (applyUnifiedDiff).
THEOREM PatchesMeanWhatTheySay ==
  ASSUME NEW content, NEW hunks, IsList(content), IsList(hunks),
         \A h \in DOMAIN hunks : IsHunk(hunks[h]), \A i \in DOMAIN content : IsLine(content[i])
  PROVE  LET applied == Apply(content, hunks)
         IN  /\ IsSaidOf(content, hunks) <=> applied.ok /\ ~Guesses(content, hunks)
             /\ IsSaidOf(content, hunks) => applied.content = Said(content, hunks)
<1> DEFINE applied == Apply(content, hunks)
<1>1. /\ applied.ok <=> LinesUp(content, hunks)
      /\ applied.ok => applied.content = Meant(content, hunks)
  BY ApplyingComesTo
<1> HIDE DEF applied
<1>2. ASSUME IsSaidOf(content, hunks)
      PROVE  applied.ok /\ ~Guesses(content, hunks) /\ applied.content = Said(content, hunks)
  <2>1. SaysInOrder(content, hunks) /\ IsFileText(Said(content, hunks))
    BY <1>2 DEF IsSaidOf, SaysInOrder, SaysWhatIs
  <2>2. LinesUp(content, hunks) /\ Meant(content, hunks) = Rejoin(Said(content, hunks))
    BY <2>1, SaidIsMeant
  <2>3. PICK T : Said(content, hunks) \in Seq(T) /\ \A x \in T : IsLine(x)
    BY <2>1, SaidIsLines
  <2>4. Rejoin(Said(content, hunks)) = Said(content, hunks)
    BY <2>1, <2>3, RejoinKeeps
  <2>5. ~Guesses(content, hunks)
    <3>1. Len(content) \in Nat
      BY ListElements
    <3>2. ASSUME NEW h \in DOMAIN hunks
          PROVE  /\ ~(Target(hunks[h]) > Len(content))
                 /\ CountOf(hunks[h].count) = Cardinality(OldLines(hunks[h]))
                 /\ \A i \in DOMAIN hunks[h].lines : hunks[h].lines[i].kind # "blank"
                 /\ \A i \in OldLines(hunks[h]) :
                      content[OldPlace(hunks[h], i)] = LineSaid(hunks[h], i)
      <4>1. /\ Target(hunks[h]) \in Nat /\ EndOf(hunks[h]) \in Nat
            /\ Target(hunks[h]) <= EndOf(hunks[h])
        BY <2>1, PlacesInOrder DEF SaysInOrder
      <4>2. EndOf(hunks[h]) <= Len(content)
        BY <2>1 DEF SaysInOrder
      <4>3. /\ CountOf(hunks[h].count) = Cardinality(OldLines(hunks[h]))
            /\ \A i \in OldLines(hunks[h]) : content[OldPlace(hunks[h], i)] = LineSaid(hunks[h], i)
        BY <1>2 DEF IsSaidOf
      <4>4. \A i \in DOMAIN hunks[h].lines : hunks[h].lines[i].kind # "blank"
        BY <2>1 DEF SaysInOrder, SaysWhatIs
      <4>5. QED
        BY <3>1, <4>1, <4>2, <4>3, <4>4
    <3>3. QED
      BY <2>1, <3>2 DEF Guesses
  <2>6. QED
    BY <1>1, <2>2, <2>4, <2>5
<1>3. ASSUME applied.ok, ~Guesses(content, hunks)
      PROVE  IsSaidOf(content, hunks)
  <2>1. LinesUp(content, hunks)
    BY <1>1, <1>3
  <2>2. SaysInOrder(content, hunks)
    BY <1>3, <2>1, AppliedWithoutAGuess
  <2>3. /\ IsFileText(Said(content, hunks))
        /\ \A h \in DOMAIN hunks : CountOf(hunks[h].count) = Cardinality(OldLines(hunks[h]))
    BY <1>3 DEF Guesses
  <2>4. QED
    BY <2>2, <2>3 DEF IsSaidOf, SaysInOrder, SaysWhatIs
<1>4. QED
  BY <1>2, <1>3 DEF applied

-----------------------------------------------------------------------------
(* Patches of one file, one after the other. *)

\* One patch more, on what the ones before left.
AlsoApplied(forge, acc, hunks) == IF acc.ok THEN ApplyPatch(forge, acc.content, hunks) ELSE Failed

\* Patch after patch.
AllDone(forge, content, patches, m, upTo) ==
  upTo = [n \in 0..m |-> IF n = 0 THEN [ok |-> TRUE, content |-> content]
                         ELSE AlsoApplied(forge, upTo[n - 1], patches[n])]

LEMMA AllIsDone ==
  ASSUME NEW forge, NEW content, NEW patches, NEW some, AllDone(forge, content, patches, Len(patches), some)
  PROVE  \E upTo : AllDone(forge, content, patches, Len(patches), upTo) /\ ApplyAll(forge, content, patches) = upTo[Len(patches)]
BY DEF AllDone, ApplyAll, AlsoApplied

LEMMA AllRun ==
  ASSUME NEW forge, NEW content, NEW patches, IsList(patches)
  PROVE  \E upTo : /\ upTo[0] = [ok |-> TRUE, content |-> content] /\ upTo[Len(patches)] = ApplyAll(forge, content, patches)
                   /\ \A n \in 1..Len(patches) : upTo[n] = AlsoApplied(forge, upTo[n - 1], patches[n])
<1> DEFINE N       == Len(patches)
           reached == {m \in 0..N : \E upTo : AllDone(forge, content, patches, m, upTo)}
<1>1. N \in Nat /\ 0 \in 0..N /\ N \in 0..N
  BY ListElements
<1>2. 0 \in reached
  <2> DEFINE g == [n \in 0..0 |-> [ok |-> TRUE, content |-> content]]
  <2>1. g = [n \in 0..0 |-> IF n = 0 THEN [ok |-> TRUE, content |-> content] ELSE AlsoApplied(forge, g[n - 1], patches[n])]
    OBVIOUS
  <2> HIDE DEF g
  <2>2. AllDone(forge, content, patches, 0, g)
    BY <2>1 DEF AllDone
  <2>3. QED
    BY <1>1, <2>2
<1>3. ASSUME NEW m \in 1..N, m - 1 \in reached PROVE m \in reached
  <2>1. PICK g : AllDone(forge, content, patches, m - 1, g)
    BY <1>3
  <2>2. \A n \in 0..(m - 1) : g[n] = IF n = 0 THEN [ok |-> TRUE, content |-> content] ELSE AlsoApplied(forge, g[n - 1], patches[n])
    BY <2>1, Zenon DEF AllDone
  <2> DEFINE h == [n \in 0..m |-> IF n = m THEN AlsoApplied(forge, g[m - 1], patches[m]) ELSE g[n]]
  <2>3. m \in Nat /\ m # 0 /\ m \in 0..m /\ m - 1 \in 0..m /\ m - 1 # m /\ m \in 0..N
        /\ (\A n \in 0..m : n = m \/ (n \in 0..(m - 1) /\ n # m))
        /\ (\A n \in 0..m : n = 0 \/ (n - 1 \in 0..m /\ n - 1 # m))
    BY <1>1
  <2>4. h[m] = AlsoApplied(forge, h[m - 1], patches[m])
    BY <2>3
  <2>5. \A n \in 0..(m - 1) : h[n] = IF n = 0 THEN [ok |-> TRUE, content |-> content] ELSE AlsoApplied(forge, h[n - 1], patches[n])
    <3> TAKE n \in 0..(m - 1)
    <3>1. n \in 0..m /\ n # m
      BY <2>3
    <3>2. h[n] = g[n] /\ (n # 0 => h[n - 1] = g[n - 1])
      BY <2>3, <3>1
    <3> HIDE DEF h
    <3>3. QED
      BY <2>2, <3>2
  <2>6. h = [n \in 0..m |-> h[n]]
    OBVIOUS
  <2> HIDE DEF h
  <2>7. \A n \in 0..m : h[n] = IF n = 0 THEN [ok |-> TRUE, content |-> content] ELSE AlsoApplied(forge, h[n - 1], patches[n])
    BY <2>3, <2>4, <2>5
  <2>8. AllDone(forge, content, patches, m, h)
    BY <2>6, <2>7 DEF AllDone
  <2>9. QED
    BY <2>3, <2>8
<1> HIDE DEF reached
<1>4. N \in reached
  <2> HIDE DEF N
  <2>1. \A n \in 0..N : n \in reached
    BY <1>1, <1>2, <1>3, Induction
  <2>2. QED
    BY <1>1, <2>1
<1>5. PICK upTo : AllDone(forge, content, patches, N, upTo) /\ ApplyAll(forge, content, patches) = upTo[N]
  BY <1>4, AllIsDone DEF reached
<1>6. \A n \in 0..N : upTo[n] = IF n = 0 THEN [ok |-> TRUE, content |-> content] ELSE AlsoApplied(forge, upTo[n - 1], patches[n])
  BY <1>5, Zenon DEF AllDone
<1>7. \A n \in 1..N : n \in 0..N /\ n # 0
  BY <1>1
<1>8. QED
  BY <1>1, <1>5, <1>6, <1>7

\* And what they mean.
MeantDone(content, patches, m, upTo) ==
  upTo = [n \in 0..m |-> IF n = 0 THEN content
                         ELSE Meant(upTo[n - 1], patches[n])]

LEMMA MeantIsDone ==
  ASSUME NEW content, NEW patches, NEW some, MeantDone(content, patches, Len(patches), some)
  PROVE  \E upTo : MeantDone(content, patches, Len(patches), upTo) /\ MeantAll(content, patches) = upTo[Len(patches)]
BY DEF MeantDone, MeantAll

MeantInTurn(content, patches, upTo) ==
  /\ upTo[0] = content /\ upTo[Len(patches)] = MeantAll(content, patches)
  /\ \A n \in 1..Len(patches) : upTo[n] = Meant(upTo[n - 1], patches[n])

LEMMA MeantRuns ==
  ASSUME NEW content, NEW patches, IsList(patches)
  PROVE  \E upTo : MeantInTurn(content, patches, upTo)
<1> DEFINE N       == Len(patches)
           reached == {m \in 0..N : \E upTo : MeantDone(content, patches, m, upTo)}
<1>1. N \in Nat /\ 0 \in 0..N /\ N \in 0..N
  BY ListElements
<1>2. 0 \in reached
  <2> DEFINE g == [n \in 0..0 |-> content]
  <2>1. g = [n \in 0..0 |-> IF n = 0 THEN content ELSE Meant(g[n - 1], patches[n])]
    OBVIOUS
  <2> HIDE DEF g
  <2>2. MeantDone(content, patches, 0, g)
    BY <2>1 DEF MeantDone
  <2>3. QED
    BY <1>1, <2>2
<1>3. ASSUME NEW m \in 1..N, m - 1 \in reached PROVE m \in reached
  <2>1. PICK g : MeantDone(content, patches, m - 1, g)
    BY <1>3
  <2>2. \A n \in 0..(m - 1) : g[n] = IF n = 0 THEN content ELSE Meant(g[n - 1], patches[n])
    BY <2>1, Zenon DEF MeantDone
  <2> DEFINE h == [n \in 0..m |-> IF n = m THEN Meant(g[m - 1], patches[m]) ELSE g[n]]
  <2>3. m \in Nat /\ m # 0 /\ m \in 0..m /\ m - 1 \in 0..m /\ m - 1 # m /\ m \in 0..N
        /\ (\A n \in 0..m : n = m \/ (n \in 0..(m - 1) /\ n # m))
        /\ (\A n \in 0..m : n = 0 \/ (n - 1 \in 0..m /\ n - 1 # m))
    BY <1>1
  <2>4. h[m] = Meant(h[m - 1], patches[m])
    BY <2>3
  <2>5. \A n \in 0..(m - 1) : h[n] = IF n = 0 THEN content ELSE Meant(h[n - 1], patches[n])
    <3> TAKE n \in 0..(m - 1)
    <3>1. n \in 0..m /\ n # m
      BY <2>3
    <3>2. h[n] = g[n] /\ (n # 0 => h[n - 1] = g[n - 1])
      BY <2>3, <3>1
    <3> HIDE DEF h
    <3>3. QED
      BY <2>2, <3>2
  <2>6. h = [n \in 0..m |-> h[n]]
    OBVIOUS
  <2> HIDE DEF h
  <2>7. \A n \in 0..m : h[n] = IF n = 0 THEN content ELSE Meant(h[n - 1], patches[n])
    BY <2>3, <2>4, <2>5
  <2>8. MeantDone(content, patches, m, h)
    BY <2>6, <2>7 DEF MeantDone
  <2>9. QED
    BY <2>3, <2>8
<1> HIDE DEF reached
<1>4. N \in reached
  <2> HIDE DEF N
  <2>1. \A n \in 0..N : n \in reached
    BY <1>1, <1>2, <1>3, Induction
  <2>2. QED
    BY <1>1, <2>1
<1>5. PICK upTo : MeantDone(content, patches, N, upTo) /\ MeantAll(content, patches) = upTo[N]
  BY <1>4, MeantIsDone DEF reached
<1>6. \A n \in 0..N : upTo[n] = IF n = 0 THEN content ELSE Meant(upTo[n - 1], patches[n])
  BY <1>5, Zenon DEF MeantDone
<1>7. \A n \in 1..N : n \in 0..N /\ n # 0
  BY <1>1
<1>8. MeantInTurn(content, patches, upTo)
  BY <1>1, <1>5, <1>6, <1>7 DEF MeantInTurn
<1>9. QED
  BY <1>8

\* A list of hunks.
IsDiff(hunks) == IsList(hunks) /\ \A h \in DOMAIN hunks : IsHunk(hunks[h])

\* A single patch means what it means.
LEMMA OneMeansItself ==
  ASSUME NEW content, NEW patches, IsList(patches), Len(patches) = 1
  PROVE  MeantAll(content, patches) = Meant(content, patches[1])
<1>1. PICK v : MeantInTurn(content, patches, v)
  BY MeantRuns
<1>2. v[1] = Meant(v[0], patches[1])
  BY <1>1 DEF MeantInTurn
<1>3. QED
  BY <1>1, <1>2 DEF MeantInTurn

\* Patches that all apply, one after the other, leave what they mean.
LEMMA PatchesMeanOneAfterTheOther ==
  ASSUME NEW forge, NEW content, NEW patches, IsList(content), IsList(patches),
         \A i \in DOMAIN patches : IsDiff(patches[i]), ApplyAll(forge, content, patches).ok
  PROVE  ApplyAll(forge, content, patches).content = MeantAll(content, patches)
<1> DEFINE N == Len(patches)
           start == [ok |-> TRUE, content |-> content]
<1>1. N \in Nat /\ DOMAIN patches = 1..N
  BY ListElements
<1>2. PICK u : /\ u[0] = start /\ u[N] = ApplyAll(forge, content, patches)
               /\ \A n \in 1..N : u[n] = AlsoApplied(forge, u[n - 1], patches[n])
  BY AllRun
<1>3. PICK v : MeantInTurn(content, patches, v)
  BY MeantRuns
<1> DEFINE Holds(n) == u[n].ok => u[n].content = v[n] /\ IsList(u[n].content)
           S        == {n \in 0..N : Holds(n)}
<1>4. u[0].ok = TRUE /\ u[0].content = content
  BY <1>2
<1>5. 0 \in S
  BY <1>1, <1>3, <1>4 DEF MeantInTurn
<1>6. ASSUME NEW n \in 1..N, n - 1 \in S PROVE n \in S
  <2>1. n \in 0..N /\ Holds(n - 1)
    BY <1>1, <1>6
  <2>2. u[n] = AlsoApplied(forge, u[n - 1], patches[n]) /\ v[n] = Meant(v[n - 1], patches[n])
    BY <1>2, <1>3 DEF MeantInTurn
  <2>3. CASE ~u[n - 1].ok
    <3>1. u[n].ok = FALSE
      BY <2>2, <2>3 DEF AlsoApplied, Failed
    <3>2. QED
      BY <2>1, <3>1
  <2>4. CASE u[n - 1].ok
    <3>1. u[n] = Apply(u[n - 1].content, patches[n])
      BY <2>2, <2>4 DEF AlsoApplied, ApplyPatch, ApplyPatchGitHub, ApplyPatchGitLab
    <3>2. IsList(u[n - 1].content) /\ u[n - 1].content = v[n - 1] /\ IsDiff(patches[n])
      BY <1>1, <2>1, <2>4
    <3>3. u[n].ok => u[n].content = Meant(u[n - 1].content, patches[n]) /\ IsList(u[n].content)
      BY <3>1, <3>2, ApplyingComesTo DEF IsDiff
    <3>4. Holds(n)
      BY <2>2, <3>2, <3>3
    <3> HIDE DEF Holds
    <3>5. QED
      BY <2>1, <3>4
  <2>5. QED
    BY <2>3, <2>4
<1> HIDE DEF S, Holds
<1>7. Holds(N)
  <2> HIDE DEF N
  <2>1. \A n \in 0..N : n \in S
    BY <1>1, <1>5, <1>6, Induction
  <2>2. N \in 0..N
    BY <1>1
  <2>3. QED
    BY <2>1, <2>2 DEF S
<1>8. ApplyAll(forge, content, patches).content = MeantAll(content, patches)
  BY <1>2, <1>3, <1>7 DEF Holds, MeantInTurn
<1>9. QED
  BY <1>8

-----------------------------------------------------------------------------
(* A fix is its patches. *)

\* The default branch as it began, and as others pushed it.
Trees == {given.base} \cup Range(given.pushed)

\* A patch that no other shares its file with, and a workspace that has it.
IsAlone(i) == \A j \in DOMAIN Patched : FileOf(Patched[j]) = FileOf(Patched[i]) => j = i
IsWritten(r, i) ==
  /\ FileOf(Patched[i]) \in DOMAIN disk[r]
  /\ disk[r][FileOf(Patched[i])] = AppliedTo(given.files, Patched[i]).content
Written(r) == AllPass /\ \A i \in DOMAIN Patched : IsAlone(i) => IsWritten(r, i)

\* While a run writes, the patches before the one it is at are written.
Writes(r) ==
  /\ IsList(plan[r]) /\ Len(plan[r]) = Len(Patched)
  /\ \A i \in DOMAIN Patched :
       /\ plan[r][i].path = FileOf(Patched[i])
       /\ plan[r][i].content = AppliedTo(given.files, Patched[i]).content
       /\ IsAlone(i) /\ i < at[r] => IsWritten(r, i)

\* While it reads, and nobody has pushed, what it will commit is its patches on the default branch.
OnBase(path) == ApplyAll(given.forge, ContentOf(base.tree, path), Group(path))
Reads(r) ==
  /\ seen[r].pushes \in Nat /\ seen[r].pushes <= base.pushes
  /\ at[r] <= Len(PathOrder) + 1
  /\ seen[r].pushes = base.pushes =>
       /\ seen[r] = base /\ IsList(plan[r]) /\ Len(plan[r]) = at[r] - 1
       /\ \A i \in DOMAIN plan[r] :
            /\ plan[r][i].path = PathOrder[i] /\ OnBase(PathOrder[i]).ok
            /\ plan[r][i].content = OnBase(PathOrder[i]).content

Whole(r) ==
  /\ step[r] = "write" => AllPass /\ Writes(r)
  /\ step[r] \in {"gate", "base", "contents"} => Written(r)
  /\ step[r] = "contents" => Reads(r)

\* A tree with every patch, and nothing else.
IsPatched(tree, parent) ==
  /\ DOMAIN tree = DOMAIN parent \cup PathsPatched
  /\ \A p \in DOMAIN tree :
       tree[p] = IF p \in PathsPatched THEN MeantBy(ContentOf(parent, p), p) ELSE parent[p]

IsFix(branch) ==
  /\ branch.by \in Runs /\ step[branch.by] \in {"done", "failed"} /\ Written(branch.by)
  /\ IF given.forge = "local"
     THEN branch.parent.tree = given.files /\ branch.tree = disk[branch.by]
     ELSE branch.pushes = seen[branch.by].pushes =>
            branch.parent.tree \in Trees /\ IsPatched(branch.tree, branch.parent.tree)

\* The default branch is one that was pushed, runs are whole, and branches are fixes.
FixInv ==
  /\ base.pushes \in 0..Len(given.pushed) /\ base.tree \in Trees
  /\ DOMAIN seen = Runs
  /\ \A r \in Runs : Whole(r)
  /\ \A branch \in Range(branches) : IsFix(branch)

\* Patches are diffs, and files are lists of lines, also one that is not there.
LEMMA PatchesAreReal ==
  ASSUME Shape
  PROVE  /\ IsList(Patched) /\ IsList(given.pushed)
         /\ \A i \in DOMAIN Patched : IsDiff(Patched[i].hunks)
         /\ \A tree \in Trees \cup {given.files} : \A p : IsList(ContentOf(tree, p))
<1>1. /\ IsList(given.patches) /\ \A patch \in Range(given.patches) : IsPatch(patch)
      /\ IsList(given.pushed)
      /\ \A tree \in {given.files, given.base} \cup Range(given.pushed) :
           \A p \in DOMAIN tree : IsList(tree[p])
  BY ScenariosAreReal DEF ScenariosAreReal, Shape, given
<1>2. IsList(<<>>)
  BY DEF IsList, Range
<1>3. ASSUME NEW i \in DOMAIN Patched PROVE IsDiff(Patched[i].hunks)
  <2>1. IsPatch(Patched[i])
    BY <1>1 DEF Patched, Range
  <2> DEFINE hunks == Patched[i].hunks
  <2>2. /\ IsList(hunks)
        /\ \A hunk \in Range(hunks) :
             IsList(hunk.lines) /\ hunk.old \in Nat /\ CountOf(hunk.count) \in Nat
    BY <2>1 DEF IsPatch
  <2> HIDE DEF hunks
  <2>3. \A h \in DOMAIN hunks : hunks[h] \in Range(hunks)
    BY DEF Range
  <2>4. QED
    BY <2>2, <2>3 DEF IsDiff, IsHunk, hunks
<1>4. ASSUME NEW tree \in Trees \cup {given.files}, NEW p PROVE IsList(ContentOf(tree, p))
  <2>1. p \in DOMAIN tree => IsList(tree[p])
    BY <1>1 DEF Trees
  <2>2. QED
    BY <1>2, <2>1 DEF ContentOf
<1>5. QED
  BY <1>1, <1>3, <1>4 DEF Patched

\* The order of the paths leaves none out.
LEMMA PathsInOrder ==
  ASSUME Shape
  PROVE  /\ IsList(PathOrder) /\ Len(PathOrder) \in Nat
         /\ \A k \in 1..Len(PathOrder) : PathOrder[k] \in PathsPatched
         /\ \A p \in PathsPatched : \E k \in 1..Len(PathOrder) : PathOrder[k] = p
<1> DEFINE paths == [i \in DOMAIN Patched |-> Patched[i].path]
           first == {i \in DOMAIN Patched : \A j \in 1..(i - 1) : Patched[j].path # Patched[i].path}
           N     == Len(Patched)
           T     == PathsPatched
<1>1. DOMAIN Patched = 1..N /\ N \in Nat
  BY PatchesAreReal, ListElements
<1>2. paths \in Seq(T) /\ DOMAIN paths = 1..N /\ \A i \in 1..N : paths[i] = Patched[i].path
  BY <1>1 DEF PathsPatched
<1>3. PathOrder = Picked(paths, first)
  BY DEF PathOrder
<1> HIDE DEF paths, first, T
<1>4. /\ PathOrder \in Seq(T)
      /\ \A x : x \in Range(PathOrder) <=> \E i \in first \cap DOMAIN paths : x = paths[i]
  BY <1>2, <1>3, PickedProperties
<1> USE DEF first, T
<1>5. IsList(PathOrder) /\ Len(PathOrder) \in Nat /\ DOMAIN PathOrder = 1..Len(PathOrder)
  BY <1>4, IsListOf, ListElements
<1>6. \A k \in 1..Len(PathOrder) : PathOrder[k] \in T
  BY <1>4, <1>5
<1>7. ASSUME NEW p \in PathsPatched PROVE \E k \in 1..Len(PathOrder) : PathOrder[k] = p
  <2> DEFINE having == {i \in 1..N : Patched[i].path = p}
  <2>1. having \in SUBSET Nat /\ having # {}
    BY <1>1, <1>7 DEF PathsPatched
  <2>2. PICK i \in having : \A j \in having : i <= j
    BY <2>1, LeastNatural
  <2>3. i \in 1..N /\ Patched[i].path = p /\ \A j \in 1..(i - 1) : Patched[j].path # p
    <3>1. i \in 1..N /\ Patched[i].path = p
      BY <2>2
    <3>2. \A j \in 1..(i - 1) : j \in 1..N /\ ~(i <= j)
      BY <1>1, <3>1
    <3>3. QED
      BY <2>2, <3>1, <3>2
  <2>4. i \in first \cap DOMAIN paths /\ paths[i] = p
    BY <1>1, <1>2, <2>3
  <2>5. p \in Range(PathOrder)
    BY <1>4, <2>4
  <2>6. QED
    BY <1>5, <2>5 DEF Range
<1>8. QED
  BY <1>5, <1>6, <1>7

\* The patches of a path; of one that is alone with its file, that one.
LEMMA GroupIsDiffs ==
  ASSUME Shape, NEW path
  PROVE  /\ IsList(Group(path)) /\ \A k \in DOMAIN Group(path) : IsDiff(Group(path)[k])
         /\ \A content : MeantBy(content, path) = MeantAll(content, Group(path))
         /\ \A i \in DOMAIN Patched :
              IsAlone(i) /\ Patched[i].path = path =>
                Len(Group(path)) = 1 /\ Group(path)[1] = Patched[i].hunks
<1> DEFINE all  == [i \in DOMAIN Patched |-> Patched[i].hunks]
           own  == {i \in DOMAIN Patched : Patched[i].path = path}
           N    == Len(Patched)
           T    == {Patched[i].hunks : i \in DOMAIN Patched}
           group == Group(path)
<1>1. DOMAIN Patched = 1..N /\ N \in Nat
  BY PatchesAreReal, ListElements
<1>2. all \in Seq(T) /\ Len(all) = N /\ \A i \in 1..N : all[i] = Patched[i].hunks
  BY <1>1
<1>3. group = Picked(all, own)
  BY DEF Group
<1>4. \A content : MeantBy(content, path) = MeantAll(content, group)
  BY DEF MeantBy, Group
<1> HIDE DEF all, group
<1>5. own \in SUBSET (1..Len(all)) /\ \A i \in own : i \in DOMAIN Patched /\ Patched[i].path = path
  BY <1>1, <1>2
<1>6. PICK ids : group \in Seq(T) /\ PickedFrom(all, own, group, ids)
  BY <1>2, <1>3, <1>5, PickedByPlace
<1>7. IsList(group) /\ DOMAIN group = 1..Len(group)
  BY <1>6, IsListOf, ListElements
<1>8. \A k \in DOMAIN group : IsDiff(group[k])
  BY <1>6, PatchesAreReal
<1>9. ASSUME NEW i \in DOMAIN Patched, IsAlone(i), Patched[i].path = path
      PROVE  Len(group) = 1 /\ group[1] = Patched[i].hunks
  <2>1. \A j \in own : j = i
    <3> TAKE j \in own
    <3>1. FileOf(Patched[j]) = FileOf(Patched[i])
      BY <1>9 DEF FileOf
    <3>2. QED
      BY <1>9, <3>1 DEF IsAlone
  <2>2. i \in own
    BY <1>9
  <2> HIDE DEF own
  <2>3. /\ Len(group) = Len(ids) /\ Len(ids) \in Nat
        /\ \A k \in 1..Len(ids) : ids[k] = i /\ group[k] = all[ids[k]]
        /\ \A j, k \in 1..Len(ids) : ids[j] = ids[k] => j = k
        /\ \E k \in 1..Len(ids) : ids[k] = i
    BY <1>6, <2>1, <2>2 DEF PickedFrom
  <2>4. Len(ids) >= 1
    BY <2>3
  <2>5. 1 \in 1..Len(ids) /\ Len(ids) \in 1..Len(ids)
    BY <2>3, <2>4
  <2>6. 1 = Len(ids)
    BY <2>3, <2>5
  <2>7. QED
    BY <1>1, <1>2, <2>3, <2>5, <2>6
<1>10. QED
  BY <1>4, <1>7, <1>8, <1>9 DEF group

\* A finite set of places has a greatest.
LEMMA GreatestPlace ==
  ASSUME NEW N \in Nat, NEW places, places # {}, places \subseteq 1..N
  PROVE  Max(places) \in places
<1> DEFINE backwards == {N - i : i \in places}
<1>1. backwards \in SUBSET Nat /\ backwards # {}
  <2>1. \A i \in places : N - i \in Nat
    OBVIOUS
  <2>2. QED
    BY <2>1
<1>2. PICK j \in backwards : \A k \in backwards : j <= k
  BY <1>1, LeastNatural
<1>3. PICK i \in places : j = N - i
  OBVIOUS
<1>4. \A k \in places : k \in 1..N /\ i >= k
  <2> TAKE k \in places
  <2>1. N - k \in backwards /\ k \in 1..N /\ i \in 1..N
    OBVIOUS
  <2>2. N - i <= N - k
    BY <1>2, <1>3, <2>1
  <2>3. QED
    BY <2>1, <2>2
<1>5. QED
  BY <1>4 DEF Max

\* What was made of the default branch path by path makes the tree of the fix.
LEMMA TreeIsPatched ==
  ASSUME Shape, base.tree \in Trees, NEW entries, IsList(entries), Len(entries) = Len(PathOrder),
         \A i \in DOMAIN entries :
           /\ entries[i].path = PathOrder[i] /\ OnBase(PathOrder[i]).ok
           /\ entries[i].content = OnBase(PathOrder[i]).content
  PROVE  IsPatched(TreeOf(base.tree, entries), base.tree)
<1> DEFINE parent    == base.tree
           tree      == TreeOf(parent, entries)
           places(p) == {i \in DOMAIN entries : entries[i].path = p}
           N         == Len(entries)
<1>1. DOMAIN entries = 1..N /\ N \in Nat /\ N = Len(PathOrder)
  BY ListElements
<1>2. tree = [p \in DOMAIN parent \cup {entries[i].path : i \in DOMAIN entries} |->
               IF places(p) # {} THEN entries[Max(places(p))].content ELSE parent[p]]
  BY DEF TreeOf
<1>3. {entries[i].path : i \in DOMAIN entries} = PathsPatched
  BY <1>1, PathsInOrder
<1>4. DOMAIN tree = DOMAIN parent \cup PathsPatched
  BY <1>2, <1>3
<1>5. ASSUME NEW p \in DOMAIN tree
      PROVE  tree[p] = IF p \in PathsPatched THEN MeantBy(ContentOf(parent, p), p) ELSE parent[p]
  <2>1. tree[p] = IF places(p) # {} THEN entries[Max(places(p))].content ELSE parent[p]
    BY <1>2, <1>3, <1>4
  <2>2. CASE p \notin PathsPatched
    <3>1. places(p) = {}
      BY <1>3, <2>2
    <3>2. QED
      BY <2>1, <2>2, <3>1
  <2>3. CASE p \in PathsPatched
    <3>1. places(p) # {} /\ places(p) \subseteq 1..N
      BY <1>1, <1>3, <2>3
    <3>2. PICK i \in places(p) : i = Max(places(p))
      <4> HIDE DEF places, N
      <4>1. QED
        BY <1>1, <3>1, GreatestPlace
    <3>3. i \in DOMAIN entries /\ PathOrder[i] = p
      BY <3>2
    <3>4. OnBase(p).ok /\ tree[p] = OnBase(p).content
      BY <2>1, <3>1, <3>2, <3>3
    <3>5. IsList(ContentOf(parent, p))
      BY PatchesAreReal
    <3>6. /\ IsList(Group(p)) /\ \A k \in DOMAIN Group(p) : IsDiff(Group(p)[k])
          /\ MeantBy(ContentOf(parent, p), p) = MeantAll(ContentOf(parent, p), Group(p))
      BY GroupIsDiffs
    <3>7. OnBase(p).content = MeantAll(ContentOf(parent, p), Group(p))
      BY <3>4, <3>5, <3>6, PatchesMeanOneAfterTheOther DEF OnBase
    <3>8. QED
      BY <2>3, <3>4, <3>6, <3>7
  <2>4. QED
    BY <2>2, <2>3
<1>6. QED
  BY <1>4, <1>5 DEF IsPatched

\* What a scenario says stays.
LEMMA WhatIsGivenStays ==
  ASSUME scenario' = scenario
  PROVE  /\ given' = given /\ Patched' = Patched /\ AllPass' = AllPass /\ Trees' = Trees
         /\ PathsPatched' = PathsPatched /\ PathOrder' = PathOrder
         /\ \A i \in DOMAIN Patched :
              /\ IsAlone(i)' = IsAlone(i)
              /\ AppliedTo(given.files, Patched[i])' = AppliedTo(given.files, Patched[i])
              /\ FileOf(Patched[i])' = FileOf(Patched[i])
         /\ \A path : Group(path)' = Group(path)
         /\ \A content, path : MeantBy(content, path)' = MeantBy(content, path)
<1>1. given' = given /\ AllPass' = AllPass
  BY GivenStays, WhatIsPlannedStays
<1>2. Patched' = Patched
  BY <1>1 DEF Patched
<1>3. QED
  BY <1>1, <1>2 DEF Trees, PathsPatched, PathOrder, IsAlone, AppliedTo, ContentOf, Group,
                    MeantBy

\* Of a step by others: nothing of the run's changes.
StaysAsItIs(q) ==
  /\ scenario' = scenario /\ step'[q] = step[q] /\ at'[q] = at[q]
  /\ disk'[q] = disk[q] /\ plan'[q] = plan[q] /\ seen'[q] = seen[q]

LEMMA StaysWritten ==
  ASSUME scenario' = scenario, NEW q, disk'[q] = disk[q]
  PROVE  /\ \A i \in DOMAIN Patched : IsWritten(q, i)' = IsWritten(q, i)
         /\ Written(q)' = Written(q)
<1>1. /\ Patched' = Patched /\ AllPass' = AllPass
      /\ \A i \in DOMAIN Patched :
           /\ IsAlone(i)' = IsAlone(i) /\ FileOf(Patched[i])' = FileOf(Patched[i])
           /\ AppliedTo(given.files, Patched[i])' = AppliedTo(given.files, Patched[i])
  BY WhatIsGivenStays
<1>2. \A i \in DOMAIN Patched : IsWritten(q, i)' = IsWritten(q, i)
  BY <1>1 DEF IsWritten
<1>3. QED
  BY <1>1, <1>2 DEF Written

LEMMA StaysWhole ==
  ASSUME FixInv, NEW q \in Runs, StaysAsItIs(q), Whole(q),
         base' = base \/ Push
  PROVE  Whole(q)'
<1>1. /\ Patched' = Patched /\ AllPass' = AllPass /\ PathOrder' = PathOrder /\ given' = given
      /\ \A path : Group(path)' = Group(path)
      /\ \A i \in DOMAIN Patched :
           /\ IsAlone(i)' = IsAlone(i) /\ FileOf(Patched[i])' = FileOf(Patched[i])
           /\ AppliedTo(given.files, Patched[i])' = AppliedTo(given.files, Patched[i])
  BY WhatIsGivenStays DEF StaysAsItIs
<1>2. /\ \A i \in DOMAIN Patched : IsWritten(q, i)' = IsWritten(q, i)
      /\ Written(q)' = Written(q)
  BY StaysWritten DEF StaysAsItIs
<1>3. Writes(q) => Writes(q)'
  BY <1>1, <1>2 DEF Writes, StaysAsItIs
<1>4. Reads(q) => Reads(q)'
  <2>1. CASE base' = base
    <3>1. \A path : OnBase(path)' = OnBase(path)
      BY <1>1, <2>1 DEF OnBase, ContentOf
    <3>2. QED
      BY <1>1, <2>1, <3>1 DEF Reads, StaysAsItIs
  <2>2. CASE Push
    <3>1. base'.pushes = base.pushes + 1 /\ base.pushes \in Nat
      BY <2>2 DEF Push, FixInv
    <3>2. QED
      BY <1>1, <3>1 DEF Reads, StaysAsItIs
  <2>3. QED
    BY <2>1, <2>2
<1>5. QED
  BY <1>1, <1>2, <1>3, <1>4 DEF Whole, StaysAsItIs

\* A branch that is there stays a fix: its run has ended.
LEMMA StaysFix ==
  ASSUME scenario' = scenario, NEW branch, IsFix(branch), step'[branch.by] = step[branch.by],
         disk'[branch.by] = disk[branch.by], seen'[branch.by] = seen[branch.by]
  PROVE  IsFix(branch)'
<1>1. /\ given' = given /\ Trees' = Trees /\ PathsPatched' = PathsPatched
      /\ \A content, path : MeantBy(content, path)' = MeantBy(content, path)
  BY WhatIsGivenStays
<1>2. Written(branch.by)' = Written(branch.by)
  BY StaysWritten
<1>3. IsPatched(branch.tree, branch.parent.tree)' = IsPatched(branch.tree, branch.parent.tree)
  BY <1>1 DEF IsPatched, ContentOf
<1>4. QED
  BY <1>1, <1>2, <1>3 DEF IsFix

\* A step of a run that has not ended, after which the run is whole and a branch it made a fix.
LEMMA StepKeepsFixes ==
  ASSUME Shape, FixInv, NEW r \in Runs, step[r] \notin {"done", "failed"},
         base' = base, DOMAIN seen' = Runs, scenario' = scenario,
         \A q \in Runs \ {r} : StaysAsItIs(q),
         Whole(r)',
         \/ branches' = branches
         \/ \E made : IsFix(made)' /\ branches' = With(branches, Name(r), made)
  PROVE  FixInv'
<1>1. \A q \in Runs : Whole(q)'
  BY StaysWhole DEF FixInv
<1>2. base'.pushes \in 0..Len(given'.pushed) /\ base'.tree \in Trees'
  BY WhatIsGivenStays DEF FixInv
<1>3. \A branch \in Range(branches) : IsFix(branch)'
  <2> TAKE branch \in Range(branches)
  <2>1. IsFix(branch) /\ branch.by \in Runs \ {r}
    BY DEF FixInv, IsFix
  <2>2. QED
    BY <2>1, StaysFix DEF StaysAsItIs
<1>4. \A branch \in Range(branches') : branch \in Range(branches) \/ IsFix(branch)'
  <2>1. CASE branches' = branches
    BY <2>1
  <2>2. ASSUME NEW made, IsFix(made)', branches' = With(branches, Name(r), made)
        PROVE  \A branch \in Range(branches') : branch \in Range(branches) \/ branch = made
    BY <2>2 DEF With, Range
  <2>3. QED
    BY <2>1, <2>2
<1>5. \A branch \in Range(branches)' : IsFix(branch)'
  BY <1>3, <1>4 DEF Range
<1>6. QED
  BY <1>1, <1>2, <1>5 DEF FixInv

\* What any step of a run leaves to the others.
LEMMA OthersStay ==
  ASSUME Shape, CarefulInv, FixInv, NEW r \in Runs, RunStep(r)
  PROVE  /\ step[r] \notin {"done", "failed"} /\ base' = base /\ scenario' = scenario
         /\ DOMAIN seen' = Runs /\ \A q \in Runs \ {r} : StaysAsItIs(q)
<1>1. step[r] \notin {"done", "failed"} /\ base' = base /\ scenario' = scenario
  BY DEF RunStep, List, Skip, Post, RefsMissing, Summarize, Plan, Write, Gate, ReadBase,
         ReadContent, CommitToGitHub, CommitToGitLab, CommitLocally, forgeVars
<1>2. (\E to \in Steps : Goes(r, to)) \/ Advances(r)
  <2>1. {"post", "plan", "write", "gate", "base", "contents", "done", "failed", "rejected",
         "blocked"} \subseteq Steps
    BY DEF Steps, Ended
  <2>2. QED
    BY <2>1
       DEF RunStep, List, Skip, Post, RefsMissing, Summarize, Plan, Write, Gate, ReadBase,
           ReadContent, CommitToGitHub, CommitToGitLab, CommitLocally
<1>3. \A q \in Runs \ {r} : step'[q] = step[q] /\ at'[q] = at[q]
  BY <1>2 DEF Goes, Advances, Shape
<1>4. DOMAIN seen' = Runs /\ \A q \in Runs \ {r} : seen'[q] = seen[q]
  BY DEF RunStep, List, Skip, Post, RefsMissing, Summarize, Plan, Write, Gate, ReadBase,
         ReadContent, CommitToGitHub, CommitToGitLab, CommitLocally, mutateVars, FixInv
<1>5. \A q \in Runs \ {r} : disk'[q] = disk[q]
  BY DEF RunStep, List, Skip, Post, RefsMissing, Summarize, Plan, Write, Gate, ReadBase,
         ReadContent, CommitToGitHub, CommitToGitLab, CommitLocally, mutateVars, CarefulInv
<1>6. \A q \in Runs \ {r} : plan'[q] = plan[q]
  BY DEF RunStep, List, Skip, Post, RefsMissing, Summarize, Plan, Write, Gate, ReadBase,
         ReadContent, CommitToGitHub, CommitToGitLab, CommitLocally, mutateVars, CarefulInv
<1>7. QED
  BY <1>1, <1>3, <1>4, <1>5, <1>6 DEF StaysAsItIs

\* The steps after which a run has nothing to write.
LEMMA RestsWhole ==
  ASSUME Shape, CarefulInv, FixInv, NEW r \in Runs, RunStep(r), branches' = branches,
         step'[r] \notin {"write", "gate", "base", "contents"}
  PROVE  FixInv'
<1>1. Whole(r)'
  BY DEF Whole
<1>2. QED
  BY <1>1, OthersStay, StepKeepsFixes

LEMMA PublishingKeepsFixes ==
  ASSUME Shape, CarefulInv, FixInv, NEW r \in Runs, RunStep(r),
         List(r) \/ Skip(r) \/ Post(r) \/ RefsMissing(r) \/ Summarize(r)
  PROVE  FixInv'
<1>1. branches' = branches
  BY DEF List, Skip, Post, RefsMissing, Summarize, forgeVars
<1>2. \/ \E to \in {"post", "plan", "done", "failed"} : Goes(r, to)
      \/ step[r] = "post" /\ Advances(r)
  BY DEF List, Skip, Post, RefsMissing, Summarize
<1>3. step'[r] \in {"post", "plan", "done", "failed"}
  BY <1>2 DEF Goes, Advances, Shape
<1>4. QED
  BY <1>1, <1>3, RestsWhole

LEMMA PlanKeepsFixes ==
  ASSUME Shape, CarefulInv, FixInv, NEW r \in Runs, RunStep(r), Plan(r)
  PROVE  FixInv'
<1>1. /\ step[r] = "plan" /\ UNCHANGED <<scenario, disk, branches>>
      /\ plan'[r] = PlanOf(r, Patched)
      /\ step'[r] = IF Patched = <<>> THEN "done"
                    ELSE IF plan'[r] = <<>> THEN "rejected" ELSE "write"
      /\ at'[r] = 1
  BY DEF Plan, Goes, forgeVars, Shape, CarefulInv
<1>2. CASE step'[r] # "write"
  BY <1>1, <1>2, RestsWhole
<1>3. CASE step'[r] = "write"
  <2>1. disk[r] = given.files /\ DOMAIN Patched = 1..Len(Patched) /\ Len(Patched) \in Nat
    BY <1>1, PatchesAreReal, ListElements DEF CarefulInv, Careful
  <2>2. \A i \in DOMAIN Patched : ~Refused(r, Patched[i])
    BY <1>1, <1>3 DEF PlanOf
  <2>3. AllPass
    BY <2>1, <2>2 DEF AllPass, Passes, Refused
  <2>4. plan'[r] = [i \in 1..Len(Patched) |->
                     [path |-> FileOf(Patched[i]),
                      content |-> AppliedTo(given.files, Patched[i]).content]]
    BY <1>1, <2>1, <2>2 DEF PlanOf
  <2>5. IsList(plan'[r]) /\ Len(plan'[r]) = Len(Patched)
    <3> DEFINE N == Len(Patched)
               T == Range(plan'[r])
    <3>1. plan'[r] \in [1..N -> T] /\ N \in Nat
      BY <2>1, <2>4 DEF Range
    <3> HIDE DEF N, T
    <3>2. plan'[r] \in Seq(T) /\ Len(plan'[r]) = N
      BY <3>1
    <3>3. QED
      BY <3>2, IsListOf DEF N
  <2>6. \A i \in DOMAIN Patched :
          /\ plan'[r][i].path = FileOf(Patched[i])
          /\ plan'[r][i].content = AppliedTo(given.files, Patched[i]).content
          /\ ~(i < at'[r])
    BY <1>1, <2>1, <2>4
  <2>7. Writes(r)'
    BY <1>1, <2>5, <2>6, WhatIsGivenStays DEF Writes
  <2>8. Whole(r)'
    BY <1>1, <1>3, <2>3, <2>7, WhatIsGivenStays DEF Whole
  <2>9. QED
    BY <1>1, <2>8, OthersStay, StepKeepsFixes
<1>4. QED
  BY <1>2, <1>3

LEMMA WriteKeepsFixes ==
  ASSUME Shape, CarefulInv, FixInv, NEW r \in Runs, RunStep(r), Write(r)
  PROVE  FixInv'
<1>1. step[r] = "write" /\ UNCHANGED <<scenario, branches, plan>>
  BY DEF Write, forgeVars
<1>2. AllPass /\ Writes(r) /\ at[r] \in Nat \ {0} /\ DOMAIN disk = Runs
      /\ DOMAIN Patched = 1..Len(Patched) /\ Len(Patched) \in Nat
  BY <1>1, PatchesAreReal, ListElements DEF FixInv, Whole, Shape, CarefulInv
<1>3. /\ Patched' = Patched /\ AllPass' = AllPass
      /\ \A i \in DOMAIN Patched :
           /\ IsAlone(i)' = IsAlone(i) /\ FileOf(Patched[i])' = FileOf(Patched[i])
           /\ AppliedTo(given.files, Patched[i])' = AppliedTo(given.files, Patched[i])
  BY <1>1, WhatIsGivenStays
<1>4. CASE disk' = disk /\ Goes(r, "failed")
  <2>1. step'[r] = "failed"
    BY <1>4 DEF Goes, Shape
  <2>2. QED
    BY <1>1, <2>1, RestsWhole
<1>5. CASE disk' = disk /\ Goes(r, "gate") /\ at[r] > Len(plan[r])
  <2>1. step'[r] = "gate"
    BY <1>5 DEF Goes, Shape
  <2>2. \A i \in DOMAIN Patched : i < at[r]
    BY <1>2, <1>5 DEF Writes
  <2>3. Written(r)
    BY <1>2, <2>2 DEF Writes, Written
  <2>4. Written(r)'
    BY <1>1, <1>5, <2>3, StaysWritten
  <2>5. Whole(r)'
    BY <2>1, <2>4 DEF Whole
  <2>6. QED
    BY <1>1, <2>5, OthersStay, StepKeepsFixes
<1>6. CASE /\ Advances(r) /\ at[r] <= Len(plan[r])
           /\ disk' = [disk EXCEPT ![r] = With(@, plan[r][at[r]].path, plan[r][at[r]].content)]
  <2> DEFINE n == at[r]
  <2>1. /\ n \in DOMAIN Patched /\ at'[r] = n + 1 /\ step'[r] = "write"
        /\ plan[r][n].path = FileOf(Patched[n])
        /\ plan[r][n].content = AppliedTo(given.files, Patched[n]).content
    BY <1>1, <1>2, <1>6 DEF Writes, Advances, Shape
  <2>2. disk'[r] = With(disk[r], FileOf(Patched[n]), AppliedTo(given.files, Patched[n]).content)
    BY <1>2, <1>6, <2>1
  <2>3. ASSUME NEW i \in DOMAIN Patched, IsAlone(i), i < n + 1
        PROVE  IsWritten(r, i)'
    <3>1. CASE i = n
      BY <1>3, <2>2, <3>1 DEF IsWritten, With
    <3>2. CASE i # n
      <4>1. i < n /\ FileOf(Patched[n]) # FileOf(Patched[i])
        BY <1>2, <2>1, <2>3, <3>2 DEF IsAlone
      <4>2. IsWritten(r, i)
        BY <1>2, <2>3, <4>1 DEF Writes
      <4>3. QED
        BY <1>3, <2>2, <4>1, <4>2 DEF IsWritten, With
    <3>3. QED
      BY <3>1, <3>2
  <2>4. Writes(r)'
    BY <1>1, <1>2, <1>3, <2>1, <2>3 DEF Writes
  <2>5. Whole(r)'
    BY <1>2, <1>3, <2>1, <2>4 DEF Whole
  <2>6. QED
    BY <1>1, <2>5, OthersStay, StepKeepsFixes
<1>7. Len(plan[r]) \in Nat
  BY <1>2 DEF Writes
<1>8. QED
  BY <1>2, <1>4, <1>5, <1>6, <1>7 DEF Write

LEMMA GateKeepsFixes ==
  ASSUME Shape, CarefulInv, FixInv, NEW r \in Runs, RunStep(r), Gate(r)
  PROVE  FixInv'
<1>1. /\ step[r] = "gate" /\ UNCHANGED <<scenario, branches, disk>>
      /\ step'[r] \in {"base", "blocked", "failed"}
  BY DEF Gate, Goes, Shape, mutateVars
<1>2. Written(r)'
  BY <1>1, StaysWritten DEF FixInv, Whole
<1>3. Whole(r)'
  BY <1>1, <1>2 DEF Whole
<1>4. QED
  BY <1>1, <1>3, OthersStay, StepKeepsFixes

LEMMA ReadBaseKeepsFixes ==
  ASSUME Shape, CarefulInv, FixInv, NEW r \in Runs, RunStep(r), ReadBase(r)
  PROVE  FixInv'
<1>1. /\ step[r] = "base" /\ UNCHANGED <<scenario, base, branches, disk>>
      /\ step'[r] \in {"contents", "failed"} /\ at'[r] = 1
      /\ seen'[r] = base /\ plan'[r] = <<>>
  BY DEF ReadBase, Goes, Shape, forgeVars, CarefulInv, FixInv
<1>2. Written(r)'
  BY <1>1, StaysWritten DEF FixInv, Whole
<1>3. Reads(r)'
  <2>1. base.pushes \in Nat /\ base.pushes <= base.pushes
    BY DEF FixInv
  <2>2. Len(PathOrder) \in Nat /\ PathOrder' = PathOrder
    BY <1>1, PathsInOrder, WhatIsGivenStays
  <2>3. IsList(<<>>) /\ Len(<<>>) = 0 /\ DOMAIN <<>> = {}
    BY DEF IsList, Range
  <2>4. QED
    BY <1>1, <2>1, <2>2, <2>3 DEF Reads
<1>4. Whole(r)'
  BY <1>1, <1>2, <1>3 DEF Whole
<1>5. QED
  BY <1>1, <1>4, OthersStay, StepKeepsFixes

LEMMA ReadContentKeepsFixes ==
  ASSUME Shape, CarefulInv, FixInv, NEW r \in Runs, RunStep(r), ReadContent(r)
  PROVE  FixInv'
<1>1. step[r] = "contents" /\ UNCHANGED <<scenario, base, branches, disk, seen>>
      /\ at[r] <= Len(PathOrder)
  BY DEF ReadContent, forgeVars
<1>2. CASE Goes(r, "failed")
  <2>1. step'[r] = "failed"
    BY <1>2 DEF Goes, Shape
  <2>2. QED
    BY <1>1, <2>1, RestsWhole
<1>3. CASE /\ Advances(r) /\ OnBase(PathOrder[at[r]]).ok
           /\ \E exists : plan' = [plan EXCEPT ![r] =
                Append(@, [path |-> PathOrder[at[r]], content |-> OnBase(PathOrder[at[r]]).content,
                           exists |-> exists])]
  <2> DEFINE n == at[r]
             entries == plan[r]
  <2>1. Reads(r) /\ Written(r) /\ n \in Nat \ {0} /\ at'[r] = n + 1 /\ step'[r] = "contents"
    BY <1>1, <1>3 DEF FixInv, Whole, Shape, Advances
  <2>2. PICK exists :
          plan'[r] = Append(entries, [path |-> PathOrder[n], content |-> OnBase(PathOrder[n]).content,
                                      exists |-> exists])
    BY <1>3 DEF CarefulInv
  <2> DEFINE entry == [path |-> PathOrder[n], content |-> OnBase(PathOrder[n]).content,
                       exists |-> exists]
  <2>3. entry.path = PathOrder[n] /\ entry.content = OnBase(PathOrder[n]).content
    OBVIOUS
  <2> HIDE DEF entry
  <2>4. Written(r)'
    BY <1>1, <2>1, StaysWritten
  <2>5. /\ PathOrder' = PathOrder /\ Len(PathOrder) \in Nat
        /\ \A path : OnBase(path)' = OnBase(path)
    BY <1>1, PathsInOrder, WhatIsGivenStays DEF OnBase, ContentOf
  <2>6. ASSUME IsList(entries), Len(entries) = n - 1
        PROVE  /\ IsList(plan'[r]) /\ Len(plan'[r]) = n /\ DOMAIN plan'[r] = 1..n
               /\ plan'[r][n] = entry
               /\ \A i \in 1..(n - 1) : i \in DOMAIN entries /\ plan'[r][i] = entries[i]
    <3> DEFINE T == Range(entries) \cup {entry}
    <3>1. entries \in Seq(T) /\ entry \in T
      BY <2>6 DEF IsList
    <3>2. plan'[r] = Append(entries, entry)
      BY <2>2 DEF entry
    <3> HIDE DEF T
    <3>3. /\ plan'[r] \in Seq(T) /\ Len(plan'[r]) = Len(entries) + 1
          /\ plan'[r][Len(entries) + 1] = entry
          /\ \A i \in 1..Len(entries) : i \in DOMAIN entries /\ plan'[r][i] = entries[i]
      BY <3>1, <3>2
    <3>4. n - 1 + 1 = n
      BY <2>1
    <3>5. QED
      BY <2>6, <3>3, <3>4, IsListOf, ListElements
  <2>7. ASSUME seen[r].pushes = base.pushes
        PROVE  /\ seen[r] = base /\ IsList(plan'[r]) /\ Len(plan'[r]) = (n + 1) - 1
               /\ \A i \in DOMAIN plan'[r] :
                    /\ plan'[r][i].path = PathOrder[i] /\ OnBase(PathOrder[i]).ok
                    /\ plan'[r][i].content = OnBase(PathOrder[i]).content
    <3>1. /\ seen[r] = base /\ IsList(entries) /\ Len(entries) = n - 1
          /\ \A i \in DOMAIN entries :
               /\ entries[i].path = PathOrder[i] /\ OnBase(PathOrder[i]).ok
               /\ entries[i].content = OnBase(PathOrder[i]).content
      BY <2>1, <2>7 DEF Reads
    <3>2. \A i \in 1..n : i = n \/ i \in 1..(n - 1)
      BY <2>1
    <3>3. (n + 1) - 1 = n
      BY <2>1
    <3>4. QED
      BY <1>3, <2>3, <2>6, <3>1, <3>2, <3>3
  <2>8. Reads(r)'
    <3>1. n + 1 <= Len(PathOrder) + 1
      BY <1>1, <2>1, <2>5
    <3> HIDE DEF n
    <3>2. QED
      BY <1>1, <2>1, <2>5, <2>7, <3>1 DEF Reads
  <2>9. Whole(r)'
    BY <2>1, <2>4, <2>8 DEF Whole
  <2>10. QED
    BY <1>1, <2>9, OthersStay, StepKeepsFixes
<1>4. Goes(r, "failed")
      \/ /\ Advances(r) /\ OnBase(PathOrder[at[r]]).ok
         /\ \E exists : plan' = [plan EXCEPT ![r] =
              Append(@, [path |-> PathOrder[at[r]], content |-> OnBase(PathOrder[at[r]]).content,
                         exists |-> exists])]
  BY DEF ReadContent, OnBase
<1>5. QED
  BY <1>2, <1>3, <1>4

\* A run that ends without a branch, or with one that is a fix.
LEMMA EndKeepsFixes ==
  ASSUME Shape, CarefulInv, FixInv, NEW r \in Runs, RunStep(r), NEW made,
         step'[r] \in {"done", "failed"}, disk' = disk, seen' = seen, Written(r), made.by = r,
         \/ given.forge = "local" /\ made.parent.tree = given.files /\ made.tree = disk[r]
         \/ /\ given.forge # "local"
            /\ made.pushes = seen[r].pushes =>
                 made.parent.tree \in Trees /\ IsPatched(made.tree, made.parent.tree),
         branches' = branches \/ branches' = With(branches, Name(r), made)
  PROVE  FixInv'
<1>1. scenario' = scenario
  BY OthersStay
<1>2. Written(r)'
  BY <1>1, StaysWritten
<1>3. /\ given' = given /\ Trees' = Trees
      /\ IsPatched(made.tree, made.parent.tree)' = IsPatched(made.tree, made.parent.tree)
  BY <1>1, WhatIsGivenStays DEF IsPatched, ContentOf
<1>4. IsFix(made)'
  BY <1>2, <1>3 DEF IsFix
<1>5. Whole(r)'
  BY DEF Whole
<1>6. QED
  BY <1>4, <1>5, OthersStay, StepKeepsFixes

\* A branch of what was read, from the default branch as it was read or as it now is.
LEMMA BranchIsPatched ==
  ASSUME Shape, FixInv, NEW r \in Runs, step[r] = "contents", at[r] > Len(PathOrder),
         NEW from \in {seen[r], base}, base.pushes = seen[r].pushes
  PROVE  from.tree \in Trees /\ IsPatched(TreeOf(from.tree, plan[r]), from.tree)
<1>1. Reads(r) /\ base.tree \in Trees
  BY DEF FixInv, Whole
<1>2. from = base
  BY <1>1 DEF Reads
<1>3. Len(plan[r]) = Len(PathOrder)
  BY <1>1, PathsInOrder DEF Reads, Shape
<1>4. IsPatched(TreeOf(base.tree, plan[r]), base.tree)
  BY <1>1, <1>3, TreeIsPatched DEF Reads
<1>5. QED
  BY <1>1, <1>2, <1>4

LEMMA CommitKeepsFixes ==
  ASSUME Shape, CarefulInv, FixInv, NEW r \in Runs, RunStep(r),
         CommitToGitHub(r) \/ CommitToGitLab(r) \/ CommitLocally(r)
  PROVE  FixInv'
<1>1. disk' = disk /\ seen' = seen
  BY DEF CommitToGitHub, CommitToGitLab, CommitLocally, mutateVars
<1>2. Goes(r, "done") \/ Goes(r, "failed")
  BY DEF CommitToGitHub, CommitToGitLab, CommitLocally
<1>3. step'[r] \in {"done", "failed"}
  BY <1>2 DEF Goes, Shape
<1>4. Written(r)
  BY DEF CommitToGitHub, CommitToGitLab, CommitLocally, FixInv, Whole
<1>5. ASSUME CommitToGitHub(r) \/ CommitToGitLab(r),
             NEW from \in {seen[r], base},
             branches' = branches \/ Creates(r, Branch(r, from, plan[r]))
      PROVE  FixInv'
  <2>1. step[r] = "contents" /\ at[r] > Len(PathOrder) /\ given.forge # "local"
    BY <1>5 DEF CommitToGitHub, CommitToGitLab
  <2> DEFINE made == Branch(r, from, plan[r])
  <2>2. /\ made.by = r /\ made.parent = from /\ made.pushes = base.pushes
        /\ made.tree = TreeOf(from.tree, plan[r])
    BY DEF Branch
  <2>3. base.pushes = seen[r].pushes =>
          from.tree \in Trees /\ IsPatched(TreeOf(from.tree, plan[r]), from.tree)
    BY <2>1, BranchIsPatched
  <2>4. branches' = branches \/ branches' = With(branches, Name(r), made)
    BY <1>5 DEF Creates
  <2> HIDE DEF made
  <2>5. QED
    BY <1>1, <1>3, <1>4, <2>1, <2>2, <2>3, <2>4, EndKeepsFixes
<1>6. CASE CommitToGitHub(r)
  <2>1. branches' = branches \/ Creates(r, Branch(r, seen[r], plan[r]))
    BY <1>6 DEF CommitToGitHub
  <2>2. QED
    BY <1>5, <1>6, <2>1
<1>7. CASE CommitToGitLab(r)
  <2>1. branches' = branches \/ Creates(r, Branch(r, base, plan[r]))
    BY <1>7 DEF CommitToGitLab
  <2>2. QED
    BY <1>5, <1>7, <2>1
<1>8. CASE CommitLocally(r)
  <2> DEFINE made == [by |-> r, parent |-> [tree |-> given.files, pushes |-> 0],
                      tree |-> disk[r], pushes |-> 0]
  <2>1. /\ given.forge = "local"
        /\ branches' = branches \/ branches' = With(branches, Name(r), made)
    BY <1>8 DEF CommitLocally, Creates
  <2>2. made.by = r /\ made.parent.tree = given.files /\ made.tree = disk[r]
    OBVIOUS
  <2> HIDE DEF made
  <2>3. QED
    BY <1>1, <1>3, <1>4, <2>1, <2>2, EndKeepsFixes
<1>9. QED
  BY <1>6, <1>7, <1>8

LEMMA NextFixes == Shape /\ CarefulInv /\ FixInv /\ [Next]_pubVars => FixInv'
<1> SUFFICES ASSUME Shape, CarefulInv, FixInv, [Next]_pubVars PROVE FixInv'
  OBVIOUS
<1>1. ASSUME UNCHANGED <<scenario, branches, step, at, disk, plan, seen>>,
             base' = base \/ Push
      PROVE  FixInv'
  <2>1. \A q \in Runs : StaysAsItIs(q) /\ Whole(q)
    BY <1>1 DEF StaysAsItIs, FixInv
  <2>2. \A q \in Runs : Whole(q)'
    BY <1>1, <2>1, StaysWhole
  <2>3. \A branch \in Range(branches) : IsFix(branch)'
    BY <1>1, StaysFix DEF FixInv
  <2>4. base'.pushes \in 0..Len(given.pushed) /\ base'.tree \in Trees
    <3>1. CASE base' = base
      BY <3>1 DEF FixInv
    <3>2. CASE Push
      <4>1. Len(given.pushed) \in Nat /\ DOMAIN given.pushed = 1..Len(given.pushed)
        BY PatchesAreReal, ListElements
      <4>2. base.pushes + 1 \in DOMAIN given.pushed
        BY <3>2, <4>1 DEF Push, FixInv
      <4>3. base'.tree = given.pushed[base.pushes + 1] /\ base'.pushes = base.pushes + 1
        BY <3>2 DEF Push
      <4>4. base'.tree \in Trees
        BY <4>2, <4>3 DEF Trees, Range
      <4>5. QED
        BY <4>1, <4>2, <4>3, <4>4
    <3>3. QED
      BY <1>1, <3>1, <3>2
  <2>5. given' = given /\ Trees' = Trees /\ Range(branches)' = Range(branches)
    BY <1>1, WhatIsGivenStays
  <2>6. QED
    BY <1>1, <2>2, <2>3, <2>4, <2>5 DEF FixInv
<1>2. CASE UNCHANGED pubVars
  BY <1>1, <1>2 DEF pubVars, forgeVars, mutateVars
<1>3. CASE Push
  BY <1>1, <1>3 DEF Push, mutateVars
<1>4. ASSUME NEW r \in Runs, RunStep(r)
      PROVE  FixInv'
  BY <1>4, PublishingKeepsFixes, PlanKeepsFixes, WriteKeepsFixes, GateKeepsFixes,
     ReadBaseKeepsFixes, ReadContentKeepsFixes, CommitKeepsFixes DEF RunStep
<1>5. QED
  BY <1>2, <1>3, <1>4, GivenIsReal DEF Next

LEMMA InitFixes == Init => FixInv
<1> SUFFICES ASSUME Init PROVE FixInv
  OBVIOUS
<1>1. Shape
  BY InitShape
<1>2. Len(given.pushed) \in Nat
  BY <1>1, PatchesAreReal, ListElements
<1>3. base.pushes \in 0..Len(given.pushed) /\ base.tree \in Trees /\ DOMAIN seen = Runs
  BY <1>2 DEF Init, Trees
<1>4. \A r \in Runs : Whole(r)
  BY DEF Init, Whole
<1>5. Range(branches) = {}
  BY DEF Init, Range
<1>6. QED
  BY <1>3, <1>4, <1>5 DEF FixInv

\* A branch of a fix is its parent with every accepted patch, whole and in order, and nothing
\* else; and a file that one patch is about, and on which the change request and the default
\* branch agree, is committed as it was validated.
THEOREM FixesAreWhole == RequestSpec => []FixIsWhole
<1>1. Spec => []CarefulInv
  BY InitCareful, NextCareful, ShapeInvariant, PTL DEF Spec
<1>2. Spec => []FixInv
  BY <1>1, InitFixes, NextFixes, ShapeInvariant, PTL DEF Spec
<1>3. Shape /\ FixInv => FixIsWhole
  <2> SUFFICES ASSUME Shape, FixInv, NEW b \in DOMAIN branches
               PROVE  LET branch == branches[b]
                          parent == branch.parent.tree
                      IN  /\ given.forge # "local" /\ Undisturbed(b) =>
                               /\ DOMAIN branch.tree = DOMAIN parent \cup PathsPatched
                               /\ \A p \in DOMAIN branch.tree :
                                    branch.tree[p] = IF p \in PathsPatched
                                                     THEN MeantBy(ContentOf(parent, p), p)
                                                     ELSE parent[p]
                          /\ \A i \in DOMAIN Patched :
                               LET file == FileOf(Patched[i])
                                   path == CommittedAt(Patched[i])
                               IN  (/\ given.forge = "local" \/ Undisturbed(b)
                                    /\ \A j \in DOMAIN Patched :
                                         FileOf(Patched[j]) = file => j = i
                                    /\ ContentOf(parent, path) = ContentOf(given.files, file))
                                   => branch.tree[path] = disk[branch.by][file]
    BY DEF FixIsWhole
  <2> DEFINE branch == branches[b]
             parent == branch.parent.tree
  <2>1. IsFix(branch)
    BY DEF FixInv, Range
  <2>2. given.forge # "local" /\ Undisturbed(b) =>
          parent \in Trees /\ IsPatched(branch.tree, parent)
    BY <2>1 DEF IsFix, Undisturbed
  <2>3. ASSUME NEW i \in DOMAIN Patched, IsAlone(i), given.forge = "local" \/ Undisturbed(b),
               ContentOf(parent, CommittedAt(Patched[i]))
                 = ContentOf(given.files, FileOf(Patched[i]))
        PROVE  branch.tree[CommittedAt(Patched[i])] = disk[branch.by][FileOf(Patched[i])]
    <3>1. CASE given.forge = "local"
      BY <2>1, <3>1 DEF IsFix, CommittedAt
    <3>2. CASE given.forge # "local"
      <4> DEFINE path    == Patched[i].path
                 hunks   == Patched[i].hunks
                 content == ContentOf(parent, path)
                 applied == Apply(content, hunks)
      <4>1. CommittedAt(Patched[i]) = path /\ path \in PathsPatched
        BY <3>2 DEF CommittedAt, PathsPatched
      <4>2. parent \in Trees /\ branch.tree[path] = MeantBy(content, path)
        BY <2>2, <2>3, <3>2, <4>1 DEF IsPatched
      <4>3. applied = AppliedTo(given.files, Patched[i]) /\ applied.ok
            /\ disk[branch.by][FileOf(Patched[i])] = applied.content
        BY <2>1, <2>3, <4>1 DEF IsFix, Written, IsWritten, AllPass, Passes, AppliedTo
      <4>4. IsList(content) /\ IsDiff(hunks)
        BY <4>2, PatchesAreReal
      <4>5. applied.content = Meant(content, hunks)
        BY <4>3, <4>4, ApplyingComesTo DEF IsDiff
      <4>6. MeantBy(content, path) = Meant(content, hunks)
        <5>1. /\ MeantBy(content, path) = MeantAll(content, Group(path)) /\ IsList(Group(path))
              /\ Len(Group(path)) = 1 /\ Group(path)[1] = hunks
              /\ \A k \in DOMAIN Group(path) : IsDiff(Group(path)[k])
          BY <2>3, GroupIsDiffs
        <5>2. QED
          BY <4>4, <5>1, OneMeansItself
      <4>7. QED
        BY <4>1, <4>2, <4>3, <4>5, <4>6
    <3>3. QED
      BY <3>1, <3>2
  <2>4. QED
    BY <2>2, <2>3 DEF IsPatched, IsAlone
<1>4. QED
  BY <1>2, <1>3, ShapeInvariant, RequestsArePublications, PTL

-----------------------------------------------------------------------------
(* The progress reporter: what its invariant is made of. *)

\* Nothing is written before the reporter is begun.
BeforeBegin == ~begun => sticky = 0 /\ chain = <<>> /\ ~finished /\ ~told

\* The result is the last write, and there is none before finish.
ResultEnds ==
  \A i \in 1..Len(chain) : chain[i].body = "result" => finished /\ i = Len(chain)

\* No stage is written while no comment is known.
UnknownHoldsNoStage ==
  sticky = 0 => Len(chain) <= 1 /\ \A i \in 1..Len(chain) : chain[i].body = "result"

\* Only the first of the chain is under way.
OneUnderWay == \A i \in 1..Len(chain) : chain[i].sent => i = 1

\* A result that was told has nothing behind it.
ToldIsOver == told => finished /\ chain = <<>> /\ sticky # 0 /\ shown[sticky] = "result"

\* The throttle's slot is not older than any stage that waits.
SlotIsLatest == \A i \in 1..Len(chain) : chain[i].body # "result" => chain[i].at <= lastWrite

ChainInv == ResultEnds /\ UnknownHoldsNoStage /\ OneUnderWay /\ SlotIsLatest /\ StagesAreSpaced
ReporterInv == ProgressTypeOK /\ BeforeBegin /\ ToldIsOver /\ ChainInv

-----------------------------------------------------------------------------
(* The four things a step does to the chain. *)

LEMMA Shortened ==
  ASSUME ProgressTypeOK, Len(chain) # 0
  PROVE  /\ Tail(chain) \in Seq(Entries)
         /\ Len(Tail(chain)) = Len(chain) - 1
         /\ \A i \in 1..Len(Tail(chain)) : Tail(chain)[i] = chain[i + 1]
<1>1. chain \in Seq(Entries) /\ chain # <<>>
  BY DEF ProgressTypeOK
<1>2. QED BY <1>1, HeadTailProperties

LEMMA Extended ==
  ASSUME ProgressTypeOK, NEW e \in Entries
  PROVE  /\ Append(chain, e) \in Seq(Entries)
         /\ Len(Append(chain, e)) = Len(chain) + 1
         /\ \A i \in 1..Len(chain) : Append(chain, e)[i] = chain[i]
         /\ Append(chain, e)[Len(chain) + 1] = e
<1>1. chain \in Seq(Entries)
  BY DEF ProgressTypeOK
<1>2. QED BY <1>1, AppendProperties

LEMMA EntryIsTyped ==
  ASSUME ProgressTypeOK, NEW body \in Stages \cup {"result"}, NEW sent \in BOOLEAN
  PROVE  Entry(body, sent) \in Entries
BY DEF Entry, Entries, ProgressTypeOK

\* Dropping the first write keeps what is said of the chain.
LEMMA TailKeepsChain ==
  ASSUME ProgressTypeOK, ChainInv, Len(chain) # 0,
         Len(chain') = Len(chain) - 1,
         \A i \in 1..(Len(chain) - 1) : chain'[i] = chain[i + 1],
         finished' = finished, lastWrite' = lastWrite, sticky' = 0 => sticky = 0
  PROVE  ChainInv'
<1> DEFINE n == Len(chain)
<1>1. n \in Nat /\ n # 0
  BY DEF ProgressTypeOK
<1>2. Len(chain') = n - 1 /\ \A i \in 1..(n - 1) : chain'[i] = chain[i + 1]
  OBVIOUS
<1>3. ResultEnds'
  <2> SUFFICES ASSUME NEW i \in 1..(n - 1), chain'[i].body = "result"
               PROVE  finished /\ i = n - 1
    BY <1>2 DEF ResultEnds
  <2>1. i + 1 \in 1..n /\ chain[i + 1].body = "result"
    BY <1>1, <1>2
  <2>2. finished /\ i + 1 = n
    BY <2>1 DEF ChainInv, ResultEnds
  <2>3. QED BY <1>1, <2>2
<1>4. UnknownHoldsNoStage'
  BY <1>1, <1>2 DEF ChainInv, UnknownHoldsNoStage
<1>5. OneUnderWay'
  BY <1>1, <1>2 DEF ChainInv, OneUnderWay
<1>6. SlotIsLatest'
  BY <1>1, <1>2 DEF ChainInv, SlotIsLatest
<1>7. StagesAreSpaced'
  <2> SUFFICES ASSUME NEW i \in 1..(n - 1), NEW j \in 1..(n - 1), i < j,
                      chain'[j].body # "result"
               PROVE  chain'[j].at - chain'[i].at >= throttleMs
    BY <1>2 DEF StagesAreSpaced
  <2>1. i + 1 \in 1..n /\ j + 1 \in 1..n /\ i + 1 < j + 1
    BY <1>1
  <2>2. chain[j + 1].at - chain[i + 1].at >= throttleMs
    BY <1>2, <2>1 DEF ChainInv, StagesAreSpaced
  <2>3. QED BY <1>2, <2>2
<1>8. QED BY <1>3, <1>4, <1>5, <1>6, <1>7 DEF ChainInv

-----------------------------------------------------------------------------
\* A request that is answered has done its work.
LEMMA AnswerIsOfLanded == \A o \in Outcomes : o.answered => o.landed
<1> SUFFICES ASSUME NEW o \in Outcomes, o.answered PROVE o.landed
  OBVIOUS
<1>1. CASE o = [landed |-> TRUE, answered |-> TRUE]
  BY <1>1
<1>2. CASE o = [landed |-> TRUE, answered |-> FALSE]
  BY <1>2
<1>3. CASE o = [landed |-> FALSE, answered |-> FALSE]
  BY <1>3
<1>4. QED BY <1>1, <1>2, <1>3 DEF Outcomes

LEMMA BeginKeeps == ReporterInv /\ Begin => ReporterInv'
<1> SUFFICES ASSUME ReporterInv, Begin PROVE ReporterInv'
  OBVIOUS
<1> USE ProgressConstants DEF ProgressConstants
<1>1. ProgressTypeOK /\ chain = <<>> /\ ~finished /\ ~told /\ sticky = 0
  BY DEF ReporterInv, Begin, BeforeBegin
<1>2. chain' = <<>> /\ ~finished' /\ ~told' /\ begun'
  BY <1>1 DEF Begin
<1>3. sticky' \in 0..Len(shown') /\ shown' \in Seq(Bodies)
        /\ lastWrite' \in {Never} \cup 0..horizon
  <2>1. sticky \in 0..Len(shown) /\ shown \in Seq(Bodies) /\ clock \in 0..horizon
          /\ lastWrite \in {Never} \cup 0..horizon /\ Len(shown) \in Nat
    BY <1>1 DEF ProgressTypeOK
  <2>2. CASE UNCHANGED <<sticky, lastWrite, shown>>
    BY <2>1, <2>2
  <2>3. CASE ~UNCHANGED <<sticky, lastWrite, shown>>
    <3>1. PICK o \in Outcomes :
            /\ lastWrite' = IF o.answered THEN clock ELSE lastWrite
            /\ IF shown # <<>>
               THEN /\ sticky' = 1
                    /\ shown' = IF o.landed THEN [shown EXCEPT ![1] = "received"] ELSE shown
               ELSE /\ sticky' = IF o.answered THEN 1 ELSE 0
                    /\ shown' = IF o.landed THEN <<"received">> ELSE shown
      BY <2>3 DEF Begin
    <3>2. o.answered => o.landed
      BY <3>1, AnswerIsOfLanded
    <3>3. lastWrite' \in {Never} \cup 0..horizon
      BY <2>1, <3>1
    <3>4. "received" \in Bodies
      BY DEF Bodies
    <3>5. CASE shown # <<>>
      <4>1. 1 \in 1..Len(shown)
        BY <2>1, <3>5
      <4>2. [shown EXCEPT ![1] = "received"] \in Seq(Bodies)
              /\ Len([shown EXCEPT ![1] = "received"]) = Len(shown)
        BY <2>1, <3>4, <4>1, ExceptSeq
      <4>3. sticky' = 1 /\ (shown' = [shown EXCEPT ![1] = "received"] \/ shown' = shown)
        BY <3>1, <3>5
      <4>4. Len(shown') = Len(shown) /\ shown' \in Seq(Bodies)
        BY <2>1, <4>2, <4>3
      <4>5. QED BY <2>1, <3>3, <4>1, <4>3, <4>4
    <3>6. CASE shown = <<>> /\ o.landed
      <4>1. shown' = <<"received">> /\ sticky' \in {0, 1}
        BY <3>1, <3>6
      <4>2. shown' \in Seq(Bodies) /\ Len(shown') = 1
        BY <3>4, <4>1
      <4>3. QED BY <3>3, <4>1, <4>2
    <3>7. CASE shown = <<>> /\ ~o.landed
      <4>1. shown' = shown /\ sticky' = 0
        BY <3>1, <3>2, <3>7
      <4>2. QED BY <2>1, <3>3, <4>1
    <3>8. QED BY <3>5, <3>6, <3>7
  <2>4. QED BY <2>2, <2>3
<1>4. ProgressTypeOK'
  BY <1>1, <1>2, <1>3 DEF Begin, ProgressTypeOK
<1>5. BeforeBegin' /\ ToldIsOver'
  BY <1>2 DEF BeforeBegin, ToldIsOver
<1>6. ChainInv'
  BY <1>2 DEF ChainInv, ResultEnds, UnknownHoldsNoStage, OneUnderWay, SlotIsLatest,
             StagesAreSpaced
<1>7. QED BY <1>4, <1>5, <1>6 DEF ReporterInv

LEMMA AdvanceKeeps ==
  ASSUME ReporterInv, NEW stage \in Stages, Advance(stage)
  PROVE  ReporterInv'
<1> USE ProgressConstants DEF ProgressConstants
<1> DEFINE n == Len(chain)
           e == Entry(stage, FALSE)
<1>1. ProgressTypeOK /\ ChainInv
  BY DEF ReporterInv
<1>2. n \in Nat /\ clock \in 0..horizon /\ lastWrite \in Int /\ chain \in Seq(Entries)
  BY <1>1 DEF ProgressTypeOK, Never
<1>3. e \in Entries
  BY <1>1, EntryIsTyped
<1>4. stage # "result" /\ e.body = stage /\ e.at = clock /\ ~e.sent
  BY DEF Entry
<1> HIDE DEF e
<1>5. chain' = Append(chain, e)
  BY DEF Advance, e
<1>6. chain' \in Seq(Entries) /\ Len(chain') = n + 1 /\ chain'[n + 1] = e
        /\ \A i \in 1..n : chain'[i] = chain[i]
  BY <1>1, <1>3, <1>5, Extended
<1>7. ProgressTypeOK'
  BY <1>1, <1>2, <1>6 DEF Advance, ProgressTypeOK
<1>8. \A i \in 1..n : chain[i].body # "result"
  BY <1>1 DEF Advance, ChainInv, ResultEnds
<1>9. \A i \in 1..n : chain'[i].body # "result" /\ chain'[i].at <= lastWrite
                        /\ chain'[i].at \in Int
  <2> SUFFICES ASSUME NEW i \in 1..n
               PROVE  chain[i].body # "result" /\ chain[i].at <= lastWrite /\ chain[i].at \in Int
    BY <1>6
  <2>1. chain[i] \in Entries
    BY <1>2
  <2>2. chain[i].at \in 0..horizon
    BY <2>1 DEF Entries
  <2>3. QED BY <1>1, <1>8, <2>2 DEF ChainInv, SlotIsLatest
<1>10. clock - lastWrite >= throttleMs /\ lastWrite' = clock /\ ~finished' /\ sticky' # 0 /\ begun'
         /\ sticky' = sticky
  BY <1>2 DEF Advance, Throttled
<1>11. ResultEnds'
  BY <1>2, <1>4, <1>6, <1>9 DEF ResultEnds
<1>12. UnknownHoldsNoStage'
  BY <1>10 DEF UnknownHoldsNoStage
<1>14. OneUnderWay'
  BY <1>1, <1>2, <1>4, <1>6 DEF ChainInv, OneUnderWay
<1>15. SlotIsLatest'
  BY <1>2, <1>4, <1>6, <1>9, <1>10 DEF SlotIsLatest
<1>16. StagesAreSpaced'
  <2> SUFFICES ASSUME NEW i \in 1..(n + 1), NEW j \in 1..(n + 1), i < j,
                      chain'[j].body # "result"
               PROVE  chain'[j].at - chain'[i].at >= throttleMs
    BY <1>6 DEF StagesAreSpaced
  <2>1. CASE j = n + 1
    BY <1>2, <1>4, <1>6, <1>9, <1>10, <2>1
  <2>2. CASE j # n + 1
    <3>1. i \in 1..n /\ j \in 1..n
      BY <1>2, <2>2
    <3>2. chain[j].at - chain[i].at >= throttleMs
      BY <1>1, <1>6, <3>1 DEF ChainInv, StagesAreSpaced
    <3>3. QED BY <1>6, <3>1, <3>2
  <2>3. QED BY <2>1, <2>2
<1>17. BeforeBegin' /\ ToldIsOver'
  <2>1. ~told
    BY DEF ReporterInv, ToldIsOver, Advance
  <2>2. QED BY <1>10, <2>1 DEF BeforeBegin, ToldIsOver, Advance
<1>18. QED BY <1>7, <1>11, <1>12, <1>14, <1>15, <1>16, <1>17 DEF ReporterInv, ChainInv

LEMMA FinishKeeps == ReporterInv /\ Finish => ReporterInv'
<1> SUFFICES ASSUME ReporterInv, Finish PROVE ReporterInv'
  OBVIOUS
<1> USE ProgressConstants DEF ProgressConstants
<1> DEFINE n == Len(chain)
           e == Entry("result", sticky = 0)
<1>1. ProgressTypeOK /\ ChainInv /\ ~told
  BY DEF ReporterInv, ToldIsOver, Finish
<1>2. n \in Nat /\ chain \in Seq(Entries)
  BY <1>1 DEF ProgressTypeOK
<1>3. e \in Entries
  BY <1>1, EntryIsTyped
<1>4. e.body = "result" /\ e.sent = (sticky = 0)
  BY DEF Entry
<1> HIDE DEF e
<1>5. chain' = Append(chain, e) /\ finished' /\ sticky' = sticky /\ begun' /\ ~told'
        /\ lastWrite' = lastWrite
  BY <1>1 DEF Finish, e
<1>6. chain' \in Seq(Entries) /\ Len(chain') = n + 1 /\ chain'[n + 1] = e
        /\ \A i \in 1..n : chain'[i] = chain[i]
  BY <1>1, <1>3, <1>5, Extended
<1>7. ProgressTypeOK'
  BY <1>1, <1>5, <1>6 DEF Finish, ProgressTypeOK
<1>8. \A i \in 1..n : chain[i].body # "result"
  BY <1>1 DEF Finish, ChainInv, ResultEnds
<1>9. sticky = 0 => n = 0
  BY <1>1, <1>2, <1>8 DEF ChainInv, UnknownHoldsNoStage
<1>10. ResultEnds'
  BY <1>2, <1>5, <1>6, <1>8 DEF ResultEnds
<1>11. UnknownHoldsNoStage'
  BY <1>2, <1>4, <1>5, <1>6, <1>9 DEF UnknownHoldsNoStage
<1>12. OneUnderWay'
  <2> SUFFICES ASSUME NEW i \in 1..(n + 1), chain'[i].sent PROVE i = 1
    BY <1>6 DEF OneUnderWay
  <2>1. CASE i \in 1..n
    BY <1>1, <1>6, <2>1 DEF ChainInv, OneUnderWay
  <2>2. CASE i = n + 1
    <3>1. e.sent
      BY <1>6, <2>2
    <3>2. n = 0
      BY <1>4, <1>9, <3>1
    <3>3. QED BY <2>2, <3>2
  <2>3. QED BY <1>2, <2>1, <2>2
<1>13. SlotIsLatest'
  BY <1>1, <1>2, <1>4, <1>5, <1>6 DEF ChainInv, SlotIsLatest
<1>14. StagesAreSpaced'
  <2> SUFFICES ASSUME NEW i \in 1..(n + 1), NEW j \in 1..(n + 1), i < j,
                      chain'[j].body # "result"
               PROVE  chain'[j].at - chain'[i].at >= throttleMs
    BY <1>6 DEF StagesAreSpaced
  <2>1. i \in 1..n /\ j \in 1..n
    BY <1>2, <1>4, <1>6
  <2>2. chain[j].at - chain[i].at >= throttleMs
    BY <1>1, <1>6, <2>1 DEF ChainInv, StagesAreSpaced
  <2>3. QED BY <1>6, <2>1, <2>2
<1>15. BeforeBegin' /\ ToldIsOver'
  BY <1>5 DEF BeforeBegin, ToldIsOver
<1>16. QED BY <1>7, <1>10, <1>11, <1>12, <1>13, <1>14, <1>15 DEF ReporterInv, ChainInv

LEMMA SendKeeps ==
  ASSUME ReporterInv, NEW i \in 1..Len(chain), Send(i)
  PROVE  ReporterInv'
<1> USE ProgressConstants DEF ProgressConstants
<1> DEFINE n == Len(chain)
<1>1. ProgressTypeOK /\ ChainInv /\ i = 1
  BY DEF ReporterInv, Send, MaySend
<1>2. n \in Nat /\ n # 0 /\ chain \in Seq(Entries)
  BY <1>1 DEF ProgressTypeOK
<1>3. ~told /\ begun
  BY <1>2 DEF ReporterInv, ToldIsOver, BeforeBegin
<1>4. finished' = finished /\ sticky' = sticky /\ lastWrite' = lastWrite /\ begun' = begun
        /\ told' = told /\ shown' = shown /\ clock' = clock /\ progressComment' = progressComment
  BY DEF Send
<1>5. BeforeBegin' /\ ToldIsOver'
  BY <1>3, <1>4 DEF BeforeBegin, ToldIsOver
<1>6. CASE chain[i].body # "result" /\ finished
  <2>1. chain' = Tail(chain) /\ attempted' = attempted
    BY <1>6 DEF Send
  <2>2. ChainInv'
    <3>1. Len(chain') = n - 1 /\ \A k \in 1..(n - 1) : chain'[k] = chain[k + 1]
      BY <1>1, <1>2, <2>1, Shortened
    <3>2. QED BY <1>1, <1>2, <1>4, <3>1, TailKeepsChain
  <2>3. ProgressTypeOK'
    BY <1>1, <1>2, <1>4, <2>1, Shortened DEF ProgressTypeOK
  <2>4. QED BY <1>5, <2>2, <2>3 DEF ReporterInv
<1>7. CASE ~(chain[i].body # "result" /\ finished)
  <2>1. chain' = [chain EXCEPT ![1].sent = TRUE]
          /\ attempted' = (attempted \/ chain[1].body = "result")
    BY <1>1, <1>7 DEF Send
  <2> DEFINE f == [chain[1] EXCEPT !.sent = TRUE]
  <2>2. chain[1] \in Entries
    BY <1>2
  <2>3. f \in Entries /\ f.body = chain[1].body /\ f.at = chain[1].at
    BY <2>2 DEF Entries
  <2>4. chain' = [chain EXCEPT ![1] = f]
    BY <2>1
  <2> HIDE DEF f
  <2>5. chain' \in Seq(Entries) /\ Len(chain') = n
    BY <1>2, <2>3, <2>4, ExceptSeq
  <2>6. chain'[1] = f /\ \A k \in 1..n : k # 1 => chain'[k] = chain[k]
    BY <1>2, <2>3, <2>4, ExceptSeq
  <2>7. chain'[1].body = chain[1].body /\ chain'[1].at = chain[1].at
    BY <2>3, <2>6
  <2>8. \A k \in 1..n : chain'[k].body = chain[k].body /\ chain'[k].at = chain[k].at
    BY <2>6, <2>7
  <2>9. ResultEnds' /\ UnknownHoldsNoStage'
    BY <1>1, <1>4, <2>5, <2>8 DEF ChainInv, ResultEnds, UnknownHoldsNoStage
  <2>10. OneUnderWay'
    BY <1>1, <2>5, <2>6 DEF ChainInv, OneUnderWay
  <2>11. SlotIsLatest' /\ StagesAreSpaced'
    BY <1>1, <1>4, <2>5, <2>8 DEF ChainInv, SlotIsLatest, StagesAreSpaced
  <2>12. attempted' \in BOOLEAN
    BY <2>1
  <2>13. ProgressTypeOK'
    BY <1>1, <1>4, <2>5, <2>12 DEF ProgressTypeOK
  <2>14. QED BY <1>5, <2>9, <2>10, <2>11, <2>13 DEF ReporterInv, ChainInv
<1>8. QED BY <1>6, <1>7

LEMMA SettleKeeps ==
  ASSUME ReporterInv, NEW i \in 1..Len(chain), Settle(i)
  PROVE  ReporterInv'
<1> USE ProgressConstants DEF ProgressConstants
<1> DEFINE n == Len(chain)
<1>1. ProgressTypeOK /\ ChainInv
  BY DEF ReporterInv
<1>2. i = 1
  BY <1>1 DEF Settle, ChainInv, OneUnderWay
<1>3. n \in Nat /\ n # 0 /\ chain \in Seq(Entries) /\ shown \in Seq(Bodies)
        /\ sticky \in 0..Len(shown) /\ Len(shown) \in Nat
  BY <1>1 DEF ProgressTypeOK
<1>4. ~told /\ begun
  BY <1>3 DEF ReporterInv, ToldIsOver, BeforeBegin
<1>5. PICK o \in Outcomes :
        /\ chain' = Settled(i, o.landed)
        /\ shown' = IF ~o.landed THEN shown
                    ELSE IF sticky = 0 THEN Append(shown, chain[i].body)
                    ELSE [shown EXCEPT ![sticky] = chain[i].body]
        /\ told' = (told \/ (o.answered /\ chain[i].body = "result"))
        /\ sticky' = IF sticky = 0 /\ o.answered THEN Len(shown) + 1 ELSE sticky
  BY DEF Settle
<1>6. o.answered => o.landed
  BY <1>5, AnswerIsOfLanded
<1>7. chain' \in Seq(Entries) /\ Len(chain') = n - 1
        /\ \A j \in 1..(n - 1) : chain'[j] = chain[j + 1]
  <2>1. chain' = [j \in 1..(n - 1) |-> chain[j + 1]]
    BY <1>2, <1>3, <1>5 DEF Settled
  <2>2. \A j \in 1..(n - 1) : chain[j + 1] \in Entries
    BY <1>3
  <2>3. chain' \in [1..(n - 1) -> Entries] /\ n - 1 \in Nat
    BY <1>3, <2>1, <2>2
  <2>4. chain' \in Seq(Entries)
    BY <2>3, SeqDef
  <2>5. DOMAIN chain' = 1..(n - 1) /\ DOMAIN chain' = 1..Len(chain') /\ Len(chain') \in Nat
    BY <2>3, <2>4, LenProperties
  <2>6. Len(chain') = n - 1
    BY <1>3, <2>5
  <2>7. QED BY <2>1, <2>4, <2>6
<1>8. finished' = finished /\ lastWrite' = lastWrite /\ begun' = begun /\ clock' = clock
        /\ attempted' = attempted /\ progressComment' = progressComment
  BY DEF Settle
<1>9. sticky' = 0 => sticky = 0
  BY <1>3, <1>5
<1>10. ChainInv'
  BY <1>1, <1>3, <1>7, <1>8, <1>9, TailKeepsChain
<1>11. chain[1].body \in Bodies
  <2>1. chain[1] \in Entries
    BY <1>3
  <2>2. QED BY <2>1 DEF Entries, Bodies
<1>12. shown' \in Seq(Bodies) /\ sticky' \in 0..Len(shown')
  <2>1. CASE ~o.landed
    BY <1>3, <1>5, <1>6, <2>1
  <2>2. CASE o.landed /\ sticky = 0
    <3>1. shown' = Append(shown, chain[1].body)
      BY <1>2, <1>5, <2>2
    <3>2. shown' \in Seq(Bodies) /\ Len(shown') = Len(shown) + 1
      BY <1>3, <1>11, <3>1, AppendProperties
    <3>3. QED BY <1>3, <1>5, <2>2, <3>2
  <2>3. CASE o.landed /\ sticky # 0
    <3>1. shown' = [shown EXCEPT ![sticky] = chain[1].body] /\ sticky' = sticky
      BY <1>2, <1>5, <2>3
    <3>2. sticky \in 1..Len(shown)
      BY <1>3, <2>3
    <3>3. shown' \in Seq(Bodies) /\ Len(shown') = Len(shown)
      BY <1>3, <1>11, <3>1, <3>2, ExceptSeq
    <3>4. QED BY <1>3, <3>1, <3>3
  <2>4. QED BY <1>6, <2>1, <2>2, <2>3
<1>13. told' \in BOOLEAN
  BY <1>4, <1>5, <1>6
<1>14. ProgressTypeOK'
  BY <1>1, <1>3, <1>7, <1>8, <1>12, <1>13 DEF ProgressTypeOK
<1>15. ToldIsOver'
  <2> SUFFICES ASSUME told'
               PROVE  finished' /\ chain' = <<>> /\ sticky' # 0 /\ shown'[sticky'] = "result"
    BY DEF ToldIsOver
  <2>1. o.answered /\ o.landed /\ chain[1].body = "result"
    BY <1>2, <1>4, <1>5, <1>6
  <2>2. finished /\ n = 1
    <3>1. 1 \in 1..Len(chain)
      BY <1>3
    <3>2. ResultEnds
      BY <1>1 DEF ChainInv
    <3>3. QED BY <2>1, <3>1, <3>2 DEF ResultEnds
  <2>3. chain' = <<>>
    BY <1>7, <2>2
  <2>4. CASE sticky = 0
    <3>1. shown' = Append(shown, "result") /\ sticky' = Len(shown) + 1
      BY <1>2, <1>5, <2>1, <2>4
    <3>2. "result" \in Bodies
      BY DEF Bodies
    <3>3. shown'[Len(shown) + 1] = "result"
      BY <1>3, <3>1, <3>2, AppendProperties
    <3>4. QED BY <1>3, <1>8, <2>2, <2>3, <3>1, <3>3
  <2>5. CASE sticky # 0
    <3>1. shown' = [shown EXCEPT ![sticky] = "result"] /\ sticky' = sticky
      BY <1>2, <1>5, <2>1, <2>5
    <3>2. sticky \in 1..Len(shown)
      BY <1>3, <2>5
    <3>3. QED BY <1>3, <1>8, <2>2, <2>3, <2>5, <3>1, <3>2
  <2>6. QED BY <2>4, <2>5
<1>16. BeforeBegin'
  BY <1>4, <1>8 DEF BeforeBegin
<1>17. QED BY <1>10, <1>14, <1>15, <1>16 DEF ReporterInv

LEMMA TickKeeps == ReporterInv /\ Tick => ReporterInv'
<1> SUFFICES ASSUME ReporterInv, Tick PROVE ReporterInv'
  OBVIOUS
<1> USE ProgressConstants DEF ProgressConstants
<1>1. clock' \in 0..horizon
  BY DEF ReporterInv, Tick, ProgressTypeOK
<1>2. UNCHANGED <<progressComment, begun, sticky, lastWrite, finished, chain, shown, attempted,
                  told>>
  BY DEF Tick
<1>3. ProgressTypeOK'
  BY <1>1, <1>2 DEF ReporterInv, ProgressTypeOK
<1>4. BeforeBegin' /\ ToldIsOver'
  BY <1>2 DEF ReporterInv, BeforeBegin, ToldIsOver
<1>5. ChainInv'
  BY <1>2 DEF ReporterInv, ChainInv, ResultEnds, UnknownHoldsNoStage, OneUnderWay, SlotIsLatest,
             StagesAreSpaced
<1>6. QED BY <1>3, <1>4, <1>5 DEF ReporterInv

LEMMA StutterKeeps == ReporterInv /\ UNCHANGED progressVars => ReporterInv'
BY DEF ReporterInv, progressVars, ProgressTypeOK, BeforeBegin, ToldIsOver, ChainInv, ResultEnds,
       UnknownHoldsNoStage, OneUnderWay, SlotIsLatest, StagesAreSpaced

LEMMA ReporterStarts ==
  ASSUME NEW listing \in {<<>>, <<"result">>}, ProgressInit(listing)
  PROVE  ReporterInv
<1> USE ProgressConstants DEF ProgressConstants
<1>1. chain = <<>> /\ sticky = 0 /\ ~begun /\ ~finished /\ ~told
  BY DEF ProgressInit
<1>2. shown \in Seq(Bodies)
  <2>1. shown = listing
    BY DEF ProgressInit
  <2>2. "result" \in Bodies
    BY DEF Bodies
  <2>3. CASE listing = <<>>
    BY <2>1, <2>3
  <2>4. CASE listing = <<"result">>
    BY <2>1, <2>2, <2>4
  <2>5. QED BY <2>3, <2>4
<1>3. ProgressTypeOK
  <2>1. chain \in Seq(Entries) /\ sticky \in 0..Len(shown)
    BY <1>1, <1>2
  <2>2. progressComment \in BOOLEAN /\ attempted \in BOOLEAN /\ told \in BOOLEAN
          /\ begun \in BOOLEAN /\ finished \in BOOLEAN
    BY DEF ProgressInit
  <2>3. clock \in 0..horizon /\ lastWrite \in {Never} \cup 0..horizon
    BY DEF ProgressInit
  <2>4. QED BY <1>2, <2>1, <2>2, <2>3 DEF ProgressTypeOK
<1>4. BeforeBegin /\ ToldIsOver
  BY <1>1 DEF BeforeBegin, ToldIsOver
<1>5. ChainInv
  BY <1>1 DEF ChainInv, ResultEnds, UnknownHoldsNoStage, OneUnderWay, SlotIsLatest,
             StagesAreSpaced
<1>6. QED BY <1>3, <1>4, <1>5 DEF ReporterInv

-----------------------------------------------------------------------------
\* The invariant holds in every state of every run of the reporter
\* (createProgressReporter).
LEMMA ReporterInvariant == ProgressSpec => []ReporterInv
<1>1. ProgressStarts => ReporterInv
  BY ReporterStarts DEF ProgressStarts
<1>2. ReporterInv /\ [ProgressNext]_progressVars => ReporterInv'
  <2> SUFFICES ASSUME ReporterInv, [ProgressNext]_progressVars PROVE ReporterInv'
    OBVIOUS
  <2>1. CASE Begin  BY <2>1, BeginKeeps
  <2>2. CASE Finish  BY <2>2, FinishKeeps
  <2>3. ASSUME NEW i \in 1..Len(chain), Send(i) PROVE ReporterInv'
    BY <2>3, SendKeeps
  <2>4. ASSUME NEW i \in 1..Len(chain), Settle(i) PROVE ReporterInv'
    BY <2>4, SettleKeeps
  <2>5. CASE Tick  BY <2>5, TickKeeps
  <2>6. ASSUME NEW stage \in Stages, Advance(stage) PROVE ReporterInv'
    BY <2>6, AdvanceKeeps
  <2>7. CASE UNCHANGED progressVars  BY <2>7, StutterKeeps
  <2>8. QED BY <2>1, <2>2, <2>3, <2>4, <2>5, <2>6, <2>7 DEF ProgressNext, ChainStep
<1>3. QED BY <1>1, <1>2, PTL DEF ProgressSpec

\* The reporter's state is well typed: it only ever edits a comment that exists
\* (createProgressReporter's stickyId).
THEOREM ProgressTypeCorrect == ProgressSpec => []ProgressTypeOK
<1>1. ReporterInv => ProgressTypeOK  BY DEF ReporterInv
<1>2. QED BY <1>1, ReporterInvariant, PTL

\* Whatever fails and however many events the stream has, a result that was told stays the
\* comment's text (finish and advance over one write chain).
THEOREM ResultIsFinal == ProgressSpec => []FinalIsLast
<1>1. ReporterInv => FinalIsLast  BY DEF ReporterInv, ToldIsOver, FinalIsLast
<1>2. QED BY <1>1, ReporterInvariant, PTL

\* The stages that wait were queued at least throttleMs apart (advance takes the slot before it
\* waits).
THEOREM ThrottleHolds == ProgressSpec => []StagesAreSpaced
<1>1. ReporterInv => StagesAreSpaced  BY DEF ReporterInv, ChainInv
<1>2. QED BY <1>1, ReporterInvariant, PTL

=============================================================================

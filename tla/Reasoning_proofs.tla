----------------------------- MODULE Reasoning_proofs -----------------------------
(***************************************************************************)
(* Proofs about a review up to its publication: about the fan-out over the *)
(* shards, for any number of shards, any concurrency and any answers, and  *)
(* about what becomes of what the agents proposed, for any proposals,      *)
(* rules, overrides and memory.                                            *)
(***************************************************************************)
EXTENDS Reasoning, Findings_proofs

-----------------------------------------------------------------------------
(* The fan-out: what its invariant is made of. *)

\* Before the stage begins nothing was taken.
Untouched ==
  stage = "ready" =>
    /\ cursor = 0 /\ incomplete = 0
    /\ \A w \in Workers : worker[w] = 0
    /\ \A i \in Shards : results[i] = NoAnswer

\* The inductive invariant: the shards that were reported are exactly those taken and not in hand,
\* and the count of failures is theirs.
FanOutInv == FanOutTypeOK /\ TakenOnce /\ Untouched /\ CoverageIsHonest

LEMMA ReportedIsFinite ==
  ASSUME FanOutTypeOK, NEW S, S \subseteq Reported
  PROVE  IsFiniteSet(S)
<1>1. IsFiniteSet(1..cursor)
  BY FS_Interval DEF FanOutTypeOK
<1>2. S \subseteq 1..cursor
  BY DEF Reported
<1>3. QED BY <1>1, <1>2, FS_Subset

\* As many workers start as there are shards for them: the first ones.
LEMMA FirstWorkers ==
  ASSUME FanOutTypeOK
  PROVE  /\ {w \in Workers : w <= count} = 1..Concurrency
         /\ Concurrency \in 0..count
<1>1. PICK n \in Nat : Workers = 1..n
  BY FanOutConstants DEF FanOutConstants, Workers
<1>2. count \in Nat
  BY FanOutConstants DEF FanOutConstants, FanOutTypeOK
<1> DEFINE m == IF n <= count THEN n ELSE count
<1>3. m \in Nat /\ m <= count
  BY <1>1, <1>2
<1>4. {w \in Workers : w <= count} = 1..m
  BY <1>1, <1>2
<1>5. Cardinality(1..m) = m
  BY <1>3, FS_Interval
<1>6. Concurrency = m
  BY <1>4, <1>5 DEF Concurrency
<1>7. QED BY <1>2, <1>3, <1>4, <1>6

-----------------------------------------------------------------------------
(* Its types. *)

LEMMA TypesHold == Init => FanOutTypeOK
<1> SUFFICES ASSUME Init PROVE FanOutTypeOK
  OBVIOUS
<1>1. count \in 0..MaxShards /\ count \in Nat
  BY FanOutConstants DEF FanOutConstants, Init
<1>2. cursor \in 0..count /\ worker \in [Workers -> 0..count]
  BY <1>1 DEF Init, FanOutInit
<1>3. stage \in Stages /\ aborted \in BOOLEAN /\ incomplete \in Nat
  BY DEF Init, FanOutInit, Stages
<1>4. results \in [Shards -> Answers \cup {NoAnswer}] /\ single \in Answers \cup {NoAnswer}
  BY DEF Init, FanOutInit
<1>5. QED BY <1>1, <1>2, <1>3, <1>4 DEF FanOutTypeOK

LEMMA TypesAreKept ==
  ASSUME FanOutTypeOK, [Next]_fanOutVars
  PROVE  FanOutTypeOK'
<1> USE FanOutConstants DEF FanOutConstants
<1> USE DEF FanOutTypeOK
<1>1. CASE FanOut
  <2>1. Concurrency \in 0..count
    BY FirstWorkers
  <2>2. cursor' \in 0..count' /\ stage' \in Stages
    BY <1>1, <2>1 DEF FanOut, Stages
  <2>3. worker' \in [Workers -> 0..count']
    BY <1>1 DEF FanOut, Workers
  <2>4. QED BY <1>1, <2>2, <2>3 DEF FanOut
<1>2. CASE RunAgent \/ AgentStarts
  BY <1>2 DEF RunAgent, AgentStarts, Stages
<1>3. ASSUME NEW answer \in Answers \cup {NoAnswer}, NEW w \in Workers, ShardEnds(w, answer)
      PROVE  FanOutTypeOK'
  <2>1. worker[w] \in Shards
    BY <1>3 DEF ShardEnds, Shards
  <2>2. results' \in [Shards -> Answers \cup {NoAnswer}] /\ incomplete' \in Nat
    BY <1>3, <2>1 DEF ShardEnds, Failed
  <2>3. cursor' \in 0..count' /\ worker' \in [Workers -> 0..count']
    BY <1>3 DEF ShardEnds, GoesOn, Taken
  <2>4. stage' \in Stages
    BY <1>3 DEF ShardEnds, Joined, Stages
  <2>5. QED BY <1>3, <2>2, <2>3, <2>4 DEF ShardEnds
<1>4. ASSUME NEW answer \in Answers \cup {NoAnswer}, AgentEnds(answer)
      PROVE  FanOutTypeOK'
  BY <1>4 DEF AgentEnds, Stages
<1>5. CASE Watchdog
  BY <1>5 DEF Watchdog
<1>6. CASE UNCHANGED fanOutVars
  BY <1>6 DEF fanOutVars
<1>7. QED BY <1>1, <1>2, <1>3, <1>4, <1>5, <1>6 DEF Next, Reason

\* The state of the fan-out is well typed (fanOutShards).
THEOREM FanOutTypeCorrect == Spec => []FanOutTypeOK
<1>1. FanOutTypeOK /\ [Next]_fanOutVars => FanOutTypeOK'
  BY TypesAreKept
<1>2. QED BY TypesHold, <1>1, PTL DEF Spec

-----------------------------------------------------------------------------
(* Its steps. *)

LEMMA FanOutStarts == Init => FanOutInv
<1> SUFFICES ASSUME Init PROVE FanOutInv
  OBVIOUS
<1>1. FanOutTypeOK
  BY TypesHold
<1>2. Untouched /\ CoverageIsHonest
  BY DEF Init, FanOutInit, Untouched, CoverageIsHonest
<1>3. Reported = {}
  BY DEF Init, FanOutInit, Reported
<1>4. {i \in Reported : results[i] = NoAnswer} = {}
  BY <1>3
<1>5. TakenOnce
  BY <1>3, <1>4, FS_EmptySet DEF Init, FanOutInit, TakenOnce
<1>6. QED BY <1>1, <1>2, <1>5 DEF FanOutInv

\* Every worker takes the shard of its own number.
LEMMA FanOutKeeps ==
  ASSUME FanOutInv, FanOut, FanOutTypeOK'
  PROVE  FanOutInv'
<1>1. stage = "ready"
  BY DEF FanOut
<1>2. CASE aborted
  <2>1. UNCHANGED <<cursor, worker, results, incomplete>> /\ stage' = "threw"
    BY <1>2 DEF FanOut
  <2>2. TakenOnce'
    BY <2>1 DEF FanOutInv, TakenOnce, Reported, Held
  <2>3. QED BY <2>1, <2>2 DEF FanOutInv, Untouched, CoverageIsHonest
<1>3. CASE ~aborted
  <2>1. /\ cursor' = Concurrency /\ stage' = "shards"
        /\ worker' = [w \in Workers |-> IF w <= count THEN w ELSE 0]
        /\ UNCHANGED <<results, incomplete, count>>
    BY <1>3 DEF FanOut
  <2>2. /\ {w \in Workers : w <= count} = 1..Concurrency
        /\ Concurrency \in 0..count
    BY FirstWorkers DEF FanOutInv
  <2>3. Workers \subseteq Nat \ {0}
    BY FanOutConstants DEF FanOutConstants, Workers
  <2>4. Held' = 1..cursor'
    BY <2>1, <2>2, <2>3 DEF Held
  <2>5. Reported' = {}
    BY <2>4 DEF Reported
  <2>6. \A i \in Shards : results'[i] = NoAnswer
    BY <1>1, <2>1 DEF FanOutInv, Untouched
  <2>7. incomplete' = Cardinality({i \in Reported' : results'[i] = NoAnswer})
    <3>1. {i \in Reported' : results'[i] = NoAnswer} = {}
      BY <2>5
    <3>2. incomplete' = 0
      BY <1>1, <2>1 DEF FanOutInv, Untouched
    <3>3. QED BY <3>1, <3>2, FS_EmptySet
  <2>8. \A w \in Workers : worker'[w] <= cursor'
    <3>1. TAKE w \in Workers
    <3>2. CASE w <= count
      BY <2>1, <2>2, <3>2
    <3>3. CASE ~(w <= count)
      BY <2>1, <2>2, <3>3
    <3>4. QED BY <3>2, <3>3
  <2>9. \A v, w \in Workers : v # w /\ worker'[v] # 0 => worker'[v] # worker'[w]
    BY <2>1, <2>3
  <2>10. TakenOnce'
    BY <2>6, <2>7, <2>8, <2>9 DEF TakenOnce
  <2>11. QED BY <2>1, <2>10 DEF FanOutInv, Untouched, CoverageIsHonest
<1>4. QED BY <1>2, <1>3

\* The shard a worker had in hand joins the reported ones, and no other does.
LEMMA OneMoreReported ==
  ASSUME FanOutInv, NEW answer \in Answers \cup {NoAnswer}, NEW w \in Workers, ShardEnds(w, answer)
  PROVE  /\ worker[w] \in Shards /\ worker[w] \notin Reported
         /\ Reported' = Reported \cup {worker[w]}
         /\ \A v \in Workers : worker'[v] <= cursor'
         /\ \A u, v \in Workers : u # v /\ worker'[u] # 0 => worker'[u] # worker'[v]
<1> USE FanOutConstants DEF FanOutConstants
<1> DEFINE s == worker[w]
<1>1. /\ s \in 1..cursor /\ s \in Shards /\ s \in Held
      /\ cursor \in Nat /\ \A v \in Workers : worker[v] \in Nat /\ worker[v] <= cursor
  BY DEF FanOutInv, FanOutTypeOK, TakenOnce, ShardEnds, Shards, Held
<1>2. \A v \in Workers : v # w => worker[v] # s
  BY DEF FanOutInv, TakenOnce, ShardEnds
<1>3. \A v \in Workers : v # w => worker'[v] = worker[v]
  BY DEF FanOutInv, FanOutTypeOK, ShardEnds
<1>4. CASE GoesOn
  <2>1. cursor' = cursor + 1 /\ worker'[w] = cursor + 1
    BY <1>4 DEF FanOutInv, FanOutTypeOK, ShardEnds, Taken
  <2>2. Held' = (Held \ {s}) \cup {cursor + 1}
    BY <1>1, <1>2, <1>3, <2>1 DEF Held
  <2>3. Reported' = Reported \cup {s}
    BY <1>1, <2>1, <2>2 DEF Reported, Held
  <2>4. \A v \in Workers : worker'[v] <= cursor'
    BY <1>1, <1>3, <2>1
  <2>5. \A u, v \in Workers : u # v /\ worker'[u] # 0 => worker'[u] # worker'[v]
    BY <1>1, <1>3, <2>1 DEF FanOutInv, TakenOnce
  <2>6. QED BY <1>1, <2>3, <2>4, <2>5 DEF Reported
<1>5. CASE ~GoesOn
  <2>1. cursor' = cursor /\ worker'[w] = 0
    BY <1>5 DEF FanOutInv, FanOutTypeOK, ShardEnds
  <2>2. Held' = Held \ {s}
    BY <1>1, <1>2, <1>3, <2>1 DEF Held
  <2>3. Reported' = Reported \cup {s}
    BY <1>1, <2>1, <2>2 DEF Reported
  <2>4. \A v \in Workers : worker'[v] <= cursor'
    BY <1>1, <1>3, <2>1
  <2>5. \A u, v \in Workers : u # v /\ worker'[u] # 0 => worker'[u] # worker'[v]
    BY <1>1, <1>3, <2>1 DEF FanOutInv, TakenOnce
  <2>6. QED BY <1>1, <2>3, <2>4, <2>5 DEF Reported
<1>6. QED BY <1>4, <1>5

\* The failures that are counted stay those of the reported shards.
LEMMA FailuresCounted ==
  ASSUME FanOutInv, NEW answer \in Answers \cup {NoAnswer}, NEW w \in Workers, ShardEnds(w, answer)
  PROVE  incomplete' = Cardinality({i \in Reported' : results'[i] = NoAnswer})
<1> DEFINE s == worker[w]
           old == {i \in Reported : results[i] = NoAnswer}
           new == {i \in Reported' : results'[i] = NoAnswer}
<1>1. s \in Shards /\ s \notin Reported /\ Reported' = Reported \cup {s}
  BY OneMoreReported
<1>2. /\ \A i \in Shards : results'[i] = IF i = s THEN answer ELSE results[i]
  BY DEF FanOutInv, FanOutTypeOK, ShardEnds
<1>3. Reported \subseteq Shards
  BY FanOutConstants DEF FanOutConstants, FanOutInv, FanOutTypeOK, Reported, Shards
<1>4. incomplete = Cardinality(old) /\ incomplete \in Nat
  BY DEF FanOutInv, TakenOnce, FanOutTypeOK
<1>5. IsFiniteSet(old)
  BY ReportedIsFinite DEF FanOutInv
<1>6. CASE answer = NoAnswer
  <2>1. new = old \cup {s}
    BY <1>1, <1>2, <1>3, <1>6
  <2>2. s \notin old
    BY <1>1
  <2>3. Cardinality(new) = Cardinality(old) + 1
    BY <1>5, <2>1, <2>2, FS_AddElement
  <2>4. incomplete' = incomplete + 1
    BY <1>6 DEF ShardEnds, Failed
  <2>5. QED BY <1>4, <2>3, <2>4
<1>7. CASE answer # NoAnswer
  <2>1. new = old
    BY <1>1, <1>2, <1>3, <1>7
  <2>2. incomplete' = incomplete
    BY <1>7 DEF ShardEnds, Failed
  <2>3. QED BY <1>4, <2>1, <2>2
<1>8. QED BY <1>6, <1>7

\* A worker's shard ends; the last one's decides what follows.
LEMMA ShardEndsKeeps ==
  ASSUME FanOutInv, NEW answer \in Answers \cup {NoAnswer}, NEW w \in Workers, ShardEnds(w, answer),
         FanOutTypeOK'
  PROVE  FanOutInv'
<1> DEFINE s == worker[w]
<1>1. /\ s \in Shards /\ Reported' = Reported \cup {s}
      /\ \A v \in Workers : worker'[v] <= cursor'
      /\ \A u, v \in Workers : u # v /\ worker'[u] # 0 => worker'[u] # worker'[v]
  BY OneMoreReported
<1>2. incomplete' = Cardinality({i \in Reported' : results'[i] = NoAnswer})
  BY FailuresCounted
<1>3. \A i \in Shards : i \notin Reported' => results'[i] = NoAnswer
  BY <1>1 DEF FanOutInv, FanOutTypeOK, TakenOnce, ShardEnds
<1>4. TakenOnce'
  BY <1>1, <1>2, <1>3 DEF TakenOnce
<1>5. stage = "shards" /\ stage' # "ready"
  BY DEF ShardEnds, Joined
<1>6. CoverageIsHonest'
  <2> SUFFICES ASSUME stage' = "returned"
               PROVE  /\ \E i \in 1..count' : results'[i] # NoAnswer
                      /\ incomplete' = Cardinality({i \in 1..count' : results'[i] = NoAnswer})
    BY DEF CoverageIsHonest
  <2>1. /\ \A v \in Workers : worker'[v] = 0
        /\ Joined(results') = "returned"
    BY <1>5 DEF ShardEnds, AllOver
  <2>2. ~aborted /\ \E i \in 1..count : results'[i] # NoAnswer
    BY <2>1 DEF Joined
  <2>3. ~GoesOn
    BY <2>1 DEF ShardEnds, Taken, FanOutInv, FanOutTypeOK
  <2>4. cursor' = count /\ count' = count
    BY <2>2, <2>3, FanOutConstants DEF GoesOn, ShardEnds, FanOutInv, FanOutTypeOK, FanOutConstants
  <2>5. Held' = {}
    BY <2>1 DEF Held
  <2>6. Reported' = 1..count'
    BY <2>4, <2>5 DEF Reported
  <2>7. QED BY <1>2, <2>2, <2>4, <2>6
<1>7. QED BY <1>4, <1>5, <1>6 DEF FanOutInv, Untouched

\* The steps that take no shard.
LEMMA OthersKeep ==
  ASSUME FanOutInv, FanOutTypeOK',
         \/ RunAgent \/ AgentStarts \/ Watchdog \/ UNCHANGED fanOutVars
         \/ \E answer \in Answers \cup {NoAnswer} : AgentEnds(answer)
  PROVE  FanOutInv'
<1>1. UNCHANGED <<count, cursor, worker, results, incomplete>>
  BY DEF RunAgent, AgentStarts, Watchdog, AgentEnds, fanOutVars
<1>2. TakenOnce'
  BY <1>1 DEF FanOutInv, TakenOnce, Reported, Held
<1>3. Untouched'
  BY <1>1 DEF FanOutInv, Untouched, RunAgent, AgentStarts, Watchdog, AgentEnds, fanOutVars
<1>4. CoverageIsHonest'
  BY <1>1 DEF FanOutInv, CoverageIsHonest, RunAgent, AgentStarts, Watchdog, AgentEnds, fanOutVars
<1>5. QED BY <1>2, <1>3, <1>4 DEF FanOutInv

LEMMA FanOutGoesOn ==
  ASSUME FanOutInv, [Next]_fanOutVars
  PROVE  FanOutInv'
<1>1. FanOutTypeOK'
  BY TypesAreKept DEF FanOutInv
<1>2. CASE FanOut
  BY <1>1, <1>2, FanOutKeeps
<1>3. ASSUME NEW answer \in Answers \cup {NoAnswer}, NEW w \in Workers, ShardEnds(w, answer)
      PROVE  FanOutInv'
  BY <1>1, <1>3, ShardEndsKeeps
<1>4. CASE \/ RunAgent \/ AgentStarts \/ Watchdog \/ UNCHANGED fanOutVars
           \/ \E answer \in Answers \cup {NoAnswer} : AgentEnds(answer)
  BY <1>1, <1>4, OthersKeep
<1>5. QED BY <1>2, <1>3, <1>4 DEF Next, Reason

-----------------------------------------------------------------------------
(* What follows for the fan-out. *)

\* Whatever fails and wherever the watchdog fires, no shard is reviewed twice, and every failure
\* is counted once (fanOutShards).
THEOREM ShardsAreTakenOnce == Spec => []TakenOnce
<1>1. Init => FanOutInv
  BY FanOutStarts
<1>2. FanOutInv /\ [Next]_fanOutVars => FanOutInv'
  BY FanOutGoesOn
<1>3. FanOutInv => TakenOnce
  BY DEF FanOutInv
<1>4. QED BY <1>1, <1>2, <1>3, PTL DEF Spec

\* A round that returns is told for what it is: the count of incomplete shards is that of the
\* shards nobody reviewed (fanOutShards).
THEOREM CoverageTold == Spec => []CoverageIsHonest
<1>1. Init => FanOutInv
  BY FanOutStarts
<1>2. FanOutInv /\ [Next]_fanOutVars => FanOutInv'
  BY FanOutGoesOn
<1>3. FanOutInv => CoverageIsHonest
  BY DEF FanOutInv
<1>4. QED BY <1>1, <1>2, <1>3, PTL DEF Spec

-----------------------------------------------------------------------------
(* The review around it. *)

\* While the fan-out has not begun nothing was taken, so that it may learn how many shards
\* there are.
Pending == phase \in {"diff", "context"} => stage = "ready"

ReviewInv == FanOutInv /\ Pending /\ input \in Inputs

LEMMA ReviewStarts == ReviewInit => ReviewInv
<1> SUFFICES ASSUME ReviewInit PROVE ReviewInv
  OBVIOUS
<1>1. Init
  BY FanOutConstants DEF ReviewInit, Init, FanOutConstants
<1>2. FanOutInv
  BY <1>1, FanOutStarts
<1>3. QED
  BY <1>2 DEF ReviewInit, FanOutInit, ReviewInv, Pending

LEMMA AssembleKeeps ==
  ASSUME ReviewInv, Assemble
  PROVE  ReviewInv'
<1>1. /\ UNCHANGED <<stage, cursor, worker, results, incomplete, single, aborted, input>>
      /\ count' \in 0..MaxShards /\ phase' \in {"validate", "reason"} /\ stage = "ready"
  BY DEF Assemble, ReviewInv, Pending
<1>2. /\ cursor = 0 /\ incomplete = 0 /\ \A w \in Workers : worker[w] = 0
      /\ \A i \in Shards : results[i] = NoAnswer
  BY <1>1 DEF ReviewInv, FanOutInv, Untouched
<1>3. FanOutTypeOK'
  <2>1. cursor' \in 0..count' /\ worker' \in [Workers -> 0..count']
    <3>1. 0 \in 0..count'
      BY <1>1, FanOutConstants DEF FanOutConstants
    <3>2. worker \in [Workers -> 0..count] /\ \A w \in Workers : worker[w] \in 0..count'
      BY <1>2, <3>1 DEF ReviewInv, FanOutInv, FanOutTypeOK
    <3>3. QED
      BY <1>1, <1>2, <3>1, <3>2
  <2>2. QED
    BY <1>1, <2>1 DEF ReviewInv, FanOutInv, FanOutTypeOK
<1>4. TakenOnce' /\ Untouched' /\ CoverageIsHonest'
  BY <1>1 DEF ReviewInv, FanOutInv, TakenOnce, Reported, Held, Untouched, CoverageIsHonest
<1>5. QED
  BY <1>1, <1>3, <1>4 DEF ReviewInv, FanOutInv, Pending

LEMMA ReviewGoesOn == ReviewInv /\ [ReviewNext]_<<fanOutVars, reviewVars>> => ReviewInv'
<1> SUFFICES ASSUME ReviewInv, [ReviewNext]_<<fanOutVars, reviewVars>> PROVE ReviewInv'
  OBVIOUS
<1>1. CASE Assemble
  BY <1>1, AssembleKeeps
<1>2. CASE ReasonStep
  <2>1. [Next]_fanOutVars
    <3>1. Says[input] \subseteq Answers
      BY AnswersAreReal DEF AnswersAreReal, ReviewInv
    <3>2. QED
      BY <1>2, <3>1 DEF ReasonStep, Next, Reason
  <2>2. FanOutInv'
    BY <2>1, FanOutGoesOn DEF ReviewInv
  <2>3. input' = input /\ (phase' = phase \/ phase' \in {"validate", "threw"}) /\ phase = "reason"
    BY <1>2 DEF ReasonStep
  <2>4. QED
    BY <2>2, <2>3 DEF ReviewInv, Pending
<1>3. CASE Timeout
  <2>1. FanOutInv'
    BY <1>3, FanOutGoesOn DEF Timeout, Next, ReviewInv
  <2>2. QED
    BY <1>3, <2>1 DEF Timeout, Watchdog, ReviewInv, Pending, reviewVars
<1>4. CASE UNCHANGED fanOutVars /\ input' = input /\ Pending'
  <2>1. FanOutInv'
    BY <1>4, FanOutGoesOn DEF ReviewInv
  <2>2. QED
    BY <1>4, <2>1 DEF ReviewInv
<1>5. CASE Fetch \/ ValidateStep \/ Recall \/ UNCHANGED <<fanOutVars, reviewVars>>
  <2>1. UNCHANGED fanOutVars /\ input' = input
    BY <1>5 DEF Fetch, ValidateStep, Recall, reviewVars
  <2>2. Pending'
    BY <1>5, <2>1 DEF Fetch, ValidateStep, Recall, reviewVars, fanOutVars, Pending, ReviewInv
  <2>3. QED
    BY <1>4, <2>1, <2>2
<1>6. QED
  BY <1>1, <1>2, <1>3, <1>5 DEF ReviewNext

LEMMA ReviewInvariance == ReviewSpec => []ReviewInv
BY ReviewStarts, ReviewGoesOn, PTL DEF ReviewSpec

\* In a review, too, a round that returns is told for what it is, wherever it timed out.
THEOREM ReviewCoverageTold == ReviewSpec => []CoverageIsHonest
<1>1. ReviewInv => CoverageIsHonest
  BY DEF ReviewInv, FanOutInv
<1>2. QED
  BY <1>1, ReviewInvariance, PTL

-----------------------------------------------------------------------------
(* The lines of a patch, parsed one after the other. *)

Parses(lines, upTo) ==
  upTo = [n \in 0..Len(lines) |-> IF n = 0 THEN <<>> ELSE ParseOne(upTo[n - 1], lines[n])]

LEMMA ParseIsParses ==
  ASSUME NEW lines, NEW some, Parses(lines, some)
  PROVE  \E upTo : Parses(lines, upTo) /\ ParseHunks(lines) = upTo[Len(lines)]
BY DEF Parses, ParseHunks

\* The hunk under a header, with so many bytes.
HunkUnder(header, bytes) ==
  [oldStart |-> header.oldStart, oldLines |-> LinesOf(header.oldCount),
   newStart |-> header.newStart, newLines |-> LinesOf(header.newCount), bytes |-> bytes]
HunksUnder(T) == {HunkUnder(header, bytes) : header \in T, bytes \in Nat}

LEMMA HunkIsUnder ==
  ASSUME NEW header, NEW bytes
  PROVE  /\ HunkOf(header) = HunkUnder(header, header.bytes)
         /\ \A line : Longer(HunkUnder(header, bytes), line) = HunkUnder(header, bytes + line.bytes)
BY DEF HunkOf, HunkUnder, Longer

LEMMA ParseOneProperties ==
  ASSUME NEW T, \A line \in T : line.bytes \in Nat, NEW hunks \in Seq(HunksUnder(T)), NEW line \in T
  PROVE  ParseOne(hunks, line) \in Seq(HunksUnder(T))
<1> DEFINE H == HunksUnder(T)
           next == ParseOne(hunks, line)
<1>1. CASE line.kind = "@@"
  <2>1. next = Append(hunks, HunkOf(line))
    BY <1>1 DEF ParseOne
  <2>2. HunkOf(line) \in H
    BY HunkIsUnder DEF HunksUnder
  <2> HIDE DEF H, next
  <2>3. next \in Seq(H)
    BY <2>1, <2>2, AppendProperties DEF H
  <2>4. QED
    BY <2>3 DEF H, next
<1>2. CASE line.kind # "@@" /\ hunks = <<>>
  BY <1>2 DEF ParseOne
<1>3. CASE line.kind # "@@" /\ hunks # <<>>
  <2> DEFINE last == hunks[Len(hunks)]
             more == Longer(last, line)
  <2>1. next = [hunks EXCEPT ![Len(hunks)] = more]
    BY <1>3 DEF ParseOne
  <2>2. last \in H /\ Len(hunks) \in DOMAIN hunks
    <3> HIDE DEF H
    <3>1. hunks \in Seq(H)
      BY DEF H
    <3>2. Len(hunks) \in Nat \ {0}
      BY <1>3, <3>1, EmptySeq
    <3>3. Len(hunks) \in 1..Len(hunks)
      BY <3>2
    <3>4. QED
      BY <3>1, <3>3, ElementOfSeq
  <2>3. PICK header \in T, bytes \in Nat : last = HunkUnder(header, bytes)
    BY <2>2 DEF HunksUnder
  <2>4. more = HunkUnder(header, bytes + line.bytes)
    BY <2>3, HunkIsUnder
  <2>5. bytes + line.bytes \in Nat
    OBVIOUS
  <2>6. more \in H
    BY <2>4, <2>5 DEF HunksUnder
  <2>7. hunks \in Seq(H)
    OBVIOUS
  <2> HIDE DEF H, more, next
  <2>8. next \in Seq(H)
    BY <2>1, <2>2, <2>6, <2>7
  <2>9. QED
    BY <2>8 DEF H, next
<1>4. QED
  BY <1>1, <1>2, <1>3

LEMMA ParseRun ==
  ASSUME NEW lines, Sized(lines)
  PROVE  \E upTo : /\ upTo[0] = <<>> /\ upTo[Len(lines)] = ParseHunks(lines)
                   /\ \A n \in 1..Len(lines) : upTo[n] = ParseOne(upTo[n - 1], lines[n])
<1> DEFINE N == Len(lines)
           T == Range(lines)
           States == Seq(HunksUnder(T))
           One(hunks, n) == ParseOne(hunks, lines[n])
           step == [n \in 1..N |-> [hunks \in States |-> One(hunks, n)]]
<1>1. N \in Nat /\ \A n \in 1..N : lines[n] \in T
  BY ListElements DEF Sized
<1>2. \A line \in T : line.bytes \in Nat
  BY DEF Sized, Range
<1>3. <<>> \in States
  OBVIOUS
<1>4. \A n \in 1..N : \A hunks \in States : One(hunks, n) \in States
  BY <1>1, <1>2, ParseOneProperties
<1> HIDE DEF N, States, One
<1>5. \A n \in 1..N : \A hunks \in States : step[n][hunks] = One(hunks, n)
  OBVIOUS
<1>6. LeadsOn(States, N, step)
  BY <1>4, <1>5 DEF LeadsOn
<1> HIDE DEF step
<1>7. PICK g : IsIteration(States, <<>>, N, step, g)
  BY <1>1, <1>3, <1>6, Iterates, Zenon
<1>8. \A n \in 1..N : n - 1 \in 0..N /\ n \in 0..N /\ n # 0
  BY <1>1
<1>9. \A n \in 1..N : g[n] = One(g[n - 1], n)
  BY <1>5, <1>7, <1>8 DEF IsIteration
<1>10. \A n \in 0..N : n # 0 => n \in 1..N
  BY <1>1
<1>11. g = [n \in 0..N |-> IF n = 0 THEN <<>> ELSE One(g[n - 1], n)]
  BY <1>7, <1>9, <1>10 DEF IsIteration
<1>12. PICK upTo : Parses(lines, upTo) /\ ParseHunks(lines) = upTo[N]
  BY <1>11, ParseIsParses DEF Parses, N, One
<1>13. \A n \in 0..N : upTo[n] = IF n = 0 THEN <<>> ELSE One(upTo[n - 1], n)
  BY <1>12, Zenon DEF Parses, N, One
<1>14. 0 \in 0..N
  BY <1>1
<1>15. upTo[0] = <<>> /\ \A n \in 1..N : upTo[n] = One(upTo[n - 1], n)
  BY <1>8, <1>13, <1>14
<1>16. QED
  BY <1>12, <1>15 DEF N, One

Runs(lines, upTo) ==
  upTo[0] = <<>> /\ \A n \in 1..Len(lines) : upTo[n] = ParseOne(upTo[n - 1], lines[n])

\* The last element of a list replaced.
IsAppended(S, list, last, more) == list \in Seq(S) /\ last \in S /\ more = Append(list, last)

LEMMA LastReplaced ==
  ASSUME NEW S, NEW list, NEW last, NEW more, NEW grown, NEW next,
         IsAppended(S, list, last, more), IsAppended(S, list, grown, next)
  PROVE  /\ more # <<>> /\ more[Len(more)] = last
         /\ [more EXCEPT ![Len(more)] = grown] = next
<1> DEFINE n     == Len(list) + 1
           other == [more EXCEPT ![n] = grown]
<1>0. list \in Seq(S) /\ last \in S /\ grown \in S /\ more = Append(list, last) /\ next = Append(list, grown)
  BY DEF IsAppended
<1>1. /\ more \in Seq(S) /\ more # <<>> /\ Len(more) = n /\ more[n] = last
      /\ \A i \in 1..Len(list) : more[i] = list[i]
  BY <1>0, AppendProperties
<1>2. /\ next \in Seq(S) /\ Len(next) = n /\ next[n] = grown
      /\ \A i \in 1..Len(list) : next[i] = list[i]
  BY <1>0, AppendProperties
<1>3. Len(list) \in Nat /\ n \in 1..n /\ \A i \in 1..n : i = n \/ (i \in 1..Len(list) /\ i # n)
  BY <1>0
<1> HIDE DEF n
<1>5. /\ other \in Seq(S) /\ Len(other) = n /\ other[n] = grown
      /\ \A i \in 1..n : i # n => other[i] = more[i]
  <2>1. grown \in S /\ more \in Seq(S) /\ Len(more) = n
    BY <1>0, <1>1
  <2>2. QED
    BY <1>3, <2>1
<1> HIDE DEF other
<1>6. \A i \in 1..n : other[i] = next[i]
  BY <1>1, <1>2, <1>3, <1>5
<1>7. other = next
  BY <1>2, <1>5, <1>6, SeqEqual
<1>8. [more EXCEPT ![Len(more)] = grown] = next
  BY <1>1, <1>7 DEF other
<1>9. QED
  BY <1>1, <1>8

LEMMA LongerLast ==
  ASSUME NEW S, NEW hunks \in Seq(S), NEW hunk \in S, NEW line, line.kind # "@@", Longer(hunk, line) \in S
  PROVE  ParseOne(Append(hunks, hunk), line) = Append(hunks, Longer(hunk, line))
<1> DEFINE grown == Longer(hunk, line)
           more  == Append(hunks, hunk)
           next  == Append(hunks, grown)
<1>1. IsAppended(S, hunks, hunk, more) /\ IsAppended(S, hunks, grown, next)
  BY DEF IsAppended
<1>2. ParseOne(more, line) = IF more = <<>> THEN more
                             ELSE [more EXCEPT ![Len(more)] = Longer(more[Len(more)], line)]
  BY DEF ParseOne
<1> HIDE DEF more, next
<1>3. more # <<>> /\ more[Len(more)] = hunk /\ [more EXCEPT ![Len(more)] = grown] = next
  BY <1>1, LastReplaced
<1>4. Longer(more[Len(more)], line) = grown
  BY <1>3, Zenon
<1>5. ParseOne(more, line) = next
  BY <1>2, <1>3, <1>4, Zenon
<1>6. QED
  BY <1>5 DEF more, next

\* A header and the lines under it, from line a on.
IsBlock(header, body) ==
  /\ header.kind = "@@" /\ header.bytes \in Nat
  /\ Sized(body) /\ \A j \in DOMAIN body : body[j].kind # "@@"
BlockAt(lines, a, header, body) ==
  /\ a \in Nat /\ a + 1 + Len(body) <= Len(lines) /\ lines[a + 1] = header
  /\ \A j \in 1..Len(body) : lines[a + 1 + j] = body[j]
Under(header, S) == \A n \in Nat : HunkUnder(header, n) \in S

LEMMA BlockParses ==
  ASSUME NEW header, NEW body, IsBlock(header, body), NEW S, Under(header, S),
         NEW lines, Len(lines) \in Nat, NEW a, BlockAt(lines, a, header, body),
         NEW upTo, Runs(lines, upTo), upTo[a] \in Seq(S)
  PROVE  upTo[a + 1 + Len(body)] = Append(upTo[a], HunkUnder(header, header.bytes + BytesOf(body)))
<1> USE DEF IsBlock, BlockAt, Under
<1> DEFINE N == Len(body)
           hunks == upTo[a]
<1>1. N \in Nat /\ \A j \in 1..N : body[j].kind # "@@" /\ body[j].bytes \in Nat
  BY ListElements DEF Sized
<1>2. PICK sum : /\ sum[0] = 0 /\ sum[N] = BytesOf(body)
                 /\ \A n \in 1..N : sum[n] = sum[n - 1] + body[n].bytes /\ sum[n - 1] \in Nat
  BY BytesRun
<1> DEFINE Grown(j) == HunkUnder(header, header.bytes + sum[j])
           J == {j \in 0..N : upTo[a + 1 + j] = Append(hunks, Grown(j))}
<1> HIDE DEF N
<1>3. 0 \in J
  <2>1. a + 1 \in 1..Len(lines) /\ a + 1 - 1 = a /\ a + 1 + 0 = a + 1 /\ 0 \in 0..N
    BY <1>1 DEF N
  <2>2. upTo[a + 1] = ParseOne(hunks, header)
    <3>1. upTo[a + 1] = ParseOne(upTo[a + 1 - 1], lines[a + 1])
      BY <2>1 DEF Runs
    <3>2. QED
      BY <2>1, <3>1
  <2>3. ParseOne(hunks, header) = Append(hunks, HunkUnder(header, header.bytes))
    BY HunkIsUnder DEF ParseOne
  <2>4. header.bytes + sum[0] = header.bytes
    BY <1>2
  <2>5. QED
    BY <2>1, <2>2, <2>3, <2>4
<1>4. ASSUME NEW j \in 1..N, j - 1 \in J PROVE j \in J
  <2> DEFINE m == a + 1 + j
  <2>1. /\ m \in 1..Len(lines) /\ m - 1 = a + 1 + (j - 1) /\ j \in 0..N
    BY <1>1 DEF N
  <2>2. upTo[m - 1] = Append(hunks, Grown(j - 1))
    BY <1>4, <2>1
  <2>3. lines[m] = body[j]
    BY DEF N
  <2>0. hunks \in Seq(S)
    OBVIOUS
  <2>4. upTo[m] = ParseOne(Append(hunks, Grown(j - 1)), body[j])
    <3>1. \A n \in 1..Len(lines) : upTo[n] = ParseOne(upTo[n - 1], lines[n])
      BY DEF Runs
    <3> HIDE DEF Grown, m
    <3>2. upTo[m] = ParseOne(upTo[m - 1], lines[m])
      BY <2>1, <3>1
    <3>3. QED
      BY <2>2, <2>3, <3>2
  <2>5. /\ sum[j] = sum[j - 1] + body[j].bytes /\ sum[j - 1] \in Nat /\ body[j].bytes \in Nat
        /\ body[j].kind # "@@"
    BY <1>1, <1>2
  <2>6. Longer(Grown(j - 1), body[j]) = Grown(j)
    <3>1. header.bytes + sum[j - 1] + body[j].bytes = header.bytes + sum[j]
      BY <2>5
    <3>2. QED
      BY <3>1, HunkIsUnder
  <2>7. Grown(j - 1) \in S /\ Grown(j) \in S
    <3> DEFINE x == header.bytes
               y == sum[j - 1]
               z == sum[j]
    <3>1. x \in Nat /\ y \in Nat /\ z \in Nat
      BY <2>5
    <3> HIDE DEF x, y, z
    <3>2. x + y \in Nat /\ x + z \in Nat
      BY <3>1
    <3>3. QED
      BY <3>2 DEF x, y, z
  <2> HIDE DEF Grown, hunks
  <2>8. upTo[m] = Append(hunks, Grown(j))
    <3>1. \A x \in S : \A line : line.kind # "@@" /\ Longer(x, line) \in S =>
            ParseOne(Append(hunks, x), line) = Append(hunks, Longer(x, line))
      BY <2>0, LongerLast
    <3>2. Longer(Grown(j - 1), body[j]) \in S
      BY <2>6, <2>7, Zenon
    <3>3. ParseOne(Append(hunks, Grown(j - 1)), body[j]) = Append(hunks, Longer(Grown(j - 1), body[j]))
      BY <2>5, <2>7, <3>1, <3>2, Zenon
    <3>4. QED
      BY <2>4, <2>6, <3>3, Zenon
  <2>9. QED
    BY <2>1, <2>8
<1>5. \A j \in 0..N : j \in J
  <2> HIDE DEF J
  <2>1. QED
    BY <1>1, <1>3, <1>4, Induction
<1>6. N \in J
  <2>1. N \in 0..N
    BY <1>1
  <2>2. QED
    BY <1>5, <2>1
<1>7. QED
  BY <1>2, <1>6 DEF N

-----------------------------------------------------------------------------
(* What the lines of a hunk are, and those of a file's hunks. *)

HeaderLine(h) ==
  [kind |-> "@@", oldStart |-> h.oldStart, oldCount |-> IF h.oldLines = 1 THEN NoCounts ELSE h.oldLines,
   newStart |-> h.newStart, newCount |-> IF h.newLines = 1 THEN NoCounts ELSE h.newLines, bytes |-> 1]

LEMMA HeaderProperties ==
  ASSUME NEW h, h.oldLines \in Nat, h.newLines \in Nat
  PROVE  /\ HeaderLine(h).kind = "@@" /\ HeaderLine(h).bytes = 1
         /\ HunkLines(h) = <<HeaderLine(h)>> \o h.body
         /\ IsHunkOf(HunkUnder(HeaderLine(h), 1 + BytesOf(h.body)), h)
<1> DEFINE line == HeaderLine(h)
<1>1. line.kind = "@@" /\ line.bytes = 1 /\ line.oldStart = h.oldStart /\ line.newStart = h.newStart
  BY DEF HeaderLine
<1>2. LinesOf(line.oldCount) = h.oldLines /\ LinesOf(line.newCount) = h.newLines
  BY DEF HeaderLine, LinesOf, NoCounts
<1>3. HunkLines(h) = <<line>> \o h.body
  BY DEF HunkLines, HeaderLine
<1> HIDE DEF line
<1>4. IsHunkOf(HunkUnder(line, 1 + BytesOf(h.body)), h)
  BY <1>1, <1>2 DEF IsHunkOf, HunkUnder
<1>5. QED
  BY <1>1, <1>3, <1>4 DEF line

LEMMA HunkPlaces ==
  ASSUME NEW h, h.oldLines \in Nat, h.newLines \in Nat, IsList(h.body)
  PROVE  /\ IsList(HunkLines(h)) /\ Len(h.body) \in Nat /\ Len(HunkLines(h)) = 1 + Len(h.body)
         /\ HunkLines(h)[1] = HeaderLine(h)
         /\ \A j \in 1..Len(h.body) : HunkLines(h)[1 + j] = h.body[j]
         /\ Range(HunkLines(h)) = {HeaderLine(h)} \cup Range(h.body)
<1> DEFINE one == <<HeaderLine(h)>>
           body == h.body
           B == Range(body)
           T == {HeaderLine(h)} \cup B
           lines == HunkLines(h)
<1>1. body \in Seq(B)
  BY DEF IsList
<1> HIDE DEF B
<1>2. body \in Seq(T)
  <2> HIDE DEF body
  <2>1. QED
    BY <1>1
<1>3. one \in Seq(T) /\ Len(one) = 1 /\ one[1] = HeaderLine(h) /\ Range(one) = {HeaderLine(h)}
  BY DEF Range
<1>4. lines = one \o body
  BY HeaderProperties
<1> HIDE DEF one, body, T, lines
<1>5. /\ lines \in Seq(T) /\ Len(lines) = Len(one) + Len(body)
      /\ \A i \in 1..Len(one) : lines[i] = one[i]
      /\ \A j \in 1..Len(body) : lines[Len(one) + j] = body[j]
  <2>1. /\ one \o body \in Seq(T) /\ Len(one \o body) = Len(one) + Len(body)
        /\ \A i \in 1..Len(one) : (one \o body)[i] = one[i]
        /\ \A j \in 1..Len(body) : (one \o body)[Len(one) + j] = body[j]
    <3>1. one \in Seq(T) /\ body \in Seq(T)
      BY <1>2, <1>3
    <3>2. QED
      BY <3>1, ConcatPlaces
  <2>2. QED
    BY <1>4, <2>1, Zenon
<1>6. Range(lines) = Range(one) \cup Range(body)
  BY <1>2, <1>3, <1>4, RangeConcatenation
<1>7. IsList(lines)
  BY <1>5, IsListOf
<1>8. Len(body) \in Nat /\ 1 \in 1..1
  BY <1>2
<1>9. QED
  BY <1>3, <1>5, <1>6, <1>7, <1>8 DEF lines, body, B

\* What is known of a line of a patch.
IsPatchLine(file, line) ==
  /\ line.bytes \in Nat /\ line.kind \notin HeaderKinds \ {"@@"}
  /\ file.status = "added" => line.kind # "--- "
  /\ file.status = "deleted" => line.kind # "+++ "

LEMMA FileProperties ==
  ASSUME NEW file, IsFile(file)
  PROVE  /\ IsList(file.hunks) /\ Len(file.hunks) \in Nat /\ DOMAIN file.hunks = 1..Len(file.hunks)
         /\ \A k \in 1..Len(file.hunks) :
              LET h == file.hunks[k]
              IN  /\ h.oldLines \in Nat /\ h.newLines \in Nat /\ IsList(h.body) /\ Sized(h.body)
                  /\ \A line \in Range(h.body) : IsPatchLine(file, line) /\ line.kind # "@@"
                  /\ \A j \in DOMAIN h.body : h.body[j].kind # "@@"
<1> DEFINE hunks == file.hunks
<1>1. IsList(hunks)
  BY DEF IsFile
<1>2. /\ Len(hunks) \in Nat /\ DOMAIN hunks = 1..Len(hunks)
      /\ \A k \in 1..Len(hunks) : hunks[k] \in Range(hunks)
  BY <1>1, ListElements
<1>3. ASSUME NEW h \in Range(hunks)
      PROVE  /\ h.oldLines \in Nat /\ h.newLines \in Nat /\ IsList(h.body) /\ Sized(h.body)
             /\ \A line \in Range(h.body) : IsPatchLine(file, line) /\ line.kind # "@@"
             /\ \A j \in DOMAIN h.body : h.body[j].kind # "@@"
  <2>1. /\ h.oldLines \in Nat /\ h.newLines \in Nat /\ IsList(h.body)
        /\ \A line \in Range(h.body) :
             /\ line.kind \notin HeaderKinds /\ line.bytes \in Nat
             /\ file.status = "added" => line.kind # "--- "
             /\ file.status = "deleted" => line.kind # "+++ "
    BY <1>3 DEF IsFile
  <2>2. "@@" \in HeaderKinds
    BY DEF HeaderKinds
  <2>3. \A line \in Range(h.body) : IsPatchLine(file, line) /\ line.kind # "@@"
    BY <2>1, <2>2 DEF IsPatchLine
  <2>4. \A j \in DOMAIN h.body : h.body[j] \in Range(h.body)
    BY <2>1, ListElements
  <2>5. \A j \in DOMAIN h.body : h.body[j].bytes \in Nat /\ h.body[j].kind # "@@"
    BY <2>3, <2>4 DEF IsPatchLine
  <2>6. QED
    BY <2>1, <2>3, <2>5 DEF Sized
<1>4. QED
  BY <1>1, <1>2, <1>3

ListsOf(file) == [h \in DOMAIN file.hunks |-> HunkLines(file.hunks[h])]
LinesOfPatch(file) == UNION {Range(HunkLines(file.hunks[k])) : k \in 1..Len(file.hunks)}

LEMMA ListsProperties ==
  ASSUME NEW file, IsFile(file)
  PROVE  /\ PatchOf(file) = FlattenSeq(ListsOf(file)) /\ ListsOf(file) \in Seq(Seq(LinesOfPatch(file)))
         /\ Len(ListsOf(file)) = Len(file.hunks)
         /\ \A k \in 1..Len(file.hunks) : ListsOf(file)[k] = HunkLines(file.hunks[k])
         /\ \A line \in LinesOfPatch(file) : IsPatchLine(file, line)
<1> DEFINE hunks == file.hunks
           N == Len(hunks)
           T == LinesOfPatch(file)
           lists == ListsOf(file)
           Lines(k) == HunkLines(hunks[k])
<1>1. N \in Nat /\ DOMAIN hunks = 1..N
  BY FileProperties
<1>2. ASSUME NEW k \in 1..N PROVE Lines(k) \in Seq(T) /\ \A line \in Range(Lines(k)) : IsPatchLine(file, line)
  <2> DEFINE h == hunks[k]
  <2>1. /\ h.oldLines \in Nat /\ h.newLines \in Nat /\ IsList(h.body)
        /\ \A line \in Range(h.body) : IsPatchLine(file, line)
    BY FileProperties
  <2> HIDE DEF h
  <2>2. IsList(HunkLines(h)) /\ Range(HunkLines(h)) = {HeaderLine(h)} \cup Range(h.body)
    BY <2>1, HunkPlaces
  <2>3. HeaderLine(h).kind = "@@" /\ HeaderLine(h).bytes = 1
    BY <2>1, HeaderProperties
  <2>4. IsPatchLine(file, HeaderLine(h))
    BY <2>3 DEF IsPatchLine, HeaderKinds
  <2>5. \A line \in Range(HunkLines(h)) : IsPatchLine(file, line)
    BY <2>1, <2>2, <2>4
  <2> DEFINE R == Range(HunkLines(h))
             all == HunkLines(h)
  <2>6. R \subseteq T
    BY DEF LinesOfPatch, h
  <2>7. all \in Seq(R)
    BY <2>2 DEF IsList
  <2> HIDE DEF R, all, T
  <2>8. all \in Seq(T)
    BY <2>6, <2>7
  <2>9. QED
    BY <2>5, <2>8 DEF all, h
<1>3. \A line \in T : IsPatchLine(file, line)
  BY <1>2 DEF LinesOfPatch
<1>4. PatchOf(file) = FlattenSeq(lists)
  BY DEF PatchOf, ListsOf
<1>5. lists = [k \in 1..N |-> Lines(k)]
  BY <1>1 DEF ListsOf
<1> HIDE DEF N, T, lists, Lines
<1>6. lists \in Seq(Seq(T)) /\ Len(lists) = N /\ \A k \in 1..N : lists[k] = Lines(k)
  <2>1. \A k \in 1..N : Lines(k) \in Seq(T)
    BY <1>2
  <2>2. QED
    BY <1>1, <1>5, <2>1
<1>7. QED
  BY <1>3, <1>4, <1>6 DEF N, T, lists, Lines

LEMMA PatchProperties ==
  ASSUME NEW file, IsFile(file)
  PROVE  /\ IsList(PatchOf(file)) /\ (PatchOf(file) = <<>> <=> file.hunks = <<>>)
         /\ \A line \in Range(PatchOf(file)) : IsPatchLine(file, line)
         /\ file.hunks = <<>> => \A line \in Range(PatchOf(file)) : FALSE
<1> DEFINE hunks == file.hunks
           lists == ListsOf(file)
           patch == PatchOf(file)
           T == LinesOfPatch(file)
<1>1. /\ patch = FlattenSeq(lists) /\ lists \in Seq(Seq(T)) /\ Len(lists) = Len(hunks)
      /\ \A k \in 1..Len(hunks) : lists[k] = HunkLines(hunks[k])
      /\ \A line \in T : IsPatchLine(file, line)
  BY ListsProperties
<1>2. Len(hunks) \in Nat /\ DOMAIN hunks = 1..Len(hunks) /\ IsList(hunks)
  BY FileProperties
<1>3. ASSUME Len(hunks) # 0 PROVE \E line : line \in Range(patch)
  <2> DEFINE h == hunks[1]
  <2>1. 1 \in 1..Len(hunks)
    BY <1>2, <1>3
  <2>2. h.oldLines \in Nat /\ h.newLines \in Nat /\ IsList(h.body)
    BY <2>1, FileProperties
  <2> HIDE DEF h
  <2>3. HeaderLine(h) \in Range(HunkLines(h))
    BY <2>2, HunkPlaces
  <2>4. 1 \in DOMAIN lists /\ lists[1] = HunkLines(h)
    BY <1>1, <2>1 DEF h
  <2> HIDE DEF lists, patch
  <2>5. \A x : x \in Range(FlattenSeq(lists)) <=> \E k \in DOMAIN lists : x \in Range(lists[k])
    BY <1>1, FlattenProperties
  <2>6. QED
    BY <1>1, <2>3, <2>4, <2>5
<1> HIDE DEF hunks, lists, patch, T
<1>4. patch \in Seq(T)
  BY <1>1, FlattenProperties
<1>5. Len(hunks) = 0 => patch = <<>>
  <2>1. Len(hunks) = 0 => lists = <<>>
    BY <1>1
  <2>2. FlattenSeq(<<>>) = <<>>
    BY DEF FlattenSeq
  <2>3. QED
    BY <1>1, <2>1, <2>2
<1>6. hunks = <<>> <=> Len(hunks) = 0
  <2>1. hunks \in Seq(Range(hunks))
    BY <1>2 DEF IsList
  <2>2. QED
    BY <2>1, EmptySeq
<1>7. Range(<<>>) = {}
  BY DEF Range
<1>8. \A line \in Range(patch) : line \in T
  BY <1>4 DEF Range
<1>9. QED
  BY <1>1, <1>3, <1>4, <1>5, <1>6, <1>7, <1>8, IsListOf DEF patch, hunks

-----------------------------------------------------------------------------
(* A patch parses to the hunks it was made of. *)

\* The hunk that is parsed for one of a file.
Parsed(h) == HunkUnder(HeaderLine(h), 1 + BytesOf(h.body))

LEMMA ListAppend ==
  ASSUME NEW S, NEW whole, NEW k \in Nat, \A i \in 1..(k + 1) : whole[i] \in S
  PROVE  /\ [i \in 1..k |-> whole[i]] \in Seq(S)
         /\ Append([i \in 1..k |-> whole[i]], whole[k + 1]) = [i \in 1..(k + 1) |-> whole[i]]
<1> DEFINE s == [i \in 1..k |-> whole[i]]
           t == [i \in 1..(k + 1) |-> whole[i]]
           r == Append(s, whole[k + 1])
<1>1. /\ k + 1 \in Nat /\ k + 1 \in 1..(k + 1)
      /\ \A i \in 1..(k + 1) : i = k + 1 \/ i \in 1..k
      /\ \A i \in 1..k : i \in 1..(k + 1)
  OBVIOUS
<1>2. s \in Seq(S) /\ Len(s) = k /\ \A i \in 1..k : s[i] = whole[i]
  BY <1>1
<1>3. t \in Seq(S) /\ Len(t) = k + 1 /\ \A i \in 1..(k + 1) : t[i] = whole[i]
  BY <1>1
<1> HIDE DEF s, t
<1>4. /\ r \in Seq(S) /\ Len(r) = k + 1 /\ r[k + 1] = whole[k + 1]
      /\ \A i \in 1..k : r[i] = s[i]
  BY <1>1, <1>2, AppendProperties
<1> HIDE DEF r
<1>5. \A i \in 1..(k + 1) : r[i] = t[i]
  BY <1>1, <1>2, <1>3, <1>4
<1>6. r = t
  BY <1>3, <1>4, <1>5, SeqEqual
<1>7. QED
  BY <1>2, <1>6 DEF s, t, r

LEMMA PatchParses ==
  ASSUME NEW file, IsFile(file), NEW before, Sized(before), \A i \in DOMAIN before : before[i].kind # "@@"
  PROVE  ParseHunks(before \o PatchOf(file)) = [k \in DOMAIN file.hunks |-> Parsed(file.hunks[k])]
<1> DEFINE hunks == file.hunks
           N     == Len(hunks)
           lists == ListsOf(file)
           patch == PatchOf(file)
           lines == before \o patch
           p     == Len(before)
           S     == {HunkUnder(HeaderLine(hunks[k]), bytes) : k \in 1..N, bytes \in Nat}
           So(k) == [i \in 1..k |-> Parsed(hunks[i])]
<1>1. N \in Nat /\ DOMAIN hunks = 1..N
  BY FileProperties
<1>2. /\ IsList(before) /\ p \in Nat /\ \A i \in 1..p : before[i].kind # "@@" /\ before[i].bytes \in Nat
  BY ListElements DEF Sized
<1>3. IsList(patch) /\ Len(patch) \in Nat /\ \A i \in 1..Len(patch) : patch[i].bytes \in Nat
  <2>1. IsList(patch) /\ \A line \in Range(patch) : IsPatchLine(file, line)
    BY PatchProperties
  <2> HIDE DEF patch
  <2>2. Len(patch) \in Nat /\ \A i \in 1..Len(patch) : patch[i] \in Range(patch)
    BY <2>1, ListElements
  <2>3. QED
    BY <2>1, <2>2 DEF IsPatchLine
<1>4. PICK at : Offsets(lists, patch, at)
  <2>1. lists \in Seq(Seq(LinesOfPatch(file))) /\ patch = FlattenSeq(lists)
    BY ListsProperties
  <2> HIDE DEF lists, patch
  <2>2. QED
    BY <2>1, FlattenPlaces
<1>5. Len(lists) = N /\ \A k \in 1..N : lists[k] = HunkLines(hunks[k])
  BY ListsProperties
<1>6. /\ at[0] = 0 /\ at[N] = Len(patch) /\ at \in [0..N -> Nat]
      /\ \A k \in 1..N : /\ at[k] = at[k - 1] + Len(HunkLines(hunks[k])) /\ at[k] <= Len(patch)
                         /\ \A j \in 1..Len(HunkLines(hunks[k])) : patch[at[k - 1] + j] = HunkLines(hunks[k])[j]
  <2> HIDE DEF N, lists, patch, hunks
  <2>1. QED
    BY <1>4, <1>5 DEF Offsets
<1> HIDE DEF lists, patch
<1>7. /\ IsList(lines) /\ Len(lines) = p + Len(patch)
      /\ \A i \in 1..p : lines[i] = before[i]
      /\ \A j \in 1..Len(patch) : lines[p + j] = patch[j]
  <2> DEFINE A == Range(before)
             B == Range(patch)
             T == A \cup B
  <2>1. before \in Seq(A) /\ patch \in Seq(B)
    BY <1>2, <1>3 DEF IsList
  <2> HIDE DEF A, B
  <2>2. before \in Seq(T) /\ patch \in Seq(T)
    BY <2>1
  <2> HIDE DEF T
  <2>3. /\ before \o patch \in Seq(T) /\ Len(before \o patch) = Len(before) + Len(patch)
        /\ \A i \in 1..Len(before) : (before \o patch)[i] = before[i]
        /\ \A j \in 1..Len(patch) : (before \o patch)[Len(before) + j] = patch[j]
    BY <2>2, ConcatPlaces
  <2>4. IsList(before \o patch)
    BY <2>3, IsListOf
  <2>5. QED
    BY <2>3, <2>4
<1> HIDE DEF N, lines, p, S, So
<1>8. Sized(lines) /\ Len(lines) \in Nat /\ DOMAIN lines = 1..Len(lines)
  <2>1. DOMAIN lines = 1..Len(lines)
    BY <1>7, ListElements
  <2>2. \A i \in 1..(p + Len(patch)) : i \in 1..p \/ (i - p \in 1..Len(patch) /\ p + (i - p) = i)
    BY <1>2, <1>3
  <2>3. \A i \in 1..(p + Len(patch)) : lines[i].bytes \in Nat
    <3> TAKE i \in 1..(p + Len(patch))
    <3>1. CASE i \in 1..p
      BY <1>2, <1>7, <3>1
    <3>2. CASE i - p \in 1..Len(patch) /\ p + (i - p) = i
      BY <1>3, <1>7, <3>2
    <3>3. QED
      BY <2>2, <3>1, <3>2
  <2>4. Len(lines) \in Nat
    BY <1>2, <1>3, <1>7
  <2>5. QED
    BY <1>7, <2>1, <2>3, <2>4 DEF Sized
<1>9. PICK upTo : Runs(lines, upTo) /\ upTo[Len(lines)] = ParseHunks(lines)
  BY <1>8, ParseRun DEF Runs
<1>10. upTo[p] = <<>>
  <2> DEFINE J == {i \in 0..p : upTo[i] = <<>>}
  <2>1. 0 \in J
    BY <1>2, <1>9 DEF Runs
  <2>2. ASSUME NEW i \in 1..p, i - 1 \in J PROVE i \in J
    <3>1. i \in 1..Len(lines) /\ i \in 0..p
      BY <1>2, <1>3, <1>7
    <3>2. upTo[i] = ParseOne(<<>>, before[i])
      BY <1>7, <1>9, <2>2, <3>1 DEF Runs
    <3>3. QED
      BY <1>2, <3>1, <3>2 DEF ParseOne
  <2> HIDE DEF J
  <2>3. \A i \in 0..p : i \in J
    BY <1>2, <2>1, <2>2, Induction
  <2>4. QED
    BY <1>2, <2>3 DEF J
<1> DEFINE K == {k \in 0..N : upTo[p + at[k]] = So(k)}
<1>11. 0 \in K
  <2>1. p + at[0] = p /\ 0 \in 0..N
    BY <1>1, <1>2, <1>6
  <2>2. So(0) = <<>>
    BY DEF So
  <2>3. QED
    BY <1>10, <2>1, <2>2
<1>12. ASSUME NEW k \in 1..N, k - 1 \in K PROVE k \in K
  <2> DEFINE h    == hunks[k]
             body == h.body
             head == HeaderLine(h)
             a    == p + at[k - 1]
  <2>1. /\ h.oldLines \in Nat /\ h.newLines \in Nat /\ IsList(body) /\ Sized(body)
        /\ \A j \in DOMAIN body : body[j].kind # "@@"
    BY FileProperties DEF N
  <2>2. /\ Len(body) \in Nat /\ Len(HunkLines(h)) = 1 + Len(body) /\ HunkLines(h)[1] = head
        /\ \A j \in 1..Len(body) : HunkLines(h)[1 + j] = body[j]
    BY <2>1, HunkPlaces
  <2>3. head.kind = "@@" /\ head.bytes = 1
    BY <2>1, HeaderProperties
  <2>4. /\ at[k] = at[k - 1] + (1 + Len(body)) /\ at[k] <= Len(patch) /\ at[k - 1] \in Nat /\ at[k] \in Nat
        /\ patch[at[k - 1] + 1] = head
        /\ \A j \in 1..Len(body) : patch[at[k - 1] + (1 + j)] = body[j]
    <3>1. k \in 0..N /\ k - 1 \in 0..N
      BY <1>1
    <3>2. at[k - 1] \in Nat /\ at[k] \in Nat
      BY <1>6, <3>1
    <3>3. 1 \in 1..(1 + Len(body)) /\ \A j \in 1..Len(body) : 1 + j \in 1..(1 + Len(body))
      BY <2>2
    <3> HIDE DEF body, head
    <3>4. QED
      BY <1>6, <2>2, <3>2, <3>3
  <2> HIDE DEF body, head
  <2>5. /\ lines[a + 1] = head /\ a \in Nat /\ a + 1 + Len(body) <= Len(lines) /\ a + 1 + Len(body) = p + at[k]
        /\ \A j \in 1..Len(body) : lines[a + 1 + j] = body[j]
    <3> DEFINE x == at[k - 1]
               y == Len(body)
               z == Len(patch)
    <3>0. /\ x \in Nat /\ y \in Nat /\ z \in Nat /\ p \in Nat /\ x + (1 + y) <= z /\ at[k] = x + (1 + y)
          /\ Len(lines) = p + z /\ a = p + x
      BY <1>2, <1>3, <1>7, <2>2, <2>4
    <3> HIDE DEF x, y, z, a
    <3>1. x + 1 \in 1..z /\ a + 1 = p + (x + 1)
      BY <3>0
    <3>2. \A j \in 1..y : x + (1 + j) \in 1..z /\ a + 1 + j = p + (x + (1 + j))
      BY <3>0
    <3>3. a \in Nat /\ a + 1 + y <= Len(lines) /\ a + 1 + y = p + at[k]
      BY <3>0
    <3> USE DEF x, y, z
    <3>4. lines[a + 1] = head
      BY <1>7, <2>4, <3>1
    <3>5. \A j \in 1..Len(body) : lines[a + 1 + j] = body[j]
      BY <1>7, <2>4, <3>2
    <3> HIDE DEF a
    <3>6. QED
      BY <3>3, <3>4, <3>5
  <2>6. \A n \in Nat : HunkUnder(head, n) \in S
    BY DEF S, head
  <2> DEFINE whole == [i \in 1..N |-> Parsed(hunks[i])]
  <2>7. \A i \in 1..N : BytesOf(hunks[i].body) \in Nat
    <3> TAKE i \in 1..N
    <3> DEFINE own == hunks[i].body
    <3>1. Sized(own)
      BY FileProperties DEF N
    <3> HIDE DEF own
    <3>2. BytesOf(own) \in Nat
      BY <3>1, BytesAreNatural
    <3>3. QED
      BY <3>2 DEF own
  <2>8. \A i \in 1..N : whole[i] = Parsed(hunks[i]) /\ whole[i] \in S
    BY <2>7 DEF Parsed, S
  <2>9. So(k - 1) \in Seq(S) /\ Append(So(k - 1), Parsed(h)) = So(k)
    <3>1. k - 1 \in Nat /\ k - 1 + 1 = k /\ \A i \in 1..k : i \in 1..N
      BY <1>1
    <3> HIDE DEF whole
    <3>2. /\ [i \in 1..(k - 1) |-> whole[i]] \in Seq(S)
          /\ Append([i \in 1..(k - 1) |-> whole[i]], whole[k]) = [i \in 1..k |-> whole[i]]
      <4>1. \A i \in 1..(k - 1 + 1) : whole[i] \in S
        BY <2>8, <3>1
      <4>2. /\ [i \in 1..(k - 1) |-> whole[i]] \in Seq(S)
            /\ Append([i \in 1..(k - 1) |-> whole[i]], whole[k - 1 + 1]) = [i \in 1..(k - 1 + 1) |-> whole[i]]
        BY <3>1, <4>1, ListAppend
      <4>3. QED
        BY <3>1, <4>2
    <3>3. So(k - 1) = [i \in 1..(k - 1) |-> whole[i]] /\ So(k) = [i \in 1..k |-> whole[i]]
      <4>1. \A i \in 1..(k - 1) : i \in 1..k
        BY <1>1
      <4>2. QED
        BY <2>8, <3>1, <4>1 DEF So
    <3>4. whole[k] = Parsed(h)
      BY <2>8
    <3>5. QED
      BY <3>2, <3>3, <3>4
  <2>10. upTo[a] = So(k - 1)
    BY <1>12
  <2> HIDE DEF a
  <2>11. upTo[a + 1 + Len(body)] = Append(So(k - 1), HunkUnder(head, head.bytes + BytesOf(body)))
    <3>1. IsBlock(head, body)
      BY <2>1, <2>3 DEF IsBlock
    <3>2. BlockAt(lines, a, head, body)
      BY <2>5 DEF BlockAt
    <3>3. Under(head, S)
      BY <2>6 DEF Under
    <3>4. upTo[a] \in Seq(S)
      BY <2>9, <2>10
    <3>5. upTo[a + 1 + Len(body)] = Append(upTo[a], HunkUnder(head, head.bytes + BytesOf(body)))
      BY <1>8, <1>9, <3>1, <3>2, <3>3, <3>4, BlockParses
    <3>6. QED
      BY <2>10, <3>5
  <2>12. HunkUnder(head, head.bytes + BytesOf(body)) = Parsed(h)
    BY <2>3 DEF Parsed, head, body
  <2>13. k \in 0..N
    BY <1>1
  <2>14. QED
    BY <2>5, <2>9, <2>11, <2>12, <2>13
<1>13. \A k \in 0..N : k \in K
  <2> HIDE DEF K
  <2>1. QED
    BY <1>1, <1>11, <1>12, Induction
<1>14. upTo[p + at[N]] = So(N)
  BY <1>1, <1>13
<1>15. p + at[N] = Len(lines)
  BY <1>6, <1>7
<1>16. ParseHunks(lines) = So(N)
  BY <1>9, <1>14, <1>15
<1>17. QED
  BY <1>1, <1>16 DEF lines, patch, So

-----------------------------------------------------------------------------
(* What git prints of a file. *)

\* What git prints of a file before its hunks.
Begins(file) == [kind |-> "diff --git", old |-> OldName(file), new |-> file.path, bytes |-> 1]
IsBinary == [kind |-> "Binary files", bytes |-> 1]
From(file) == Names("rename from", file.renamedFrom)
To(file) == Names("rename to", file.path)
Minus(file) == Names("--- ", IF file.status = "added" THEN Nowhere ELSE OldName(file))
Plus(file) == Names("+++ ", IF file.status = "deleted" THEN Nowhere ELSE file.path)

Stays(file) == file.renamedFrom = NoPath
Shown(file) == ~file.binary /\ file.hunks # <<>>

Moves(file) == IF Stays(file) THEN <<>> ELSE <<From(file), To(file)>>
Ends(file) ==
  IF file.binary THEN <<IsBinary>> ELSE IF Shown(file) THEN <<Minus(file), Plus(file)>> ELSE <<>>
Before(file) == (<<Begins(file)>> \o Moves(file)) \o Ends(file)

LEMMA LinesBefore ==
  ASSUME NEW file
  PROVE  /\ Begins(file).kind = "diff --git" /\ Begins(file).bytes = 1
         /\ Begins(file).old = OldName(file) /\ Begins(file).new = file.path
         /\ IsBinary.kind = "Binary files" /\ IsBinary.bytes = 1
         /\ From(file).kind = "rename from" /\ From(file).bytes = 1 /\ From(file).names = file.renamedFrom
         /\ To(file).kind = "rename to" /\ To(file).bytes = 1 /\ To(file).names = file.path
         /\ Minus(file).kind = "--- " /\ Minus(file).bytes = 1
         /\ Minus(file).names = IF file.status = "added" THEN Nowhere ELSE OldName(file)
         /\ Plus(file).kind = "+++ " /\ Plus(file).bytes = 1
         /\ Plus(file).names = IF file.status = "deleted" THEN Nowhere ELSE file.path
BY DEF Begins, IsBinary, From, To, Minus, Plus, Names

InParts(file, T) ==
  /\ <<Begins(file)>> \in Seq(T) /\ Moves(file) \in Seq(T) /\ Ends(file) \in Seq(T)
  /\ Stays(file) => Len(Moves(file)) = 0 /\ Range(Moves(file)) = {}
  /\ ~Stays(file) => Len(Moves(file)) = 2 /\ Range(Moves(file)) = {From(file), To(file)}
                   /\ Moves(file)[1] = From(file) /\ Moves(file)[2] = To(file)
  /\ file.binary => Len(Ends(file)) = 1 /\ Range(Ends(file)) = {IsBinary}
  /\ Shown(file) => Len(Ends(file)) = 2 /\ Range(Ends(file)) = {Minus(file), Plus(file)}
                  /\ Ends(file)[1] = Minus(file) /\ Ends(file)[2] = Plus(file)
  /\ ~file.binary /\ ~Shown(file) => Len(Ends(file)) = 0 /\ Range(Ends(file)) = {}

LEMMA PartsProperties ==
  ASSUME NEW file
  PROVE  \E T : InParts(file, T)
<1> DEFINE a == Begins(file)
           b == IsBinary
           f == From(file)
           t == To(file)
           m == Minus(file)
           p == Plus(file)
           T == {a, b, f, t, m, p}
<1> HIDE DEF a, b, f, t, m, p
<1>1. <<a>> \in Seq(T) /\ Range(<<a>>) = {a}
  BY DEF Range
<1>2. <<>> \in Seq(T) /\ Len(<<>>) = 0 /\ Range(<<>>) = {}
  BY DEF Range
<1>3. <<b>> \in Seq(T) /\ Len(<<b>>) = 1 /\ Range(<<b>>) = {b}
  BY DEF Range
<1>4. /\ <<f, t>> \in Seq(T) /\ Len(<<f, t>>) = 2 /\ Range(<<f, t>>) = {f, t}
      /\ <<f, t>>[1] = f /\ <<f, t>>[2] = t
  BY DEF Range
<1>5. /\ <<m, p>> \in Seq(T) /\ Len(<<m, p>>) = 2 /\ Range(<<m, p>>) = {m, p}
      /\ <<m, p>>[1] = m /\ <<m, p>>[2] = p
  BY DEF Range
<1>6. Moves(file) = IF Stays(file) THEN <<>> ELSE <<f, t>>
  BY DEF Moves, f, t
<1>7. Ends(file) = IF file.binary THEN <<b>> ELSE IF Shown(file) THEN <<m, p>> ELSE <<>>
  BY DEF Ends, b, m, p
<1>8. Shown(file) => ~file.binary
  BY DEF Shown
<1> HIDE DEF T
<1>9. /\ Moves(file) \in Seq(T)
      /\ Stays(file) => Len(Moves(file)) = 0 /\ Range(Moves(file)) = {}
      /\ ~Stays(file) => Len(Moves(file)) = 2 /\ Range(Moves(file)) = {f, t}
                       /\ Moves(file)[1] = f /\ Moves(file)[2] = t
  BY <1>2, <1>4, <1>6, Zenon
<1>10. /\ Ends(file) \in Seq(T)
       /\ file.binary => Len(Ends(file)) = 1 /\ Range(Ends(file)) = {b}
       /\ Shown(file) => Len(Ends(file)) = 2 /\ Range(Ends(file)) = {m, p}
                       /\ Ends(file)[1] = m /\ Ends(file)[2] = p
       /\ ~file.binary /\ ~Shown(file) => Len(Ends(file)) = 0 /\ Range(Ends(file)) = {}
  BY <1>2, <1>3, <1>5, <1>7, <1>8, Zenon
<1>11. InParts(file, T)
  BY <1>1, <1>9, <1>10, Zenon DEF InParts, a, b, f, t, m, p
<1>12. QED
  BY <1>11

LEMMA GitPrintsParts ==
  ASSUME NEW file, IsFile(file)
  PROVE  GitPrints(file) = Before(file) \o PatchOf(file)
<1> DEFINE patch == PatchOf(file)
           one   == <<Begins(file)>>
           moves == Moves(file)
           ends  == Ends(file)
           begun == one \o moves
<1>1. IsList(patch) /\ (patch = <<>> <=> file.hunks = <<>>) /\ (file.binary => file.hunks = <<>>)
  BY PatchProperties DEF IsFile
<1>2. GitPrints(file) = begun \o (IF file.binary THEN <<IsBinary>>
                                  ELSE IF file.hunks = <<>> THEN <<>>
                                  ELSE <<Minus(file), Plus(file)>> \o patch)
  BY DEF GitPrints, Moves, Begins, From, To, Minus, Plus, IsBinary, Stays
<1>3. PICK T : InParts(file, T)
  BY PartsProperties
<1>12. one \in Seq(T) /\ moves \in Seq(T) /\ ends \in Seq(T)
  BY <1>3 DEF InParts
<1> DEFINE R == Range(patch)
           U == T \cup R
<1>4. patch \in Seq(R)
  BY <1>1 DEF IsList
<1>5. ends = IF file.binary THEN <<IsBinary>> ELSE IF Shown(file) THEN <<Minus(file), Plus(file)>> ELSE <<>>
  BY DEF Ends
<1> HIDE DEF patch, one, moves, ends, R
<1>6. one \in Seq(U) /\ moves \in Seq(U) /\ ends \in Seq(U) /\ patch \in Seq(U)
  BY <1>4, <1>12
<1> HIDE DEF U
<1>7. begun \in Seq(U)
  BY <1>6, ConcatProperties
<1> HIDE DEF begun
<1>8. (begun \o ends) \o patch = begun \o (ends \o patch)
  BY <1>6, <1>7, ConcatAssociative
<1>9. GitPrints(file) = begun \o (ends \o patch)
  <2>1. CASE Shown(file)
    <3>1. ends \o patch = <<Minus(file), Plus(file)>> \o patch
      BY <1>5, <2>1 DEF Shown
    <3>2. QED
      BY <1>2, <2>1, <3>1 DEF Shown
  <2>2. CASE ~Shown(file)
    <3>1. ends \o patch = ends
      BY <1>1, <1>6, <2>2, ConcatEmptySeq DEF Shown
    <3>2. QED
      BY <1>1, <1>2, <1>5, <2>2, <3>1 DEF Shown
  <2>3. QED
    BY <2>1, <2>2
<1>10. Before(file) = begun \o ends
  BY DEF Before, begun, one, moves, ends
<1>11. QED
  BY <1>8, <1>9, <1>10 DEF patch

LEMMA BeforeProperties ==
  ASSUME NEW file, IsFile(file)
  PROVE  /\ Sized(Before(file)) /\ Len(Before(file)) \in Nat /\ 1 <= Len(Before(file))
         /\ Before(file)[1] = Begins(file)
         /\ \A i \in 1..Len(Before(file)) : Before(file)[i].kind # "@@"
         /\ \A i \in 1..Len(Before(file)) : i # 1 => Before(file)[i].kind # "diff --git"
         /\ (\E i \in 1..Len(Before(file)) : Before(file)[i].kind = "Binary files") <=> file.binary
         /\ ~Stays(file) => 3 <= Len(Before(file)) /\ Before(file)[2] = From(file) /\ Before(file)[3] = To(file)
         /\ Stays(file) /\ ~Shown(file) => \A i \in 1..Len(Before(file)) : Before(file)[i].kind \notin NamingKinds
         /\ Stays(file) /\ Shown(file) =>
              Len(Before(file)) = 3 /\ Before(file)[2] = Minus(file) /\ Before(file)[3] = Plus(file)
<1> DEFINE one   == <<Begins(file)>>
           moves == Moves(file)
           ends  == Ends(file)
           begun == one \o moves
           all   == begun \o ends
           M     == Range(moves)
           E     == Range(ends)
<1>0. PICK T : InParts(file, T)
  BY PartsProperties
<1>1. /\ one \in Seq(T) /\ moves \in Seq(T) /\ ends \in Seq(T)
      /\ Stays(file) => Len(moves) = 0 /\ M = {}
      /\ ~Stays(file) => Len(moves) = 2 /\ M = {From(file), To(file)}
                       /\ moves[1] = From(file) /\ moves[2] = To(file)
      /\ file.binary => Len(ends) = 1 /\ E = {IsBinary}
      /\ Shown(file) => Len(ends) = 2 /\ E = {Minus(file), Plus(file)}
                      /\ ends[1] = Minus(file) /\ ends[2] = Plus(file)
      /\ ~file.binary /\ ~Shown(file) => Len(ends) = 0 /\ E = {}
  BY <1>0, Zenon DEF InParts
<1>2. Len(one) = 1 /\ one[1] = Begins(file)
  OBVIOUS
<1>3. all = Before(file)
  BY DEF Before
<1> HIDE DEF one, moves, ends
<1>4. /\ begun \in Seq(T) /\ Len(begun) = Len(one) + Len(moves)
      /\ \A i \in 1..Len(one) : begun[i] = one[i]
      /\ \A j \in 1..Len(moves) : begun[Len(one) + j] = moves[j]
  <2>1. one \in Seq(T) /\ moves \in Seq(T)
    BY <1>1
  <2>2. QED
    BY <2>1, ConcatPlaces
<1> HIDE DEF begun
<1>5. /\ all \in Seq(T) /\ Len(all) = Len(begun) + Len(ends)
      /\ \A i \in 1..Len(begun) : all[i] = begun[i]
      /\ \A j \in 1..Len(ends) : all[Len(begun) + j] = ends[j]
  <2>1. begun \in Seq(T) /\ ends \in Seq(T)
    BY <1>1, <1>4
  <2>2. /\ begun \o ends \in Seq(T) /\ Len(begun \o ends) = Len(begun) + Len(ends)
        /\ \A i \in 1..Len(begun) : (begun \o ends)[i] = begun[i]
        /\ \A j \in 1..Len(ends) : (begun \o ends)[Len(begun) + j] = ends[j]
    BY <2>1, ConcatPlaces
  <2>3. QED
    BY <2>2, Zenon
<1> HIDE DEF all
<1> DEFINE m == Len(moves)
           e == Len(ends)
<1>6. /\ m \in Nat /\ e \in Nat /\ Len(begun) = 1 + m /\ Len(all) = 1 + m + e
      /\ (Stays(file) => m = 0) /\ (~Stays(file) => m = 2)
      /\ (Shown(file) => e = 2)
  BY <1>1, <1>2, <1>4, <1>5
<1>7. /\ \A j \in 1..m : moves[j] \in M
      /\ \A j \in 1..e : ends[j] \in E
  BY <1>1 DEF Range
<1> HIDE DEF m, e, M, E
<1>8. all[1] = Begins(file) /\ \A j \in 1..m : all[1 + j] = moves[j]
  <2>1. 1 \in 1..1 /\ 1 \in 1..(1 + m) /\ \A j \in 1..m : 1 + j \in 1..(1 + m)
    BY <1>6
  <2>2. Len(one) = 1 /\ Len(begun) = 1 + m
    BY <1>2, <1>6
  <2>3. \A i \in 1..(1 + m) : all[i] = begun[i]
    BY <1>5, <2>2
  <2>4. begun[1] = Begins(file)
    BY <1>2, <1>4, <2>1
  <2>5. \A j \in 1..m : begun[1 + j] = moves[j]
    BY <1>4, <2>2 DEF m
  <2>6. QED
    BY <2>1, <2>3, <2>4, <2>5
<1>9. \A j \in 1..e : all[1 + m + j] = ends[j]
  BY <1>5, <1>6 DEF e
<1>10. \A i \in 1..Len(all) : i # 1 => all[i] \in M \cup E
  <2> TAKE i \in 1..Len(all)
  <2>1. \/ i = 1 \/ (i - 1 \in 1..m /\ 1 + (i - 1) = i) \/ (i - 1 - m \in 1..e /\ 1 + m + (i - 1 - m) = i)
    BY <1>6
  <2>2. CASE i - 1 \in 1..m /\ 1 + (i - 1) = i
    BY <1>7, <1>8, <2>2
  <2>3. CASE i - 1 - m \in 1..e /\ 1 + m + (i - 1 - m) = i
    BY <1>7, <1>9, <2>3
  <2>4. QED
    BY <2>1, <2>2, <2>3
<1>11. /\ \A x \in M \cup E : x.bytes = 1 /\ x.kind # "@@" /\ x.kind # "diff --git"
       /\ \A x \in M : x.kind # "Binary files"
       /\ ~file.binary => \A x \in E : x.kind # "Binary files"
       /\ Begins(file).bytes = 1 /\ Begins(file).kind = "diff --git" /\ IsBinary.kind = "Binary files"
  BY <1>1, LinesBefore
<1>12. /\ Len(all) \in Nat /\ 1 <= Len(all) /\ IsList(all) /\ DOMAIN all = 1..Len(all)
       /\ \A i \in 1..Len(all) : i = 1 \/ i # 1
  BY <1>5, <1>6, IsListOf
<1>13. \A i \in 1..Len(all) : all[i].bytes = 1 /\ all[i].kind # "@@" /\ (i # 1 => all[i].kind # "diff --git")
  BY <1>8, <1>10, <1>11
<1>14. Sized(all)
  <2>1. \A i \in DOMAIN all : all[i].bytes = 1
    BY <1>12, <1>13
  <2>2. \A i \in DOMAIN all : all[i].bytes \in Nat
    BY <2>1
  <2>3. QED
    BY <1>12, <2>2 DEF Sized
<1>15. (\E i \in 1..Len(all) : all[i].kind = "Binary files") <=> file.binary
  <2>1. ASSUME file.binary PROVE \E i \in 1..Len(all) : all[i].kind = "Binary files"
    <3>1. e = 1 /\ E = {IsBinary}
      BY <1>1, <2>1 DEF e
    <3>2. 1 \in 1..e /\ 1 + m + 1 \in 1..Len(all)
      BY <1>6, <3>1
    <3>3. all[1 + m + 1] = IsBinary
      BY <1>7, <1>9, <3>1, <3>2
    <3>4. QED
      BY <1>11, <3>2, <3>3
  <2>2. ASSUME ~file.binary PROVE \A i \in 1..Len(all) : all[i].kind # "Binary files"
    BY <1>8, <1>10, <1>11, <2>2
  <2>3. QED
    BY <2>1, <2>2
<1>16. ~Stays(file) => 3 <= Len(all) /\ all[2] = From(file) /\ all[3] = To(file)
  <2> HAVE ~Stays(file)
  <2>1. m = 2 /\ moves[1] = From(file) /\ moves[2] = To(file)
    BY <1>1, <1>6
  <2>2. 1 \in 1..2 /\ 2 \in 1..2 /\ 1 + 1 = 2 /\ 1 + 2 = 3
    OBVIOUS
  <2>3. all[1 + 1] = moves[1] /\ all[1 + 2] = moves[2]
    BY <1>8, <2>1, <2>2
  <2>4. QED
    BY <1>6, <2>1, <2>2, <2>3
<1>17. Stays(file) /\ ~Shown(file) => \A i \in 1..Len(all) : all[i].kind \notin NamingKinds
  <2> HAVE Stays(file) /\ ~Shown(file)
  <2>1. M = {} /\ (E = {} \/ E = {IsBinary})
    BY <1>1
  <2>2. "diff --git" \notin NamingKinds /\ "Binary files" \notin NamingKinds
    BY DEF NamingKinds, OldKinds, NewKinds
  <2>3. QED
    BY <1>8, <1>10, <1>11, <2>1, <2>2
<1>18. Stays(file) /\ Shown(file) => Len(all) = 3 /\ all[2] = Minus(file) /\ all[3] = Plus(file)
  <2> HAVE Stays(file) /\ Shown(file)
  <2>1. m = 0 /\ e = 2 /\ ends[1] = Minus(file) /\ ends[2] = Plus(file)
    BY <1>1, <1>6
  <2>2. 1 \in 1..2 /\ 2 \in 1..2 /\ 1 + 0 + 1 = 2 /\ 1 + 0 + 2 = 3
    OBVIOUS
  <2>3. all[1 + 0 + 1] = ends[1] /\ all[1 + 0 + 2] = ends[2]
    BY <1>9, <2>1, <2>2
  <2>4. QED
    BY <1>6, <2>1, <2>2, <2>3
<1>19. QED
  BY <1>3, <1>8, <1>12, <1>13, <1>14, <1>15, <1>16, <1>17, <1>18

-----------------------------------------------------------------------------
(* The names that are read from it. *)

\* The first line that names a file.
LEMMA FirstNames ==
  ASSUME NEW lines, DOMAIN lines \in SUBSET Nat, NEW kinds, NEW p \in Naming(lines, kinds),
         \A i \in Naming(lines, kinds) : p <= i
  PROVE  Named(lines, kinds) = lines[p].names
<1> DEFINE naming == Naming(lines, kinds)
<1>1. naming \in SUBSET Nat /\ p \in naming /\ \A i \in naming : p <= i
  BY DEF Naming
<1>2. Named(lines, kinds) = IF naming = {} THEN NoPath ELSE lines[Min(naming)].names
  BY DEF Named, FirstAt
<1> HIDE DEF naming
<1>3. Min(naming) \in naming /\ \A i \in naming : Min(naming) <= i
  BY <1>1 DEF Min
<1> DEFINE m == Min(naming)
<1>4. m = p
  <2>1. m \in Nat /\ p \in Nat /\ m <= p /\ p <= m
    BY <1>1, <1>3
  <2> HIDE DEF m
  <2>2. QED
    BY <2>1
<1>5. QED
  BY <1>1, <1>2, <1>4

LEMMA NoneNames ==
  ASSUME NEW lines, NEW kinds, \A i \in DOMAIN lines : lines[i].kind \in kinds => lines[i].names = Nowhere
  PROVE  Named(lines, kinds) = NoPath
<1>1. Naming(lines, kinds) = {}
  BY DEF Naming
<1>2. QED
  BY <1>1 DEF Named

\* What git prints of a file: the lines before its hunks, and those of its hunks.
IsPrinted(file, section, b) ==
  /\ IsList(section) /\ DOMAIN section = 1..Len(section) /\ Len(section) \in Nat
  /\ b = Len(Before(file)) /\ b \in Nat /\ 1 <= b /\ b <= Len(section)
  /\ \A i \in 1..b : section[i] = Before(file)[i]
  /\ \A i \in 1..Len(section) : i \in 1..b \/ (file.hunks # <<>> /\ IsPatchLine(file, section[i]))

LEMMA PrintedProperties ==
  ASSUME NEW file, IsFile(file)
  PROVE  \E b : IsPrinted(file, GitPrints(file), b)
<1> DEFINE before == Before(file)
           patch == PatchOf(file)
           section == GitPrints(file)
           b == Len(before)
           c == Len(patch)
           R == Range(before)
           Q == Range(patch)
           T == R \cup Q
<1>1. Sized(before) /\ b \in Nat /\ 1 <= b
  BY BeforeProperties
<1>2. IsList(before)
  BY <1>1 DEF Sized
<1>3. /\ IsList(patch) /\ (patch = <<>> <=> file.hunks = <<>>)
      /\ \A line \in Range(patch) : IsPatchLine(file, line)
  BY PatchProperties
<1>4. section = before \o patch
  BY GitPrintsParts
<1> HIDE DEF before, patch, section
<1>5. c \in Nat /\ \A j \in 1..c : IsPatchLine(file, patch[j]) /\ file.hunks # <<>>
  <2>1. c \in Nat /\ DOMAIN patch = 1..c /\ \A j \in 1..c : patch[j] \in Range(patch)
    BY <1>3, ListElements
  <2>2. \A j \in 1..c : patch # <<>>
    <3>1. DOMAIN <<>> = {}
      OBVIOUS
    <3>2. QED
      BY <2>1, <3>1
  <2>3. QED
    BY <1>3, <2>1, <2>2
<1>6. before \in Seq(R) /\ patch \in Seq(Q)
  BY <1>2, <1>3 DEF IsList
<1> HIDE DEF R, Q
<1>7. before \in Seq(T) /\ patch \in Seq(T)
  BY <1>6
<1> HIDE DEF T
<1>8. /\ before \o patch \in Seq(T) /\ Len(before \o patch) = b + c
      /\ \A i \in 1..b : (before \o patch)[i] = before[i]
      /\ \A j \in 1..c : (before \o patch)[b + j] = patch[j]
  BY <1>7, ConcatPlaces
<1> HIDE DEF b, c
<1>9. /\ section \in Seq(T) /\ Len(section) = b + c
      /\ \A i \in 1..b : section[i] = before[i]
      /\ \A j \in 1..c : section[b + j] = patch[j]
  BY <1>4, <1>8, Zenon
<1>10. /\ IsList(section) /\ DOMAIN section = 1..Len(section) /\ Len(section) \in Nat
       /\ b <= Len(section)
  BY <1>1, <1>5, <1>9, IsListOf
<1>11. \A i \in 1..(b + c) : i \in 1..b \/ (i - b \in 1..c /\ b + (i - b) = i)
  BY <1>1, <1>5
<1>12. \A i \in 1..Len(section) : i \in 1..b \/ (file.hunks # <<>> /\ IsPatchLine(file, section[i]))
  <2> TAKE i \in 1..Len(section)
  <2>1. CASE i - b \in 1..c /\ b + (i - b) = i
    BY <1>5, <1>9, <2>1
  <2>2. QED
    BY <1>9, <1>11, <2>1
<1>13. IsPrinted(file, section, b)
  BY <1>1, <1>9, <1>10, <1>12 DEF IsPrinted, before, b
<1>14. QED
  BY <1>13 DEF section

LEMMA KindsDiffer ==
  /\ OldKinds = {"rename from", "--- "} /\ NewKinds = {"rename to", "+++ "}
  /\ NamingKinds = OldKinds \cup NewKinds
  /\ {"diff --git", "rename from", "rename to", "Binary files"} \subseteq HeaderKinds \ {"@@"}
  /\ "diff --git" \notin NamingKinds /\ "Binary files" \notin NamingKinds
BY DEF OldKinds, NewKinds, NamingKinds, HeaderKinds

NamesIn(file, section) ==
  LET old    == Named(section, OldKinds)
      new    == Named(section, NewKinds)
      header == old = NoPath /\ new = NoPath
      oldPath == IF header THEN Begins(file).old ELSE old
      path   == IF header THEN Begins(file).new ELSE IF new # NoPath THEN new ELSE old
  IN  path = file.path /\ (IF oldPath = path THEN NoPath ELSE Safe(oldPath)) = Safe(file.renamedFrom)

LEMMA RenamedNames ==
  ASSUME NEW file, IsFile(file), ~Stays(file), NEW section, NEW b, IsPrinted(file, section, b)
  PROVE  NamesIn(file, section)
<1>1. /\ 3 <= b /\ section[1] = Begins(file) /\ section[2] = From(file) /\ section[3] = To(file)
      /\ b \in Nat /\ b <= Len(section) /\ DOMAIN section = 1..Len(section) /\ Len(section) \in Nat
  <2>1. 3 <= b /\ Before(file)[1] = Begins(file) /\ Before(file)[2] = From(file) /\ Before(file)[3] = To(file)
    BY BeforeProperties DEF IsPrinted
  <2>2. b \in Nat /\ \A i \in 1..b : section[i] = Before(file)[i]
    BY DEF IsPrinted
  <2>3. 1 \in 1..b /\ 2 \in 1..b /\ 3 \in 1..b
    BY <2>1, <2>2
  <2>4. QED
    BY <2>1, <2>2, <2>3 DEF IsPrinted
<1>2. /\ file.renamedFrom # NoPath /\ file.path # NoPath /\ file.path # file.renamedFrom
      /\ Nowhere # file.path /\ Nowhere # file.renamedFrom
  BY DEF IsFile, Stays
<1>3. /\ section[1].kind = "diff --git"
      /\ section[2].kind = "rename from" /\ section[2].names = file.renamedFrom
      /\ section[3].kind = "rename to" /\ section[3].names = file.path
  BY <1>1, LinesBefore
<1>4. \A i \in DOMAIN section : i = 1 \/ 2 <= i
  BY <1>1
<1>5. \A i \in DOMAIN section : i = 1 \/ i = 2 \/ 3 <= i
  BY <1>1
<1>6. 2 \in DOMAIN section /\ 3 \in DOMAIN section /\ DOMAIN section \in SUBSET Nat
  BY <1>1
<1>7. Named(section, OldKinds) = file.renamedFrom
  <2>1. 2 \in Naming(section, OldKinds) /\ \A i \in Naming(section, OldKinds) : 2 <= i
    BY <1>2, <1>3, <1>4, <1>6 DEF Naming, OldKinds
  <2>2. QED
    BY <1>3, <1>6, <2>1, FirstNames
<1>8. Named(section, NewKinds) = file.path
  <2>1. 3 \in Naming(section, NewKinds) /\ \A i \in Naming(section, NewKinds) : 3 <= i
    BY <1>2, <1>3, <1>5, <1>6 DEF Naming, NewKinds
  <2>2. QED
    BY <1>3, <1>6, <2>1, FirstNames
<1>9. QED
  BY <1>2, <1>7, <1>8 DEF NamesIn

LEMMA SafeOfNone == Safe(NoPath) = NoPath
BY DEF Safe

LEMMA StayingNames ==
  ASSUME NEW file, IsFile(file), Stays(file), NEW section, NEW b, IsPrinted(file, section, b)
  PROVE  NamesIn(file, section)
<1>1. /\ b \in Nat /\ 1 <= b /\ b <= Len(section) /\ DOMAIN section = 1..Len(section) /\ Len(section) \in Nat
      /\ \A i \in 1..b : section[i] = Before(file)[i]
      /\ \A i \in 1..Len(section) : i \in 1..b \/ (file.hunks # <<>> /\ IsPatchLine(file, section[i]))
      /\ b = Len(Before(file))
  BY DEF IsPrinted
<1>2. file.path # NoPath /\ Nowhere # file.path /\ OldName(file) = file.path /\ file.renamedFrom = NoPath
  BY DEF IsFile, OldName, Stays
<1>3. CASE ~Shown(file)
  <2>1. file.hunks = <<>>
    BY <1>3 DEF Shown, IsFile
  <2>2. \A i \in DOMAIN section : section[i].kind \notin NamingKinds
    BY <1>1, <1>3, <2>1, BeforeProperties
  <2>3. Named(section, OldKinds) = NoPath /\ Named(section, NewKinds) = NoPath
    BY <2>2, KindsDiffer, NoneNames
  <2>4. Begins(file).old = file.path /\ Begins(file).new = file.path
    BY <1>2, LinesBefore
  <2>5. QED
    BY <1>2, <2>3, <2>4, SafeOfNone DEF NamesIn
<1>4. CASE Shown(file)
  <2>1. b = 3 /\ section[1] = Begins(file) /\ section[2] = Minus(file) /\ section[3] = Plus(file)
    <3>1. /\ b = 3 /\ Before(file)[1] = Begins(file)
          /\ Before(file)[2] = Minus(file) /\ Before(file)[3] = Plus(file)
      BY <1>1, <1>4, BeforeProperties
    <3>2. 1 \in 1..b /\ 2 \in 1..b /\ 3 \in 1..b
      BY <3>1
    <3>3. QED
      BY <1>1, <3>1, <3>2
  <2>2. /\ section[1].kind = "diff --git" /\ section[2].kind = "--- " /\ section[3].kind = "+++ "
        /\ section[2].names = IF file.status = "added" THEN Nowhere ELSE file.path
        /\ section[3].names = IF file.status = "deleted" THEN Nowhere ELSE file.path
    BY <1>2, <2>1, LinesBefore
  <2>3. \A i \in DOMAIN section : i = 1 \/ i = 2 \/ i = 3 \/ (IsPatchLine(file, section[i]) /\ 3 <= i)
    BY <1>1, <2>1
  <2>4. 2 \in DOMAIN section /\ 3 \in DOMAIN section /\ DOMAIN section \in SUBSET Nat
    BY <1>1, <2>1
  <2>5. Named(section, OldKinds) = IF file.status = "added" THEN NoPath ELSE file.path
    <3>1. CASE file.status = "added"
      <4>1. \A i \in DOMAIN section : section[i].kind \in OldKinds => section[i].names = Nowhere
        BY <2>2, <2>3, <3>1 DEF IsPatchLine, OldKinds, HeaderKinds
      <4>2. QED
        BY <3>1, <4>1, NoneNames
    <3>2. CASE file.status # "added"
      <4>1. section[2].names = file.path
        BY <2>2, <3>2
      <4>2. 2 \in Naming(section, OldKinds) /\ \A i \in Naming(section, OldKinds) : 2 <= i
        <5>1. 2 \in Naming(section, OldKinds) /\ 1 \notin Naming(section, OldKinds)
          BY <1>2, <2>2, <2>4, <4>1 DEF Naming, OldKinds
        <5>2. \A i \in DOMAIN section : i = 1 \/ 2 <= i
          BY <1>1
        <5>3. QED
          BY <5>1, <5>2 DEF Naming
      <4>3. QED
        BY <2>4, <3>2, <4>1, <4>2, FirstNames
    <3>3. QED
      BY <3>1, <3>2
  <2>6. Named(section, NewKinds) = IF file.status = "deleted" THEN NoPath ELSE file.path
    <3>1. CASE file.status = "deleted"
      <4>1. \A i \in DOMAIN section : section[i].kind \in NewKinds => section[i].names = Nowhere
        BY <2>2, <2>3, <3>1 DEF IsPatchLine, NewKinds, HeaderKinds
      <4>2. QED
        BY <3>1, <4>1, NoneNames
    <3>2. CASE file.status # "deleted"
      <4>1. section[3].names = file.path
        BY <2>2, <3>2
      <4>2. 3 \in Naming(section, NewKinds) /\ \A i \in Naming(section, NewKinds) : 3 <= i
        <5>1. /\ 3 \in Naming(section, NewKinds) /\ 1 \notin Naming(section, NewKinds)
              /\ 2 \notin Naming(section, NewKinds)
          BY <1>2, <2>2, <2>4, <4>1 DEF Naming, NewKinds
        <5>2. \A i \in DOMAIN section : i = 1 \/ i = 2 \/ 3 <= i
          BY <1>1
        <5>3. QED
          BY <5>1, <5>2 DEF Naming
      <4>3. QED
        BY <2>4, <3>2, <4>1, <4>2, FirstNames
    <3>3. QED
      BY <3>1, <3>2
  <2>7. QED
    BY <1>2, <2>5, <2>6, SafeOfNone DEF NamesIn
<1>5. QED
  BY <1>3, <1>4

LEMMA BeforeHasNoHunks ==
  ASSUME NEW file, IsFile(file)
  PROVE  Sized(Before(file)) /\ \A i \in DOMAIN Before(file) : Before(file)[i].kind # "@@"
<1> DEFINE before == Before(file)
<1>1. Sized(before)
  BY BeforeProperties
<1>2. \A i \in 1..Len(before) : before[i].kind # "@@"
  BY BeforeProperties
<1> HIDE DEF before
<1>3. DOMAIN before = 1..Len(before)
  BY <1>1, ListElements DEF Sized
<1>4. \A i \in DOMAIN before : before[i].kind # "@@"
  BY <1>2, <1>3
<1>5. QED
  BY <1>1, <1>4 DEF before

\* A parsed file: what the parser made of it is what is so.
IsParsedFrom(d, file) ==
  /\ d.path = Safe(file.path) /\ d.previousPath = Safe(file.renamedFrom)
  /\ d.binary <=> file.binary
  /\ d.hunks = [k \in DOMAIN file.hunks |-> Parsed(file.hunks[k])]

LEMMA SectionParses ==
  ASSUME NEW file, IsFile(file)
  PROVE  IsParsedFrom(ParseFileSection(GitPrints(file)), file)
<1> DEFINE section == GitPrints(file)
           d == ParseFileSection(section)
<1>1. PICK b : IsPrinted(file, section, b)
  BY PrintedProperties
<1>2. section = Before(file) \o PatchOf(file)
  BY GitPrintsParts
<1>3. ParseHunks(section) = [k \in DOMAIN file.hunks |-> Parsed(file.hunks[k])]
  <2> DEFINE before == Before(file)
  <2>1. Sized(before) /\ \A i \in DOMAIN before : before[i].kind # "@@"
    BY BeforeHasNoHunks
  <2> HIDE DEF before
  <2>2. ParseHunks(before \o PatchOf(file)) = [k \in DOMAIN file.hunks |-> Parsed(file.hunks[k])]
    BY <2>1, PatchParses
  <2>3. QED
    BY <1>2, <2>2, Zenon DEF before
<1> HIDE DEF section
<1>4. NamesIn(file, section)
  BY <1>1, RenamedNames, StayingNames
<1>5. Head(section) = Begins(file)
  <2>1. 1 \in 1..b /\ section[1] = Before(file)[1] /\ Len(section) >= 1 /\ IsList(section)
    BY <1>1 DEF IsPrinted
  <2>2. section \in Seq(Range(section)) /\ section # <<>>
    BY <2>1 DEF IsList
  <2>3. Head(section) = section[1]
    BY <2>2
  <2>4. QED
    BY <2>1, <2>3, BeforeProperties
<1>6. (\E l \in Range(section) : l.kind = "Binary files") <=> file.binary
  <2>1. \A i \in 1..Len(section) : i \in 1..b \/ section[i].kind # "Binary files"
    BY <1>1 DEF IsPrinted, IsPatchLine, HeaderKinds
  <2>2. /\ \A i \in 1..b : section[i] = Before(file)[i] /\ i \in DOMAIN section
        /\ b = Len(Before(file)) /\ DOMAIN section = 1..Len(section)
    BY <1>1 DEF IsPrinted
  <2>3. (\E i \in 1..Len(Before(file)) : Before(file)[i].kind = "Binary files") <=> file.binary
    BY BeforeProperties
  <2>4. (\E l \in Range(section) : l.kind = "Binary files") <=> \E i \in DOMAIN section : section[i].kind = "Binary files"
    BY DEF Range
  <2>5. (\E i \in DOMAIN section : section[i].kind = "Binary files") <=> \E i \in 1..b : section[i].kind = "Binary files"
    BY <2>1, <2>2
  <2>6. (\E i \in 1..b : section[i].kind = "Binary files") <=> \E i \in 1..b : Before(file)[i].kind = "Binary files"
    BY <2>2
  <2>7. QED
    BY <2>2, <2>3, <2>4, <2>5, <2>6
<1> DEFINE old    == Named(section, OldKinds)
           new    == Named(section, NewKinds)
           header == old = NoPath /\ new = NoPath
           oldPath == IF header THEN Head(section).old ELSE old
           path   == IF header THEN Head(section).new ELSE IF new # NoPath THEN new ELSE old
<1>7. /\ d.path = Safe(path) /\ d.previousPath = IF oldPath = path THEN NoPath ELSE Safe(oldPath)
      /\ d.binary <=> (\E l \in Range(section) : l.kind = "Binary files")
      /\ d.hunks = ParseHunks(section)
  <2> DEFINE bin == \E l \in Range(section) : l.kind = "Binary files"
             former == IF oldPath = path THEN NoPath ELSE Safe(oldPath)
             hunks == ParseHunks(section)
  <2>1. d = DiffFile(Safe(path), former, bin, hunks)
    BY DEF ParseFileSection
  <2>2. \A x, y, z, w : /\ DiffFile(x, y, z, w).path = x /\ DiffFile(x, y, z, w).previousPath = y
                        /\ DiffFile(x, y, z, w).binary = z /\ DiffFile(x, y, z, w).hunks = w
    BY DEF DiffFile
  <2> HIDE DEF d, path, oldPath, bin, former, hunks
  <2>3. d.path = Safe(path) /\ d.previousPath = former /\ d.binary = bin /\ d.hunks = hunks
    BY <2>1, <2>2
  <2>4. d.binary <=> bin
    BY <2>3
  <2>5. QED
    BY <2>3, <2>4 DEF bin, former, hunks
<1>8. path = file.path /\ (IF oldPath = path THEN NoPath ELSE Safe(oldPath)) = Safe(file.renamedFrom)
  BY <1>4, <1>5 DEF NamesIn
<1> HIDE DEF d, path, oldPath
<1>9. IsParsedFrom(d, file)
  BY <1>3, <1>6, <1>7, <1>8 DEF IsParsedFrom
<1>10. QED
  BY <1>9 DEF d, section

-----------------------------------------------------------------------------
(* What git prints of a change is cut where each file begins. *)

\* What is cut out begins with the line that begins a file.
Section(T) == {s \in Seq(T) : s # <<>> /\ Head(s).kind = "diff --git"}

LEMMA SplitOneProperties ==
  ASSUME NEW T, NEW sections \in Seq(Section(T)), NEW line \in T
  PROVE  SplitOne(sections, line) \in Seq(Section(T))
<1> DEFINE next == SplitOne(sections, line)
           S == Section(T)
<1>1. CASE line.kind = "diff --git"
  <2>1. <<line>> \in Seq(T) /\ <<line>> # <<>> /\ Head(<<line>>) = line
    OBVIOUS
  <2>2. <<line>> \in S
    BY <1>1, <2>1 DEF Section
  <2>3. next = Append(sections, <<line>>)
    BY <1>1 DEF SplitOne
  <2> HIDE DEF S, next
  <2>4. next \in Seq(S)
    BY <2>2, <2>3, AppendProperties DEF S
  <2>5. QED
    BY <2>4 DEF S, next
<1>2. CASE line.kind # "diff --git" /\ sections = <<>>
  BY <1>2 DEF SplitOne
<1>3. CASE line.kind # "diff --git" /\ sections # <<>>
  <2> DEFINE last == sections[Len(sections)]
             more == Append(last, line)
  <2>1. sections \in Seq(S)
    OBVIOUS
  <2>2. Len(sections) \in DOMAIN sections /\ last \in S
    <3> HIDE DEF S
    <3>1. Len(sections) # 0 /\ Len(sections) \in Nat
      BY <1>3, <2>1, EmptySeq
    <3>2. DOMAIN sections = 1..Len(sections) /\ \A i \in 1..Len(sections) : sections[i] \in S
      BY <2>1
    <3>3. Len(sections) \in 1..Len(sections)
      BY <3>1
    <3>4. QED
      BY <3>2, <3>3
  <2>3. next = [sections EXCEPT ![Len(sections)] = more]
    BY <1>3 DEF SplitOne
  <2>4. last \in Seq(T) /\ last # <<>> /\ Head(last).kind = "diff --git"
    BY <2>2 DEF Section
  <2> HIDE DEF last
  <2>5. more \in Seq(T) /\ more # <<>> /\ Head(more) = Head(last)
    <3>1. more \in Seq(T) /\ more # <<>>
      BY <2>4, AppendProperties
    <3>2. Head(more) = IF last = <<>> THEN line ELSE Head(last)
      BY <2>4, HeadTailAppend
    <3>3. QED
      BY <2>4, <3>1, <3>2
  <2> HIDE DEF more
  <2>6. more \in S
    BY <2>4, <2>5 DEF Section
  <2> HIDE DEF S, next
  <2>7. next \in Seq(S)
    BY <2>1, <2>2, <2>3, <2>6
  <2>8. QED
    BY <2>7 DEF S, next
<1>4. QED
  BY <1>1, <1>2, <1>3

Splits(lines, upTo) ==
  upTo = [n \in 0..Len(lines) |-> IF n = 0 THEN <<>> ELSE SplitOne(upTo[n - 1], lines[n])]

LEMMA SplitIsSplits ==
  ASSUME NEW lines, NEW some, Splits(lines, some)
  PROVE  \E upTo : Splits(lines, upTo) /\ SplitFileSections(lines) = upTo[Len(lines)]
BY DEF Splits, SplitFileSections

LEMMA SplittingExists ==
  ASSUME NEW T, NEW lines \in Seq(T)
  PROVE  \E upTo : Splits(lines, upTo)
<1> DEFINE N == Len(lines)
           States == Seq(Section(T))
           One(sections, n) == SplitOne(sections, lines[n])
           step == [n \in 1..N |-> [sections \in States |-> One(sections, n)]]
<1>1. N \in Nat /\ \A n \in 1..N : lines[n] \in T
  OBVIOUS
<1>2. <<>> \in States
  OBVIOUS
<1>3. \A n \in 1..N : \A sections \in States : One(sections, n) \in States
  BY <1>1, SplitOneProperties
<1> HIDE DEF N, States, One
<1>4. \A n \in 1..N : \A sections \in States : step[n][sections] = One(sections, n)
  OBVIOUS
<1>5. LeadsOn(States, N, step)
  BY <1>3, <1>4 DEF LeadsOn
<1> HIDE DEF step
<1>6. PICK g : IsIteration(States, <<>>, N, step, g)
  BY <1>1, <1>2, <1>5, Iterates, Zenon
<1>7. \A n \in 1..N : g[n] = One(g[n - 1], n)
  <2> TAKE n \in 1..N
  <2>1. n - 1 \in 0..N
    BY <1>1
  <2>2. QED
    BY <1>4, <1>6, <2>1 DEF IsIteration
<1>8. \A n \in 0..N : n # 0 => n \in 1..N
  BY <1>1
<1>9. g = [n \in 0..N |-> IF n = 0 THEN <<>> ELSE One(g[n - 1], n)]
  BY <1>6, <1>7, <1>8 DEF IsIteration
<1>10. QED
  BY <1>9 DEF Splits, N, One

\* What is split, one line after the other.
SplitRuns(lines, upTo) ==
  upTo[0] = <<>> /\ \A n \in 1..Len(lines) : upTo[n] = SplitOne(upTo[n - 1], lines[n])

LEMMA SplitRun ==
  ASSUME NEW T, NEW lines \in Seq(T)
  PROVE  \E upTo : SplitRuns(lines, upTo) /\ SplitFileSections(lines) = upTo[Len(lines)]
<1> DEFINE N == Len(lines)
<1>1. N \in Nat /\ 0 \in 0..N /\ \A n \in 1..N : n \in 0..N /\ n # 0
  OBVIOUS
<1>2. PICK upTo : Splits(lines, upTo) /\ SplitFileSections(lines) = upTo[N]
  BY SplittingExists, SplitIsSplits
<1>3. \A n \in 0..N : upTo[n] = IF n = 0 THEN <<>> ELSE SplitOne(upTo[n - 1], lines[n])
  BY <1>2, Zenon DEF Splits
<1>4. upTo[0] = <<>> /\ \A n \in 1..N : upTo[n] = SplitOne(upTo[n - 1], lines[n])
  BY <1>1, <1>3
<1>5. QED
  BY <1>2, <1>4 DEF SplitRuns

Grows(section, line, grown) == line.kind # "diff --git" /\ grown = Append(section, line)

LEMMA LongerSection ==
  ASSUME NEW S, NEW sections, NEW section, NEW line, NEW grown, NEW more, NEW next, Grows(section, line, grown),
         IsAppended(S, sections, section, more), IsAppended(S, sections, grown, next)
  PROVE  SplitOne(more, line) = next
<1>1. more # <<>> /\ more[Len(more)] = section /\ [more EXCEPT ![Len(more)] = grown] = next
  BY LastReplaced
<1>2. line.kind # "diff --git" /\ grown = Append(section, line)
  BY DEF Grows
<1>3. SplitOne(more, line) = [more EXCEPT ![Len(more)] = Append(more[Len(more)], line)]
  BY <1>1, <1>2 DEF SplitOne
<1>4. Append(more[Len(more)], line) = grown
  BY <1>1, <1>2, Zenon
<1>5. QED
  BY <1>1, <1>3, <1>4, Zenon

\* A section at a place: it begins with the line that begins a file, and no other line does.
IsSection(s) ==
  /\ 1 <= Len(s) /\ s[1].kind = "diff --git"
  /\ \A i \in 1..Len(s) : i # 1 => s[i].kind # "diff --git"
SectionAt(lines, a, s) ==
  /\ a \in Nat /\ a + Len(s) <= Len(lines)
  /\ \A j \in 1..Len(s) : lines[a + j] = s[j]

PrefixesIn(s, S) == \A j \in 1..Len(s) : [i \in 1..j |-> s[i]] \in S

LEMMA PrefixProperties ==
  ASSUME NEW T, NEW s \in Seq(T)
  PROVE  /\ Len(s) >= 1 => [i \in 1..1 |-> s[i]] = <<s[1]>>
         /\ [i \in 1..Len(s) |-> s[i]] = s
         /\ \A j \in 1..Len(s) : [i \in 1..j |-> s[i]] \in Seq(T)
         /\ \A j \in 1..(Len(s) - 1) : Append([i \in 1..j |-> s[i]], s[j + 1]) = [i \in 1..(j + 1) |-> s[i]]
<1>1. Len(s) \in Nat /\ \A i \in 1..Len(s) : s[i] \in T
  OBVIOUS
<1>2. [i \in 1..Len(s) |-> s[i]] = s
  OBVIOUS
<1>3. [i \in 1..1 |-> s[i]] = <<s[1]>>
  OBVIOUS
<1>4. \A j \in 1..Len(s) : [i \in 1..j |-> s[i]] \in Seq(T)
  <2> TAKE j \in 1..Len(s)
  <2>1. \A i \in 1..j : s[i] \in T
    BY <1>1
  <2>2. QED
    BY <2>1
<1>5. ASSUME NEW j \in 1..(Len(s) - 1)
      PROVE  Append([i \in 1..j |-> s[i]], s[j + 1]) = [i \in 1..(j + 1) |-> s[i]]
  <2>1. j \in Nat /\ \A i \in 1..(j + 1) : s[i] \in T
    BY <1>1
  <2>2. QED
    BY <2>1, ListAppend
<1>6. QED
  BY <1>2, <1>3, <1>4, <1>5

LEMMA SectionSplits ==
  ASSUME NEW T, NEW s \in Seq(T), IsSection(s), NEW lines, Len(lines) \in Nat, NEW a, SectionAt(lines, a, s),
         NEW upTo, SplitRuns(lines, upTo), NEW S, PrefixesIn(s, S), upTo[a] \in Seq(S)
  PROVE  upTo[a + Len(s)] = Append(upTo[a], s)
<1> DEFINE L == Len(s)
           sections == upTo[a]
           Prefix(j) == [i \in 1..j |-> s[i]]
<1>0. s[1].kind = "diff --git" /\ \A i \in 1..L : i # 1 => s[i].kind # "diff --git"
  BY DEF IsSection
<1>10. \A j \in 1..L : lines[a + j] = s[j]
  BY DEF SectionAt
<1>11. \A n \in 1..Len(lines) : upTo[n] = SplitOne(upTo[n - 1], lines[n])
  BY DEF SplitRuns
<1>1. L \in Nat /\ 1 <= L /\ a \in Nat /\ a + L <= Len(lines) /\ Len(lines) \in Nat
  <2>1. 1 <= L /\ a \in Nat /\ a + L <= Len(lines)
    BY Zenon DEF IsSection, SectionAt
  <2>2. L \in Nat
    OBVIOUS
  <2> HIDE DEF L
  <2>3. QED
    BY <2>1, <2>2
<1>9. sections \in Seq(S)
  OBVIOUS
<1>2. /\ Prefix(1) = <<s[1]>> /\ Prefix(L) = s
      /\ \A j \in 1..L : Prefix(j) \in S
      /\ \A j \in 1..(L - 1) : Append(Prefix(j), s[j + 1]) = Prefix(j + 1)
  <2>1. /\ Len(s) >= 1 => [i \in 1..1 |-> s[i]] = <<s[1]>>
        /\ [i \in 1..Len(s) |-> s[i]] = s
        /\ \A j \in 1..(Len(s) - 1) : Append([i \in 1..j |-> s[i]], s[j + 1]) = [i \in 1..(j + 1) |-> s[i]]
    BY PrefixProperties
  <2>2. L >= 1
    BY <1>1
  <2>3. \A j \in 1..L : Prefix(j) \in S
    BY Zenon DEF PrefixesIn
  <2>4. QED
    BY <2>1, <2>2, <2>3, Zenon
<1> DEFINE Then(j) == Append(sections, Prefix(j))
           J == {j \in 0..(L - 1) : upTo[a + (j + 1)] = Then(j + 1)}
<1> HIDE DEF L, Prefix, sections
<1>3. 0 \in J
  <2>1. a + 1 \in 1..Len(lines) /\ a + 1 - 1 = a /\ 0 + 1 = 1 /\ 0 \in 0..(L - 1) /\ 1 \in 1..L
    BY <1>1
  <2>2. upTo[a + 1] = SplitOne(upTo[a], s[1])
    <3> DEFINE n == a + 1
    <3>3. n \in 1..Len(lines) /\ n - 1 = a /\ 1 \in 1..L
      BY <1>1, <2>1
    <3>4. lines[n] = s[1]
      BY <1>10, <3>3
    <3> HIDE DEF n
    <3>5. upTo[n] = SplitOne(upTo[n - 1], lines[n])
      BY <1>11, <3>3
    <3>1. upTo[n] = SplitOne(upTo[a], s[1])
      BY <3>3, <3>4, <3>5
    <3>2. QED
      BY <3>1 DEF n
  <2>3. SplitOne(upTo[a], s[1]) = Append(upTo[a], <<s[1]>>)
    BY <1>0 DEF SplitOne
  <2>4. upTo[a + 1] = Then(1)
    BY <1>2, <2>2, <2>3 DEF sections
  <2>5. upTo[a + (0 + 1)] = Then(0 + 1)
    BY <2>1, <2>4
  <2>6. QED
    BY <2>1, <2>5
<1>4. ASSUME NEW j \in 1..(L - 1), j - 1 \in J PROVE j \in J
  <2> DEFINE m == a + (j + 1)
  <2>1. /\ m \in 1..Len(lines) /\ m - 1 = a + j /\ j \in 0..(L - 1) /\ j - 1 + 1 = j
        /\ j \in 1..L /\ j + 1 \in 1..L /\ j + 1 # 1
    BY <1>1
  <2>2. upTo[a + j] = Then(j)
    BY <1>4, <2>1
  <2>3. upTo[m] = SplitOne(upTo[m - 1], lines[m]) /\ lines[m] = s[j + 1] /\ s[j + 1].kind # "diff --git"
    BY <1>0, <1>10, <1>11, <2>1
  <2>4. upTo[m] = SplitOne(Then(j), s[j + 1])
    <3> HIDE DEF m, Then
    <3>1. QED
      BY <2>1, <2>2, <2>3
  <2> DEFINE own  == Prefix(j)
             line == s[j + 1]
             grown == Prefix(j + 1)
             more == Then(j)
             next == Then(j + 1)
  <2>5. own \in S /\ grown \in S /\ grown = Append(own, line)
    BY <1>2, <2>1
  <2>6. line.kind # "diff --git" /\ sections \in Seq(S)
    BY <1>9, <2>3
  <2>7. /\ Grows(own, line, grown) /\ IsAppended(S, sections, own, more)
        /\ IsAppended(S, sections, grown, next)
    BY <2>5, <2>6 DEF Grows, IsAppended
  <2> HIDE DEF own, line, grown, more, next
  <2>10. SplitOne(more, line) = next
    BY <2>7, LongerSection
  <2>8. upTo[m] = Then(j + 1)
    BY <2>4, <2>10 DEF more, next, line
  <2>9. QED
    BY <2>1, <2>8
<1>5. L - 1 \in J
  <2>1. L - 1 \in Nat /\ L - 1 \in 0..(L - 1)
    BY <1>1
  <2> HIDE DEF J
  <2>2. \A j \in 0..(L - 1) : j \in J
    BY <1>3, <1>4, <2>1, Induction
  <2>3. QED
    BY <2>1, <2>2
<1>6. L - 1 + 1 = L
  BY <1>1
<1>7. upTo[a + L] = Then(L)
  BY <1>5, <1>6
<1>8. QED
  BY <1>2, <1>7 DEF L, sections

LEMMA SplitsBack ==
  ASSUME NEW T, NEW lists \in Seq(Seq(T)), \A k \in 1..Len(lists) : IsSection(lists[k])
  PROVE  SplitFileSections(FlattenSeq(lists)) = lists
<1> DEFINE N == Len(lists)
           flat == FlattenSeq(lists)
           S == Seq(T)
           So(k) == [i \in 1..k |-> lists[i]]
<1>1. N \in Nat /\ \A k \in 1..N : lists[k] \in S
  OBVIOUS
<1>2. flat \in Seq(T) /\ \E at : Offsets(lists, flat, at)
  BY FlattenPlaces
<1>3. PICK at : Offsets(lists, flat, at)
  BY <1>2
<1> HIDE DEF flat
<1>4. PICK upTo : SplitRuns(flat, upTo) /\ SplitFileSections(flat) = upTo[Len(flat)]
  BY <1>2, SplitRun
<1>5. /\ at \in [0..N -> Nat] /\ at[0] = 0 /\ at[N] = Len(flat)
      /\ \A k \in 1..N : /\ at[k] = at[k - 1] + Len(lists[k]) /\ at[k] <= Len(flat)
                         /\ \A j \in 1..Len(lists[k]) : flat[at[k - 1] + j] = lists[k][j]
  BY <1>3, Zenon DEF Offsets
<1> DEFINE K == {k \in 0..N : upTo[at[k]] = So(k)}
<1>6. Len(flat) \in Nat
  BY <1>2
<1> HIDE DEF S, N
<1>7. 0 \in K
  <2>1. 0 \in 0..N /\ So(0) = <<>>
    BY <1>1
  <2>2. QED
    BY <1>4, <1>5, <2>1 DEF SplitRuns
<1>8. ASSUME NEW k \in 1..N, k - 1 \in K PROVE k \in K
  <2> DEFINE s == lists[k]
             a == at[k - 1]
  <2>1. k \in 0..N /\ k - 1 \in 0..N /\ k - 1 \in Nat /\ k - 1 + 1 = k
    BY <1>1
  <2>2. a \in Nat /\ at[k] = a + Len(s) /\ a + Len(s) <= Len(flat)
        /\ \A j \in 1..Len(s) : flat[a + j] = s[j]
    BY <1>5, <2>1
  <2>3. SectionAt(flat, a, s)
    BY <2>2 DEF SectionAt
  <2>4. s \in Seq(T) /\ IsSection(s)
    BY <1>1 DEF S, N
  <2>5. /\ So(k - 1) \in Seq(S) /\ Append(So(k - 1), s) = So(k)
    <3>1. \A i \in 1..(k - 1 + 1) : lists[i] \in S
      BY <1>1, <2>1
    <3>2. /\ [i \in 1..(k - 1) |-> lists[i]] \in Seq(S)
          /\ Append([i \in 1..(k - 1) |-> lists[i]], lists[k - 1 + 1]) = [i \in 1..(k - 1 + 1) |-> lists[i]]
      BY <2>1, <3>1, ListAppend
    <3>3. QED
      BY <2>1, <3>2
  <2>6. upTo[a] = So(k - 1)
    BY <1>8
  <2>7. upTo[a] \in Seq(S)
    BY <2>5, <2>6
  <2>11. PrefixesIn(s, S)
    BY <2>4, PrefixProperties DEF PrefixesIn, S
  <2> HIDE DEF s, a, So
  <2>8. upTo[a + Len(s)] = Append(upTo[a], s)
    BY <1>4, <1>6, <2>3, <2>4, <2>7, <2>11, SectionSplits
  <2>9. upTo[at[k]] = So(k)
    BY <2>2, <2>5, <2>6, <2>8
  <2>10. QED
    BY <2>1, <2>9
<1>9. N \in K
  <2>1. N \in 0..N
    BY <1>1
  <2> HIDE DEF K
  <2>2. \A k \in 0..N : k \in K
    BY <1>1, <1>7, <1>8, Induction
  <2>3. QED
    BY <2>1, <2>2
<1>10. So(N) = lists
  BY DEF N
<1>11. QED
  BY <1>4, <1>5, <1>9, <1>10 DEF flat

-----------------------------------------------------------------------------
(* The files of a diff are those of the change. *)

\* The hunks that are parsed are those of the file.
LEMMA ParsedHunks ==
  ASSUME NEW file, IsFile(file), NEW hunks, hunks = [k \in DOMAIN file.hunks |-> Parsed(file.hunks[k])]
  PROVE  DOMAIN hunks = DOMAIN file.hunks /\ \A k \in DOMAIN file.hunks : IsHunkOf(hunks[k], file.hunks[k])
<1>1. ASSUME NEW k \in DOMAIN file.hunks PROVE IsHunkOf(hunks[k], file.hunks[k])
  <2> DEFINE h == file.hunks[k]
  <2>1. h.oldLines \in Nat /\ h.newLines \in Nat
    BY FileProperties
  <2>2. hunks[k] = HunkUnder(HeaderLine(h), 1 + BytesOf(h.body))
    BY DEF Parsed
  <2> HIDE DEF h
  <2>3. IsHunkOf(HunkUnder(HeaderLine(h), 1 + BytesOf(h.body)), h)
    BY <2>1, HeaderProperties
  <2>4. QED
    BY <2>2, <2>3 DEF h
<1>2. QED
  BY <1>1

LEMMA PatchAlone ==
  ASSUME NEW file, IsFile(file)
  PROVE  ParseHunks(PatchOf(file)) = [k \in DOMAIN file.hunks |-> Parsed(file.hunks[k])]
<1> DEFINE patch == PatchOf(file)
           none == <<>>
<1>1. IsList(patch)
  BY PatchProperties
<1>2. Sized(none) /\ \A i \in DOMAIN none : none[i].kind # "@@"
  BY DEF Sized, IsList
<1> HIDE DEF none, patch
<1>3. ParseHunks(none \o PatchOf(file)) = [k \in DOMAIN file.hunks |-> Parsed(file.hunks[k])]
  BY <1>2, PatchParses
<1>4. none \o patch = patch
  <2>1. patch \in Seq(Range(patch))
    BY <1>1 DEF IsList
  <2>2. QED
    BY <2>1, ConcatEmptySeq DEF none
<1>5. QED
  BY <1>3, <1>4 DEF patch

\* An entry of a forge's list becomes the file of the diff.
LEMMA ShownIsDiffFile ==
  ASSUME NEW file, IsFile(file), NEW forge, ~Omitted(file, forge),
         NEW patch, patch = PatchOf(file), NEW bin, bin = (patch = <<>>)
  PROVE  IsDiffFileOf(DiffFile(file.path, Safe(file.renamedFrom), bin, ParseHunks(patch)), file, forge)
<1> DEFINE hunks == ParseHunks(patch)
           former == Safe(file.renamedFrom)
           d == DiffFile(file.path, former, bin, hunks)
<1>1. hunks = [k \in DOMAIN file.hunks |-> Parsed(file.hunks[k])]
  BY PatchAlone
<1>2. d.path = file.path /\ d.previousPath = former /\ d.binary = bin /\ d.hunks = hunks
  BY DEF DiffFile
<1>3. patch = <<>> <=> file.hunks = <<>>
  BY PatchProperties
<1>4. file.binary => file.hunks = <<>>
  BY DEF IsFile
<1> HIDE DEF d, hunks
<1>5. DOMAIN hunks = DOMAIN file.hunks /\ \A k \in DOMAIN file.hunks : IsHunkOf(hunks[k], file.hunks[k])
  BY <1>1, ParsedHunks
<1>6. d.binary <=> file.hunks = <<>>
  BY <1>2, <1>3
<1>7. IsDiffFileOf(d, file, forge)
  BY <1>2, <1>4, <1>5, <1>6 DEF IsDiffFileOf
<1>8. QED
  BY <1>7 DEF d, hunks

\* An entry without a patch becomes a binary file without hunks.
LEMMA OmittedIsDiffFile ==
  ASSUME NEW file, IsFile(file), NEW forge, Omitted(file, forge),
         NEW patch, patch = <<>>, NEW bin, bin = (patch = <<>>)
  PROVE  IsDiffFileOf(DiffFile(file.path, Safe(file.renamedFrom), bin, ParseHunks(patch)), file, forge)
<1> DEFINE hunks == ParseHunks(patch)
           former == Safe(file.renamedFrom)
           d == DiffFile(file.path, former, bin, hunks)
<1>1. hunks = <<>>
  <2>1. PICK upTo : upTo[0] = <<>> /\ upTo[Len(patch)] = ParseHunks(patch)
    <3>1. Sized(patch)
      BY DEF Sized, IsList
    <3>2. QED
      BY <3>1, ParseRun
  <2>2. Len(patch) = 0
    OBVIOUS
  <2>3. QED
    BY <2>1, <2>2
<1>2. d.path = file.path /\ d.previousPath = former /\ d.binary = bin /\ d.hunks = hunks
  BY DEF DiffFile
<1> HIDE DEF d, hunks
<1>3. IsDiffFileOf(d, file, forge)
  BY <1>1, <1>2 DEF IsDiffFileOf
<1>4. QED
  BY <1>3 DEF d, hunks

LEMMA ParsedIsDiffFile ==
  ASSUME NEW file, IsFile(file), IsSafeRelativePath(file.path), NEW d, IsParsedFrom(d, file)
  PROVE  IsDiffFileOf(d, file, "local")
<1> DEFINE hunks == d.hunks
<1>1. hunks = [k \in DOMAIN file.hunks |-> Parsed(file.hunks[k])]
  BY DEF IsParsedFrom
<1>2. d.path = file.path /\ d.previousPath = Safe(file.renamedFrom) /\ (d.binary <=> file.binary)
  BY DEF IsParsedFrom, Safe
<1>3. file.binary => file.hunks = <<>>
  BY DEF IsFile
<1> HIDE DEF hunks
<1>4. DOMAIN hunks = DOMAIN file.hunks /\ \A k \in DOMAIN file.hunks : IsHunkOf(hunks[k], file.hunks[k])
  BY <1>1, ParsedHunks
<1>5. QED
  BY <1>2, <1>3, <1>4 DEF IsDiffFileOf, Omitted, hunks

\* The places of a change's files that are inside the repository, in their order.
Inside(change) == {i \in DOMAIN change : IsSafeRelativePath(change[i].path)}
IdsOf(change) == Picked([i \in 1..Len(change) |-> i], Inside(change))

LEMMA InsidePlaces ==
  ASSUME NEW change, IsList(change)
  PROVE  /\ IdsOf(change) \in Seq(1..Len(change))
         /\ \A k \in DOMAIN IdsOf(change) :
              IdsOf(change)[k] \in DOMAIN change /\ IsSafeRelativePath(change[IdsOf(change)[k]].path)
         /\ \A j, k \in DOMAIN IdsOf(change) : IdsOf(change)[j] = IdsOf(change)[k] => j = k
<1> DEFINE ids == IdsOf(change)
<1>1. change \in Seq(Range(change))
  BY DEF IsList
<1>2. /\ ids \in Seq(1..Len(change)) /\ \A k \in DOMAIN ids : ids[k] \in Inside(change)
      /\ \A j, k \in DOMAIN ids : ids[j] = ids[k] => j = k
  BY <1>1, PickedPlaces DEF IdsOf
<1> HIDE DEF ids
<1>3. \A k \in DOMAIN ids : ids[k] \in DOMAIN change /\ IsSafeRelativePath(change[ids[k]].path)
  BY <1>2 DEF Inside
<1>4. QED
  BY <1>2, <1>3 DEF ids

\* What is picked from a list that goes along with the change.
LEMMA InsidePicked ==
  ASSUME NEW change, NEW list, IsList(list), Len(list) = Len(change)
  PROVE  /\ DOMAIN Picked(list, Inside(change)) = DOMAIN IdsOf(change)
         /\ \A k \in DOMAIN IdsOf(change) : Picked(list, Inside(change))[k] = list[IdsOf(change)[k]]
<1>1. list \in Seq(Range(list))
  BY DEF IsList
<1>2. LET ids == Picked([i \in 1..Len(list) |-> i], Inside(change))
      IN  /\ DOMAIN Picked(list, Inside(change)) = DOMAIN ids
          /\ \A k \in DOMAIN ids : Picked(list, Inside(change))[k] = list[ids[k]]
  BY <1>1, PickedPlaces
<1>3. QED
  BY <1>2 DEF IdsOf

LEMMA AlignedDiff ==
  ASSUME NEW change, IsList(change), NEW forge,
         NEW diffs, diffs = [k \in DOMAIN IdsOf(change) |-> diffs[k]],
         \A k \in DOMAIN IdsOf(change) : IsDiffFileOf(diffs[k], change[IdsOf(change)[k]], forge)
  PROVE  IsDiffOf(diffs, change, forge)
<1> DEFINE ids == IdsOf(change)
           inside == Picked(change, Inside(change))
<1>1. DOMAIN inside = DOMAIN ids /\ \A k \in DOMAIN ids : inside[k] = change[ids[k]]
  BY InsidePicked
<1>2. DOMAIN ids = 1..Len(ids) /\ Len(ids) \in Nat
  <2>1. ids \in Seq(1..Len(change))
    BY InsidePlaces
  <2> HIDE DEF ids
  <2>2. QED
    BY <2>1
<1> HIDE DEF ids, inside
<1>3. diffs \in Seq({diffs[k] : k \in DOMAIN ids}) /\ DOMAIN diffs = DOMAIN ids
  BY <1>2 DEF ids
<1>4. IsList(diffs)
  BY <1>3, IsListOf
<1>5. \A k \in DOMAIN inside : IsDiffFileOf(diffs[k], inside[k], forge)
  BY <1>1 DEF ids
<1>6. QED
  BY <1>1, <1>3, <1>4, <1>5 DEF IsDiffOf, inside, Inside

-----------------------------------------------------------------------------
(* The forges. *)

IsChange(change) == IsList(change) /\ \A i \in DOMAIN change : IsFile(change[i])

LEMMA PagedProperties ==
  ASSUME NEW list, IsList(list)
  PROVE  /\ IsList(Paged(list)) /\ Len(Paged(list)) \in Nat /\ Len(Paged(list)) <= Len(list)
         /\ Len(Paged(list)) = IF Len(list) <= maxListed THEN Len(list) ELSE maxListed
         /\ DOMAIN Paged(list) = 1..Len(Paged(list))
         /\ \A i \in 1..Len(Paged(list)) : i \in DOMAIN list /\ Paged(list)[i] = list[i]
<1> DEFINE T == Range(list)
           n == IF Len(list) <= maxListed THEN Len(list) ELSE maxListed
           paged == Paged(list)
<1>1. /\ Len(list) \in Nat /\ DOMAIN list = 1..Len(list) /\ \A i \in DOMAIN list : list[i] \in T
  BY ListElements
<1>2. n \in Nat /\ n <= Len(list) /\ \A i \in 1..n : i \in DOMAIN list /\ list[i] \in T
  BY <1>1, ListIsBounded
<1>3. paged = SubSeq(list, 1, n)
  BY DEF Paged
<1> HIDE DEF T, n, paged
<1>4. /\ SubSeq(list, 1, n) \in Seq(T)
      /\ Len(SubSeq(list, 1, n)) = IF 1 <= n THEN n - 1 + 1 ELSE 0
      /\ \A i \in 1..(n - 1 + 1) : SubSeq(list, 1, n)[i] = list[1 + i - 1]
  BY <1>2, SubSeqProperties
<1>5. paged \in Seq(T) /\ Len(paged) = n /\ \A i \in 1..n : paged[i] = list[i]
  <2>1. n - 1 + 1 = n /\ (n = 0 \/ 1 <= n) /\ \A i \in 1..n : 1 + i - 1 = i
    BY <1>2
  <2>2. QED
    BY <1>2, <1>3, <1>4, <2>1
<1>6. IsList(paged) /\ DOMAIN paged = 1..n
  BY <1>5, IsListOf
<1>7. QED
  BY <1>2, <1>5, <1>6 DEF n, paged

\* The first files of a change are a change.
LEMMA PagedIsChange ==
  ASSUME NEW change, IsChange(change)
  PROVE  IsChange(Paged(change))
<1> DEFINE paged == Paged(change)
<1>1. IsList(change) /\ \A i \in DOMAIN change : IsFile(change[i])
  BY DEF IsChange
<1>2. /\ IsList(paged) /\ DOMAIN paged = 1..Len(paged)
      /\ \A i \in 1..Len(paged) : i \in DOMAIN change /\ paged[i] = change[i]
  BY <1>1, PagedProperties
<1> HIDE DEF paged
<1>3. \A i \in DOMAIN paged : IsFile(paged[i])
  BY <1>1, <1>2
<1>4. QED
  BY <1>2, <1>3 DEF IsChange, paged

LEMMA ShownList ==
  ASSUME NEW change, IsList(change), NEW shown, shown = [i \in DOMAIN change |-> shown[i]]
  PROVE  IsList(shown) /\ Len(shown) = Len(change) /\ DOMAIN shown = DOMAIN change
<1>1. Len(change) \in Nat /\ DOMAIN change = 1..Len(change)
  BY ListElements
<1> DEFINE n == Len(change)
<1> HIDE DEF n
<1>2. shown = [i \in 1..n |-> shown[i]] /\ n \in Nat
  BY <1>1 DEF n
<1>3. shown \in Seq({shown[i] : i \in 1..n}) /\ Len(shown) = n /\ DOMAIN shown = 1..n
  BY <1>2
<1>4. IsList(shown)
  BY <1>3, IsListOf
<1>5. QED
  BY <1>1, <1>3, <1>4 DEF n

\* What GitHub lists of a change.
LEMMA GitHubLists ==
  ASSUME NEW change, IsChange(change)
  PROVE  Paged([i \in DOMAIN change |-> GitHubShows(change[i])])
           = [i \in DOMAIN Paged(change) |-> GitHubShows(Paged(change)[i])]
<1> DEFINE shown == [i \in DOMAIN change |-> GitHubShows(change[i])]
           paged == Paged(change)
           listed == Paged(shown)
<1>1. IsList(change)
  BY DEF IsChange
<1>2. IsList(shown) /\ Len(shown) = Len(change) /\ DOMAIN shown = DOMAIN change
  <2>1. shown = [i \in DOMAIN change |-> shown[i]]
    OBVIOUS
  <2> HIDE DEF shown
  <2>2. QED
    BY <1>1, <2>1, ShownList
<1>3. \A i \in DOMAIN change : shown[i] = GitHubShows(change[i])
  OBVIOUS
<1> HIDE DEF shown
<1>4. /\ IsList(paged) /\ DOMAIN paged = 1..Len(paged)
      /\ Len(paged) = IF Len(change) <= maxListed THEN Len(change) ELSE maxListed
      /\ \A i \in 1..Len(paged) : i \in DOMAIN change /\ paged[i] = change[i]
  BY <1>1, PagedProperties
<1>5. /\ IsList(listed) /\ DOMAIN listed = 1..Len(listed)
      /\ Len(listed) = IF Len(shown) <= maxListed THEN Len(shown) ELSE maxListed
      /\ \A i \in 1..Len(listed) : i \in DOMAIN shown /\ listed[i] = shown[i]
  BY <1>2, PagedProperties
<1> HIDE DEF paged, listed
<1>6. DOMAIN listed = DOMAIN paged
  BY <1>2, <1>4, <1>5
<1>7. \A i \in DOMAIN paged : listed[i] = GitHubShows(paged[i])
  BY <1>3, <1>4, <1>5, <1>6
<1>8. listed = [i \in DOMAIN listed |-> listed[i]]
  <2>1. listed \in Seq(Range(listed))
    BY <1>5 DEF IsList
  <2>2. QED
    BY <2>1
<1>9. QED
  BY <1>6, <1>7, <1>8 DEF shown, paged, listed

LEMMA GitHubDiff ==
  ASSUME NEW change, IsChange(change)
  PROVE  IsDiffOf(FetchDiffGitHub([i \in DOMAIN change |-> GitHubShows(change[i])]), Paged(change), "github")
<1> DEFINE entries == [i \in DOMAIN change |-> GitHubShows(change[i])]
           paged  == Paged(change)
           listed == Paged(entries)
           places == {i \in DOMAIN listed : IsSafeRelativePath(listed[i].filename)}
           named  == Picked(listed, places)
           diffs  == FetchDiffGitHub(entries)
           ids    == IdsOf(paged)
           Of(e)  == DiffFile(e.filename, Safe(e.previous_filename), e.patch = <<>>, ParseHunks(e.patch))
<1>1. diffs = [k \in DOMAIN named |-> Of(named[k])]
  BY DEF FetchDiffGitHub
<1>2. listed = [i \in DOMAIN paged |-> GitHubShows(paged[i])]
  BY GitHubLists
<1>3. IsList(paged) /\ \A i \in DOMAIN paged : IsFile(paged[i])
  BY PagedIsChange DEF IsChange
<1> HIDE DEF entries, paged, listed, diffs
<1>4. \A i \in DOMAIN paged : listed[i] = GitHubShows(paged[i])
  BY <1>2
<1>5. IsList(listed) /\ Len(listed) = Len(paged) /\ DOMAIN listed = DOMAIN paged
  BY <1>2, <1>3, <1>4, ShownList
<1>6. \A file : /\ GitHubShows(file).filename = file.path
               /\ GitHubShows(file).previous_filename = file.renamedFrom
               /\ GitHubShows(file).patch = IF file.large THEN <<>> ELSE PatchOf(file)
  BY DEF GitHubShows
<1>7. places = Inside(paged)
  BY <1>4, <1>5, <1>6 DEF Inside
<1> HIDE DEF places
<1>8. DOMAIN named = DOMAIN ids /\ \A k \in DOMAIN ids : named[k] = listed[ids[k]]
  BY <1>5, <1>7, InsidePicked
<1>9. \A k \in DOMAIN ids : ids[k] \in DOMAIN paged
  BY <1>3, InsidePlaces
<1> HIDE DEF named, ids
<1>10. \A k \in DOMAIN ids : IsDiffFileOf(Of(named[k]), paged[ids[k]], "github")
  <2> TAKE k \in DOMAIN ids
  <2> DEFINE file  == paged[ids[k]]
             e     == named[k]
             patch == e.patch
             bin   == e.patch = <<>>
  <2>1. IsFile(file) /\ e = GitHubShows(file)
    BY <1>3, <1>4, <1>8, <1>9
  <2> HIDE DEF file, e
  <2>2. e.filename = file.path /\ e.previous_filename = file.renamedFrom 
      /\ patch = IF file.large THEN <<>> ELSE PatchOf(file)
    BY <1>6, <2>1
  <2>3. bin = (patch = <<>>)
    OBVIOUS
  <2> HIDE DEF patch, bin
  <2>4. IsDiffFileOf(DiffFile(file.path, Safe(file.renamedFrom), bin, ParseHunks(patch)), file, "github")
    <3>1. CASE file.large
      BY <2>1, <2>2, <2>3, <3>1, OmittedIsDiffFile DEF Omitted
    <3>2. CASE ~file.large
      BY <2>1, <2>2, <2>3, <3>2, ShownIsDiffFile DEF Omitted
    <3>3. QED
      BY <3>1, <3>2
  <2>5. Of(e) = DiffFile(file.path, Safe(file.renamedFrom), bin, ParseHunks(patch))
    BY <2>2 DEF patch, bin
  <2> HIDE DEF Of
  <2>6. QED
    BY <2>4, <2>5 DEF file, e
<1> HIDE DEF Of
<1>11. diffs = [k \in DOMAIN ids |-> diffs[k]] /\ \A k \in DOMAIN ids : diffs[k] = Of(named[k])
  BY <1>1, <1>8
<1>12. \A k \in DOMAIN ids : IsDiffFileOf(diffs[k], paged[ids[k]], "github")
  BY <1>10, <1>11
<1>13. IsDiffOf(diffs, paged, "github")
  BY <1>3, <1>11, <1>12, AlignedDiff DEF ids
<1>14. QED
  BY <1>13 DEF diffs, entries, paged

LEMMA GitLabDiff ==
  ASSUME NEW change, IsChange(change)
  PROVE  IsDiffOf(FetchDiffGitLab([i \in DOMAIN change |-> GitLabShows(change[i])]), change, "gitlab")
<1> DEFINE listed == [i \in DOMAIN change |-> GitLabShows(change[i])]
           places == {i \in DOMAIN listed : IsSafeRelativePath(listed[i].new_path)}
           named  == Picked(listed, places)
           diffs  == FetchDiffGitLab(listed)
           ids    == IdsOf(change)
           Former(e) == IF e.old_path = e.new_path THEN NoPath ELSE Safe(e.old_path)
           Of(e)  == DiffFile(e.new_path, Former(e), e.diff = <<>>, ParseHunks(e.diff))
<1>1. diffs = [k \in DOMAIN named |-> Of(named[k])]
  BY DEF FetchDiffGitLab
<1>3. IsList(change) /\ \A i \in DOMAIN change : IsFile(change[i])
  BY DEF IsChange
<1>2. listed = [i \in DOMAIN change |-> listed[i]]
  OBVIOUS
<1>4. \A i \in DOMAIN change : listed[i] = GitLabShows(change[i])
  OBVIOUS
<1> HIDE DEF listed, diffs
<1>5. IsList(listed) /\ Len(listed) = Len(change) /\ DOMAIN listed = DOMAIN change
  BY <1>2, <1>3, ShownList
<1>6. \A file : /\ GitLabShows(file).new_path = file.path
               /\ GitLabShows(file).old_path = OldName(file)
               /\ GitLabShows(file).diff = PatchOf(file)
  BY DEF GitLabShows
<1>7. places = Inside(change)
  BY <1>4, <1>5, <1>6 DEF Inside
<1> HIDE DEF places
<1>8. DOMAIN named = DOMAIN ids /\ \A k \in DOMAIN ids : named[k] = listed[ids[k]]
  BY <1>5, <1>7, InsidePicked
<1>9. \A k \in DOMAIN ids : ids[k] \in DOMAIN change
  BY <1>3, InsidePlaces
<1> HIDE DEF named, ids
<1>10. \A k \in DOMAIN ids : IsDiffFileOf(Of(named[k]), change[ids[k]], "gitlab")
  <2> TAKE k \in DOMAIN ids
  <2> DEFINE file  == change[ids[k]]
             e     == named[k]
             patch == e.diff
             bin   == e.diff = <<>>
  <2>1. IsFile(file) /\ e = GitLabShows(file)
    BY <1>3, <1>4, <1>8, <1>9
  <2> HIDE DEF file, e
  <2>2. e.new_path = file.path /\ e.old_path = OldName(file) /\ patch = PatchOf(file)
    BY <1>6, <2>1
  <2>3. bin = (patch = <<>>)
    OBVIOUS
  <2>7. Former(e) = Safe(file.renamedFrom)
    <3>1. CASE file.renamedFrom = NoPath
      BY <2>2, <3>1, SafeOfNone DEF OldName
    <3>2. CASE file.renamedFrom # NoPath
      <4>1. file.path # file.renamedFrom
        BY <2>1 DEF IsFile
      <4>2. QED
        BY <2>2, <3>2, <4>1 DEF OldName
    <3>3. QED
      BY <3>1, <3>2
  <2> HIDE DEF patch, bin, Former
  <2>4. IsDiffFileOf(DiffFile(file.path, Safe(file.renamedFrom), bin, ParseHunks(patch)), file, "gitlab")
    BY <2>1, <2>2, <2>3, ShownIsDiffFile DEF Omitted
  <2>5. Of(e) = DiffFile(file.path, Safe(file.renamedFrom), bin, ParseHunks(patch))
    BY <2>2, <2>7 DEF patch, bin
  <2> HIDE DEF Of
  <2>6. QED
    BY <2>4, <2>5 DEF file, e
<1> HIDE DEF Of
<1>11. diffs = [k \in DOMAIN ids |-> diffs[k]] /\ \A k \in DOMAIN ids : diffs[k] = Of(named[k])
  BY <1>1, <1>8
<1>12. \A k \in DOMAIN ids : IsDiffFileOf(diffs[k], change[ids[k]], "gitlab")
  BY <1>10, <1>11
<1>13. IsDiffOf(diffs, change, "gitlab")
  BY <1>3, <1>11, <1>12, AlignedDiff DEF ids
<1>14. QED
  BY <1>13 DEF diffs, listed

\* What git prints of a file is one section.
LEMMA PrintedIsSection ==
  ASSUME NEW file, IsFile(file)
  PROVE  IsList(GitPrints(file)) /\ IsSection(GitPrints(file))
<1> DEFINE section == GitPrints(file)
           before == Before(file)
<1>1. PICK b : IsPrinted(file, section, b)
  BY PrintedProperties
<1>2. /\ before[1] = Begins(file)
      /\ \A i \in 1..Len(before) : i # 1 => before[i].kind # "diff --git"
  BY BeforeProperties
<1> HIDE DEF section, before
<1>3. /\ IsList(section) /\ b \in Nat /\ 1 <= b /\ b <= Len(section) /\ Len(section) \in Nat
      /\ b = Len(before) /\ \A i \in 1..b : section[i] = before[i]
      /\ \A i \in 1..Len(section) : i \in 1..b \/ IsPatchLine(file, section[i])
  BY <1>1 DEF IsPrinted, before
<1>4. 1 <= Len(section) /\ section[1].kind = "diff --git"
  <2>1. 1 \in 1..b /\ 1 <= Len(section)
    BY <1>3
  <2>2. section[1] = Begins(file)
    BY <1>2, <1>3, <2>1
  <2>3. QED
    BY <2>1, <2>2, LinesBefore
<1>5. \A i \in 1..Len(section) : i # 1 => section[i].kind # "diff --git"
  <2> TAKE i \in 1..Len(section)
  <2>1. CASE i \in 1..b
    BY <1>2, <1>3, <2>1
  <2>2. CASE IsPatchLine(file, section[i])
    BY <2>2 DEF IsPatchLine, HeaderKinds
  <2>3. QED
    BY <1>3, <2>1, <2>2
<1>6. QED
  BY <1>3, <1>4, <1>5 DEF IsSection, section

LEMMA LocalDiff ==
  ASSUME NEW change, IsChange(change)
  PROVE  IsDiffOf(ParseGitDiff(FlattenSeq([i \in DOMAIN change |-> GitPrints(change[i])])), change, "local")
<1> DEFINE printed == [i \in DOMAIN change |-> GitPrints(change[i])]
           flat == FlattenSeq(printed)
           files == [i \in DOMAIN printed |-> ParseFileSection(printed[i])]
           places == {i \in DOMAIN files : files[i].path # NoPath}
           diffs == ParseGitDiff(flat)
           ids == IdsOf(change)
           Lines(i) == GitPrints(change[i])
           T == UNION {Range(Lines(i)) : i \in DOMAIN change}
<1>1. IsList(change) /\ \A i \in DOMAIN change : IsFile(change[i])
  BY DEF IsChange
<1>2. Len(change) \in Nat /\ DOMAIN change = 1..Len(change)
  BY <1>1, ListElements
<1>3. \A i \in DOMAIN change : IsList(Lines(i)) /\ IsSection(Lines(i))
  BY <1>1, PrintedIsSection
<1>4. \A i \in DOMAIN change : Lines(i) \in Seq(T)
  <2> TAKE i \in DOMAIN change
  <2> DEFINE R == Range(Lines(i))
             s == Lines(i)
  <2>1. s \in Seq(R)
    BY <1>3 DEF IsList
  <2>2. R \subseteq T
    OBVIOUS
  <2> HIDE DEF R, s, T
  <2>3. s \in Seq(T)
    BY <2>1, <2>2
  <2>4. QED
    BY <2>3 DEF s
<1>5. IsList(printed) /\ Len(printed) = Len(change) /\ DOMAIN printed = DOMAIN change
  <2>1. printed = [i \in DOMAIN change |-> printed[i]]
    OBVIOUS
  <2> HIDE DEF printed
  <2>2. QED
    BY <1>1, <2>1, ShownList
<1>6. \A i \in DOMAIN change : printed[i] = Lines(i)
  OBVIOUS
<1>7. printed = [i \in 1..Len(change) |-> Lines(i)]
  BY <1>2
<1> HIDE DEF T, Lines
<1>8. printed \in Seq(Seq(T))
  <2> HIDE DEF printed
  <2>1. QED
    BY <1>2, <1>4, <1>7
<1>9. \A k \in 1..Len(printed) : IsSection(printed[k])
  <2> HIDE DEF printed
  <2>1. QED
    BY <1>2, <1>3, <1>5, <1>6
<1> HIDE DEF printed
<1>10. SplitFileSections(flat) = printed
  BY <1>8, <1>9, SplitsBack
<1>11. diffs = Picked(files, places)
  <2> HIDE DEF flat
  <2>1. QED
    BY <1>10 DEF ParseGitDiff
<1>12. files = [i \in DOMAIN change |-> files[i]]
  BY <1>5
<1>13. \A i \in DOMAIN change : IsParsedFrom(files[i], change[i])
  <2> TAKE i \in DOMAIN change
  <2>1. files[i] = ParseFileSection(GitPrints(change[i]))
    BY <1>5, <1>6 DEF Lines
  <2>2. IsFile(change[i])
    BY <1>1
  <2>3. QED
    BY <2>1, <2>2, SectionParses
<1> HIDE DEF files, diffs
<1>14. IsList(files) /\ Len(files) = Len(change) /\ DOMAIN files = DOMAIN change
  BY <1>1, <1>12, ShownList
<1>15. places = Inside(change)
  <2>1. \A i \in DOMAIN change : files[i].path # NoPath <=> IsSafeRelativePath(change[i].path)
    <3> TAKE i \in DOMAIN change
    <3>1. files[i].path = Safe(change[i].path) /\ change[i].path # NoPath
      BY <1>1, <1>13 DEF IsParsedFrom, IsFile
    <3>2. QED
      BY <3>1 DEF Safe
  <2>2. QED
    BY <1>14, <2>1 DEF Inside
<1> HIDE DEF places
<1>16. DOMAIN diffs = DOMAIN ids /\ \A k \in DOMAIN ids : diffs[k] = files[ids[k]]
  BY <1>11, <1>14, <1>15, InsidePicked
<1>17. \A k \in DOMAIN ids : ids[k] \in DOMAIN change /\ IsSafeRelativePath(change[ids[k]].path)
  BY <1>1, InsidePlaces
<1>18. diffs = [k \in DOMAIN diffs |-> diffs[k]]
  <2>1. files \in Seq(Range(files))
    BY <1>14 DEF IsList
  <2>2. diffs \in Seq(Range(files))
    BY <1>11, <2>1, PickedProperties
  <2>3. QED
    BY <2>2
<1> HIDE DEF ids
<1>19. \A k \in DOMAIN ids : IsDiffFileOf(diffs[k], change[ids[k]], "local")
  <2> TAKE k \in DOMAIN ids
  <2> DEFINE file == change[ids[k]]
             d == diffs[k]
  <2>1. IsFile(file) /\ IsSafeRelativePath(file.path) /\ IsParsedFrom(d, file)
    BY <1>1, <1>13, <1>16, <1>17
  <2> HIDE DEF file, d
  <2>2. IsDiffFileOf(d, file, "local")
    BY <2>1, ParsedIsDiffFile
  <2>3. QED
    BY <2>2 DEF file, d
<1>20. diffs = [k \in DOMAIN ids |-> diffs[k]]
  BY <1>16, <1>18
<1>21. IsDiffOf(diffs, change, "local")
  BY <1>1, <1>19, <1>20, AlignedDiff DEF ids
<1>22. QED
  BY <1>21 DEF diffs, flat, printed

\* What a forge shows of a change.
Shows(forge, change) == IF forge = "github" THEN Paged(change) ELSE change

\* Whatever the change, and whatever the lines of its hunks look like, a forge's diff is that of the
\* change, but for what GitHub keeps back: the files beyond those it is asked for, and the hunks of
\* one over its size cap, which is there as a binary file (fetchDiff, parseHunks, splitFileSections,
\* parseFileSection).
THEOREM ForgesShowTheChange ==
  ASSUME NEW change, IsChange(change), NEW forge \in {"github", "gitlab", "local"}
  PROVE  IsDiffOf(FetchDiff(forge, change), Shows(forge, change), forge)
<1>1. CASE forge = "github"
  <2>1. FetchDiff(forge, change) = FetchDiffGitHub([i \in DOMAIN change |-> GitHubShows(change[i])])
    BY <1>1 DEF FetchDiff
  <2>2. QED
    BY <1>1, <2>1, GitHubDiff DEF Shows
<1>2. CASE forge = "gitlab"
  <2>1. FetchDiff(forge, change) = FetchDiffGitLab([i \in DOMAIN change |-> GitLabShows(change[i])])
    BY <1>2 DEF FetchDiff
  <2>2. QED
    BY <1>2, <2>1, GitLabDiff DEF Shows
<1>3. CASE forge = "local"
  <2>1. FetchDiff(forge, change) =
          ParseGitDiff(FlattenSeq([i \in DOMAIN change |-> GitPrints(change[i])]))
    BY <1>3 DEF FetchDiff
  <2>2. QED
    BY <1>3, <2>1, LocalDiff DEF Shows
<1>4. QED
  BY <1>1, <1>2, <1>3
-----------------------------------------------------------------------------
(* Calibration: nothing but the severity changes, and it is only lowered. *)

CalibratedSeverity(f) ==
  IF f.rule \in DOMAIN severityOverrides
  THEN Calibrate(f.severity, severityOverrides[f.rule]) ELSE f.severity

CalibratedFinding(f) ==
  IF f.rule \in DOMAIN severityOverrides
  THEN [f EXCEPT !.severity = Calibrate(@, severityOverrides[f.rule])] ELSE f

SameButSeverity(f, g) ==
  /\ f.title = g.title /\ f.body = g.body /\ f.anchor = g.anchor
  /\ f.rule = g.rule /\ f.scenario = g.scenario

LEMMA CalibrationProperties ==
  ASSUME NEW f, AFinding(f)
  PROVE  /\ AFinding(CalibratedFinding(f)) /\ SameButSeverity(CalibratedFinding(f), f)
         /\ CalibratedFinding(f).severity = CalibratedSeverity(f)
         /\ CalibratedSeverity(f) \in Severity /\ f.severity <= CalibratedSeverity(f)
<1>1. f.severity \in Severity
  BY DEF AFinding
<1>2. CASE f.rule \in DOMAIN severityOverrides
  <2> DEFINE rank == Calibrate(f.severity, severityOverrides[f.rule])
             next == [f EXCEPT !.severity = rank]
  <2>1. severityOverrides[f.rule] \in Severity
    BY <1>2, OverridesAreReal DEF OverridesAreReal
  <2>2. rank \in Severity /\ f.severity <= rank
    BY <1>1, <2>1 DEF Calibrate, Severity, Blocker, Info
  <2>3. CalibratedFinding(f) = next /\ CalibratedSeverity(f) = rank
    BY <1>2 DEF CalibratedFinding, CalibratedSeverity
  <2> HIDE DEF rank
  <2>4. /\ next = [findingId |-> f.findingId, severity |-> rank, title |-> f.title, body |-> f.body,
                   anchor |-> f.anchor, rule |-> f.rule, scenario |-> f.scenario, patch |-> f.patch]
    BY DEF AFinding
  <2> HIDE DEF next
  <2>5. AFinding(next) /\ SameButSeverity(next, f) /\ next.severity = rank
    BY <2>2, <2>4 DEF AFinding, SameButSeverity
  <2>6. QED
    BY <2>2, <2>3, <2>5
<1>3. CASE f.rule \notin DOMAIN severityOverrides
  <2>1. CalibratedFinding(f) = f /\ CalibratedSeverity(f) = f.severity
    BY <1>3 DEF CalibratedFinding, CalibratedSeverity
  <2>2. f.severity <= f.severity
    BY <1>1 DEF Severity, Blocker, Info
  <2>3. QED
    BY <1>1, <2>1, <2>2 DEF SameButSeverity
<1>4. QED
  BY <1>2, <1>3

\* What is more severe stays so.
LEMMA CalibrationIsMonotone ==
  ASSUME NEW f, AFinding(f), NEW g, AFinding(g), f.rule = g.rule, f.severity <= g.severity
  PROVE  CalibratedSeverity(f) <= CalibratedSeverity(g)
<1>1. f.severity \in Severity /\ g.severity \in Severity
  BY DEF AFinding
<1>2. CASE f.rule \in DOMAIN severityOverrides
  <2>1. severityOverrides[f.rule] \in Severity
    BY <1>2, OverridesAreReal DEF OverridesAreReal
  <2>2. QED
    BY <1>1, <1>2, <2>1 DEF CalibratedSeverity, Calibrate, Severity, Blocker, Info
<1>3. CASE f.rule \notin DOMAIN severityOverrides
  BY <1>3 DEF CalibratedSeverity
<1>4. QED
  BY <1>2, <1>3

LEMMA OverridesProperties ==
  ASSUME NEW F, NEW list \in Seq(F)
  PROVE  LET all == ApplySeverityOverrides(list, severityOverrides)
         IN  /\ all \in Seq({CalibratedFinding(f) : f \in F})
             /\ DOMAIN all = DOMAIN list /\ \A i \in DOMAIN list : all[i] = CalibratedFinding(list[i])
<1> DEFINE all == ApplySeverityOverrides(list, severityOverrides)
<1>1. all = [i \in DOMAIN list |-> CalibratedFinding(list[i])]
  BY DEF ApplySeverityOverrides, CalibratedFinding
<1>2. DOMAIN list = 1..Len(list) /\ Len(list) \in Nat /\ \A i \in 1..Len(list) : list[i] \in F
  OBVIOUS
<1> HIDE DEF all
<1>3. DOMAIN all = DOMAIN list /\ \A i \in DOMAIN list : all[i] = CalibratedFinding(list[i])
  BY <1>1
<1>4. all \in Seq({CalibratedFinding(f) : f \in F})
  <2>1. \A i \in 1..Len(list) : CalibratedFinding(list[i]) \in {CalibratedFinding(f) : f \in F}
    BY <1>2
  <2>2. QED
    BY <1>1, <1>2, <2>1
<1>5. QED
  BY <1>3, <1>4 DEF all

-----------------------------------------------------------------------------
(***************************************************************************)
(* What the run holds of its findings is a function of what was answered.  *)
(***************************************************************************)
Gathered ==
  IF Len(Answered) > 1 THEN MergeFindings(Sharded)
  ELSE Unmerged(Validate(Proposals, diff, bounded.rules).findings)

Clustered ==
  ClusterWithinShard(ApplySeverityOverrides(FindingsOf(groups), severityOverrides), clusterWindow)

Settled ==
  /\ phase \notin {"recall", "publish"} => groups = <<>> /\ findings = <<>> /\ suppressed = <<>>
  /\ phase \in {"recall", "publish"} => groups = Gathered
  /\ phase = "recall" => findings = Clustered /\ suppressed = <<>>
  /\ phase = "publish" =>
       /\ findings = SuppressResolved(Clustered, memory).findings
       /\ suppressed = SuppressResolved(Clustered, memory).suppressed
  /\ memory \in Memories \cup {<<>>}
  /\ diff \in {<<>>, FetchDiff(input.forge, input.change)}
  /\ phase \notin {"diff", "threw"} => diff = FetchDiff(input.forge, input.change)

LEMMA GatheredStays ==
  ASSUME UNCHANGED <<fanOutVars, diff, bounded>>
  PROVE  Gathered' = Gathered
<1>1. Answered' = Answered
  BY DEF Answered, fanOutVars
<1>2. QED
  BY <1>1 DEF Gathered, Sharded, Proposals, Valid

LEMMA SettledStarts == ReviewInit => Settled
BY DEF ReviewInit, Settled

LEMMA SettledGoesOn == Settled /\ [ReviewNext]_<<fanOutVars, reviewVars>> => Settled'
<1> SUFFICES ASSUME Settled, [ReviewNext]_<<fanOutVars, reviewVars>> PROVE Settled'
  OBVIOUS
<1>1. CASE Fetch
  BY <1>1 DEF Fetch, Settled
<1>2. CASE Assemble
  <2>1. /\ phase = "context" /\ phase' \in {"validate", "reason"}
        /\ UNCHANGED <<input, diff, groups, findings, suppressed, memory>>
    BY <1>2 DEF Assemble
  <2>2. QED
    BY <2>1 DEF Settled
<1>3. CASE ReasonStep
  <2>1. /\ phase = "reason" /\ phase' \in {"validate", "threw", "reason"}
        /\ UNCHANGED <<input, diff, groups, findings, suppressed, memory>>
    BY <1>3 DEF ReasonStep
  <2>2. QED
    BY <2>1 DEF Settled
<1>4. CASE ValidateStep
  <2>1. /\ phase = "validate" /\ phase' = "recall"
        /\ UNCHANGED <<input, diff, bounded, suppressed, memory>> /\ UNCHANGED fanOutVars
        /\ groups' = Gathered /\ findings' = Clustered'
    BY <1>4 DEF ValidateStep, Gathered, Clustered
  <2>2. Gathered' = Gathered
    BY <2>1, GatheredStays
  <2>3. QED
    BY <2>1, <2>2 DEF Settled
<1>5. CASE Recall
  <2>1. /\ phase = "recall" /\ phase' = "publish" /\ memory' \in Memories \cup {<<>>}
        /\ findings' = SuppressResolved(findings, memory').findings
        /\ suppressed' = SuppressResolved(findings, memory').suppressed
        /\ UNCHANGED <<input, diff, bounded, groups>> /\ UNCHANGED fanOutVars
    BY <1>5 DEF Recall
  <2>2. Gathered' = Gathered /\ Clustered' = Clustered
    BY <2>1, GatheredStays DEF Clustered
  <2>3. QED
    BY <2>1, <2>2 DEF Settled
<1>6. CASE Timeout
  BY <1>6 DEF Timeout, reviewVars, Settled
<1>7. CASE UNCHANGED <<fanOutVars, reviewVars>>
  <2>1. Gathered' = Gathered /\ Clustered' = Clustered
    BY <1>7, GatheredStays DEF Clustered, reviewVars
  <2>2. QED
    BY <1>7, <2>1 DEF Settled, reviewVars
<1>8. QED
  BY <1>1, <1>2, <1>3, <1>4, <1>5, <1>6, <1>7 DEF ReviewNext

LEMMA SettledInvariance == ReviewSpec => [](ReviewInv /\ Settled)
BY ReviewStarts, ReviewGoesOn, SettledStarts, SettledGoesOn, PTL DEF ReviewSpec

-----------------------------------------------------------------------------
(* What was answered. *)

LEMMA AnsweredProperties ==
  ASSUME ReviewInv
  PROVE  Answered \in Seq(Answers)
<1>1. results \in [1..MaxShards -> Answers \cup {NoAnswer}] /\ single \in Answers \cup {NoAnswer}
  BY DEF ReviewInv, FanOutInv, FanOutTypeOK, Shards
<1>2. CASE single # NoAnswer
  BY <1>1, <1>2 DEF Answered
<1>3. CASE single = NoAnswer
  <2> DEFINE places == {i \in 1..count : results[i] # NoAnswer}
             given  == Picked(results, places)
             T      == Answers \cup {NoAnswer}
  <2>1. Answered = given
    BY <1>3 DEF Answered
  <2>2. results \in Seq(T)
    BY <1>1, FanOutConstants DEF FanOutConstants
  <2>3. \A i \in places : results[i] # NoAnswer
    OBVIOUS
  <2> HIDE DEF places, T, given
  <2>4. given \in Seq(T) /\ \A x : x \in Range(given) <=> \E i \in places \cap DOMAIN results : x = results[i]
    BY <2>2, PickedProperties DEF given
  <2>5. \A i \in 1..Len(given) : given[i] \in T /\ given[i] # NoAnswer
    BY <2>3, <2>4 DEF Range
  <2>6. \A i \in 1..Len(given) : given[i] \in Answers
    BY <2>5 DEF T
  <2>7. given \in Seq(Answers)
    BY <2>4, <2>6
  <2>8. QED
    BY <2>1, <2>7
<1>4. QED
  BY <1>2, <1>3

\* The findings that agents' proposals became.
Made == UNION {Passed(Answered[k].proposals, diff, bounded.rules) : k \in DOMAIN Answered}

LEMMA AnswerIsReal ==
  ASSUME ReviewInv, NEW k \in DOMAIN Answered
  PROVE  /\ Answered[k] \in Answers
         /\ Answered[k].proposals \in Seq(Range(Answered[k].proposals))
         /\ \A i \in DOMAIN Answered[k].proposals : IsProposal(Answered[k].proposals[i])
<1>1. Answered[k] \in Answers
  BY AnsweredProperties
<1> DEFINE proposals == Answered[k].proposals
<1>2. IsList(proposals) /\ \A raw \in Range(proposals) : IsProposal(raw)
  BY <1>1, AnswersAreReal DEF AnswersAreReal
<1>3. \A i \in DOMAIN proposals : proposals[i] \in Range(proposals)
  BY DEF Range
<1> HIDE DEF proposals
<1>4. /\ proposals \in Seq(Range(proposals))
      /\ \A i \in DOMAIN proposals : IsProposal(proposals[i])
  BY <1>2, <1>3 DEF IsList
<1>5. QED
  BY <1>1, <1>4 DEF proposals

LEMMA ValidProperties ==
  ASSUME ReviewInv, NEW k \in DOMAIN Answered
  PROVE  /\ Valid(k).findings \in Seq(Made)
         /\ Len(Answered[k].proposals) = Len(Valid(k).findings) + Len(Valid(k).discarded)
<1> DEFINE proposals == Answered[k].proposals
           F == Passed(proposals, diff, bounded.rules)
           all == Validate(proposals, diff, bounded.rules)
<1>1. proposals \in Seq(Range(proposals))
  BY AnswerIsReal
<1> HIDE DEF proposals, F, all
<1>2. all.findings \in Seq(F) /\ Len(all.findings) + Len(all.discarded) = Len(proposals)
  BY <1>1, ValidateProperties DEF F, all
<1>3. F \subseteq Made
  BY DEF F, Made, proposals
<1>4. all.findings \in Seq(Made)
  BY <1>2, <1>3
<1>5. Valid(k) = all
  BY DEF Valid, all, proposals
<1>6. QED
  BY <1>2, <1>4, <1>5 DEF proposals

LEMMA MadeAreFindings ==
  ASSUME ReviewInv, NEW f \in Made
  PROVE  /\ AFinding(f) /\ f.severity \in Int /\ ~ExceedsSizeCap(f)
         /\ \E answer \in Answers : \E raw \in Range(answer.proposals) : ComesFrom(f, raw, diff)
<1>1. PICK k \in DOMAIN Answered : f \in Passed(Answered[k].proposals, diff, bounded.rules)
  BY DEF Made
<1> DEFINE proposals == Answered[k].proposals
<1>2. Answered[k] \in Answers /\ \A i \in DOMAIN proposals : IsProposal(proposals[i])
  BY AnswerIsReal
<1> HIDE DEF proposals
<1>3. /\ AFinding(f) /\ ~ExceedsSizeCap(f)
      /\ \E i \in DOMAIN proposals : ComesFrom(f, proposals[i], diff)
  <2> DEFINE rules == bounded.rules
  <2>1. f \in Passed(proposals, diff, rules)
    BY <1>1 DEF proposals
  <2> HIDE DEF rules
  <2>2. QED
    BY <1>2, <2>1, PassedProperties
<1>4. \E raw \in Range(proposals) : ComesFrom(f, raw, diff)
  BY <1>3 DEF Range
<1>5. f.severity \in Int
  BY <1>3 DEF AFinding, Severity, Blocker, Info
<1>6. QED
  BY <1>2, <1>3, <1>4, <1>5 DEF proposals

LEMMA ShardedProperties ==
  ASSUME ReviewInv
  PROVE  /\ Sharded \in Seq((DOMAIN Answered) \X Made)
         /\ \A e : e \in Range(Sharded) <=>
                    \E k \in DOMAIN Answered : \E f \in Range(Valid(k).findings) : e = <<k, f>>
<1> DEFINE S == DOMAIN Answered
           Own(k) == Valid(k).findings
           Tagged(k) == [i \in DOMAIN Own(k) |-> <<k, Own(k)[i]>>]
           lists == [k \in S |-> Tagged(k)]
           T == S \X Made
<1>1. S = 1..Len(Answered) /\ Len(Answered) \in Nat
  BY AnsweredProperties
<1>2. \A k \in S : Own(k) \in Seq(Made)
  BY ValidProperties
<1>3. Sharded = FlattenSeq(lists)
  BY DEF Sharded
<1> HIDE DEF S, Own
<1>4. \A k \in S : /\ Tagged(k) \in Seq(T)
                   /\ \A e : e \in Range(Tagged(k)) <=> \E f \in Range(Own(k)) : e = <<k, f>>
  <2> TAKE k \in S
  <2>1. /\ DOMAIN Own(k) = 1..Len(Own(k)) /\ Len(Own(k)) \in Nat
        /\ \A i \in 1..Len(Own(k)) : Own(k)[i] \in Made
    BY <1>2
  <2>2. \A i \in 1..Len(Own(k)) : <<k, Own(k)[i]>> \in T
    BY <2>1
  <2>3. Tagged(k) \in Seq(T)
    BY <2>1, <2>2
  <2>4. \A e : e \in Range(Tagged(k)) <=> \E f \in Range(Own(k)) : e = <<k, f>>
    BY DEF Range
  <2>5. QED
    BY <2>3, <2>4
<1> HIDE DEF Tagged, T
<1>5. lists \in Seq(Seq(T)) /\ DOMAIN lists = S /\ \A k \in S : lists[k] = Tagged(k)
  BY <1>1, <1>4
<1> HIDE DEF lists
<1>6. /\ FlattenSeq(lists) \in Seq(T)
      /\ \A e : e \in Range(FlattenSeq(lists)) <=> \E k \in DOMAIN lists : e \in Range(lists[k])
  BY <1>5, FlattenProperties
<1>7. \A e : e \in Range(FlattenSeq(lists)) <=> \E k \in S : \E f \in Range(Own(k)) : e = <<k, f>>
  BY <1>4, <1>5, <1>6
<1>8. QED
  BY <1>3, <1>6, <1>7 DEF S, Own, T

\* Without a second answer validation sees the whole output, which is that of the only one.
LEMMA WholeProperties ==
  ASSUME ReviewInv, ~(Len(Answered) > 1)
  PROVE  LET whole == Validate(Proposals, diff, bounded.rules).findings
         IN  /\ whole \in Seq(Made)
             /\ \A k \in DOMAIN Answered : Valid(k).findings = whole
<1> DEFINE S == DOMAIN Answered
           lists == [k \in S |-> Answered[k].proposals]
           whole == Validate(Proposals, diff, bounded.rules).findings
<1>1. S = 1..Len(Answered) /\ Len(Answered) \in Nat
  BY AnsweredProperties
<1>2. Proposals = FlattenSeq(lists)
  BY DEF Proposals
<1>3. CASE Len(Answered) = 0
  <2>1. lists = <<>>
    BY <1>1, <1>3
  <2>2. Proposals = <<>>
    BY <1>2, <2>1 DEF FlattenSeq
  <2>3. whole \in Seq(Passed(<<>>, diff, bounded.rules))
    <3>1. <<>> \in Seq({})
      OBVIOUS
    <3>2. QED
      BY <2>2, <3>1, ValidateProperties
  <2>4. Passed(<<>>, diff, bounded.rules) = {}
    BY DEF Passed
  <2>5. QED
    BY <1>1, <1>3, <2>3, <2>4
<1>4. CASE Len(Answered) = 1
  <2> DEFINE T == Range(Answered[1].proposals)
  <2>1. S = {1}
    BY <1>1, <1>4
  <2>2. Answered[1].proposals \in Seq(T)
    BY <2>1, AnswerIsReal
  <2> HIDE DEF T, S
  <2>3. lists \in Seq(Seq(T)) /\ Len(lists) = 1 /\ lists[1] = Answered[1].proposals
    BY <1>1, <1>4, <2>1, <2>2
  <2> HIDE DEF lists
  <2>4. Proposals = Answered[1].proposals
    BY <1>2, <2>3, FlattenProperties
  <2>5. whole = Valid(1).findings
    BY <2>4 DEF Valid
  <2>6. Valid(1).findings \in Seq(Made)
    BY <2>1, ValidProperties DEF S
  <2>7. QED
    BY <2>1, <2>5, <2>6 DEF S
<1>5. QED
  BY <1>1, <1>3, <1>4

\* Of findings with one lower-cased title the text without punctuation is the same.
LEMMA TitlesAgree ==
  ASSUME ReviewInv, NEW f \in Made, NEW g \in Made, f.title.lower = g.title.lower
  PROVE  f.title.loose = g.title.loose
<1>1. PICK one \in Answers : \E raw \in Range(one.proposals) : ComesFrom(f, raw, diff)
  BY MadeAreFindings
<1>2. PICK other \in Answers : \E raw \in Range(other.proposals) : ComesFrom(g, raw, diff)
  BY MadeAreFindings
<1>3. PICK raw \in Range(one.proposals), also \in Range(other.proposals) :
        f.title = raw.title /\ g.title = also.title
  BY <1>1, <1>2 DEF ComesFrom
<1>4. raw.title.lower = also.title.lower => raw.title.loose = also.title.loose
  BY <1>3, AnswersAreReal DEF AnswersAreReal
<1>5. QED
  BY <1>3, <1>4

LEMMA MadeAreRanked == ReviewInv => Ranked(Made)
BY MadeAreFindings DEF Ranked

LEMMA GatheredProperties ==
  ASSUME ReviewInv
  PROVE  /\ FindingsOf(Gathered) \in Seq(Made)
         /\ \A k \in DOMAIN Answered : \A f \in Range(Valid(k).findings) :
              \E g \in DOMAIN Gathered :
                Gathered[g].finding \in Made /\ StandsIn(Gathered[g].finding, f)
<1>1. Ranked(Made) /\ \A f \in Made : f.severity \in Int
  BY MadeAreRanked DEF Ranked
<1>2. CASE Len(Answered) > 1
  <2> DEFINE S == DOMAIN Answered
             all == Gathered
             sharded == Sharded
  <2>1. sharded \in Seq(S \X Made)
    BY ShardedProperties
  <2>2. \A k \in S : \A f \in Range(Valid(k).findings) : <<k, f>> \in Range(sharded)
    BY ShardedProperties
  <2>3. all = MergeFindings(sharded)
    BY <1>2 DEF Gathered
  <2> HIDE DEF S, all, sharded
  <2>4. Merged(S, Made, sharded, Len(sharded), all)
    BY <1>1, <2>1, <2>3, MergeProperties
  <2>5. all \in Seq(GroupOf(S, Made))
    BY <2>4 DEF Merged
  <2>6. \A g \in DOMAIN all : all[g].finding \in Made
    <3>1. \A g \in DOMAIN all : all[g] \in GroupOf(S, Made)
      BY <2>5
    <3>2. QED
      BY <3>1 DEF GroupOf
  <2>7. FindingsOf(all) \in Seq(Made)
    <3>1. DOMAIN all = 1..Len(all) /\ Len(all) \in Nat
      BY <2>5
    <3>2. QED
      BY <2>6, <3>1 DEF FindingsOf
  <2>8. ASSUME NEW k \in S, NEW f \in Range(Valid(k).findings)
        PROVE  \E g \in DOMAIN all : StandsIn(all[g].finding, f)
    <3>1. PICK d \in 1..Len(sharded) : sharded[d] = <<k, f>>
      <4> DEFINE e == <<k, f>>
      <4>1. e \in Range(sharded)
        BY <2>2, <2>8
      <4>2. DOMAIN sharded = 1..Len(sharded)
        BY <2>1
      <4> HIDE DEF e
      <4>3. \E d \in 1..Len(sharded) : sharded[d] = e
        BY <4>1, <4>2 DEF Range
      <4>4. QED
        BY <4>3 DEF e
    <3>2. sharded[d][2] = f /\ f \in Made
      <4>1. sharded[d] \in S \X Made
        BY <2>1
      <4>2. QED
        BY <3>1, <4>1
    <3>3. PICK g \in DOMAIN all : Alike(f, all[g].finding)
      BY <2>4, <3>2 DEF Merged, HasGroup
    <3>4. PICK e \in 1..Len(sharded) : Leads(sharded, Len(sharded), all[g].finding, e)
      BY <2>4 DEF Merged
    <3> DEFINE q == all[g].finding
    <3>5. q \in Made
      BY <2>6
    <3>6. f.severity > q.severity \/ f.severity = q.severity
      BY <3>2, <3>3, <3>4 DEF Leads
    <3> HIDE DEF q
    <3>7. q.severity <= f.severity
      BY <1>1, <3>2, <3>5, <3>6
    <3>8. f.rule = q.rule /\ f.anchor.path = q.anchor.path /\ f.title.lower = q.title.lower
      BY <3>3 DEF Alike, DedupeKey, q
    <3>9. f.title.loose = q.title.loose
      BY <3>2, <3>5, <3>8, TitlesAgree
    <3>10. StandsIn(q, f)
      BY <3>7, <3>8, <3>9 DEF StandsIn
    <3>11. QED
      BY <3>10 DEF q
  <2>9. QED
    BY <2>6, <2>7, <2>8 DEF S, all
<1>3. CASE ~(Len(Answered) > 1)
  <2> DEFINE whole == Validate(Proposals, diff, bounded.rules).findings
             all == Gathered
  <2>1. whole \in Seq(Made) /\ \A k \in DOMAIN Answered : Valid(k).findings = whole
    BY <1>3, WholeProperties
  <2>2. all = Unmerged(whole)
    BY <1>3 DEF Gathered
  <2> HIDE DEF whole, all
  <2>3. DOMAIN all = DOMAIN whole /\ \A g \in DOMAIN whole : all[g].finding = whole[g]
    BY <2>2 DEF Unmerged
  <2>4. FindingsOf(all) = whole
    <3>1. FindingsOf(all) = [g \in DOMAIN whole |-> whole[g]]
      BY <2>3 DEF FindingsOf
    <3>2. whole = [g \in DOMAIN whole |-> whole[g]]
      BY <2>1
    <3>3. QED
      BY <3>1, <3>2
  <2>5. \A f \in Range(whole) : \E g \in DOMAIN all : all[g].finding = f /\ f \in Made
    BY <2>1, <2>3 DEF Range
  <2>6. \A f \in Made : StandsIn(f, f)
    BY <1>1 DEF StandsIn
  <2>7. QED
    BY <2>1, <2>4, <2>5, <2>6 DEF all
<1>4. QED
  BY <1>2, <1>3

-----------------------------------------------------------------------------
(* What is reported. *)

\* The findings of the report after calibration.
Lowered == {CalibratedFinding(f) : f \in Made}

LEMMA LoweredAreFindings ==
  ASSUME ReviewInv, NEW f \in Lowered
  PROVE  /\ AFinding(f) /\ f.severity \in Int
         /\ \E q \in Made : SameButSeverity(f, q) /\ q.severity <= f.severity
<1>1. PICK q \in Made : f = CalibratedFinding(q)
  BY DEF Lowered
<1>2. AFinding(q)
  BY MadeAreFindings
<1>3. /\ AFinding(f) /\ SameButSeverity(f, q) /\ q.severity <= f.severity
  BY <1>1, <1>2, CalibrationProperties
<1>4. f.severity \in Int
  BY <1>3 DEF AFinding, Severity, Blocker, Info
<1>5. QED
  BY <1>3, <1>4

\* The list that is clustered, and what comes of it.
Calibrated == ApplySeverityOverrides(FindingsOf(Gathered), severityOverrides)

LEMMA ClusteredProperties ==
  ASSUME ReviewInv
  PROVE  LET reps == ClusterWithinShard(Calibrated, clusterWindow)
         IN  /\ reps \in Seq(Lowered)
             /\ \A k \in DOMAIN Answered : \A f \in Range(Valid(k).findings) :
                  \E r \in Range(reps) : StandsFor(r, f)
<1> DEFINE list == FindingsOf(Gathered)
           reps == ClusterWithinShard(Calibrated, clusterWindow)
<1>1. list \in Seq(Made)
  BY GatheredProperties
<1>2. DOMAIN list = DOMAIN Gathered /\ \A g \in DOMAIN Gathered : list[g] = Gathered[g].finding
  BY DEF FindingsOf
<1>3. /\ Calibrated \in Seq(Lowered) /\ DOMAIN Calibrated = DOMAIN list
      /\ \A g \in DOMAIN list : Calibrated[g] = CalibratedFinding(list[g])
  <2> HIDE DEF list
  <2>1. Calibrated = ApplySeverityOverrides(list, severityOverrides)
    BY DEF Calibrated, list
  <2>2. QED
    BY <1>1, <2>1, OverridesProperties DEF Lowered
<1>4. Ranked(Lowered)
  BY LoweredAreFindings DEF Ranked
<1>5. Represented(Lowered, Calibrated, Len(Calibrated), reps)
  BY <1>3, <1>4, ClusterProperties
<1>6. ASSUME NEW k \in DOMAIN Answered, NEW f \in Range(Valid(k).findings)
      PROVE  \E r \in Range(reps) : StandsFor(r, f)
  <2>1. PICK g \in DOMAIN Gathered :
          Gathered[g].finding \in Made /\ StandsIn(Gathered[g].finding, f)
    BY GatheredProperties
  <2> DEFINE q == Gathered[g].finding
             c == CalibratedFinding(q)
  <2>2. f \in Made
    <3> DEFINE valid == Valid(k).findings
    <3>1. valid \in Seq(Made)
      BY ValidProperties
    <3> HIDE DEF valid
    <3>2. Range(valid) \subseteq Made
      BY <3>1 DEF Range
    <3>3. QED
      BY <1>6, <3>2 DEF valid
  <2>3. AFinding(q) /\ AFinding(f)
    BY <2>1, <2>2, MadeAreFindings
  <2>4. Calibrated[g] = c /\ g \in 1..Len(Calibrated)
    BY <1>2, <1>3
  <2>5. /\ SameButSeverity(c, q) /\ c.severity = CalibratedSeverity(q)
    BY <2>3, CalibrationProperties
  <2>6. StandsIn(q, f)
    BY <2>1
  <2> HIDE DEF q
  <2>7. CalibratedSeverity(q) <= CalibratedSeverity(f)
    BY <2>3, <2>6, CalibrationIsMonotone DEF StandsIn
  <2> HIDE DEF c
  <2>8. PICK h \in DOMAIN reps : StandsIn(reps[h], c)
    BY <1>5, <2>4 DEF Represented
  <2> DEFINE r == reps[h]
  <2>9. r \in Lowered /\ r \in Range(reps)
    BY <1>5 DEF Represented, Range
  <2>10. StandsIn(r, c)
    BY <2>8
  <2> HIDE DEF r, reps
  <2>11. r.severity \in Int
    BY <2>9, LoweredAreFindings
  <2>12. /\ CalibratedSeverity(q) \in Int /\ CalibratedSeverity(f) \in Int
    <3>1. CalibratedSeverity(q) \in Severity /\ CalibratedSeverity(f) \in Severity
      BY <2>3, CalibrationProperties
    <3>2. QED
      BY <3>1 DEF Severity, Blocker, Info
  <2>13. r.severity <= CalibratedSeverity(f)
    <3>1. r.severity <= CalibratedSeverity(q)
      BY <2>5, <2>10 DEF StandsIn
    <3>2. QED
      BY <2>7, <2>11, <2>12, <3>1
  <2>14. r.rule = f.rule /\ r.anchor.path = f.anchor.path /\ r.title.loose = f.title.loose
    BY <2>5, <2>6, <2>10 DEF StandsIn, SameButSeverity
  <2>15. StandsFor(r, f)
    BY <2>13, <2>14 DEF StandsFor, CalibratedSeverity
  <2>16. QED
    BY <2>9, <2>15
<1>7. QED
  BY <1>5, <1>6 DEF Represented

\* The report and the list of suppressed findings are the clustered findings.
LEMMA ReportProperties ==
  ASSUME ReviewInv, Settled
  PROVE  /\ findings \in Seq(Lowered) /\ suppressed \in Seq(Lowered)
         /\ phase \in {"recall", "publish"} =>
              \A k \in DOMAIN Answered : \A f \in Range(Valid(k).findings) :
                \E r \in Range(findings) \cup Range(suppressed) : StandsFor(r, f)
         /\ phase = "publish" =>
              /\ \A f \in Range(findings) : SuppressedBy(f, memory) = <<>>
              /\ \A f \in Range(suppressed) : SuppressedBy(f, memory) # <<>>
<1> DEFINE reps == ClusterWithinShard(Calibrated, clusterWindow)
<1>1. /\ reps \in Seq(Lowered)
      /\ \A k \in DOMAIN Answered : \A f \in Range(Valid(k).findings) :
           \E r \in Range(reps) : StandsFor(r, f)
  BY ClusteredProperties
<1>2. phase \in {"recall", "publish"} => Clustered = reps
  BY DEF Settled, Clustered, Calibrated
<1> HIDE DEF reps
<1>3. CASE phase \notin {"recall", "publish"}
  BY <1>3 DEF Settled
<1>4. CASE phase = "recall"
  <2>1. findings = reps /\ suppressed = <<>>
    BY <1>2, <1>4 DEF Settled
  <2>2. <<>> \in Seq(Lowered)
    OBVIOUS
  <2>3. phase # "publish"
    BY <1>4
  <2>4. Range(reps) \subseteq Range(findings) \cup Range(suppressed)
    BY <2>1
  <2>5. QED
    BY <1>1, <2>1, <2>2, <2>3, <2>4
<1>5. CASE phase = "publish"
  <2>1. /\ findings = SuppressResolved(reps, memory).findings
        /\ suppressed = SuppressResolved(reps, memory).suppressed
    BY <1>2, <1>5 DEF Settled
  <2>2. /\ findings \in Seq(Lowered) /\ suppressed \in Seq(Lowered)
        /\ Range(reps) = Range(findings) \cup Range(suppressed)
        /\ \A f \in Range(findings) : SuppressedBy(f, memory) = <<>>
        /\ \A f \in Range(suppressed) : SuppressedBy(f, memory) # <<>>
    BY <1>1, <2>1, SuppressProperties
  <2>3. QED
    BY <1>1, <2>2
<1>6. QED
  BY <1>3, <1>4, <1>5

LEMMA NothingIsSwallowed ==
  ASSUME ReviewInv, Settled
  PROVE  NothingSwallowed
<1> SUFFICES ASSUME phase \in {"recall", "publish"} PROVE NothingSwallowed
  BY DEF NothingSwallowed
<1> DEFINE sharded == Sharded
           Same(e, g) == DedupeKey(e[2]) = DedupeKey(g.finding)
<1>1. ASSUME Len(Answered) > 1
      PROVE  /\ \A g \in Range(groups) : \E e \in DOMAIN sharded :
                  /\ sharded[e][2] = g.finding
                  /\ \A d \in DOMAIN sharded : Same(sharded[d], g) =>
                       \/ sharded[d][2].severity > g.finding.severity
                       \/ sharded[d][2].severity = g.finding.severity /\ d >= e
             /\ \A e \in Range(sharded) : \E g \in Range(groups) :
                  Same(e, g) /\ e[1] \in g.shardHits
  <2>1. sharded \in Seq((DOMAIN Answered) \X Made)
    BY ShardedProperties
  <2>2. groups = MergeFindings(sharded)
    BY <1>1 DEF Settled, Gathered
  <2>3. DOMAIN sharded = 1..Len(sharded)
    BY <2>1
  <2> HIDE DEF sharded
  <2>4. Merged(DOMAIN Answered, Made, sharded, Len(sharded), groups)
    BY <2>1, <2>2, MadeAreRanked, MergeProperties
  <2>5. ASSUME NEW g \in Range(groups)
        PROVE  \E e \in DOMAIN sharded :
                  /\ sharded[e][2] = g.finding
                  /\ \A d \in DOMAIN sharded : Same(sharded[d], g) =>
                       \/ sharded[d][2].severity > g.finding.severity
                       \/ sharded[d][2].severity = g.finding.severity /\ d >= e
    <3>1. PICK h \in DOMAIN groups : g = groups[h]
      BY DEF Range
    <3>2. PICK e \in 1..Len(sharded) : Leads(sharded, Len(sharded), groups[h].finding, e)
      BY <2>4 DEF Merged
    <3>3. QED
      BY <2>3, <3>1, <3>2 DEF Leads, Alike
  <2>6. ASSUME NEW e \in Range(sharded)
        PROVE  \E g \in Range(groups) : Same(e, g) /\ e[1] \in g.shardHits
    <3>1. PICK d \in 1..Len(sharded) : e = sharded[d]
      BY <2>3 DEF Range
    <3>2. PICK h \in DOMAIN groups : Alike(e[2], groups[h].finding) /\ e[1] \in groups[h].shardHits
      BY <2>4, <3>1 DEF Merged, HasGroup
    <3>3. groups[h] \in Range(groups)
      BY DEF Range
    <3>4. QED
      BY <3>2, <3>3 DEF Alike
  <2>7. QED
    BY <2>5, <2>6
<1>2. \A k \in DOMAIN Answered :
         /\ Len(Answered[k].proposals) = Len(Valid(k).findings) + Len(Valid(k).discarded)
         /\ \A f \in Range(Accepted[k]) :
              \E report \in Range(findings) \cup Range(suppressed) : StandsFor(report, f)
  <2> TAKE k \in DOMAIN Answered
  <2>1. Accepted[k] = Valid(k).findings
    BY DEF Accepted
  <2>2. QED
    BY <2>1, ValidProperties, ReportProperties
<1>3. QED
  BY <1>1, <1>2, Zenon DEF NothingSwallowed

\* Whatever the shards' agents propose, and in whatever order they answer, no proposal is lost: it
\* is refused with a reason, or something at least as severe stands for it in the report or in
\* the list of suppressed findings (validate, mergeFindings, clusterWithinShard).
THEOREM EveryProposalAnswered == ReviewSpec => []NothingSwallowed
<1>1. ReviewInv /\ Settled => NothingSwallowed
  BY NothingIsSwallowed
<1>2. QED
  BY <1>1, SettledInvariance, PTL

-----------------------------------------------------------------------------
(***************************************************************************)
(* The diff: whatever the lines of a change look like, the files that a    *)
(* forge's diff holds are inside the repository, and so are their former   *)
(* names.                                                                  *)
(***************************************************************************)
FileIsInside(file) ==
  /\ IsList(file.path) /\ IsSafeRelativePath(file.path)
  /\ IsList(file.previousPath)
  /\ file.previousPath = NoPath \/ IsSafeRelativePath(file.previousPath)

DiffIsInside(diffs) == IsList(diffs) /\ \A i \in DOMAIN diffs : FileIsInside(diffs[i])

LEMMA SafeProperties ==
  ASSUME NEW path, IsList(path)
  PROVE  IsList(Safe(path)) /\ (Safe(path) = NoPath \/ IsSafeRelativePath(Safe(path)))
<1>1. IsList(NoPath)
  BY DEF NoPath, IsList
<1>2. QED
  BY <1>1 DEF Safe

LEMMA NoPathIsNotSafe == ~IsSafeRelativePath(NoPath)
BY DEF IsSafeRelativePath, NoPath

\* The files of a diff are those at some places of what the forge shows, each at its own.
LEMMA FilesOfDiff ==
  ASSUME NEW change, IsChange(change), NEW forge, NEW diffs, IsDiffOf(diffs, change, forge)
  PROVE  /\ IsList(diffs) /\ DOMAIN diffs = DOMAIN IdsOf(change)
         /\ \A k \in DOMAIN diffs :
              /\ IdsOf(change)[k] \in DOMAIN change /\ IsFile(change[IdsOf(change)[k]])
              /\ IsSafeRelativePath(change[IdsOf(change)[k]].path)
              /\ IsDiffFileOf(diffs[k], change[IdsOf(change)[k]], forge)
         /\ \A j, k \in DOMAIN diffs : IdsOf(change)[j] = IdsOf(change)[k] => j = k
<1> DEFINE ids    == IdsOf(change)
           inside == Picked(change, Inside(change))
<1>1. IsList(change) /\ \A i \in DOMAIN change : IsFile(change[i])
  BY DEF IsChange
<1>2. DOMAIN inside = DOMAIN ids /\ \A k \in DOMAIN ids : inside[k] = change[ids[k]]
  BY <1>1, InsidePicked
<1>3. /\ \A k \in DOMAIN ids : ids[k] \in DOMAIN change /\ IsSafeRelativePath(change[ids[k]].path)
      /\ \A j, k \in DOMAIN ids : ids[j] = ids[k] => j = k
  BY <1>1, InsidePlaces
<1>4. IsList(diffs) /\ DOMAIN diffs = DOMAIN inside /\ \A k \in DOMAIN inside : IsDiffFileOf(diffs[k], inside[k], forge)
  BY DEF IsDiffOf, Inside
<1> HIDE DEF ids, inside
<1>5. \A k \in DOMAIN diffs : /\ ids[k] \in DOMAIN change /\ IsFile(change[ids[k]])
                              /\ IsSafeRelativePath(change[ids[k]].path)
                              /\ IsDiffFileOf(diffs[k], change[ids[k]], forge)
  BY <1>1, <1>2, <1>3, <1>4
<1>6. QED
  BY <1>2, <1>3, <1>4, <1>5 DEF ids

LEMMA DiffOfIsInside ==
  ASSUME NEW change, IsChange(change), NEW forge, NEW diffs, IsDiffOf(diffs, change, forge)
  PROVE  DiffIsInside(diffs)
<1>1. ASSUME NEW k \in DOMAIN diffs PROVE FileIsInside(diffs[k])
  <2> DEFINE file == change[IdsOf(change)[k]]
             d    == diffs[k]
  <2>1. IsFile(file) /\ IsSafeRelativePath(file.path) /\ IsDiffFileOf(d, file, forge)
    BY FilesOfDiff
  <2> HIDE DEF file, d
  <2>2. d.path = file.path /\ d.previousPath = Safe(file.renamedFrom)
    BY <2>1 DEF IsDiffFileOf
  <2>3. IsList(file.path) /\ IsList(file.renamedFrom)
    BY <2>1 DEF IsFile
  <2>4. FileIsInside(d)
    BY <2>1, <2>2, <2>3, SafeProperties DEF FileIsInside
  <2>5. QED
    BY <2>4 DEF d
<1>2. IsList(diffs)
  BY FilesOfDiff
<1>3. QED
  BY <1>1, <1>2 DEF DiffIsInside

-----------------------------------------------------------------------------
(* Anchors. *)

NewHit(file, line) == \E h \in Range(file.hunks) : InRange(line, h.newStart, h.newLines)
OldHit(file, line) == \E h \in Range(file.hunks) : InRange(line, h.oldStart, h.oldLines)
NameOnLeft(file) == IF file.previousPath = NoPath THEN file.path ELSE file.previousPath

\* Where a place is anchored, given the file of the diff that its path names.
PlaceIn(file, line) ==
  IF file.binary THEN Fallback(file.path, line)
  ELSE IF NewHit(file, line) THEN Anchor(file.path, line, "right")
  ELSE IF OldHit(file, line) THEN Anchor(NameOnLeft(file), line, "left")
  ELSE Fallback(file.path, line)

Naming_(diffs, path) == {i \in DOMAIN diffs : path \in {diffs[i].path, diffs[i].previousPath}}

LEMMA ResolveIsPlaceIn ==
  ASSUME NEW diffs, NEW path, NEW line
  PROVE  Resolve(diffs, path, line) =
           IF Naming_(diffs, path) = {} THEN Fallback(path, line)
           ELSE PlaceIn(FirstAt(diffs, Naming_(diffs, path)), line)
BY DEF Resolve, Naming_, PlaceIn, NewHit, OldHit, NameOnLeft

\* Each name of the diff is that of one file.
NamesOf(file) == {file.path, file.previousPath} \ {NoPath}
NamesApart(diffs) ==
  \A i, j \in DOMAIN diffs : NamesOf(diffs[i]) \cap NamesOf(diffs[j]) # {} => i = j

\* No two files of a change share a name.
OldAndNew(file) == {file.path, OldName(file)}
FilesApart(change) ==
  \A f, g \in DOMAIN change : f # g => OldAndNew(change[f]) \cap OldAndNew(change[g]) = {}

LEMMA DiffOfIsApart ==
  ASSUME NEW change, IsChange(change), FilesApart(change), NEW forge, NEW diffs, IsDiffOf(diffs, change, forge)
  PROVE  NamesApart(diffs)
<1> DEFINE ids == IdsOf(change)
<1>1. ASSUME NEW k \in DOMAIN diffs
      PROVE  ids[k] \in DOMAIN change /\ NamesOf(diffs[k]) \subseteq OldAndNew(change[ids[k]])
  <2> DEFINE file == change[ids[k]]
             d    == diffs[k]
  <2>1. ids[k] \in DOMAIN change /\ IsDiffFileOf(d, file, forge)
    BY FilesOfDiff
  <2> HIDE DEF file, d
  <2>2. d.path = file.path /\ d.previousPath = Safe(file.renamedFrom)
    BY <2>1 DEF IsDiffFileOf
  <2>3. d.previousPath # NoPath => d.previousPath = OldName(file)
    BY <2>2 DEF Safe, OldName
  <2>4. NamesOf(d) \subseteq OldAndNew(file)
    BY <2>2, <2>3 DEF NamesOf, OldAndNew
  <2>5. QED
    BY <2>1, <2>4 DEF file, d
<1>2. \A j, k \in DOMAIN diffs : ids[j] = ids[k] => j = k
  BY FilesOfDiff
<1> HIDE DEF ids
<1>3. ASSUME NEW j \in DOMAIN diffs, NEW k \in DOMAIN diffs, NamesOf(diffs[j]) \cap NamesOf(diffs[k]) # {}
      PROVE  j = k
  <2>1. OldAndNew(change[ids[j]]) \cap OldAndNew(change[ids[k]]) # {}
    BY <1>1, <1>3
  <2>2. ids[j] = ids[k]
    BY <1>1, <2>1 DEF FilesApart
  <2>3. QED
    BY <1>2, <2>2
<1>4. QED
  BY <1>3 DEF NamesApart

\* The hunks of the files that a name may stand for, as ReportedAreSound collects them.
HunksAt(diffs, path) ==
  UNION {Range(d.hunks) : d \in {e \in Range(diffs) :
                                   ~e.binary /\ path \in {e.path, e.previousPath}}}

AnchorIsSound(diffs, a) ==
  LET New == \E h \in HunksAt(diffs, a.path) : InRange(a.line, h.newStart, h.newLines)
      Old == \E h \in HunksAt(diffs, a.path) : InRange(a.line, h.oldStart, h.oldLines)
  IN  /\ a.anchored <=> New \/ Old
      /\ a.anchored => (a.side = "right" <=> New)

LEMMA HunksOfNone ==
  ASSUME NEW diffs, NEW path, Naming_(diffs, path) = {}
  PROVE  HunksAt(diffs, path) = {}
<1>1. \A e \in Range(diffs) : path \notin {e.path, e.previousPath}
  BY DEF Naming_, Range
<1>2. QED
  BY <1>1 DEF HunksAt

LEMMA HunksOfOne ==
  ASSUME NEW diffs, NamesApart(diffs), NEW i \in DOMAIN diffs, NEW path \in NamesOf(diffs[i])
  PROVE  HunksAt(diffs, path) = IF diffs[i].binary THEN {} ELSE Range(diffs[i].hunks)
<1> DEFINE file == diffs[i]
<1>1. file \in Range(diffs) /\ path \in {file.path, file.previousPath} /\ path # NoPath
  BY DEF Range, NamesOf
<1>2. \A e \in Range(diffs) : path \in {e.path, e.previousPath} => e = file
  <2> TAKE e \in Range(diffs)
  <2> SUFFICES ASSUME path \in {e.path, e.previousPath} PROVE e = file
    OBVIOUS
  <2>1. PICK j \in DOMAIN diffs : e = diffs[j]
    BY DEF Range
  <2>2. path \in NamesOf(diffs[i]) \cap NamesOf(diffs[j])
    BY <1>1, <2>1 DEF NamesOf
  <2>3. i = j
    BY <2>2 DEF NamesApart
  <2>4. QED
    BY <2>1, <2>3
<1> HIDE DEF file
<1>3. {e \in Range(diffs) : ~e.binary /\ path \in {e.path, e.previousPath}}
        = IF file.binary THEN {} ELSE {file}
  BY <1>1, <1>2
<1>4. HunksAt(diffs, path) = IF file.binary THEN {} ELSE Range(file.hunks)
  BY <1>3 DEF HunksAt
<1>5. QED
  BY <1>4 DEF file

LEMMA PlaceInProperties ==
  ASSUME NEW diffs, DiffIsInside(diffs), NEW i \in DOMAIN diffs, NEW line
  PROVE  LET a == PlaceIn(diffs[i], line)
         IN  /\ IsList(a.path) /\ IsSafeRelativePath(a.path) /\ a.line = line
             /\ NamesApart(diffs) => AnchorIsSound(diffs, a)
<1> DEFINE file == diffs[i]
           a    == PlaceIn(file, line)
           left == NameOnLeft(file)
<1>1. /\ IsList(file.path) /\ IsSafeRelativePath(file.path) /\ file.path # NoPath
      /\ IsList(left) /\ IsSafeRelativePath(left) /\ left # NoPath
      /\ left \in {file.path, file.previousPath}
  BY NoPathIsNotSafe DEF DiffIsInside, FileIsInside, NameOnLeft
<1>2. file.path \in NamesOf(file) /\ left \in NamesOf(file)
  BY <1>1 DEF NamesOf
<1> DEFINE Textual == ~file.binary
<1>3. \A path \in NamesOf(file) : NamesApart(diffs) =>
        /\ (\E h \in HunksAt(diffs, path) : InRange(line, h.newStart, h.newLines))
              <=> Textual /\ NewHit(file, line)
        /\ (\E h \in HunksAt(diffs, path) : InRange(line, h.oldStart, h.oldLines))
              <=> Textual /\ OldHit(file, line)
  <2> TAKE path \in NamesOf(file)
  <2> SUFFICES ASSUME NamesApart(diffs)
               PROVE  /\ (\E h \in HunksAt(diffs, path) : InRange(line, h.newStart, h.newLines))
                            <=> Textual /\ NewHit(file, line)
                      /\ (\E h \in HunksAt(diffs, path) : InRange(line, h.oldStart, h.oldLines))
                            <=> Textual /\ OldHit(file, line)
    OBVIOUS
  <2>1. HunksAt(diffs, path) = IF file.binary THEN {} ELSE Range(file.hunks)
    BY HunksOfOne
  <2> HIDE DEF file
  <2>2. QED
    BY <2>1 DEF NewHit, OldHit
<1> HIDE DEF file, left
<1>4. CASE file.binary \/ (~NewHit(file, line) /\ ~OldHit(file, line))
  <2>1. a = Fallback(file.path, line)
    BY <1>4 DEF PlaceIn
  <2> HIDE DEF a
  <2>2. a.path = file.path /\ a.line = line /\ ~a.anchored
    BY <2>1 DEF Fallback
  <2>3. NamesApart(diffs) => AnchorIsSound(diffs, a)
    BY <1>2, <1>3, <1>4, <2>2 DEF AnchorIsSound
  <2>4. QED
    BY <1>1, <2>2, <2>3 DEF a, file
<1>5. CASE Textual /\ NewHit(file, line)
  <2>1. a = Anchor(file.path, line, "right")
    BY <1>5 DEF PlaceIn
  <2> HIDE DEF a
  <2>2. a.path = file.path /\ a.line = line /\ a.anchored /\ a.side = "right"
    BY <2>1 DEF Anchor
  <2>3. NamesApart(diffs) => AnchorIsSound(diffs, a)
    BY <1>2, <1>3, <1>5, <2>2 DEF AnchorIsSound
  <2>4. QED
    BY <1>1, <2>2, <2>3 DEF a, file
<1>6. CASE Textual /\ ~NewHit(file, line) /\ OldHit(file, line)
  <2>1. a = Anchor(left, line, "left")
    BY <1>6 DEF PlaceIn, left
  <2> HIDE DEF a
  <2>2. a.path = left /\ a.line = line /\ a.anchored /\ a.side = "left"
    BY <2>1 DEF Anchor
  <2>3. a.side # "right"
    BY <2>2
  <2>4. NamesApart(diffs) => AnchorIsSound(diffs, a)
    BY <1>2, <1>3, <1>6, <2>2, <2>3 DEF AnchorIsSound
  <2>5. QED
    BY <1>1, <2>2, <2>4 DEF a, file
<1>7. QED
  BY <1>4, <1>5, <1>6

\* Wherever an agent says a finding is, its anchor is inside the repository, at the line it was
\* said to be at, and in the diff exactly when the line is.
LEMMA ResolveProperties ==
  ASSUME NEW diffs, DiffIsInside(diffs), NEW path, IsList(path), IsSafeRelativePath(path), NEW line
  PROVE  LET a == Resolve(diffs, path, line)
         IN  /\ IsList(a.path) /\ IsSafeRelativePath(a.path) /\ a.line = line
             /\ NamesApart(diffs) => AnchorIsSound(diffs, a)
<1> DEFINE a     == Resolve(diffs, path, line)
           named == Naming_(diffs, path)
<1>1. CASE named = {}
  <2>1. a = Fallback(path, line)
    BY <1>1, ResolveIsPlaceIn
  <2> HIDE DEF a
  <2>2. a.path = path /\ a.line = line /\ ~a.anchored
    BY <2>1 DEF Fallback
  <2>3. HunksAt(diffs, path) = {}
    BY <1>1, HunksOfNone
  <2>4. AnchorIsSound(diffs, a)
    BY <2>2, <2>3 DEF AnchorIsSound
  <2>5. QED
    BY <2>2, <2>4 DEF a
<1>2. CASE named # {}
  <2> DEFINE first == Min(named)
  <2>1. DOMAIN diffs \in SUBSET Nat
    BY ListElements DEF DiffIsInside
  <2>2. named \in SUBSET Nat /\ named \subseteq DOMAIN diffs
    BY <2>1 DEF Naming_
  <2>3. a = PlaceIn(diffs[first], line)
    BY <1>2, ResolveIsPlaceIn DEF FirstAt
  <2> HIDE DEF named
  <2>4. first \in DOMAIN diffs
    BY <1>2, <2>2, LeastNatural DEF Min
  <2> HIDE DEF first, a
  <2>5. QED
    BY <2>3, <2>4, PlaceInProperties DEF a
<1>3. QED
  BY <1>1, <1>2

\* What a forge shows of an input is a change, and no two files of it share a name.
LEMMA ShownIsChange ==
  ASSUME NEW i \in Inputs
  PROVE  /\ IsChange(i.change) /\ i.forge \in {"github", "gitlab", "local"}
         /\ IsChange(Shows(i.forge, i.change)) /\ FilesApart(Shows(i.forge, i.change))
<1> DEFINE change == i.change
           paged  == Paged(change)
<1>1. /\ i.forge \in {"github", "gitlab", "local"} /\ IsList(change)
      /\ \A file \in Range(change) : IsFile(file)
      /\ \A f, g \in DOMAIN change :
           f # g => {change[f].path, OldName(change[f])} \cap {change[g].path, OldName(change[g])} = {}
  BY InputsAreReal DEF InputsAreReal
<1> HIDE DEF change
<1>2. IsChange(change) /\ FilesApart(change)
  BY <1>1, ListElements DEF IsChange, FilesApart, OldAndNew
<1>3. IsChange(paged)
  BY <1>2, PagedIsChange
<1>4. DOMAIN paged = 1..Len(paged) /\ \A k \in 1..Len(paged) : k \in DOMAIN change /\ paged[k] = change[k]
  BY <1>1, PagedProperties
<1> HIDE DEF paged
<1>5. FilesApart(paged)
  BY <1>2, <1>4 DEF FilesApart
<1>6. QED
  BY <1>1, <1>2, <1>3, <1>5 DEF Shows, change, paged

\* The diff of a run is that of the change, whatever was fetched.
LEMMA FetchedIsWhole ==
  ASSUME NEW i \in Inputs
  PROVE  LET diffs == FetchDiff(i.forge, i.change)
         IN  IsDiffOf(diffs, Shows(i.forge, i.change), i.forge) /\ DiffIsInside(diffs) /\ NamesApart(diffs)
<1> DEFINE diffs == FetchDiff(i.forge, i.change)
           shown == Shows(i.forge, i.change)
<1>1. IsChange(shown) /\ FilesApart(shown) /\ IsDiffOf(diffs, shown, i.forge)
  BY ShownIsChange, ForgesShowTheChange
<1> HIDE DEF diffs, shown
<1>2. DiffIsInside(diffs) /\ NamesApart(diffs)
  BY <1>1, DiffOfIsInside, DiffOfIsApart
<1>3. QED
  BY <1>1, <1>2 DEF diffs, shown

LEMMA HeldDiffIsInside ==
  ASSUME ReviewInv, Settled
  PROVE  DiffIsInside(diff) /\ NamesApart(diff)
<1>1. input \in Inputs
  BY DEF ReviewInv
<1>2. CASE diff = <<>>
  <2>1. IsList(<<>>) /\ DOMAIN <<>> = {}
    BY DEF IsList
  <2>2. QED
    BY <1>2, <2>1 DEF DiffIsInside, NamesApart
<1>3. CASE diff = FetchDiff(input.forge, input.change)
  BY <1>1, <1>3, FetchedIsWhole
<1>4. QED
  BY <1>2, <1>3 DEF Settled

LEMMA WholeDiff ==
  ASSUME ReviewInv, Settled
  PROVE  DiffIsWhole
<1> SUFFICES ASSUME phase \notin {"diff", "threw"} PROVE IsDiffOf(diff, Shows(input.forge, input.change), input.forge)
  BY DEF DiffIsWhole, Shows
<1>1. input \in Inputs /\ diff = FetchDiff(input.forge, input.change)
  BY DEF ReviewInv, Settled
<1>2. QED
  BY <1>1, FetchedIsWhole

\* Whatever the forge and the change, a review goes on only with the whole diff, every hunk under the
\* name of its file, but for the files beyond GitHub's pages and the hunks of a file over GitHub's
\* size cap, which is then there as a binary one, never in part (fetchDiff, parseHunks,
\* splitFileSections, parseFileSection).
THEOREM ReviewedDiffIsWhole == ReviewSpec => []DiffIsWhole
<1>1. ReviewInv /\ Settled => DiffIsWhole
  BY WholeDiff
<1>2. QED
  BY <1>1, SettledInvariance, PTL

-----------------------------------------------------------------------------
(* What maintainers accepted. *)

LEMMA MemoryIsKnown ==
  ASSUME Settled
  PROVE  IsList(memory) /\ \A e \in Range(memory) : IsException(e)
<1>1. CASE memory = <<>>
  <2>1. IsList(<<>>) /\ Range(<<>>) = {}
    BY DEF IsList, Range
  <2>2. QED
    BY <1>1, <2>1
<1>2. CASE memory \in Memories
  BY <1>2, MemoriesAreReal DEF MemoriesAreReal
<1>3. QED
  BY <1>1, <1>2 DEF Settled

-----------------------------------------------------------------------------
(* What a report holds. *)

LEMMA LoweredAreSound ==
  ASSUME ReviewInv, Settled, NEW f \in Lowered
  PROVE  /\ InvariantHolds(f) /\ ~ExceedsSizeCap(f)
         /\ IsList(f.anchor.path)
         /\ NamesApart(diff) => AnchorIsSound(diff, f.anchor)
<1>1. f.severity \in Severity
  BY LoweredAreFindings DEF AFinding
<1>2. PICK q \in Made : SameButSeverity(f, q) /\ q.severity <= f.severity
  BY LoweredAreFindings
<1>3. q.severity \in Severity /\ ~ExceedsSizeCap(q)
  BY MadeAreFindings DEF AFinding
<1>4. PICK answer \in Answers : \E raw \in Range(answer.proposals) : ComesFrom(q, raw, diff)
  BY MadeAreFindings
<1>5. PICK raw \in Range(answer.proposals) : ComesFrom(q, raw, diff)
  BY <1>4
<1>6. IsProposal(raw) /\ PlaceRejection(raw) = NoText /\ NarrowRejection(raw) = NoText
  BY <1>5 DEF ComesFrom
<1>7. IsSafeRelativePath(raw.path) /\ raw.line > 0 /\ IsList(raw.path)
  BY <1>6, PlacePasses DEF IsProposal
<1>8. raw.title.length > 0 /\ raw.body > 0
  BY <1>6, NarrowingPasses
<1> DEFINE a == f.anchor
           path == raw.path
           line == raw.line
<1>9. a = Resolve(diff, path, line)
  BY <1>2, <1>5 DEF ComesFrom, SameButSeverity
<1> HIDE DEF path, line
<1>10. DiffIsInside(diff) /\ IsList(path) /\ IsSafeRelativePath(path)
  BY <1>7, HeldDiffIsInside DEF path
<1> HIDE DEF a
<1>11. /\ IsList(a.path) /\ IsSafeRelativePath(a.path) /\ a.line = line
       /\ NamesApart(diff) => AnchorIsSound(diff, a)
  BY <1>9, <1>10, ResolveProperties
<1>12. f.title = raw.title /\ f.body = raw.body /\ f.title = q.title /\ f.body = q.body
       /\ f.scenario = q.scenario /\ (q.severity = Blocker => q.scenario)
  BY <1>2, <1>5 DEF ComesFrom, SameButSeverity
<1>13. f.severity = Blocker => q.severity = Blocker
  BY <1>1, <1>2, <1>3 DEF Severity, Blocker, Info
<1>14. f.title.length > 0 /\ f.body > 0
  BY <1>8, <1>12
<1>15. IsSafeRelativePath(a.path) /\ a.line > 0
  BY <1>7, <1>11 DEF line
<1>16. InvariantHolds(f)
  BY <1>1, <1>12, <1>13, <1>14, <1>15 DEF InvariantHolds, a
<1>17. ~ExceedsSizeCap(f)
  BY <1>3, <1>12 DEF ExceedsSizeCap
<1>18. QED
  BY <1>11, <1>16, <1>17 DEF a

LEMMA ReportedAreLowered ==
  ASSUME ReviewInv, Settled
  PROVE  Range(findings) \subseteq Lowered /\ Range(suppressed) \subseteq Lowered
<1>1. findings \in Seq(Lowered) /\ suppressed \in Seq(Lowered)
  BY ReportProperties
<1>2. QED
  BY <1>1 DEF Range

LEMMA SuppressionIsAcceptance ==
  ASSUME ReviewInv, Settled
  PROVE  SuppressedIffAccepted
<1> SUFFICES ASSUME phase = "publish" PROVE SuppressedIffAccepted
  BY DEF SuppressedIffAccepted
<1>1. /\ \A f \in Range(findings) : SuppressedBy(f, memory) = <<>>
      /\ \A f \in Range(suppressed) : SuppressedBy(f, memory) # <<>>
  BY ReportProperties
<1>2. IsList(memory) /\ \A e \in Range(memory) : IsException(e)
  BY MemoryIsKnown
<1>3. \A f \in Lowered : Len(f.anchor.path) \in Nat
  BY LoweredAreSound, ListElements
<1>4. \A f \in Lowered : \A e \in Range(memory) : Covers(e, f) <=> Accepts(e, f)
  BY <1>2, <1>3, CoversIffAccepts
<1>5. \A f \in Lowered : SuppressedBy(f, memory) # <<>> <=> \E e \in Range(memory) : Accepts(e, f)
  <2> TAKE f \in Lowered
  <2>1. SuppressedBy(f, memory) # <<>> <=> \E e \in Range(memory) : Covers(e, f)
    BY <1>2, SuppressedByProperties
  <2>2. QED
    BY <1>4, <2>1
<1>6. QED
  BY <1>1, <1>5, ReportedAreLowered DEF SuppressedIffAccepted

\* What a maintainer accepted, by name, by its rule or by a pattern that means its path, is exactly
\* what is suppressed, whatever the memory holds and whatever was found (suppressResolved,
\* matchWildcard, matchesGlob).
THEOREM AcceptedIsSuppressed == ReviewSpec => []SuppressedIffAccepted
<1>1. ReviewInv /\ Settled => SuppressedIffAccepted
  BY SuppressionIsAcceptance
<1>2. QED
  BY <1>1, SettledInvariance, PTL

LEMMA ReportIsSound ==
  ASSUME ReviewInv, Settled
  PROVE  ReportedAreSound
<1> SUFFICES ASSUME NEW f \in Range(findings) \cup Range(suppressed)
             PROVE  LET a == f.anchor
                        hunks == UNION {Range(d.hunks) : d \in {e \in Range(diff) :
                                          ~e.binary /\ a.path \in {e.path, e.previousPath}}}
                        New == \E h \in hunks : InRange(a.line, h.newStart, h.newLines)
                        Old == \E h \in hunks : InRange(a.line, h.oldStart, h.oldLines)
                    IN  /\ InvariantHolds(f) /\ ~ExceedsSizeCap(f)
                        /\ a.anchored <=> New \/ Old
                        /\ a.anchored => (a.side = "right" <=> New)
  BY DEF ReportedAreSound
<1>1. f \in Lowered
  BY ReportedAreLowered
<1>2. InvariantHolds(f) /\ ~ExceedsSizeCap(f) /\ AnchorIsSound(diff, f.anchor)
  BY <1>1, LoweredAreSound, HeldDiffIsInside
<1>3. QED
  BY <1>2 DEF AnchorIsSound, HunksAt

\* Every reported finding says how a blocker fails, is within the caps, and is anchored exactly when
\* its line is in a hunk, on the new side when it can be (narrowProposal, resolve,
\* findingInvariantViolation).
THEOREM ReportIsAnchored == ReviewSpec => []ReportedAreSound
<1>1. ReviewInv /\ Settled => ReportedAreSound
  BY ReportIsSound
<1>2. QED
  BY <1>1, SettledInvariance, PTL

-----------------------------------------------------------------------------
(***************************************************************************)
(* Packing cuts the chunks into shards.                                    *)
(***************************************************************************)
AreChunks(C) == \A c \in C : c.bytes \in Nat

ShardSet(C) ==
  [index : Nat, files : SUBSET {c.path : c \in C}, chunks : Seq(C), truncated : BOOLEAN]
PackingStates(C) == [shards : Seq(ShardSet(C)), packed : Seq(C), startsMidFile : BOOLEAN]

\* The chunks before and behind a cut are those of one file.
WithinFile(chunks, k) == k \in 1..(Len(chunks) - 1) /\ chunks[k].path = chunks[k + 1].path

WithinBudget(packed, budget) == BytesOf(packed) <= budget \/ Len(packed) = 1

\* What a shard is that holds the chunks between two cuts.
IsShardOf(shard, chunks, from, to, budget) ==
  /\ Len(shard.chunks) # 0 /\ to = from + Len(shard.chunks)
  /\ \A j \in 1..Len(shard.chunks) : shard.chunks[j] = chunks[from + j]
  /\ shard.files = {shard.chunks[i].path : i \in DOMAIN shard.chunks}
  /\ WithinBudget(shard.chunks, budget)
  /\ shard.truncated <=> WithinFile(chunks, from) \/ WithinFile(chunks, to)

Cut(chunks, shards, cut, budget) ==
  /\ cut \in [0..Len(shards) -> 0..Len(chunks)] /\ cut[0] = 0
  /\ \A s \in 1..Len(shards) : IsShardOf(shards[s], chunks, cut[s - 1], cut[s], budget)

\* The first n chunks are in the shards and in what is packed.
Packing(chunks, n, acc, budget) ==
  \E cut :
    LET last == cut[Len(acc.shards)]
    IN  /\ Cut(chunks, acc.shards, cut, budget)
        /\ n = last + Len(acc.packed)
        /\ \A j \in 1..Len(acc.packed) : acc.packed[j] = chunks[last + j]
        /\ acc.packed # <<>> => WithinBudget(acc.packed, budget)
        /\ acc.startsMidFile <=> WithinFile(chunks, last)

LEMMA FlushTypes ==
  ASSUME NEW C, NEW acc \in PackingStates(C), NEW mid \in BOOLEAN
  PROVE  Flush(acc, mid) \in PackingStates(C)
<1>1. acc.shards \in Seq(ShardSet(C)) /\ acc.packed \in Seq(C) /\ acc.startsMidFile \in BOOLEAN
  BY DEF PackingStates
<1> DEFINE shard == ShardOf(Len(acc.shards), acc.packed, acc.startsMidFile \/ mid)
<1>2. shard \in ShardSet(C)
  <2>1. Len(acc.shards) \in Nat /\ (acc.startsMidFile \/ mid) \in BOOLEAN
    BY <1>1
  <2>2. {acc.packed[i].path : i \in DOMAIN acc.packed} \in SUBSET {c.path : c \in C}
    BY <1>1
  <2>3. QED
    BY <1>1, <2>1, <2>2 DEF ShardOf, ShardSet
<1> HIDE DEF shard
<1>3. Append(acc.shards, shard) \in Seq(ShardSet(C)) /\ <<>> \in Seq(C)
  BY <1>1, <1>2
<1>4. [shards |-> Append(acc.shards, shard), packed |-> <<>>, startsMidFile |-> mid] \in PackingStates(C)
  BY <1>3 DEF PackingStates
<1>5. QED
  BY <1>4 DEF Flush, shard

\* A flush makes a shard of what is packed; `mid` says whether the file goes on.
LEMMA FlushPacks ==
  ASSUME NEW C, AreChunks(C), NEW chunks \in Seq(C), NEW budget \in Int,
         NEW n \in 0..Len(chunks), NEW acc \in PackingStates(C),
         Packing(chunks, n, acc, budget), acc.packed # <<>>,
         NEW mid \in BOOLEAN, mid <=> WithinFile(chunks, n)
  PROVE  LET flushed == Flush(acc, mid)
         IN  flushed.packed = <<>> /\ Packing(chunks, n, flushed, budget)
<1> DEFINE L     == Len(acc.shards)
           shard == ShardOf(L, acc.packed, acc.startsMidFile \/ mid)
           more  == Append(acc.shards, shard)
           flushed == Flush(acc, mid)
<1>1. /\ acc.shards \in Seq(ShardSet(C)) /\ acc.packed \in Seq(C) /\ acc.startsMidFile \in BOOLEAN
      /\ L \in Nat /\ Len(acc.packed) \in Nat \ {0}
  BY DEF PackingStates
<1>2. PICK cut : /\ Cut(chunks, acc.shards, cut, budget)
                 /\ n = cut[L] + Len(acc.packed)
                 /\ \A j \in 1..Len(acc.packed) : acc.packed[j] = chunks[cut[L] + j]
                 /\ WithinBudget(acc.packed, budget)
                 /\ acc.startsMidFile <=> WithinFile(chunks, cut[L])
  BY DEF Packing
<1>3. /\ flushed.shards = more /\ flushed.packed = <<>> /\ flushed.startsMidFile = mid
  BY DEF Flush
<1>4. Len(more) = L + 1 /\ more[L + 1] = shard /\ \A s \in 1..L : more[s] = acc.shards[s]
  BY <1>1
<1>5. /\ shard.chunks = acc.packed /\ shard.truncated = (acc.startsMidFile \/ mid)
      /\ shard.files = {acc.packed[i].path : i \in DOMAIN acc.packed}
  BY DEF ShardOf
<1> DEFINE next == [s \in 0..(L + 1) |-> IF s = L + 1 THEN n ELSE cut[s]]
<1>6. next[L + 1] = n /\ \A s \in 0..L : next[s] = cut[s]
  BY <1>1
<1>7. next \in [0..(L + 1) -> 0..Len(chunks)]
  BY <1>1, <1>2 DEF Cut
<1> HIDE DEF L, shard, more, flushed, next
<1>8. next[0] = 0
  BY <1>1, <1>2, <1>6 DEF Cut
<1>9. IsShardOf(shard, chunks, next[L], next[L + 1], budget)
  <2>1. next[L] = cut[L] /\ next[L + 1] = n
    BY <1>1, <1>6
  <2>2. shard.truncated <=> WithinFile(chunks, cut[L]) \/ WithinFile(chunks, n)
    BY <1>2, <1>5
  <2>3. QED
    BY <1>1, <1>2, <1>5, <2>1, <2>2 DEF IsShardOf
<1>10. ASSUME NEW s \in 1..(L + 1) PROVE IsShardOf(more[s], chunks, next[s - 1], next[s], budget)
  <2>1. CASE s = L + 1
    <3>1. s - 1 = L
      BY <1>1, <2>1
    <3>2. QED
      BY <1>4, <1>9, <2>1, <3>1
  <2>2. CASE s \in 1..L
    <3>1. s - 1 \in 0..L /\ s \in 0..L
      BY <1>1, <2>2
    <3>2. next[s - 1] = cut[s - 1] /\ next[s] = cut[s] /\ more[s] = acc.shards[s]
      BY <1>4, <1>6, <2>2, <3>1
    <3>3. IsShardOf(acc.shards[s], chunks, cut[s - 1], cut[s], budget)
      BY <1>2, <2>2 DEF Cut, L
    <3>4. QED
      BY <3>2, <3>3
  <2>3. QED
    BY <1>1, <2>1, <2>2
<1>11. Cut(chunks, more, next, budget)
  BY <1>4, <1>7, <1>8, <1>10 DEF Cut
<1>12. Packing(chunks, n, flushed, budget)
  <2>1. Len(<<>>) = 0 /\ n \in Nat
    OBVIOUS
  <2>2. /\ Cut(chunks, flushed.shards, next, budget)
        /\ n = next[Len(flushed.shards)] + Len(flushed.packed)
        /\ \A j \in 1..Len(flushed.packed) :
             flushed.packed[j] = chunks[next[Len(flushed.shards)] + j]
        /\ flushed.packed = <<>>
        /\ flushed.startsMidFile <=> WithinFile(chunks, next[Len(flushed.shards)])
    BY <1>3, <1>4, <1>6, <1>11, <2>1
  <2>3. QED
    BY <2>2 DEF Packing
<1>13. QED
  BY <1>3, <1>12 DEF flushed

LEMMA PackOnePacks ==
  ASSUME NEW C, AreChunks(C), NEW chunks \in Seq(C), NEW budget \in Int,
         NEW n \in 1..Len(chunks), NEW acc \in PackingStates(C),
         Packing(chunks, n - 1, acc, budget), n = 1 <=> acc.packed = <<>>
  PROVE  LET next == PackOne(acc, chunks[n], budget)
         IN  /\ next \in PackingStates(C) /\ next.packed # <<>>
             /\ Packing(chunks, n, next, budget)
<1> DEFINE chunk == chunks[n]
           mid   == acc.packed # <<>> /\ Last(acc.packed).path = chunk.path
           room  == IF Overflows(acc.packed, chunk, budget) THEN Flush(acc, mid) ELSE acc
           next  == PackOne(acc, chunk, budget)
<1>1. chunk \in C /\ chunk.bytes \in Nat /\ n - 1 \in 0..Len(chunks) /\ Len(chunks) \in Nat
  BY DEF AreChunks
<1>2. acc.shards \in Seq(ShardSet(C)) /\ acc.packed \in Seq(C) /\ acc.startsMidFile \in BOOLEAN
  BY DEF PackingStates
<1>3. next = [room EXCEPT !.packed = Append(@, chunk)]
  BY DEF PackOne
<1> HIDE DEF next
<1>4. mid \in BOOLEAN /\ (acc.packed # <<>> => (mid <=> WithinFile(chunks, n - 1)))
  <2>1. SUFFICES ASSUME acc.packed # <<>> PROVE mid <=> WithinFile(chunks, n - 1)
    OBVIOUS
  <2>2. PICK cut : /\ n - 1 = cut[Len(acc.shards)] + Len(acc.packed)
                   /\ \A j \in 1..Len(acc.packed) : acc.packed[j] = chunks[cut[Len(acc.shards)] + j]
    BY DEF Packing
  <2>3. Last(acc.packed) = acc.packed[Len(acc.packed)] /\ Len(acc.packed) \in 1..Len(acc.packed)
    BY <1>2, <2>1 DEF Last
  <2>4. Last(acc.packed) = chunks[n - 1]
    BY <2>2, <2>3
  <2>5. n - 1 \in 1..(Len(chunks) - 1) /\ n - 1 + 1 = n
    BY <1>1, <2>1
  <2>6. QED
    BY <2>1, <2>4, <2>5 DEF WithinFile
<1> HIDE DEF mid
<1>5. /\ room \in PackingStates(C) /\ Packing(chunks, n - 1, room, budget)
      /\ ~Overflows(room.packed, chunk, budget)
  <2>1. CASE Overflows(acc.packed, chunk, budget)
    <3>1. acc.packed # <<>>
      BY <2>1 DEF Overflows
    <3>2. Flush(acc, mid).packed = <<>> /\ Packing(chunks, n - 1, Flush(acc, mid), budget)
      BY <1>1, <1>4, <3>1, FlushPacks
    <3>3. Flush(acc, mid) \in PackingStates(C)
      BY <1>4, FlushTypes
    <3>4. QED
      BY <2>1, <3>2, <3>3 DEF Overflows
  <2>2. CASE ~Overflows(acc.packed, chunk, budget)
    BY <2>2
  <2>3. QED
    BY <2>1, <2>2
<1> HIDE DEF room
<1>6. /\ room.shards \in Seq(ShardSet(C)) /\ room.packed \in Seq(C) /\ room.startsMidFile \in BOOLEAN
      /\ room = [shards |-> room.shards, packed |-> room.packed, startsMidFile |-> room.startsMidFile]
  BY <1>5 DEF PackingStates
<1> DEFINE packed == Append(room.packed, chunk)
<1>7. next.shards = room.shards /\ next.packed = packed /\ next.startsMidFile = room.startsMidFile
      /\ next = [shards |-> room.shards, packed |-> packed, startsMidFile |-> room.startsMidFile]
  BY <1>3, <1>6
<1>8. /\ packed \in Seq(C) /\ Len(packed) = Len(room.packed) + 1 /\ packed[Len(room.packed) + 1] = chunk
      /\ \A j \in 1..Len(room.packed) : packed[j] = room.packed[j]
      /\ Len(room.packed) \in Nat
  BY <1>1, <1>6
<1>9. WithinBudget(packed, budget)
  <2>1. CASE room.packed = <<>>
    BY <1>8, <2>1 DEF WithinBudget
  <2>2. CASE room.packed # <<>>
    <3>1. ~(BytesOf(room.packed) + chunk.bytes > budget)
      BY <1>5, <2>2 DEF Overflows
    <3>2. BytesOf(packed) = BytesOf(room.packed) + chunk.bytes /\ BytesOf(room.packed) \in Nat
      BY <1>1, <1>6, BytesAppend DEF AreChunks
    <3>3. BytesOf(packed) <= budget
      BY <1>1, <3>1, <3>2
    <3>4. QED
      BY <3>3 DEF WithinBudget
  <2>3. QED
    BY <2>1, <2>2
<1> HIDE DEF packed, chunk
<1>10. PICK cut : /\ Cut(chunks, room.shards, cut, budget)
                  /\ n - 1 = cut[Len(room.shards)] + Len(room.packed)
                  /\ \A j \in 1..Len(room.packed) :
                       room.packed[j] = chunks[cut[Len(room.shards)] + j]
                  /\ room.startsMidFile <=> WithinFile(chunks, cut[Len(room.shards)])
  BY <1>5 DEF Packing
<1> DEFINE last == cut[Len(room.shards)]
<1>11. last \in 0..Len(chunks)
  BY <1>6, <1>10 DEF Cut
<1>12. n = last + Len(packed)
  <2>1. n - 1 = last + Len(room.packed)
    BY <1>10
  <2> HIDE DEF last
  <2>2. QED
    BY <1>1, <1>8, <1>11, <2>1
<1>13. ASSUME NEW j \in 1..Len(packed) PROVE packed[j] = chunks[last + j]
  <2>1. CASE j \in 1..Len(room.packed)
    BY <1>8, <1>10, <2>1
  <2>2. CASE j = Len(room.packed) + 1
    <3>1. last + j = n
      BY <1>8, <1>12, <2>2
    <3>2. QED
      BY <1>8, <2>2, <3>1 DEF chunk
  <2>3. QED
    BY <1>8, <2>1, <2>2
<1>14. Packing(chunks, n, next, budget)
  BY <1>7, <1>9, <1>10, <1>12, <1>13 DEF Packing
<1>15. next \in PackingStates(C) /\ next.packed # <<>>
  <2>1. next.packed # <<>>
    BY <1>7, <1>8
  <2>2. next \in PackingStates(C)
    BY <1>6, <1>7, <1>8 DEF PackingStates
  <2>3. QED
    BY <2>1, <2>2
<1>16. QED
  BY <1>14, <1>15 DEF next, chunk

LEMMA PackOneTypes ==
  ASSUME NEW C, NEW acc \in PackingStates(C), NEW chunk \in C, NEW budget
  PROVE  PackOne(acc, chunk, budget) \in PackingStates(C)
<1> DEFINE mid  == acc.packed # <<>> /\ Last(acc.packed).path = chunk.path
           room == IF Overflows(acc.packed, chunk, budget) THEN Flush(acc, mid) ELSE acc
<1>1. PackOne(acc, chunk, budget) = [room EXCEPT !.packed = Append(@, chunk)]
  BY DEF PackOne
<1>2. mid \in BOOLEAN
  OBVIOUS
<1> HIDE DEF mid
<1>3. room \in PackingStates(C)
  BY <1>2, FlushTypes
<1> HIDE DEF room
<1>4. [room EXCEPT !.packed = Append(@, chunk)] \in PackingStates(C)
  <2>1. room.packed \in Seq(C)
    BY <1>3 DEF PackingStates
  <2>2. Append(room.packed, chunk) \in Seq(C)
    BY <2>1
  <2>3. QED
    BY <1>3, <2>2 DEF PackingStates
<1>5. QED
  BY <1>1, <1>4

LEMMA NothingPackedPacks ==
  ASSUME NEW C, NEW chunks \in Seq(C), NEW budget
  PROVE  /\ NothingPacked \in PackingStates(C) /\ NothingPacked.packed = <<>>
         /\ Packing(chunks, 0, NothingPacked, budget)
<1>1. /\ NothingPacked.shards = <<>> /\ NothingPacked.packed = <<>> /\ NothingPacked.startsMidFile = FALSE
      /\ NothingPacked = [shards |-> <<>>, packed |-> <<>>, startsMidFile |-> FALSE]
  BY DEF NothingPacked
<1>2. <<>> \in Seq(ShardSet(C)) /\ <<>> \in Seq(C) /\ FALSE \in BOOLEAN
  OBVIOUS
<1>3. NothingPacked \in PackingStates(C)
  BY <1>1, <1>2 DEF PackingStates
<1> DEFINE cut == [s \in {0} |-> 0]
<1>4. cut[0] = 0 /\ cut \in [0..0 -> 0..Len(chunks)] /\ Len(<<>>) = 0 /\ 1..0 = {}
  <2>1. 0..0 = {0} /\ 0 \in 0..Len(chunks) /\ Len(<<>>) = 0 /\ 1..0 = {}
    OBVIOUS
  <2>2. QED
    BY <2>1
<1> HIDE DEF cut
<1>5. ~WithinFile(chunks, 0)
  BY DEF WithinFile
<1>6. Cut(chunks, <<>>, cut, budget)
  BY <1>4 DEF Cut
<1>7. Packing(chunks, 0, NothingPacked, budget)
  <2>1. 0 = cut[0] + Len(<<>>)
    BY <1>4
  <2>2. /\ Cut(chunks, NothingPacked.shards, cut, budget)
        /\ 0 = cut[Len(NothingPacked.shards)] + Len(NothingPacked.packed)
        /\ 1..Len(NothingPacked.packed) = {}
        /\ NothingPacked.packed = <<>>
        /\ NothingPacked.startsMidFile <=> WithinFile(chunks, cut[Len(NothingPacked.shards)])
    BY <1>1, <1>4, <1>5, <1>6, <2>1
  <2>3. QED
    BY <2>2 DEF Packing
<1>8. QED
  BY <1>1, <1>3, <1>7

PacksUp(chunks, budget, upTo) ==
  upTo = [n \in 0..Len(chunks) |->
           IF n = 0 THEN NothingPacked ELSE PackOne(upTo[n - 1], chunks[n], budget)]

LEMMA PackIsPacks ==
  ASSUME NEW chunks, NEW budget, NEW some, PacksUp(chunks, budget, some)
  PROVE  \E upTo : /\ PacksUp(chunks, budget, upTo)
                   /\ Pack(chunks, budget) = Flush(upTo[Len(chunks)], FALSE).shards
BY DEF PacksUp, Pack

LEMMA PackExists ==
  ASSUME NEW C, NEW chunks \in Seq(C), NEW budget
  PROVE  \E upTo : PacksUp(chunks, budget, upTo)
<1> DEFINE N == Len(chunks)
           S == PackingStates(C)
           step == [n \in 1..N |-> [s \in S |-> PackOne(s, chunks[n], budget)]]
<1>1. N \in Nat /\ \A n \in 1..N : chunks[n] \in C
  OBVIOUS
<1>2. \A n \in 1..N, s \in S : step[n][s] = PackOne(s, chunks[n], budget)
  OBVIOUS
<1>3. NothingPacked \in S
  BY NothingPackedPacks
<1> HIDE DEF step, S
<1>4. LeadsOn(S, N, step)
  BY <1>1, <1>2, PackOneTypes DEF LeadsOn, S
<1> HIDE DEF N
<1>5. PICK g : IsIteration(S, NothingPacked, N, step, g)
  BY <1>1, <1>3, <1>4, Iterates
<1>6. \A n \in 1..N : g[n] = PackOne(g[n - 1], chunks[n], budget)
  <2> TAKE n \in 1..N
  <2>1. n - 1 \in 0..N
    BY <1>1
  <2>2. QED
    BY <1>2, <1>5, <2>1 DEF IsIteration
<1>7. \A n \in 0..N : n # 0 => n \in 1..N
  BY <1>1
<1>8. g = [n \in 0..N |-> IF n = 0 THEN NothingPacked ELSE PackOne(g[n - 1], chunks[n], budget)]
  <2>1. g = [n \in 0..N |-> g[n]] /\ g[0] = NothingPacked
    BY <1>5 DEF IsIteration
  <2>2. QED
    BY <1>6, <1>7, <2>1
<1>9. QED
  BY <1>8 DEF PacksUp, N

\* The shards hold the chunks one after the other.
LEMMA PackCuts ==
  ASSUME NEW C, AreChunks(C), NEW chunks \in Seq(C), NEW budget \in Int
  PROVE  LET shards == Pack(chunks, budget)
         IN  /\ shards \in Seq(ShardSet(C))
             /\ \E cut : Cut(chunks, shards, cut, budget) /\ cut[Len(shards)] = Len(chunks)
<1> DEFINE N == Len(chunks)
<1>1. N \in Nat /\ \A n \in 1..N : chunks[n] \in C
  OBVIOUS
<1>2. PICK upTo : /\ PacksUp(chunks, budget, upTo)
                  /\ Pack(chunks, budget) = Flush(upTo[N], FALSE).shards
  BY PackExists, PackIsPacks
<1>3. upTo[0] = NothingPacked
      /\ \A n \in 1..N : upTo[n] = PackOne(upTo[n - 1], chunks[n], budget)
  <2>1. \A n \in 0..N : upTo[n] = IF n = 0 THEN NothingPacked
                                  ELSE PackOne(upTo[n - 1], chunks[n], budget)
    BY <1>2, Zenon DEF PacksUp
  <2>2. 0 \in 0..N /\ \A n \in 1..N : n \in 0..N /\ n # 0
    BY <1>1
  <2>3. QED
    BY <2>1, <2>2
<1> DEFINE Holds(n) == /\ upTo[n] \in PackingStates(C) /\ Packing(chunks, n, upTo[n], budget)
                       /\ (n = 0 <=> upTo[n].packed = <<>>)
           S == {n \in 0..N : Holds(n)}
<1>4. 0 \in S
  BY <1>1, <1>3, NothingPackedPacks
<1>5. ASSUME NEW n \in 1..N, n - 1 \in S PROVE n \in S
  <2>1. /\ upTo[n - 1] \in PackingStates(C) /\ Packing(chunks, n - 1, upTo[n - 1], budget)
        /\ n = 1 <=> upTo[n - 1].packed = <<>>
    BY <1>5
  <2>2. /\ upTo[n] \in PackingStates(C) /\ upTo[n].packed # <<>>
        /\ Packing(chunks, n, upTo[n], budget)
    BY <1>3, <2>1, PackOnePacks
  <2>3. n \in 0..N /\ n # 0
    BY <1>1
  <2>4. QED
    BY <2>2, <2>3
<1> HIDE DEF S, N
<1>6. \A n \in 0..N : n \in S
  BY <1>1, <1>4, <1>5, Induction
<1> DEFINE acc == upTo[N]
<1>7. acc \in PackingStates(C) /\ Packing(chunks, N, acc, budget) /\ (N = 0 <=> acc.packed = <<>>)
  <2>1. N \in S
    BY <1>1, <1>6
  <2>2. QED
    BY <2>1 DEF S
<1> HIDE DEF acc
<1> DEFINE flushed == Flush(acc, FALSE)
<1>8. flushed \in PackingStates(C)
  BY <1>7, FlushTypes
<1>9. flushed.packed = <<>> /\ Packing(chunks, N, flushed, budget)
  <2>1. CASE acc.packed = <<>>
    BY <1>7, <2>1 DEF Flush
  <2>2. CASE acc.packed # <<>>
    <3>1. ~WithinFile(chunks, N)
      BY <1>1 DEF WithinFile, N
    <3>2. N \in 0..Len(chunks) /\ FALSE \in BOOLEAN /\ (FALSE <=> WithinFile(chunks, N))
      BY <1>1, <3>1 DEF N
    <3>3. QED
      BY <1>7, <2>2, <3>2, FlushPacks
  <2>3. QED
    BY <2>1, <2>2
<1> HIDE DEF flushed
<1>10. flushed.shards \in Seq(ShardSet(C))
  BY <1>8 DEF PackingStates
<1>11. PICK cut : /\ Cut(chunks, flushed.shards, cut, budget)
                  /\ N = cut[Len(flushed.shards)] + Len(flushed.packed)
  BY <1>9 DEF Packing
<1>12. cut[Len(flushed.shards)] = N
  <2>1. cut[Len(flushed.shards)] \in Nat
    BY <1>10, <1>11 DEF Cut
  <2>2. N = cut[Len(flushed.shards)] + 0
    BY <1>9, <1>11
  <2>3. QED
    BY <2>1, <2>2
<1>13. Pack(chunks, budget) = flushed.shards
  BY <1>2 DEF flushed, acc
<1>14. QED
  BY <1>10, <1>11, <1>12, <1>13 DEF N

-----------------------------------------------------------------------------
\* Two neighbors hold chunks of one file.
Share(shards, s, t) == t \in DOMAIN shards /\ shards[s].files \cap shards[t].files # {}

\* The chunks of a file follow one another.
Together(chunks) ==
  \A i, j, k \in 1..Len(chunks) :
    i <= j /\ j <= k /\ chunks[i].path = chunks[k].path => chunks[j].path = chunks[i].path

LEMMA SharedAcrossCut ==
  ASSUME NEW C, NEW chunks \in Seq(C), Together(chunks), NEW budget,
         NEW shards \in Seq(ShardSet(C)), NEW cut, Cut(chunks, shards, cut, budget),
         NEW s \in 1..Len(shards), s - 1 # 0
  PROVE  WithinFile(chunks, cut[s - 1]) <=> shards[s - 1].files \cap shards[s].files # {}
<1> DEFINE N == Len(chunks)
           K == Len(shards)
           Files(t) == {chunks[i].path : i \in (cut[t - 1] + 1)..cut[t]}
<1>1. N \in Nat /\ K \in Nat /\ cut \in [0..K -> 0..N]
  BY DEF Cut
<1>2. ASSUME NEW t \in 1..K
      PROVE  cut[t] \in 1..N /\ cut[t - 1] \in 0..N /\ cut[t - 1] < cut[t] /\ shards[t].files = Files(t)
  <2> DEFINE list == shards[t].chunks
             from == cut[t - 1]
             to   == cut[t]
  <2>1. IsShardOf(shards[t], chunks, from, to, budget)
    BY DEF Cut
  <2>2. shards[t] \in ShardSet(C)
    OBVIOUS
  <2>3. list \in Seq(C)
    BY <2>2 DEF ShardSet
  <2>4. from \in 0..N /\ to \in 0..N
    <3>1. t \in 0..K /\ t - 1 \in 0..K
      BY <1>1
    <3> HIDE DEF K, N
    <3>2. QED
      BY <1>1, <3>1
  <2> HIDE DEF list, from, to
  <2>5. /\ Len(list) # 0 /\ to = from + Len(list) /\ Len(list) \in Nat /\ DOMAIN list = 1..Len(list)
        /\ \A j \in 1..Len(list) : list[j] = chunks[from + j]
        /\ shards[t].files = {list[i].path : i \in 1..Len(list)}
    BY <2>1, <2>3 DEF IsShardOf, list
  <2>6. to \in 1..N /\ from < to
    BY <1>1, <2>4, <2>5
  <2>7. \A j \in 1..Len(list) : from + j \in (from + 1)..to
    BY <2>4, <2>5
  <2>8. \A i \in (from + 1)..to : i - from \in 1..Len(list) /\ from + (i - from) = i
    BY <2>4, <2>5
  <2> DEFINE A == {list[i].path : i \in 1..Len(list)}
             B == {chunks[i].path : i \in (from + 1)..to}
  <2>9. A = B
    <3>1. ASSUME NEW j \in 1..Len(list) PROVE list[j].path \in B
      <4>1. from + j \in (from + 1)..to /\ list[j] = chunks[from + j]
        BY <2>5, <2>7
      <4>2. QED
        BY <4>1
    <3>2. ASSUME NEW i \in (from + 1)..to PROVE chunks[i].path \in A
      <4>1. i - from \in 1..Len(list) /\ list[i - from] = chunks[i]
        BY <2>5, <2>8
      <4>2. QED
        BY <4>1
    <3>3. A \subseteq B
      <4> HIDE DEF B
      <4>1. QED
        BY <3>1
    <3>4. B \subseteq A
      <4> HIDE DEF A
      <4>1. QED
        BY <3>2
    <3>5. QED
      BY <3>3, <3>4
  <2>10. QED
    BY <2>4, <2>5, <2>6, <2>9 DEF from, to
<1>3. WithinFile(chunks, cut[s - 1]) <=> shards[s - 1].files \cap shards[s].files # {}
  <2> DEFINE at == cut[s - 1]
             before == cut[s - 1 - 1]
             behind == cut[s]
  <2>1. s - 1 \in 1..K
    BY <1>1
  <2>2. /\ at \in 1..N /\ before \in 0..N /\ before < at /\ behind \in 1..N /\ at < behind
        /\ shards[s - 1].files = {chunks[i].path : i \in (before + 1)..at}
        /\ shards[s].files = {chunks[i].path : i \in (at + 1)..behind}
    BY <1>2, <2>1
  <2> HIDE DEF at, before, behind
  <2>3. ASSUME WithinFile(chunks, at) PROVE shards[s - 1].files \cap shards[s].files # {}
    <3>1. chunks[at].path = chunks[at + 1].path
      BY <2>3 DEF WithinFile
    <3>2. at \in (before + 1)..at /\ at + 1 \in (at + 1)..behind
      BY <2>2
    <3>3. QED
      BY <2>2, <3>1, <3>2
  <2>4. ASSUME NEW p \in shards[s - 1].files \cap shards[s].files PROVE WithinFile(chunks, at)
    <3>1. PICK i \in (before + 1)..at : chunks[i].path = p
      BY <2>2, <2>4
    <3>2. PICK k \in (at + 1)..behind : chunks[k].path = p
      BY <2>2, <2>4
    <3>3. /\ i \in 1..N /\ k \in 1..N /\ at + 1 \in 1..N /\ at \in 1..(N - 1)
          /\ i <= at /\ at <= k /\ i <= at + 1 /\ at + 1 <= k
      BY <1>1, <2>2, <3>1, <3>2
    <3>4. chunks[at].path = p /\ chunks[at + 1].path = p
      BY <2>2, <3>1, <3>2, <3>3 DEF Together
    <3>5. QED
      BY <3>3, <3>4 DEF WithinFile
  <2>5. QED
    BY <2>3, <2>4 DEF at
<1>4. QED
  BY <1>3

LEMMA TruncatedIsShared ==
  ASSUME NEW C, NEW chunks \in Seq(C), Together(chunks), NEW budget,
         NEW shards \in Seq(ShardSet(C)), NEW cut, Cut(chunks, shards, cut, budget),
         cut[Len(shards)] = Len(chunks), NEW s \in DOMAIN shards
  PROVE  shards[s].truncated <=> Share(shards, s, s - 1) \/ Share(shards, s, s + 1)
<1> DEFINE K == Len(shards)
<1>1. K \in Nat /\ DOMAIN shards = 1..K /\ s \in 1..K /\ cut[0] = 0
  BY DEF Cut
<1>2. IsShardOf(shards[s], chunks, cut[s - 1], cut[s], budget)
  BY <1>1 DEF Cut
<1>3. shards[s].truncated <=> WithinFile(chunks, cut[s - 1]) \/ WithinFile(chunks, cut[s])
  BY <1>2 DEF IsShardOf
<1>4. WithinFile(chunks, cut[s - 1]) <=> Share(shards, s, s - 1)
  <2>1. CASE s - 1 = 0
    <3>1. s - 1 \notin DOMAIN shards /\ ~WithinFile(chunks, 0)
      BY <1>1, <2>1 DEF WithinFile
    <3>2. QED
      BY <1>1, <2>1, <3>1 DEF Share
  <2>2. CASE s - 1 # 0
    <3>1. s - 1 \in DOMAIN shards
      BY <1>1, <2>2
    <3>2. WithinFile(chunks, cut[s - 1]) <=> shards[s - 1].files \cap shards[s].files # {}
      BY <1>1, <2>2, SharedAcrossCut
    <3>3. QED
      BY <3>1, <3>2 DEF Share
  <2>3. QED
    BY <2>1, <2>2
<1>5. WithinFile(chunks, cut[s]) <=> Share(shards, s, s + 1)
  <2>1. CASE s = K
    <3>1. s + 1 \notin DOMAIN shards
      BY <1>1, <2>1
    <3>2. ~WithinFile(chunks, cut[s])
      BY <2>1 DEF WithinFile
    <3>3. QED
      BY <3>1, <3>2 DEF Share
  <2>2. CASE s # K
    <3>1. s + 1 \in 1..K /\ s + 1 - 1 = s /\ s # 0
      BY <1>1, <2>2
    <3> DEFINE t == s + 1
    <3>2. t \in 1..K /\ t - 1 = s /\ t - 1 # 0
      BY <3>1
    <3> HIDE DEF t
    <3>3. WithinFile(chunks, cut[t - 1]) <=> shards[t - 1].files \cap shards[t].files # {}
      BY <3>2, SharedAcrossCut
    <3>4. WithinFile(chunks, cut[s]) <=> Share(shards, s, t)
      BY <1>1, <3>2, <3>3 DEF Share
    <3>5. QED
      BY <3>4 DEF t
  <2>3. QED
    BY <2>1, <2>2
<1>6. QED
  BY <1>3, <1>4, <1>5

-----------------------------------------------------------------------------
(***************************************************************************)
(* Which files import one another, however indirectly.                     *)
(***************************************************************************)
Closed(paths, imports) ==
  LET edges == {e \in paths \X paths : e[2] \in ImportedBy(e[1], imports, paths)}
  IN  {S \in SUBSET paths : \A e \in edges : e[1] \in S <=> e[2] \in S}

Linked(paths, imports, p, q) == \A S \in Closed(paths, imports) : p \in S => q \in S

LEMMA ClosedMeans ==
  ASSUME NEW paths, NEW imports, NEW S
  PROVE  S \in Closed(paths, imports) <=>
           /\ S \subseteq paths
           /\ \A p, q \in paths : q \in ImportedBy(p, imports, paths) => (p \in S <=> q \in S)
<1> DEFINE edges == {e \in paths \X paths : e[2] \in ImportedBy(e[1], imports, paths)}
<1>1. S \in Closed(paths, imports) <=> S \subseteq paths /\ \A e \in edges : e[1] \in S <=> e[2] \in S
  BY DEF Closed
<1>2. ASSUME \A e \in edges : e[1] \in S <=> e[2] \in S,
             NEW p \in paths, NEW q \in paths, q \in ImportedBy(p, imports, paths)
      PROVE  p \in S <=> q \in S
  <2>1. <<p, q>> \in edges
    BY <1>2
  <2> HIDE DEF edges
  <2>2. QED
    BY <1>2, <2>1
<1>3. ASSUME \A p, q \in paths : q \in ImportedBy(p, imports, paths) => (p \in S <=> q \in S),
             NEW e \in edges
      PROVE  e[1] \in S <=> e[2] \in S
  BY <1>3
<1> HIDE DEF edges
<1>4. QED
  BY <1>1, <1>2, <1>3

\* Paths that differ.
Distinct(list) == \A i, j \in DOMAIN list : list[i] = list[j] => i = j

\* A representative stands for linked files only, and the imports of the first n files are united.
Stands(paths, imports, n, root) ==
  /\ root \in [DOMAIN paths -> DOMAIN paths]
  /\ \A i, j \in DOMAIN paths : root[i] = root[j] =>
       \A S \in Closed(Range(paths), imports) : paths[i] \in S <=> paths[j] \in S
  /\ \A a \in 1..n : \A b \in Imported(paths, imports, a) : root[a] = root[b]

LEMMA UniteStands ==
  ASSUME NEW T, NEW paths \in Seq(T), NEW imports, NEW n \in 1..Len(paths), NEW root,
         Stands(paths, imports, n - 1, root)
  PROVE  Stands(paths, imports, n, Unite(root, n, Imported(paths, imports, n)))
<1> DEFINE D        == DOMAIN paths
           imported == Imported(paths, imports, n)
           next     == Unite(root, n, imported)
           With(i, S) == paths[i] \in S
           C        == Closed(Range(paths), imports)
           Met(i)   == \E b \in imported : root[i] = root[b]
<1>1. D = 1..Len(paths) /\ n \in D /\ imported \subseteq D /\ \A i \in D : paths[i] \in Range(paths)
  BY DEF Imported, Range
<1>2. /\ root \in [D -> D]
      /\ \A i, j \in D : root[i] = root[j] => \A S \in C : With(i, S) <=> With(j, S)
      /\ \A a \in 1..(n - 1) : \A b \in Imported(paths, imports, a) : root[a] = root[b]
  BY DEF Stands
<1>3. next \in [D -> D] /\ \A i \in D : next[i] = IF Met(i) THEN root[n] ELSE root[i]
  <2>1. DOMAIN root = D
    BY <1>2
  <2>2. next = [i \in D |-> IF Met(i) THEN root[n] ELSE root[i]]
    BY <2>1 DEF Unite
  <2>3. \A i \in D : root[n] \in D /\ root[i] \in D
    BY <1>1, <1>2
  <2> HIDE DEF next, D
  <2>4. QED
    BY <2>2, <2>3
<1>4. \A b \in imported : \A S \in C : With(n, S) <=> With(b, S)
  <2> TAKE b \in imported
  <2> TAKE S \in C
  <2>1. paths[b] \in ImportedBy(paths[n], imports, Range(paths))
    BY DEF Imported
  <2>2. QED
    BY <1>1, <2>1, ClosedMeans
<1> HIDE DEF D, imported, next, With, C
<1>5. ASSUME NEW i \in D, NEW j \in D, next[i] = next[j], NEW S \in C
      PROVE  With(i, S) <=> With(j, S)
  <2>1. \A k \in D : Met(k) => (With(k, S) <=> With(n, S))
    BY <1>1, <1>2, <1>4
  <2>2. CASE Met(i) /\ Met(j)
    BY <2>1, <2>2
  <2>3. CASE Met(i) /\ ~Met(j)
    <3>1. root[n] = root[j]
      BY <1>3, <1>5, <2>3
    <3>2. With(n, S) <=> With(j, S)
      BY <1>1, <1>2, <3>1
    <3>3. QED
      BY <2>1, <2>3, <3>2
  <2>4. CASE ~Met(i) /\ Met(j)
    <3>1. root[n] = root[i]
      BY <1>3, <1>5, <2>4
    <3>2. With(n, S) <=> With(i, S)
      BY <1>1, <1>2, <3>1
    <3>3. QED
      BY <2>1, <2>4, <3>2
  <2>5. CASE ~Met(i) /\ ~Met(j)
    <3>1. root[i] = root[j]
      BY <1>3, <1>5, <2>5
    <3>2. QED
      BY <1>2, <3>1
  <2>6. QED
    BY <2>2, <2>3, <2>4, <2>5
<1>6. ASSUME NEW a \in 1..n, NEW b \in Imported(paths, imports, a)
      PROVE  next[a] = next[b]
  <2>0. a \in D /\ b \in D
    BY <1>1 DEF D, Imported
  <2>1. CASE a = n
    <3>1. b \in imported
      BY <2>1 DEF imported
    <3>2. next[b] = root[n]
      BY <1>3, <2>0, <3>1
    <3>3. next[n] = root[n]
      BY <1>1, <1>3
    <3>4. QED
      BY <2>1, <3>2, <3>3
  <2>2. CASE a # n
    <3>1. root[a] = root[b]
      BY <1>2, <2>2
    <3>2. Met(a) <=> Met(b)
      BY <3>1
    <3>3. QED
      BY <1>3, <2>0, <3>1, <3>2
  <2>3. QED
    BY <2>1, <2>2
<1>7. QED
  BY <1>3, <1>5, <1>6 DEF Stands, D, C, With, next, imported

Represents(paths, imports, upTo) ==
  upTo = [n \in 0..Len(paths) |->
           IF n = 0 THEN [i \in DOMAIN paths |-> i]
           ELSE Unite(upTo[n - 1], n, Imported(paths, imports, n))]

LEMMA RepresentativesRepresent ==
  ASSUME NEW paths, NEW imports, NEW some, Represents(paths, imports, some)
  PROVE  \E upTo : /\ Represents(paths, imports, upTo)
                   /\ Representatives(paths, imports) = upTo[Len(paths)]
BY DEF Represents, Representatives

LEMMA UniteTypes ==
  ASSUME NEW D, NEW root \in [D -> D], NEW a \in D, NEW imported
  PROVE  Unite(root, a, imported) \in [D -> D]
BY DEF Unite

LEMMA RepresentExists ==
  ASSUME NEW T, NEW paths \in Seq(T), NEW imports
  PROVE  \E upTo : Represents(paths, imports, upTo)
<1> DEFINE N == Len(paths)
           D == DOMAIN paths
           S == [D -> D]
           step == [n \in 1..N |-> [s \in S |-> Unite(s, n, Imported(paths, imports, n))]]
           first == [i \in D |-> i]
<1>1. N \in Nat /\ D = 1..N
  OBVIOUS
<1>2. \A n \in 1..N, s \in S : step[n][s] = Unite(s, n, Imported(paths, imports, n))
  OBVIOUS
<1>3. first \in S
  OBVIOUS
<1>4. \A n \in 1..N : \A s \in S : Unite(s, n, Imported(paths, imports, n)) \in S
  BY <1>1, UniteTypes
<1> HIDE DEF step, S, first
<1>5. LeadsOn(S, N, step)
  BY <1>2, <1>4 DEF LeadsOn
<1> HIDE DEF N, D
<1>6. PICK g : IsIteration(S, first, N, step, g)
  BY <1>1, <1>3, <1>5, Iterates
<1>7. \A n \in 1..N : g[n] = Unite(g[n - 1], n, Imported(paths, imports, n))
  <2> TAKE n \in 1..N
  <2>1. n - 1 \in 0..N
    BY <1>1
  <2>2. QED
    BY <1>2, <1>6, <2>1 DEF IsIteration
<1>8. \A n \in 0..N : n # 0 => n \in 1..N
  BY <1>1
<1>9. g = [n \in 0..N |-> IF n = 0 THEN first ELSE Unite(g[n - 1], n, Imported(paths, imports, n))]
  <2>1. g = [n \in 0..N |-> g[n]] /\ g[0] = first
    BY <1>6 DEF IsIteration
  <2>2. QED
    BY <1>7, <1>8, <2>1
<1>10. QED
  BY <1>9 DEF Represents, N, first, D

\* Files have one representative exactly when they are linked.
LEMMA RepresentativesAreLinks ==
  ASSUME NEW T, NEW paths \in Seq(T), Distinct(paths), NEW imports
  PROVE  LET root == Representatives(paths, imports)
         IN  /\ root \in [DOMAIN paths -> DOMAIN paths]
             /\ \A i, j \in DOMAIN paths :
                  root[i] = root[j] <=> Linked(Range(paths), imports, paths[i], paths[j])
<1> DEFINE N == Len(paths)
           D == DOMAIN paths
           root == Representatives(paths, imports)
<1>1. N \in Nat /\ D = 1..N
  OBVIOUS
<1>2. PICK upTo : /\ Represents(paths, imports, upTo)
                  /\ Representatives(paths, imports) = upTo[N]
  BY RepresentExists, RepresentativesRepresent
<1>3. upTo[0] = [i \in D |-> i]
      /\ \A n \in 1..N : upTo[n] = Unite(upTo[n - 1], n, Imported(paths, imports, n))
  <2>1. \A n \in 0..N : upTo[n] = IF n = 0 THEN [i \in D |-> i]
                                  ELSE Unite(upTo[n - 1], n, Imported(paths, imports, n))
    BY <1>2, Zenon DEF Represents
  <2>2. 0 \in 0..N /\ \A n \in 1..N : n \in 0..N /\ n # 0
    BY <1>1
  <2>3. QED
    BY <2>1, <2>2
<1> DEFINE S == {n \in 0..N : Stands(paths, imports, n, upTo[n])}
<1>4. 0 \in S
  <2>1. Stands(paths, imports, 0, [i \in D |-> i])
    BY DEF Stands
  <2>2. QED
    BY <1>1, <1>3, <2>1
<1>5. ASSUME NEW n \in 1..N, n - 1 \in S PROVE n \in S
  <2>1. Stands(paths, imports, n, upTo[n])
    BY <1>3, <1>5, UniteStands
  <2>2. QED
    BY <1>1, <2>1
<1> HIDE DEF S, N, D
<1>6. \A n \in 0..N : n \in S
  BY <1>1, <1>4, <1>5, Induction
<1>7. Stands(paths, imports, N, root)
  <2>1. N \in S
    BY <1>1, <1>6
  <2>2. QED
    BY <1>2, <2>1 DEF S
<1> HIDE DEF root
<1>8. /\ root \in [D -> D]
      /\ \A i, j \in D : root[i] = root[j] =>
           \A C \in Closed(Range(paths), imports) : paths[i] \in C <=> paths[j] \in C
      /\ \A a \in D : \A b \in Imported(paths, imports, a) : root[a] = root[b]
  BY <1>1, <1>7 DEF Stands, D
<1>9. ASSUME NEW i \in D, NEW j \in D, Linked(Range(paths), imports, paths[i], paths[j])
      PROVE  root[i] = root[j]
  <2> DEFINE C == {paths[k] : k \in {m \in D : root[m] = root[i]}}
  <2>1. \A k \in D : paths[k] \in C <=> root[k] = root[i]
    BY DEF Distinct, D
  <2>2. C \subseteq Range(paths) /\ \A p \in Range(paths) : \E k \in D : p = paths[k]
    BY DEF Range, D
  <2> HIDE DEF C
  <2>3. ASSUME NEW p \in Range(paths), NEW q \in Range(paths), q \in ImportedBy(p, imports, Range(paths))
        PROVE  p \in C <=> q \in C
    <3>1. PICK a \in D : p = paths[a]
      BY <2>2
    <3>2. PICK b \in D : q = paths[b]
      BY <2>2
    <3>3. b \in Imported(paths, imports, a)
      BY <2>3, <3>1, <3>2 DEF Imported, D
    <3>4. root[a] = root[b]
      BY <1>8, <3>3
    <3>5. QED
      BY <2>1, <3>1, <3>2, <3>4
  <2>4. C \in Closed(Range(paths), imports)
    BY <2>2, <2>3, ClosedMeans
  <2>5. paths[j] \in C
    BY <1>9, <2>1, <2>4 DEF Linked
  <2>6. QED
    BY <2>1, <2>5
<1>10. \A i, j \in D : root[i] = root[j] => Linked(Range(paths), imports, paths[i], paths[j])
  BY <1>8 DEF Linked
<1>11. QED
  BY <1>8, <1>9, <1>10 DEF root, D

\* An order in which linked files follow one another.
Grouped(paths, imports, order, grp) ==
  /\ Distinct(order) /\ Range(order) = Range(paths)
  /\ \A p \in DOMAIN order : grp[p] \in Nat
  /\ \A p, q \in DOMAIN order :
       /\ p <= q => grp[p] <= grp[q]
       /\ grp[p] = grp[q] <=> Linked(Range(paths), imports, order[p], order[q])

LEMMA ClustersAreGrouped ==
  ASSUME NEW T, NEW paths \in Seq(T), Distinct(paths), NEW imports
  PROVE  LET order == FlattenSeq(ClusterFiles(paths, imports))
         IN  order \in Seq(T) /\ \E grp : Grouped(paths, imports, order, grp)
<1> DEFINE N     == Len(paths)
           D     == 1..N
           root  == Representatives(paths, imports)
           Class(i) == {j \in D : root[j] = root[i]}
           heads == {i \in D : i = Min(Class(i))}
           all   == [i \in D |-> i]
           first == Picked(all, heads)
           clusters == ClusterFiles(paths, imports)
           order == FlattenSeq(clusters)
<1>1. N \in Nat /\ DOMAIN paths = D /\ all \in Seq(D) /\ Len(all) = N /\ \A i \in D : all[i] = i
  OBVIOUS
<1>2. /\ root \in [D -> D]
      /\ \A i, j \in D : root[i] = root[j] <=> Linked(Range(paths), imports, paths[i], paths[j])
  BY RepresentativesAreLinks
<1> HIDE DEF root
<1>3. clusters = [c \in DOMAIN first |-> Picked(paths, Class(first[c]))]
  BY <1>1 DEF ClusterFiles, root
<1>4. heads \in SUBSET (1..Len(all))
  BY <1>1
<1> HIDE DEF all, heads, clusters
<1>5. first \in Seq(D) /\ \E ids : PickedFrom(all, heads, first, ids)
  BY <1>1, <1>4, PickedByPlace
<1> HIDE DEF first
<1>6. PICK ids : PickedFrom(all, heads, first, ids)
  BY <1>5
<1> DEFINE K == Len(first)
<1>7. K \in Nat /\ DOMAIN first = 1..K /\ \A c \in 1..K : first[c] \in D
  BY <1>5
<1> HIDE DEF N
<1>8. /\ \A c \in 1..K : first[c] \in heads
      /\ \A b, c \in 1..K : first[b] = first[c] => b = c
      /\ \A i \in heads : \E c \in 1..K : first[c] = i
  <2>0. K = Len(ids)
    BY <1>6 DEF PickedFrom
  <2>1. \A c \in 1..K : ids[c] \in heads /\ first[c] = all[ids[c]]
    BY <1>6, <2>0 DEF PickedFrom
  <2>2. \A c \in 1..K : ids[c] \in D /\ first[c] = ids[c]
    BY <1>1, <1>4, <2>1 DEF heads
  <2>3. /\ \A b, c \in 1..K : ids[b] = ids[c] => b = c
        /\ \A i \in heads : \E c \in 1..K : ids[c] = i
    BY <1>6, <2>0 DEF PickedFrom
  <2>4. QED
    BY <2>1, <2>2, <2>3
<1>9. clusters \in Seq(Seq(T)) /\ Len(clusters) = K
      /\ \A c \in 1..K : clusters[c] = Picked(paths, Class(first[c]))
  <2>1. \A c \in 1..K : Picked(paths, Class(first[c])) \in Seq(T)
    BY PickedProperties
  <2>2. QED
    BY <1>3, <1>7, <2>1
<1>10. \A c \in 1..K : \E at : PickedFrom(paths, Class(first[c]), clusters[c], at)
  <2> TAKE c \in 1..K
  <2>1. Class(first[c]) \in SUBSET (1..Len(paths))
    BY DEF N
  <2> HIDE DEF Class
  <2>2. QED
    BY <1>9, <2>1, PickedByPlace
<1> DEFINE at == [c \in 1..K |-> CHOOSE a : PickedFrom(paths, Class(first[c]), clusters[c], a)]
<1>11. \A c \in 1..K : PickedFrom(paths, Class(first[c]), clusters[c], at[c])
  BY <1>10
<1> HIDE DEF at
<1>12. order \in Seq(T) /\ \E of, ix : Owners(clusters, order, of, ix)
  BY <1>9, FlattenOwners
<1>13. PICK of, ix : Owners(clusters, order, of, ix)
  BY <1>12
<1> DEFINE M == Len(order)
           pos == [p \in 1..M |-> at[of[p]][ix[p]]]
<1>14. M \in Nat /\ DOMAIN order = 1..M
  BY <1>12
<1> HIDE DEF order, K, M
<1>15. /\ \A p \in 1..M : /\ of[p] \in 1..K /\ ix[p] \in 1..Len(clusters[of[p]])
                          /\ order[p] = clusters[of[p]][ix[p]]
       /\ \A p, q \in 1..M : p < q => of[p] < of[q] \/ (of[p] = of[q] /\ ix[p] < ix[q])
       /\ \A c \in 1..K : \A k \in 1..Len(clusters[c]) : \E p \in 1..M : of[p] = c /\ ix[p] = k
  BY <1>9, <1>13 DEF Owners, M
<1>16. \A c \in 1..K :
         /\ \A k \in 1..Len(clusters[c]) : /\ at[c][k] \in Class(first[c])
                                           /\ clusters[c][k] = paths[at[c][k]]
         /\ \A j, k \in 1..Len(clusters[c]) : at[c][j] = at[c][k] => j = k
         /\ \A i \in Class(first[c]) : \E k \in 1..Len(clusters[c]) : at[c][k] = i
  <2> HIDE DEF Class
  <2> TAKE c \in 1..K
  <2> DEFINE ids_ == at[c]
             cluster == clusters[c]
             class == Class(first[c])
  <2>1. PickedFrom(paths, class, cluster, ids_)
    BY <1>11
  <2> HIDE DEF ids_, cluster, class
  <2>2. /\ \A k \in 1..Len(cluster) : ids_[k] \in class /\ cluster[k] = paths[ids_[k]]
        /\ \A j, k \in 1..Len(cluster) : ids_[j] = ids_[k] => j = k
        /\ \A i \in class : \E k \in 1..Len(cluster) : ids_[k] = i
    BY <2>1 DEF PickedFrom
  <2>3. QED
    BY <2>2 DEF ids_, cluster, class
<1>17. \A p \in 1..M : pos[p] = at[of[p]][ix[p]]
  OBVIOUS
<1> HIDE DEF pos
<1>18. \A p \in 1..M : pos[p] \in Class(first[of[p]]) /\ order[p] = paths[pos[p]]
  <2> HIDE DEF Class
  <2> TAKE p \in 1..M
  <2> DEFINE c == of[p]
             k == ix[p]
  <2>1. c \in 1..K /\ k \in 1..Len(clusters[c]) /\ order[p] = clusters[c][k] /\ pos[p] = at[c][k]
    BY <1>15, <1>17
  <2> HIDE DEF c, k
  <2>2. pos[p] \in Class(first[c]) /\ order[p] = paths[pos[p]]
    BY <1>16, <2>1
  <2>3. QED
    BY <2>2 DEF c
<1>19. \A p \in 1..M : pos[p] \in D /\ root[pos[p]] = root[first[of[p]]]
  BY <1>18
<1>20. \A i \in D : \E c \in 1..K : root[first[c]] = root[i]
  <2> TAKE i \in D
  <2> DEFINE m == Min(Class(i))
  <2>1. i \in Class(i) /\ Class(i) \in SUBSET Nat
    OBVIOUS
  <2>2. m \in Class(i)
    <3> HIDE DEF Class
    <3>1. PICK x \in Class(i) : \A y \in Class(i) : x <= y
      BY <2>1, LeastNatural
    <3>2. QED
      BY <3>1 DEF Min
  <2>3. m \in D /\ root[m] = root[i]
    BY <2>2
  <2>4. Class(m) = Class(i)
    <3> HIDE DEF m
    <3>1. QED
      BY <2>3
  <2>5. m \in heads
    <3>1. m = Min(Class(m))
      BY <2>4
    <3> HIDE DEF m, Class
    <3>2. QED
      BY <2>3, <3>1 DEF heads, Class
  <2>6. QED
    BY <1>8, <2>3, <2>5
<1>21. \A b, c \in 1..K : root[first[b]] = root[first[c]] => b = c
  <2> TAKE b, c \in 1..K
  <2>1. first[b] \in heads /\ first[c] \in heads
    BY <1>8
  <2>2. first[b] = Min(Class(first[b])) /\ first[c] = Min(Class(first[c]))
    BY <2>1 DEF heads
  <2>3. root[first[b]] = root[first[c]] => Class(first[b]) = Class(first[c])
    OBVIOUS
  <2> HIDE DEF Class
  <2>4. QED
    BY <1>8, <2>2, <2>3
<1>22. ASSUME NEW p \in 1..M, NEW q \in 1..M, pos[p] = pos[q] PROVE p = q
  <2>1. of[p] \in 1..K /\ of[q] \in 1..K /\ root[first[of[p]]] = root[first[of[q]]]
    BY <1>15, <1>19, <1>22
  <2>2. of[p] = of[q]
    BY <1>21, <2>1
  <2>3. ix[p] = ix[q]
    <3> DEFINE c == of[p]
               j == ix[p]
               k == ix[q]
    <3>1. c \in 1..K /\ j \in 1..Len(clusters[c]) /\ k \in 1..Len(clusters[c])
      BY <1>15, <2>2
    <3>2. at[c][j] = at[c][k]
      BY <1>17, <1>22, <2>2
    <3> HIDE DEF c, j, k
    <3>3. \A a, b \in 1..Len(clusters[c]) : at[c][a] = at[c][b] => a = b
      BY <1>16, <3>1
    <3>4. j = k
      BY <3>1, <3>2, <3>3
    <3>5. QED
      BY <3>4 DEF j, k
  <2>4. ~(p < q) /\ ~(q < p)
    <3>0. ix[p] \in Nat /\ of[p] \in Nat
      <4>1. Len(clusters[of[p]]) \in Nat
        BY <1>9, <2>1
      <4>2. QED
        BY <1>15, <2>1, <4>1
    <3>1. QED
      BY <1>15, <2>2, <2>3, <3>0
  <2>5. QED
    BY <1>14, <2>4
<1>23. ASSUME NEW i \in D PROVE \E p \in 1..M : pos[p] = i
  <2>1. PICK c \in 1..K : root[first[c]] = root[i]
    BY <1>20
  <2>2. i \in Class(first[c])
    BY <2>1
  <2>3. PICK k \in 1..Len(clusters[c]) : at[c][k] = i
    BY <1>16, <2>2
  <2>4. PICK p \in 1..M : of[p] = c /\ ix[p] = k
    BY <1>15
  <2>5. QED
    BY <1>17, <2>3, <2>4
<1>24. Distinct(order)
  <2>1. ASSUME NEW p \in 1..M, NEW q \in 1..M, order[p] = order[q] PROVE p = q
    <3>1. pos[p] = pos[q]
      BY <1>1, <1>18, <1>19, <2>1 DEF Distinct
    <3>2. QED
      BY <1>22, <3>1
  <2>2. QED
    BY <1>14, <2>1 DEF Distinct
<1>25. Range(order) = Range(paths)
  <2>1. ASSUME NEW p \in 1..M PROVE order[p] \in Range(paths)
    BY <1>1, <1>18, <1>19 DEF Range
  <2>2. ASSUME NEW i \in D PROVE paths[i] \in Range(order)
    <3>1. PICK p \in 1..M : pos[p] = i
      BY <1>23
    <3>2. order[p] = paths[i] /\ p \in DOMAIN order
      BY <1>14, <1>18, <3>1
    <3>3. QED
      BY <3>2 DEF Range
  <2>3. QED
    BY <1>1, <1>14, <2>1, <2>2 DEF Range
<1>26. ASSUME NEW p \in 1..M, NEW q \in 1..M
       PROVE  /\ of[p] \in Nat
              /\ p <= q => of[p] <= of[q]
              /\ of[p] = of[q] <=> Linked(Range(paths), imports, order[p], order[q])
  <2>1. of[p] \in 1..K /\ of[q] \in 1..K /\ of[p] \in Nat /\ of[q] \in Nat
    BY <1>7, <1>15
  <2>2. p <= q => of[p] <= of[q]
    <3>1. p <= q => p = q \/ p < q
      BY <1>14
    <3>2. p < q => of[p] < of[q] \/ of[p] = of[q]
      BY <1>15
    <3>3. QED
      BY <2>1, <3>1, <3>2
  <2>3. of[p] = of[q] <=> root[pos[p]] = root[pos[q]]
    BY <1>19, <1>21, <2>1
  <2>4. root[pos[p]] = root[pos[q]] <=> Linked(Range(paths), imports, order[p], order[q])
    BY <1>2, <1>18, <1>19
  <2>5. QED
    BY <2>1, <2>2, <2>3, <2>4
<1>27. Grouped(paths, imports, order, of)
  BY <1>14, <1>24, <1>25, <1>26 DEF Grouped
<1>28. order \in Seq(T) /\ \E grp : Grouped(paths, imports, order, grp)
  BY <1>12, <1>27
<1>29. QED
  BY <1>28 DEF order, clusters

LEMMA OrderIsGrouped ==
  ASSUME NEW T, NEW files, PathsOf(files) \in Seq(T), Distinct(PathsOf(files)), NEW imports
  PROVE  LET order == PackingOrder(files, imports)
         IN  order \in Seq(T) /\ \E grp : Grouped(PathsOf(files), imports, order, grp)
<1> DEFINE paths == PathsOf(files)
<1>1. CASE DOMAIN imports = {}
  <2> DEFINE grp == [p \in DOMAIN paths |-> p]
  <2>1. PackingOrder(files, imports) = paths
    BY <1>1 DEF PackingOrder
  <2>2. paths \in Seq(T) /\ Distinct(paths) /\ DOMAIN paths = 1..Len(paths) /\ Len(paths) \in Nat
    OBVIOUS
  <2> HIDE DEF paths
  <2>3. ASSUME NEW p \in DOMAIN paths, NEW q \in DOMAIN paths
        PROVE  p = q <=> Linked(Range(paths), imports, paths[p], paths[q])
    <3>1. \A some : ImportedBy(some, imports, Range(paths)) = {}
      BY <1>1 DEF ImportedBy
    <3>2. {paths[p]} \in Closed(Range(paths), imports)
      <4>1. {paths[p]} \subseteq Range(paths)
        BY DEF Range
      <4>2. QED
        BY <3>1, <4>1, ClosedMeans
    <3>3. Linked(Range(paths), imports, paths[p], paths[q]) => paths[q] = paths[p]
      BY <3>2 DEF Linked
    <3>4. p = q => Linked(Range(paths), imports, paths[p], paths[q])
      BY DEF Linked
    <3>5. QED
      BY <2>2, <3>3, <3>4 DEF Distinct
  <2>4. \A p \in DOMAIN paths : grp[p] = p /\ p \in Nat
    BY <2>2
  <2> HIDE DEF grp
  <2>5. Grouped(paths, imports, paths, grp)
    BY <2>2, <2>3, <2>4 DEF Grouped
  <2>6. QED
    BY <2>1, <2>2, <2>5 DEF paths
<1>2. CASE DOMAIN imports # {}
  BY <1>2, ClustersAreGrouped DEF PackingOrder
<1>3. QED
  BY <1>1, <1>2

-----------------------------------------------------------------------------
(***************************************************************************)
(* The chunks are the hunks, those of a file one after the other.          *)
(***************************************************************************)
\* Files whose hunks' sizes are known, each under a path of its own.
AreShown(files) ==
  /\ IsList(files) /\ Distinct(PathsOf(files))
  /\ \A i \in DOMAIN files :
       /\ \E n \in Nat : DOMAIN files[i].hunks = 1..n
       /\ \A h \in DOMAIN files[i].hunks : files[i].hunks[h].bytes \in Nat

HunksShown(files) == UNION {{<<f.path, h>> : h \in DOMAIN f.hunks} : f \in Range(files)}
ChunkSet(files) == [path : Range(PathsOf(files)), hunk : Nat, bytes : Nat]

LEMMA PathsAreListed ==
  ASSUME NEW files, AreShown(files)
  PROVE  /\ PathsOf(files) \in Seq(Range(PathsOf(files)))
         /\ DOMAIN PathsOf(files) = 1..Len(files) /\ DOMAIN files = 1..Len(files)
         /\ \A i \in 1..Len(files) :
              PathsOf(files)[i] = files[i].path /\ FileAt(files, files[i].path) = files[i]
         /\ Range(PathsOf(files)) = {f.path : f \in Range(files)}
<1>1. Len(files) \in Nat /\ DOMAIN files = 1..Len(files)
  BY ListElements DEF AreShown
<1>2. PathsOf(files) = [i \in 1..Len(files) |-> files[i].path]
  BY <1>1 DEF PathsOf
<1>3. DOMAIN PathsOf(files) = 1..Len(files) /\ \A i \in 1..Len(files) : PathsOf(files)[i] = files[i].path
  BY <1>2
<1>4. PathsOf(files) \in Seq(Range(PathsOf(files)))
  <2>1. \A i \in 1..Len(files) : files[i].path \in Range(PathsOf(files))
    BY <1>3 DEF Range
  <2>2. QED
    BY <1>1, <1>2, <2>1
<1>5. ASSUME NEW i \in 1..Len(files) PROVE FileAt(files, files[i].path) = files[i]
  <2>1. \A j \in DOMAIN files : files[j].path = files[i].path <=> j = i
    BY <1>1, <1>3 DEF AreShown, Distinct
  <2>2. {j \in DOMAIN files : files[j].path = files[i].path} = {i}
    BY <1>1, <2>1
  <2>3. Max({i}) = i
    BY <1>1 DEF Max
  <2>4. QED
    BY <2>2, <2>3 DEF FileAt
<1>6. Range(PathsOf(files)) = {f.path : f \in Range(files)}
  BY <1>1, <1>3 DEF Range
<1>7. QED
  BY <1>1, <1>3, <1>4, <1>5, <1>6

LEMMA ChunksOfFile ==
  ASSUME NEW files, AreShown(files), NEW i \in 1..Len(files)
  PROVE  LET list == ChunksOf(files, files[i].path)
         IN  /\ list \in Seq(ChunkSet(files)) /\ DOMAIN files[i].hunks = 1..Len(list)
             /\ \A h \in 1..Len(list) : list[h].path = files[i].path /\ list[h].hunk = h
<1> DEFINE file == files[i]
           list == ChunksOf(files, file.path)
<1>1. FileAt(files, file.path) = file /\ i \in DOMAIN files /\ file.path \in Range(PathsOf(files))
  <2>1. i \in DOMAIN PathsOf(files) /\ PathsOf(files)[i] = file.path
    BY PathsAreListed
  <2>2. QED
    BY <2>1, PathsAreListed DEF Range
<1>2. PICK n \in Nat : DOMAIN file.hunks = 1..n
  BY <1>1 DEF AreShown
<1>3. \A h \in 1..n : file.hunks[h].bytes \in Nat
  BY <1>1, <1>2 DEF AreShown
<1> HIDE DEF file
<1>4. list = [h \in 1..n |-> [path |-> file.path, hunk |-> h, bytes |-> file.hunks[h].bytes]]
  BY <1>1, <1>2 DEF ChunksOf
<1> HIDE DEF list
<1>5. \A h \in 1..n :
        [path |-> file.path, hunk |-> h, bytes |-> file.hunks[h].bytes] \in ChunkSet(files)
  BY <1>1, <1>3 DEF ChunkSet
<1>6. list \in Seq(ChunkSet(files)) /\ Len(list) = n
  BY <1>4, <1>5
<1>7. \A h \in 1..n : list[h].path = file.path /\ list[h].hunk = h
  BY <1>4
<1>8. QED
  BY <1>2, <1>6, <1>7 DEF list, file

LEMMA ChunksAreHunks ==
  ASSUME NEW files, AreShown(files), NEW imports
  PROVE  LET all   == Chunks(files, imports)
             paths == Range(PathsOf(files))
         IN  /\ all \in Seq(ChunkSet(files)) /\ Together(all)
             /\ {<<all[i].path, all[i].hunk>> : i \in DOMAIN all} = HunksShown(files)
             /\ Len(all) = Cardinality(HunksShown(files))
             /\ \A f \in Range(files) :
                  IsInterval({i \in DOMAIN all : Linked(paths, imports, f.path, all[i].path)})
<1> DEFINE P     == Range(PathsOf(files))
           order == PackingOrder(files, imports)
           C     == ChunkSet(files)
           lists == [p \in DOMAIN order |-> ChunksOf(files, order[p])]
           all   == Chunks(files, imports)
           N     == Len(all)
           M     == Len(order)
<1>1. order \in Seq(P) /\ \E grp : Grouped(PathsOf(files), imports, order, grp)
  BY OrderIsGrouped, PathsAreListed DEF AreShown
<1>2. PICK grp : Grouped(PathsOf(files), imports, order, grp)
  BY <1>1
<1> HIDE DEF order
<1>3. all = FlattenSeq(lists)
  BY DEF Chunks, order
<1> HIDE DEF all
<1>4. DOMAIN order = 1..M /\ M \in Nat /\ \A p \in 1..M : order[p] \in P
  BY <1>1
<1> HIDE DEF P
<1>5. /\ Distinct(order) /\ Range(order) = P
      /\ \A p \in 1..M : grp[p] \in Nat
      /\ \A p, q \in 1..M : /\ p <= q => grp[p] <= grp[q]
                            /\ grp[p] = grp[q] <=> Linked(P, imports, order[p], order[q])
  BY <1>2, <1>4 DEF Grouped, P
<1>6. \A p \in 1..M : \E f \in Range(files) : order[p] = f.path
  BY <1>4, PathsAreListed DEF P
<1>7. \A f \in Range(files) : \E i \in 1..Len(files) : f = files[i]
  BY PathsAreListed DEF Range
<1>8. ASSUME NEW f \in Range(files)
      PROVE  LET list == ChunksOf(files, f.path)
             IN  /\ list \in Seq(C) /\ DOMAIN f.hunks = 1..Len(list) /\ Len(list) \in Nat
                 /\ \A h \in 1..Len(list) : list[h].path = f.path /\ list[h].hunk = h
  <2>1. PICK i \in 1..Len(files) : f = files[i]
    BY <1>7
  <2>2. QED
    BY <2>1, ChunksOfFile
<1> HIDE DEF C
<1>9. lists \in Seq(Seq(C)) /\ Len(lists) = M /\ \A p \in 1..M : lists[p] = ChunksOf(files, order[p])
  <2>1. \A p \in 1..M : ChunksOf(files, order[p]) \in Seq(C)
    BY <1>6, <1>8
  <2>2. QED
    BY <1>4, <2>1
<1> HIDE DEF lists, M
<1>10. all \in Seq(C) /\ \E of, ix : Owners(lists, all, of, ix)
  BY <1>3, <1>9, FlattenOwners
<1>11. PICK of, ix : Owners(lists, all, of, ix)
  BY <1>10
<1>12. N \in Nat /\ DOMAIN all = 1..N
  BY <1>10
<1> HIDE DEF N
<1>13. /\ \A i \in 1..N : /\ of[i] \in 1..M /\ ix[i] \in 1..Len(lists[of[i]])
                          /\ all[i] = lists[of[i]][ix[i]]
       /\ \A i, j \in 1..N : i < j => of[i] < of[j] \/ (of[i] = of[j] /\ ix[i] < ix[j])
       /\ \A p \in 1..M : \A h \in 1..Len(lists[p]) : \E i \in 1..N : of[i] = p /\ ix[i] = h
  BY <1>9, <1>11 DEF Owners, N
<1>14. ASSUME NEW i \in 1..N
       PROVE  /\ of[i] \in 1..M /\ all[i].path = order[of[i]] /\ all[i].hunk = ix[i] /\ ix[i] \in Nat
              /\ <<all[i].path, all[i].hunk>> \in HunksShown(files)
  <2> DEFINE p == of[i]
             h == ix[i]
  <2>1. p \in 1..M /\ h \in 1..Len(lists[p]) /\ all[i] = lists[p][h]
    BY <1>13
  <2> HIDE DEF p, h
  <2>2. PICK f \in Range(files) : order[p] = f.path
    BY <1>6, <2>1
  <2> DEFINE list == ChunksOf(files, f.path)
  <2>3. lists[p] = list
    BY <1>9, <2>1, <2>2
  <2>4. /\ DOMAIN f.hunks = 1..Len(list) /\ Len(list) \in Nat
        /\ \A k \in 1..Len(list) : list[k].path = f.path /\ list[k].hunk = k
    BY <1>8
  <2> HIDE DEF list
  <2>5. all[i].path = f.path /\ all[i].hunk = h /\ h \in DOMAIN f.hunks /\ h \in Nat
    BY <2>1, <2>3, <2>4
  <2>6. <<all[i].path, all[i].hunk>> \in HunksShown(files)
    BY <2>5 DEF HunksShown
  <2>7. QED
    BY <2>1, <2>2, <2>5, <2>6 DEF p, h
<1>15. ASSUME NEW pair \in HunksShown(files)
       PROVE  \E i \in 1..N : pair = <<all[i].path, all[i].hunk>>
  <2>1. PICK f \in Range(files) : \E h \in DOMAIN f.hunks : pair = <<f.path, h>>
    BY DEF HunksShown
  <2>2. PICK h \in DOMAIN f.hunks : pair = <<f.path, h>>
    BY <2>1
  <2>3. f.path \in P
    BY PathsAreListed DEF P
  <2>4. PICK p \in 1..M : order[p] = f.path
    BY <1>4, <1>5, <2>3 DEF Range
  <2>5. h \in 1..Len(lists[p])
    BY <1>8, <1>9, <2>4
  <2>6. PICK i \in 1..N : of[i] = p /\ ix[i] = h
    BY <1>13, <2>5
  <2>7. QED
    BY <1>14, <2>2, <2>4, <2>6
<1>16. ASSUME NEW i \in 1..N, NEW j \in 1..N, all[i].path = all[j].path
       PROVE  of[i] = of[j]
  <2>1. of[i] \in DOMAIN order /\ of[j] \in DOMAIN order /\ order[of[i]] = order[of[j]]
    BY <1>4, <1>14, <1>16
  <2>2. QED
    BY <1>5, <2>1 DEF Distinct
<1>17. \A i, j \in 1..N : i <= j => of[i] <= of[j]
  <2> TAKE i, j \in 1..N
  <2>1. of[i] \in Nat /\ of[j] \in Nat
    <3>1. of[i] \in 1..M /\ of[j] \in 1..M
      BY <1>14
    <3>2. M \in Nat
      BY <1>4
    <3>3. QED
      BY <3>1, <3>2
  <2>2. i <= j => i = j \/ i < j
    BY <1>12
  <2>3. i < j => of[i] < of[j] \/ of[i] = of[j]
    BY <1>13
  <2>4. QED
    BY <2>1, <2>2, <2>3
<1>18. Together(all)
  <2> SUFFICES ASSUME NEW i \in 1..N, NEW j \in 1..N, NEW k \in 1..N,
                      i <= j, j <= k, all[i].path = all[k].path
               PROVE  all[j].path = all[i].path
    BY DEF Together, N
  <2>1. of[i] = of[k] /\ of[i] <= of[j] /\ of[j] <= of[k]
    BY <1>16, <1>17
  <2>2. of[i] \in 1..M /\ of[j] \in 1..M
    BY <1>14
  <2>3. of[j] = of[i]
    BY <1>4, <2>1, <2>2
  <2>4. QED
    BY <1>14, <2>3
<1> DEFINE pairs == [i \in 1..N |-> <<all[i].path, all[i].hunk>>]
<1>19. {<<all[i].path, all[i].hunk>> : i \in DOMAIN all} = HunksShown(files)
  BY <1>12, <1>14, <1>15
<1>20. N = Cardinality(HunksShown(files))
  <2>1. pairs \in [1..N -> HunksShown(files)] /\ \A i \in 1..N : pairs[i] = <<all[i].path, all[i].hunk>>
    BY <1>14
  <2> HIDE DEF pairs
  <2>2. \A x \in HunksShown(files) : \E i \in 1..N : pairs[i] = x
    BY <1>15, <2>1
  <2>3. ASSUME NEW i \in 1..N, NEW j \in 1..N, pairs[i] = pairs[j] PROVE i = j
    <3>1. all[i].path = all[j].path /\ all[i].hunk = all[j].hunk
      BY <2>1, <2>3
    <3>2. of[i] = of[j] /\ ix[i] = ix[j] /\ of[i] \in 1..M /\ ix[i] \in Nat
      BY <1>14, <1>16, <3>1
    <3>3. ~(i < j) /\ ~(j < i)
      BY <1>4, <1>13, <3>2
    <3>4. QED
      BY <1>12, <3>3
  <2>4. pairs \in Surjection(1..N, HunksShown(files)) /\ pairs \in Injection(1..N, HunksShown(files))
    BY <2>1, <2>2, <2>3, Zenon DEF Surjection, Injection, IsInjective
  <2>5. IsFiniteSet(1..N) /\ Cardinality(1..N) = N
    BY <1>12, FS_Interval
  <2>6. QED
    BY <2>4, <2>5, FS_Surjection
<1>21. ASSUME NEW f \in Range(files)
       PROVE  IsInterval({i \in DOMAIN all : Linked(P, imports, f.path, all[i].path)})
  <2> DEFINE g == [i \in 1..N |-> grp[of[i]]]
  <2>1. f.path \in P
    BY PathsAreListed DEF P
  <2>2. PICK p \in 1..M : order[p] = f.path
    BY <1>4, <1>5, <2>1 DEF Range
  <2>3. \A i \in 1..N : g[i] = grp[of[i]] /\ g[i] \in Nat
    BY <1>5, <1>14
  <2> HIDE DEF g
  <2>4. \A i, j \in 1..N : i <= j => g[i] <= g[j]
    <3> TAKE i, j \in 1..N
    <3>1. of[i] \in 1..M /\ of[j] \in 1..M /\ (i <= j => of[i] <= of[j])
      BY <1>14, <1>17
    <3>2. of[i] <= of[j] => grp[of[i]] <= grp[of[j]]
      BY <1>5, <3>1
    <3>3. QED
      BY <2>3, <3>1, <3>2
  <2>5. ASSUME NEW i \in 1..N PROVE g[i] = grp[p] <=> Linked(P, imports, f.path, all[i].path)
    <3>1. of[i] \in 1..M /\ all[i].path = order[of[i]]
      BY <1>14
    <3>2. grp[p] = grp[of[i]] <=> Linked(P, imports, order[p], order[of[i]])
      BY <1>5, <3>1
    <3>3. QED
      BY <2>2, <2>3, <3>1, <3>2
  <2>6. {i \in DOMAIN all : Linked(P, imports, f.path, all[i].path)} = {i \in 1..N : g[i] = grp[p]}
    BY <1>12, <2>5
  <2> HIDE DEF N
  <2>7. IsInterval({i \in 1..N : g[i] = grp[p]})
    <3>1. N \in Nat /\ \A i \in 1..N : g[i] \in Nat
      BY <1>12, <2>3
    <3>2. QED
      BY <2>4, <3>1, ValuesAreIntervals
  <2>8. QED
    BY <2>6, <2>7
<1>22. QED
  BY <1>10, <1>18, <1>19, <1>20, <1>21 DEF all, N, P, C

-----------------------------------------------------------------------------
(* The shards of a review. *)

\* What is picked from files that are shown are files that are shown.
LEMMA PickedAreShown ==
  ASSUME NEW files, AreShown(files), NEW places \in SUBSET (DOMAIN files)
  PROVE  AreShown(Picked(files, places))
<1> DEFINE some == Picked(files, places)
<1>1. files \in Seq(Range(files)) /\ places \in SUBSET (1..Len(files)) /\ DOMAIN files = 1..Len(files)
  BY ListElements DEF AreShown, IsList
<1>2. some \in Seq(Range(files)) /\ \E ids : PickedFrom(files, places, some, ids)
  BY <1>1, PickedByPlace
<1>3. PICK ids : PickedFrom(files, places, some, ids)
  BY <1>2
<1>4. IsList(some) /\ DOMAIN some = 1..Len(some)
  BY <1>2, IsListOf
<1> HIDE DEF some
<1>5. \A k \in DOMAIN some : ids[k] \in DOMAIN files /\ some[k] = files[ids[k]]
  BY <1>1, <1>3, <1>4 DEF PickedFrom
<1>6. \A j, k \in DOMAIN some : ids[j] = ids[k] => j = k
  BY <1>3, <1>4 DEF PickedFrom
<1>7. Distinct(PathsOf(some))
  <2>1. ASSUME NEW j \in DOMAIN some, NEW k \in DOMAIN some, some[j].path = some[k].path PROVE j = k
    <3>1. files[ids[j]].path = files[ids[k]].path
      BY <1>5, <2>1
    <3>2. ids[j] = ids[k]
      BY <1>5, <3>1 DEF AreShown, Distinct, PathsOf
    <3>3. QED
      BY <1>6, <3>2
  <2>2. QED
    BY <2>1 DEF Distinct, PathsOf
<1>8. ASSUME NEW k \in DOMAIN some
      PROVE  /\ \E n \in Nat : DOMAIN some[k].hunks = 1..n
             /\ \A h \in DOMAIN some[k].hunks : some[k].hunks[h].bytes \in Nat
  BY <1>5 DEF AreShown
<1>9. AreShown(some)
  BY <1>4, <1>7, <1>8 DEF AreShown
<1>10. QED
  BY <1>9 DEF some

LEMMA DiffIsShown ==
  ASSUME NEW change, IsChange(change), NEW forge, NEW diffs, IsDiffOf(diffs, change, forge), NamesApart(diffs)
  PROVE  AreShown(diffs)
<1>1. ASSUME NEW k \in DOMAIN diffs
      PROVE  /\ diffs[k].path # NoPath
             /\ \E n \in Nat : DOMAIN diffs[k].hunks = 1..n
             /\ \A h \in DOMAIN diffs[k].hunks : diffs[k].hunks[h].bytes \in Nat
  <2> DEFINE file == change[IdsOf(change)[k]]
             d    == diffs[k]
  <2>1. IsFile(file) /\ IsSafeRelativePath(file.path) /\ IsDiffFileOf(d, file, forge)
    BY FilesOfDiff
  <2> HIDE DEF file, d
  <2>2. d.path # NoPath
    BY <2>1, NoPathIsNotSafe DEF IsDiffFileOf
  <2>3. /\ IsList(file.hunks)
        /\ d.hunks = <<>> \/ DOMAIN d.hunks = DOMAIN file.hunks
        /\ \A h \in DOMAIN d.hunks : h \in DOMAIN file.hunks /\ d.hunks[h].bytes = 1 + BytesOf(file.hunks[h].body)
    <3>1. IsList(file.hunks)
      BY <2>1 DEF IsFile
    <3>2. CASE Omitted(file, forge)
      <4>1. d.hunks = <<>>
        BY <2>1, <3>2 DEF IsDiffFileOf
      <4>2. DOMAIN d.hunks = {}
        BY <4>1
      <4>3. QED
        BY <3>1, <4>1, <4>2
    <3>3. CASE ~Omitted(file, forge)
      BY <2>1, <3>1, <3>3 DEF IsDiffFileOf, IsHunkOf
    <3>4. QED
      BY <3>2, <3>3
  <2>4. Len(file.hunks) \in Nat /\ DOMAIN file.hunks = 1..Len(file.hunks)
    BY <2>3, ListElements
  <2>5. ASSUME NEW h \in DOMAIN file.hunks PROVE BytesOf(file.hunks[h].body) \in Nat
    <3> DEFINE body == file.hunks[h].body
    <3>1. file.hunks[h] \in Range(file.hunks)
      BY DEF Range
    <3>2. IsList(body) /\ \A line \in Range(body) : line.bytes \in Nat
      BY <2>1, <3>1 DEF IsFile
    <3> HIDE DEF body
    <3>3. Sized(body)
      BY <3>2, ListElements DEF Sized
    <3>4. QED
      BY <3>3, BytesAreNatural DEF body
  <2>6. \A h \in DOMAIN d.hunks : d.hunks[h].bytes \in Nat
    BY <2>3, <2>5
  <2>7. \E n \in Nat : DOMAIN d.hunks = 1..n
    <3>1. DOMAIN <<>> = 1..0
      OBVIOUS
    <3>2. QED
      BY <2>3, <2>4, <3>1
  <2>8. QED
    BY <2>2, <2>6, <2>7 DEF d
<1>2. IsList(diffs)
  BY FilesOfDiff
<1>3. Distinct(PathsOf(diffs))
  <2>1. ASSUME NEW j \in DOMAIN diffs, NEW k \in DOMAIN diffs, diffs[j].path = diffs[k].path PROVE j = k
    <3>1. diffs[j].path \in NamesOf(diffs[j]) \cap NamesOf(diffs[k])
      BY <1>1, <2>1 DEF NamesOf
    <3>2. QED
      BY <3>1 DEF NamesApart
  <2>2. QED
    BY <2>1 DEF Distinct, PathsOf
<1>4. QED
  BY <1>1, <1>2, <1>3 DEF AreShown

LEMMA ReviewedAreShown ==
  ASSUME ReviewInv, Settled, phase \notin {"diff", "threw"}
  PROVE  AreShown(ReviewedFiles)
<1>1. NamesApart(diff) /\ IsDiffOf(diff, Shows(input.forge, input.change), input.forge)
      /\ IsChange(Shows(input.forge, input.change))
  BY HeldDiffIsInside, WholeDiff, ShownIsChange DEF DiffIsWhole, Shows, ReviewInv
<1>2. AreShown(diff)
  BY <1>1, DiffIsShown
<1> DEFINE reviewed == Reviewed(diff, RulesOf)
<1>3. AreShown(reviewed)
  <2>1. {i \in DOMAIN diff : RulesOf(diff[i].path) # <<>>} \in SUBSET (DOMAIN diff)
    OBVIOUS
  <2>2. QED
    BY <1>2, <2>1, PickedAreShown DEF Reviewed
<1> HIDE DEF reviewed
<1>4. AreShown(TextFiles(reviewed))
  <2>1. {i \in DOMAIN reviewed : ~reviewed[i].binary} \in SUBSET (DOMAIN reviewed)
    OBVIOUS
  <2>2. QED
    BY <1>3, <2>1, PickedAreShown DEF TextFiles
<1>5. QED
  BY <1>4 DEF ReviewedFiles, reviewed

\* The shards put one after the other are the chunks.
LEMMA ShardsFlatten ==
  ASSUME NEW C, NEW chunks \in Seq(C), NEW shards \in Seq(ShardSet(C)), NEW budget,
         NEW cut, Cut(chunks, shards, cut, budget), cut[Len(shards)] = Len(chunks)
  PROVE  FlattenSeq([s \in DOMAIN shards |-> shards[s].chunks]) = chunks
<1> DEFINE pieces == [s \in DOMAIN shards |-> shards[s].chunks]
           K == Len(shards)
<1>1. K \in Nat /\ DOMAIN shards = 1..K /\ \A s \in 1..K : shards[s] \in ShardSet(C)
  OBVIOUS
<1>2. \A s \in 1..K : shards[s].chunks \in Seq(C)
  BY <1>1 DEF ShardSet
<1>3. pieces \in Seq(Seq(C)) /\ Len(pieces) = K /\ \A s \in 1..K : pieces[s] = shards[s].chunks
  BY <1>1, <1>2
<1>4. cut \in [0..K -> 0..Len(chunks)] /\ cut[0] = 0
      /\ \A s \in 1..K : IsShardOf(shards[s], chunks, cut[s - 1], cut[s], budget)
  BY DEF Cut
<1> HIDE DEF pieces, K
<1>5. ASSUME NEW s \in 1..K
      PROVE  /\ cut[s - 1] <= cut[s] /\ cut[s] = cut[s - 1] + Len(pieces[s])
             /\ \A j \in 1..Len(pieces[s]) : pieces[s][j] = chunks[cut[s - 1] + j]
  <2> DEFINE from  == cut[s - 1]
             to    == cut[s]
             piece == pieces[s]
             shard == shards[s]
  <2>1. s - 1 \in 0..K
    BY <1>1
  <2>2. from \in 0..Len(chunks)
    BY <1>4, <2>1
  <2>3. piece = shard.chunks /\ piece \in Seq(C)
    BY <1>2, <1>3
  <2>4. IsShardOf(shard, chunks, from, to, budget)
    BY <1>4
  <2> HIDE DEF from, to, piece, shard
  <2>5. to = from + Len(piece) /\ \A j \in 1..Len(piece) : piece[j] = chunks[from + j]
    BY <2>3, <2>4 DEF IsShardOf
  <2>6. from \in Nat /\ Len(piece) \in Nat
    BY <2>2, <2>3
  <2>7. from <= to
    BY <2>5, <2>6
  <2>8. QED
    BY <2>5, <2>7 DEF from, to, piece
<1>6. cut \in [0..K -> Nat]
  <2>1. 0..Len(chunks) \subseteq Nat
    OBVIOUS
  <2>2. QED
    BY <1>4, <2>1
<1>7. Pieces(chunks, pieces, cut)
  BY <1>3, <1>4, <1>5, <1>6 DEF Pieces, Cuts, K
<1>8. FlattenSeq(pieces) = chunks
  BY <1>3, <1>7, PiecesFlatten
<1>9. QED
  BY <1>8 DEF pieces

\* What the shards of shown files are.
AreShardsOf(shards, files, imports) ==
  LET all   == FlattenSeq([s \in DOMAIN shards |-> shards[s].chunks])
      paths == Range(PathsOf(files))
  IN  /\ {<<all[i].path, all[i].hunk>> : i \in DOMAIN all} = HunksShown(files)
      /\ Len(all) = Cardinality(HunksShown(files))
      /\ \A s \in DOMAIN shards :
           /\ BytesOf(shards[s].chunks) <= shardBytes \/ Len(shards[s].chunks) = 1
           /\ shards[s].truncated <=> Share(shards, s, s - 1) \/ Share(shards, s, s + 1)
      /\ \A f \in Range(files) :
           IsInterval({i \in DOMAIN all : Linked(paths, imports, f.path, all[i].path)})

LEMMA ShardsHold ==
  ASSUME NEW files, AreShown(files), NEW imports
  PROVE  AreShardsOf(Pack(Chunks(files, imports), shardBytes), files, imports)
<1> DEFINE C      == ChunkSet(files)
           chunks == Chunks(files, imports)
           shards == Pack(chunks, shardBytes)
           all    == FlattenSeq([s \in DOMAIN shards |-> shards[s].chunks])
           P      == Range(PathsOf(files))
<1>1. /\ chunks \in Seq(C) /\ Together(chunks)
      /\ {<<chunks[i].path, chunks[i].hunk>> : i \in DOMAIN chunks} = HunksShown(files)
      /\ Len(chunks) = Cardinality(HunksShown(files))
      /\ \A f \in Range(files) :
           IsInterval({i \in DOMAIN chunks : Linked(P, imports, f.path, chunks[i].path)})
  BY ChunksAreHunks
<1>2. AreChunks(C)
  BY DEF AreChunks, ChunkSet
<1> HIDE DEF chunks, C, P
<1>3. shards \in Seq(ShardSet(C))
      /\ \E cut : Cut(chunks, shards, cut, shardBytes) /\ cut[Len(shards)] = Len(chunks)
  BY <1>1, <1>2, BudgetIsReal, PackCuts DEF BudgetIsReal
<1> HIDE DEF shards
<1>4. PICK cut : Cut(chunks, shards, cut, shardBytes) /\ cut[Len(shards)] = Len(chunks)
  BY <1>3
<1>5. all = chunks
  BY <1>1, <1>3, <1>4, ShardsFlatten
<1> HIDE DEF all
<1>6. ASSUME NEW s \in DOMAIN shards
      PROVE  /\ BytesOf(shards[s].chunks) <= shardBytes \/ Len(shards[s].chunks) = 1
             /\ shards[s].truncated <=> Share(shards, s, s - 1) \/ Share(shards, s, s + 1)
  <2>1. s \in 1..Len(shards)
    BY <1>3
  <2>2. WithinBudget(shards[s].chunks, shardBytes)
    BY <1>4, <2>1 DEF Cut, IsShardOf
  <2>3. shards[s].truncated <=> Share(shards, s, s - 1) \/ Share(shards, s, s + 1)
    BY <1>1, <1>3, <1>4, TruncatedIsShared
  <2>4. QED
    BY <2>2, <2>3 DEF WithinBudget
<1>7. QED
  BY <1>1, <1>5, <1>6 DEF AreShardsOf, all, shards, chunks, P

-----------------------------------------------------------------------------
\* The shards of a run are those of its diff.
ShardsAreCut ==
  phase \notin {"diff", "context", "threw"} =>
    bounded.shards = ShardDiff(Reviewed(diff, RulesOf), input.imports, shardBytes)

LEMMA ShardsAreCutStarts == ReviewInit => ShardsAreCut
BY DEF ReviewInit, ShardsAreCut

LEMMA ShardsAreCutGoesOn ==
  ShardsAreCut /\ [ReviewNext]_<<fanOutVars, reviewVars>> => ShardsAreCut'
<1> SUFFICES ASSUME ShardsAreCut, [ReviewNext]_<<fanOutVars, reviewVars>> PROVE ShardsAreCut'
  OBVIOUS
<1> DEFINE Shards_ == ShardDiff(Reviewed(diff, RulesOf), input.imports, shardBytes)
<1>1. CASE Assemble
  <2>1. diff' = diff /\ input' = input /\ bounded'.shards = Shards_
    BY <1>1 DEF Assemble
  <2>2. Shards_' = Shards_
    BY <2>1
  <2>3. QED
    BY <2>1, <2>2 DEF ShardsAreCut
<1>2. CASE /\ UNCHANGED <<input, diff, bounded>>
           /\ phase' \in {"diff", "context", "threw"} \/ phase \notin {"diff", "context", "threw"}
  <2>1. Shards_' = Shards_
    BY <1>2
  <2>2. QED
    BY <1>2, <2>1 DEF ShardsAreCut
<1>3. CASE Fetch
  BY <1>3 DEF Fetch, ShardsAreCut
<1>4. CASE ReasonStep \/ ValidateStep \/ Recall \/ Timeout \/ UNCHANGED <<fanOutVars, reviewVars>>
  <2>1. UNCHANGED <<input, diff, bounded>>
    BY <1>4 DEF ReasonStep, ValidateStep, Recall, Timeout, reviewVars
  <2>2. phase' \in {"diff", "context", "threw"} \/ phase \notin {"diff", "context", "threw"}
    BY <1>4 DEF ReasonStep, ValidateStep, Recall, Timeout, reviewVars
  <2>3. QED
    BY <1>2, <2>1, <2>2
<1>5. QED
  BY <1>1, <1>3, <1>4 DEF ReviewNext

LEMMA ShardsPartition ==
  ASSUME ReviewInv, Settled, ShardsAreCut
  PROVE  ShardsPartitionDiff
<1> SUFFICES ASSUME phase \in {"reason", "validate"} PROVE ShardsPartitionDiff
  BY DEF ShardsPartitionDiff
<1> DEFINE files  == ReviewedFiles
           shards == bounded.shards
           all    == FlattenSeq([s \in DOMAIN shards |-> shards[s].chunks])
           paths  == Range(PathsOf(files))
           Follow(f) == {i \in DOMAIN all : \A S \in ClosedSets : f.path \in S => all[i].path \in S}
<1>1. AreShown(files)
  BY ReviewedAreShown
<1>2. shards = Pack(Chunks(files, input.imports), shardBytes)
  BY DEF ShardsAreCut, ShardDiff, ReviewedFiles
<1> HIDE DEF files
<1>3. ClosedSets = Closed(paths, input.imports)
  <2>1. paths = {f.path : f \in Range(files)}
    BY <1>1, PathsAreListed
  <2>2. QED
    BY <2>1 DEF ClosedSets, Closed, files
<1>4. /\ {<<all[i].path, all[i].hunk>> : i \in DOMAIN all} = HunksShown(files)
      /\ Len(all) = Cardinality(HunksShown(files))
      /\ \A s \in DOMAIN shards :
           /\ BytesOf(shards[s].chunks) <= shardBytes \/ Len(shards[s].chunks) = 1
           /\ shards[s].truncated <=> Share(shards, s, s - 1) \/ Share(shards, s, s + 1)
      /\ \A f \in Range(files) :
           IsInterval({i \in DOMAIN all : Linked(paths, input.imports, f.path, all[i].path)})
  <2>1. AreShardsOf(shards, files, input.imports)
    BY <1>1, <1>2, ShardsHold
  <2> HIDE DEF shards
  <2>2. QED
    BY <2>1 DEF AreShardsOf
<1> HIDE DEF shards, all, paths
<1>5. \A f \in Range(files) : IsInterval(Follow(f))
  <2> TAKE f \in Range(files)
  <2>1. \A i \in DOMAIN all :
          Linked(paths, input.imports, f.path, all[i].path) <=>
            \A S \in ClosedSets : f.path \in S => all[i].path \in S
    BY <1>3 DEF Linked
  <2>2. Follow(f) = {i \in DOMAIN all : Linked(paths, input.imports, f.path, all[i].path)}
    BY <2>1
  <2>3. QED
    BY <1>4, <2>2
<1>6. \A f \in Range(files) : Follow(f) # {} => Follow(f) = Min(Follow(f))..Max(Follow(f))
  <2> HIDE DEF Follow
  <2>1. QED
    BY <1>5 DEF IsInterval
<1>7. QED
  BY <1>4, <1>6 DEF ShardsPartitionDiff, shards, all, files, HunksShown, Share

\* Whatever the change, its rules and its imports, and whatever the budget of a shard, the agents
\* are shown every hunk of every reviewed text file once, files that import one another one after
\* the other, within the budget but for a hunk that is over it alone, and a shard is told to be
\* truncated exactly when a file goes on in a neighbor (shardDiff, clusterFiles).
THEOREM ShardsHoldTheDiff == ReviewSpec => []ShardsPartitionDiff
<1>1. ReviewInv /\ Settled /\ ShardsAreCut => ShardsPartitionDiff
  BY ShardsPartition
<1>2. QED
  BY <1>1, SettledInvariance, ShardsAreCutStarts, ShardsAreCutGoesOn, PTL DEF ReviewSpec
===============================================================================

------------------------------ MODULE ShardFanOut ------------------------------
(***************************************************************************)
(* The reason stage of packages/core/review-runtime: `reason`, and the     *)
(* workers of `fanOutShards` that share a cursor over the shards.          *)
(*                                                                         *)
(* A worker runs without interruption from the answer of one shard's agent *)
(* to its next call of `runShard`; the worker that ends last goes on to    *)
(* what follows Promise.all, since nothing but microtasks lies between.    *)
(***************************************************************************)
EXTENDS Integers, FiniteSets

CONSTANTS
  MaxShards,        \* bound on the shards of a diff
  shardConcurrency,
  parallelShards,   \* the switch, and whether the driver provides runShard
  Answers,          \* what an agent may return
  NoAnswer          \* it rejects, or ends for another reason than completion

ASSUME FanOutConstants ==
  /\ MaxShards \in Nat
  /\ shardConcurrency \in Nat
  /\ parallelShards \in BOOLEAN
  /\ NoAnswer \notin Answers

VARIABLES
  count,      \* the number of shards
  stage,      \* where the stage is
  cursor,     \* how many shards were taken
  worker,     \* the shard each worker awaits, 0 for none
  results,    \* the answers of the shards
  incomplete, \* how many shards the workers counted as failed
  single,     \* the answer of the single agent
  aborted     \* the watchdog has fired

fanOutVars == <<count, stage, cursor, worker, results, incomplete, single, aborted>>

Workers == 1..(IF shardConcurrency = 0 THEN 1 ELSE shardConcurrency)
Shards == 1..MaxShards
Stages == {"ready", "shards", "creates", "agent", "lateAgent", "returned", "threw"}
Over == {"returned", "threw"}

-----------------------------------------------------------------------------
(* Faulty variants of definitions below. *)

\* Promise.all resolves once every shard has an answer or counts as failed.
AllOverCounted(awaits, answers, failed) ==
  Cardinality({i \in 1..count : answers[i] # NoAnswer}) + failed = count
\* The signal is not looked at after the workers.
JoinedUnchecked(answers) ==
  IF \A i \in 1..count : answers[i] = NoAnswer THEN "creates" ELSE "returned"

-----------------------------------------------------------------------------
FanOutInit ==
  /\ stage = "ready"
  /\ cursor = 0
  /\ worker = [w \in Workers |-> 0]
  /\ results = [i \in Shards |-> NoAnswer]
  /\ incomplete = 0
  /\ single = NoAnswer
  /\ aborted = FALSE

Init == count \in 0..MaxShards /\ FanOutInit

\* Math.max(1, Math.min(shardConcurrency, shards.length)), where there is more than one shard.
Concurrency == Cardinality({w \in Workers : w <= count})

\* Every worker runs up to its first call, unless the watchdog has fired already.
FanOut ==
  /\ stage = "ready" /\ parallelShards /\ count > 1
  /\ IF aborted
     THEN stage' = "threw" /\ UNCHANGED <<cursor, worker>>
     ELSE /\ stage' = "shards"
          /\ cursor' = Concurrency
          /\ worker' = [w \in Workers |-> IF w <= count THEN w ELSE 0]
  /\ UNCHANGED <<count, results, incomplete, single, aborted>>

\* One agent for the whole diff, whose creation is awaited.
RunAgent ==
  /\ stage = "ready" /\ ~(parallelShards /\ count > 1)
  /\ stage' = "creates"
  /\ UNCHANGED <<count, cursor, worker, results, incomplete, single, aborted>>

\* Its creation fails, or it starts and the signal is listened to: a signal that was aborted
\* before does not tell the listener, and nothing else looks at it until the agent is idle.
AgentStarts ==
  /\ stage = "creates"
  /\ stage' \in {IF aborted THEN "lateAgent" ELSE "agent", "threw"}
  /\ UNCHANGED <<count, cursor, worker, results, incomplete, single, aborted>>

\* A worker goes on with the shard at the cursor, if there is one and the signal allows.
GoesOn == cursor < count /\ ~aborted
Taken(w) == cursor + 1
Failed(answer) == IF answer = NoAnswer THEN incomplete + 1 ELSE incomplete
AllOver(awaits, answers, failed) == \A w \in Workers : awaits[w] = 0

\* After Promise.all: an abort throws, and without any answer the single agent reviews.
Joined(answers) ==
  IF aborted THEN "threw"
  ELSE IF \A i \in 1..count : answers[i] = NoAnswer THEN "creates"
  ELSE "returned"

ShardEnds(w, answer) ==
  /\ stage = "shards" /\ worker[w] # 0
  /\ results' = [results EXCEPT ![worker[w]] = answer]
  /\ incomplete' = Failed(answer)
  /\ cursor' = IF GoesOn THEN cursor + 1 ELSE cursor
  /\ worker' = [worker EXCEPT ![w] = IF GoesOn THEN Taken(w) ELSE 0]
  /\ stage' = IF AllOver(worker', results', incomplete') THEN Joined(results') ELSE stage
  /\ UNCHANGED <<count, single, aborted>>

\* The agent that an abort cancels throws, and so does a late one; any may.
AgentEnds(answer) ==
  /\ stage \in {"agent", "lateAgent"}
  /\ single' = IF aborted THEN NoAnswer ELSE answer
  /\ stage' = IF aborted \/ answer = NoAnswer THEN "threw" ELSE "returned"
  /\ UNCHANGED <<count, cursor, worker, results, incomplete, aborted>>

Watchdog ==
  /\ stage \notin Over /\ ~aborted
  /\ aborted' = TRUE
  /\ UNCHANGED <<count, stage, cursor, worker, results, incomplete, single>>

Reason ==
  \/ FanOut \/ RunAgent \/ AgentStarts
  \/ \E answer \in Answers \cup {NoAnswer} :
       (\E w \in Workers : ShardEnds(w, answer)) \/ AgentEnds(answer)

Next == Reason \/ Watchdog

Spec == Init /\ [][Next]_fanOutVars

-----------------------------------------------------------------------------
\* Well-typed state.
FanOutTypeOK ==
  /\ count \in 0..MaxShards
  /\ stage \in Stages
  /\ cursor \in 0..count
  /\ worker \in [Workers -> 0..count]
  /\ results \in [Shards -> Answers \cup {NoAnswer}]
  /\ incomplete \in Nat
  /\ single \in Answers \cup {NoAnswer}
  /\ aborted \in BOOLEAN

\* The shards in hand, and those that were taken and are not.
Held == {worker[w] : w \in Workers} \ {0}
Reported == (1..cursor) \ Held

(***************************************************************************)
(* No shard is in two hands, none is taken again after its answer, and     *)
(* every failure is counted once.                                          *)
(***************************************************************************)
TakenOnce ==
  /\ \A w \in Workers : worker[w] <= cursor
  /\ \A v, w \in Workers : v # w /\ worker[v] # 0 => worker[v] # worker[w]
  /\ \A i \in Shards : i \notin Reported => results[i] = NoAnswer
  /\ incomplete = Cardinality({i \in Reported : results[i] = NoAnswer})

(***************************************************************************)
(* A round that returns is told for what it is: either one agent had the   *)
(* whole diff, or some shard was reviewed and the count of incomplete      *)
(* shards is that of the shards that were not, whatever failed, and        *)
(* wherever the watchdog fired.                                            *)
(***************************************************************************)
CoverageIsHonest ==
  stage = "returned" /\ single = NoAnswer =>
    /\ \E i \in 1..count : results[i] # NoAnswer
    /\ incomplete = Cardinality({i \in 1..count : results[i] = NoAnswer})
=============================================================================

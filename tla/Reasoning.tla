------------------------------- MODULE Reasoning -------------------------------
(***************************************************************************)
(* One review up to its publication, in `runReview` of                     *)
(* packages/core/review-runtime: the diff is fetched (DiffSources), the    *)
(* context is assembled (DiffSharding, RuleRegistry), agents answer        *)
(* (ShardFanOut), what they propose is validated, merged over the shards,  *)
(* calibrated, clustered, and what a maintainer accepted is suppressed.    *)
(***************************************************************************)
EXTENDS ShardFanOut, DiffSources, DiffSharding, RuleRegistry, Findings

CONSTANTS
  Inputs,       \* changes, each with its forge and the imports that could be read
  Says,         \* what an agent may answer, for each input
  Packs,        \* the rule packs, as they were registered
  FileSizes,    \* the files that can be read, with their sizes
  Memories,     \* what the memory store may hold
  shardBytes, neighborBytes, severityOverrides, clusterWindow

\* Changes are lists of files, at one of the forges.  A file that takes the former name of another
\* is a change of that file, so that no two files share a name.
ASSUME InputsAreReal ==
  \A i \in Inputs :
    /\ i.forge \in {"github", "gitlab", "local"}
    /\ IsList(i.change) /\ \A file \in Range(i.change) : IsFile(file)
    /\ \A f, g \in DOMAIN i.change :
         f # g => {i.change[f].path, OldName(i.change[f])} \cap {i.change[g].path, OldName(i.change[g])} = {}

\* What agents answer are lists of proposals and of patches.  Titles with one lower-cased text
\* have one text without punctuation, which is made of it.
ASSUME AnswersAreReal ==
  /\ \A i \in Inputs : Says[i] \subseteq Answers
  /\ \A answer \in Answers :
       /\ IsList(answer.patches) /\ IsList(answer.proposals)
       /\ \A raw \in Range(answer.proposals) : IsProposal(raw)
  /\ \A one, other \in Answers :
       \A raw \in Range(one.proposals), also \in Range(other.proposals) :
         raw.title.lower = also.title.lower => raw.title.loose = also.title.loose

\* The budget of a shard is a number.
ASSUME BudgetIsReal == shardBytes \in Int

\* Overrides are severities.
ASSUME OverridesAreReal == \A rule \in DOMAIN severityOverrides : severityOverrides[rule] \in Severity

\* A memory is a list of exceptions.
ASSUME MemoriesAreReal ==
  \A known \in Memories : IsList(known) /\ \A exception \in Range(known) : IsException(exception)

VARIABLES
  input,      \* the change, its forge and its imports
  diff,       \* the diff that was fetched
  phase,      \* the phase of the run
  bounded,    \* the bounded context
  groups,     \* findings per dedupe key, or one group per finding without a fan-out
  findings,   \* what will be published
  discarded,  \* the reasons of what was refused
  suppressed, \* the findings that were accepted earlier
  memory      \* the accepted exceptions that were read

reviewVars == <<input, diff, phase, bounded, groups, findings, discarded, suppressed, memory>>

NoContext == [shards |-> <<>>, rules |-> <<>>, neighbors |-> {}]

ReviewInit ==
  /\ FanOutInit /\ count = 0
  /\ input \in Inputs
  /\ phase = "diff" /\ diff = <<>>
  /\ bounded = NoContext
  /\ groups = <<>> /\ findings = <<>> /\ discarded = <<>> /\ suppressed = <<>>
  /\ memory = <<>>

-----------------------------------------------------------------------------
\* The registered packs, one after the other.
Registered == FoldLeft(Register, <<>>, Packs)
RulesOf(path) == Match(Registered, path)

\* The forge shows the change, or the request fails.
Fetch ==
  /\ phase = "diff"
  /\ \/ diff' = FetchDiff(input.forge, input.change) /\ phase' = "context"
     \/ phase' = "threw" /\ UNCHANGED diff
  /\ UNCHANGED fanOutVars
  /\ UNCHANGED <<input, bounded, groups, findings, discarded, suppressed, memory>>

(***************************************************************************)
(* assembleContext, then the neighbors, which only a context with rules    *)
(* and an import graph gets.  Without an applicable rule no agent runs.    *)
(***************************************************************************)
Assemble ==
  /\ phase = "context"
  /\ LET reviewed == Reviewed(diff, RulesOf)
         rules    == ApplicableRules(reviewed, RulesOf)
         shards   == ShardDiff(reviewed, input.imports, shardBytes)
     IN  /\ bounded' =
              [shards |-> shards, rules |-> rules,
               neighbors |-> IF rules # <<>> /\ neighborBytes > 0 /\ DOMAIN input.imports # {}
                             THEN Neighbors(diff, input.imports, FileSizes,
                                            neighborBytes).files
                             ELSE {}]
         /\ count' = Len(shards) /\ count' \in 0..MaxShards
         /\ phase' = IF rules = <<>> THEN "validate" ELSE "reason"
  /\ UNCHANGED <<stage, cursor, worker, results, incomplete, single, aborted>>
  /\ UNCHANGED <<input, diff, groups, findings, discarded, suppressed, memory>>

ReasonStep ==
  /\ phase = "reason"
  /\ \/ FanOut \/ RunAgent \/ AgentStarts
     \/ \E answer \in Says[input] \cup {NoAnswer} :
          (\E w \in Workers : ShardEnds(w, answer)) \/ AgentEnds(answer)
  /\ phase' = CASE stage' = "returned" -> "validate" [] stage' = "threw" -> "threw"
                [] OTHER -> phase
  /\ UNCHANGED <<input, diff, bounded, groups, findings, discarded, suppressed, memory>>

\* The answers the output holds: of the shards that have one, in their order, or the agent's.
Answered ==
  IF single # NoAnswer THEN <<single>>
  ELSE Picked(results, {i \in 1..count : results[i] # NoAnswer})

Proposals == FlattenSeq([k \in DOMAIN Answered |-> Answered[k].proposals])

\* Each finding on its own: the path without a merge.
Unmerged(list) == [i \in DOMAIN list |-> [finding |-> list[i], shardHits |-> {1}]]

(***************************************************************************)
(* With answers of several shards, validation is per shard and followed    *)
(* by the merge; calibration and clustering follow either.  The patches    *)
(* that agents proposed on their own are narrowed, and those refused are   *)
(* told.                                                                   *)
(***************************************************************************)
Valid(k) == Validate(Answered[k].proposals, diff, bounded.rules)
Sharded ==
  FlattenSeq([k \in DOMAIN Answered |->
    [i \in DOMAIN Valid(k).findings |-> <<k, Valid(k).findings[i]>>]])

ValidateStep ==
  /\ phase = "validate"
  /\ LET perShard == Len(Answered) > 1
         whole    == Validate(Proposals, diff, bounded.rules)
         patches  == NarrowPatches(FlattenSeq([k \in DOMAIN Answered |-> Answered[k].patches]))
     IN  /\ groups' = IF perShard THEN MergeFindings(Sharded) ELSE Unmerged(whole.findings)
         /\ discarded' =
              (IF perShard THEN FlattenSeq([k \in DOMAIN Answered |-> Valid(k).discarded])
               ELSE whole.discarded) \o patches.discarded
  /\ findings' = ClusterWithinShard(ApplySeverityOverrides(FindingsOf(groups'),
                                                           severityOverrides), clusterWindow)
  /\ phase' = "recall"
  /\ UNCHANGED <<input, diff, bounded, suppressed, memory>> /\ UNCHANGED fanOutVars

\* The memory answers, or fails, which is as if it held nothing.
Recall ==
  /\ phase = "recall"
  /\ memory' \in Memories \cup {<<>>}
  /\ findings' = SuppressResolved(findings, memory').findings
  /\ suppressed' = SuppressResolved(findings, memory').suppressed
  /\ phase' = "publish"
  /\ UNCHANGED <<input, diff, bounded, groups, discarded>> /\ UNCHANGED fanOutVars

\* The timer runs from the start of the run; after the reason stage nothing looks at it.
Timeout ==
  /\ phase \in {"diff", "context", "reason"}
  /\ Watchdog
  /\ UNCHANGED reviewVars

ReviewNext == Fetch \/ Assemble \/ ReasonStep \/ ValidateStep \/ Recall \/ Timeout

\* The calls that end: those the stage starts, and those an abort reaches, through the signal a
\* shard's agent is given or the listener that cancels the single agent.  Of an agent on its own
\* nothing says that it ends.
Prompt ==
  /\ ReasonStep
  /\ (stage \in {"ready", "creates"} \/ (aborted /\ stage \in {"shards", "agent"}))

ReviewSpec ==
  /\ ReviewInit /\ [][ReviewNext]_<<fanOutVars, reviewVars>>
  /\ WF_<<fanOutVars, reviewVars>>(Prompt) /\ WF_<<fanOutVars, reviewVars>>(Timeout)

-----------------------------------------------------------------------------
(***************************************************************************)
(* Whatever the forge, and whatever the lines of a hunk look like, the     *)
(* diff is that of the change, but for what GitHub keeps back: the files   *)
(* beyond those it is asked for, and the hunks of a file over its cap,     *)
(* which is there as a binary one, never in part (fetchDiff, parseHunks,   *)
(* splitFileSections, parseFileSection).                                   *)
(***************************************************************************)
DiffIsWhole ==
  phase \notin {"diff", "threw"} =>
    IsDiffOf(diff, IF input.forge = "github" THEN Paged(input.change) ELSE input.change, input.forge)

ReviewedFiles == TextFiles(Reviewed(diff, RulesOf))

\* The sets of reviewed files that no import leads out of or into.
ClosedSets ==
  LET paths == {f.path : f \in Range(ReviewedFiles)}
      edges == {e \in paths \X paths : e[2] \in ImportedBy(e[1], input.imports, paths)}
  IN  {S \in SUBSET paths : \A e \in edges : e[1] \in S <=> e[2] \in S}

(***************************************************************************)
(* The shards hold every hunk of every reviewed text file once, none is    *)
(* over the budget but for a single hunk, linked files are not separated   *)
(* by others, and a shard says that it is truncated exactly when one of    *)
(* its files goes on in a neighbor (shardDiff, clusterFiles).              *)
(***************************************************************************)
ShardsPartitionDiff ==
  phase \in {"reason", "validate"} /\ stage = "ready" =>
    LET shards == bounded.shards
        all    == FlattenSeq([s \in DOMAIN shards |-> shards[s].chunks])
        closed == ClosedSets
        hunks  == UNION {{<<f.path, h>> : h \in DOMAIN f.hunks} : f \in Range(ReviewedFiles)}
        Shares(s, t) == t \in DOMAIN shards /\ shards[s].files \cap shards[t].files # {}
    IN  /\ {<<all[i].path, all[i].hunk>> : i \in DOMAIN all} = hunks
        /\ Len(all) = Cardinality(hunks)
        /\ \A s \in DOMAIN shards :
             /\ BytesOf(shards[s].chunks) <= shardBytes \/ Len(shards[s].chunks) = 1
             /\ shards[s].truncated <=> Shares(s, s - 1) \/ Shares(s, s + 1)
        /\ \A f \in Range(ReviewedFiles) :
             LET linked == {i \in DOMAIN all :
                              \A S \in closed : f.path \in S => all[i].path \in S}
             IN  linked # {} => linked = Min(linked)..Max(linked)

Accepted == [k \in DOMAIN Answered |-> Valid(k).findings]

\* What stands for a finding in a report: as severe, after the maintainer's calibration.
StandsFor(report, f) ==
  /\ report.rule = f.rule /\ report.anchor.path = f.anchor.path
  /\ report.title.loose = f.title.loose
  /\ report.severity <=
       IF f.rule \in DOMAIN severityOverrides THEN Calibrate(f.severity, severityOverrides[f.rule])
       ELSE f.severity

(***************************************************************************)
(* Whatever order the shards' agents answer in, no proposal is lost: it is *)
(* refused with a reason, or the report or the list of suppressed findings *)
(* holds a finding for it that is at least as severe, and of findings with *)
(* one dedupe key the most severe stays, of the first shard among equals   *)
(* (validate, mergeFindings, clusterWithinShard).                          *)
(***************************************************************************)
NothingSwallowed ==
  phase \in {"recall", "publish"} =>
    /\ Len(Answered) > 1 =>
         LET sharded == Sharded
             Same(e, g) == DedupeKey(e[2]) = DedupeKey(g.finding)
         IN  /\ \A g \in Range(groups) : \E e \in DOMAIN sharded :
                  /\ sharded[e][2] = g.finding
                  /\ \A d \in DOMAIN sharded : Same(sharded[d], g) =>
                       \/ sharded[d][2].severity > g.finding.severity
                       \/ sharded[d][2].severity = g.finding.severity /\ d >= e
             /\ \A e \in Range(sharded) : \E g \in Range(groups) :
                  Same(e, g) /\ e[1] \in g.shardHits
    /\ \A k \in DOMAIN Answered :
         /\ Len(Answered[k].proposals) = Len(Valid(k).findings) + Len(Valid(k).discarded)
         /\ \A f \in Range(Accepted[k]) :
              \E report \in Range(findings) \cup Range(suppressed) : StandsFor(report, f)

(***************************************************************************)
(* A finding is suppressed exactly when a maintainer accepted it, by name, *)
(* by its rule or by a pattern that means its path, and is told as such    *)
(* (suppressResolved, matchWildcard, matchesGlob).                         *)
(***************************************************************************)
SuppressedIffAccepted ==
  phase = "publish" =>
    /\ \A f \in Range(suppressed) : \E e \in Range(memory) : Accepts(e, f)
    /\ \A f \in Range(findings) : \A e \in Range(memory) : ~Accepts(e, f)

(***************************************************************************)
(* Every reported finding says how a blocker fails, is within the caps and *)
(* is anchored exactly when its line is in a hunk, on the new side when it *)
(* can be; a snapshot of it can be replayed (narrowProposal, resolve,      *)
(* findingInvariantViolation).                                             *)
(***************************************************************************)
ReportedAreSound ==
  \A f \in Range(findings) \cup Range(suppressed) :
    LET a == f.anchor
        hunks == UNION {Range(d.hunks) : d \in {e \in Range(diff) :
                                ~e.binary /\ a.path \in {e.path, e.previousPath}}}
        New == \E h \in hunks : InRange(a.line, h.newStart, h.newLines)
        Old == \E h \in hunks : InRange(a.line, h.oldStart, h.oldLines)
    IN  /\ InvariantHolds(f) /\ ~ExceedsSizeCap(f)
        /\ a.anchored <=> New \/ Old
        /\ a.anchored => (a.side = "right" <=> New)

\* However long agents take, the watchdog ends the reason stage, with findings or with an error,
\* unless its agent started after the watchdog fired: an abort reaches every shard's agent and the
\* single agent that was started before, and no worker waits for another (fanOutShards, reason,
\* createAgentRunner).
ReasonEnds == phase = "reason" ~> phase \in {"validate", "threw"} \/ stage = "lateAgent"
=============================================================================

------------------------------- MODULE Findings -------------------------------
(***************************************************************************)
(* From what an agent proposes to what a review reports: the narrowing of  *)
(* packages/core/review-core, the anchors of packages/core/forge, and the  *)
(* validation, merging, calibration, clustering and suppression of         *)
(* packages/core/review-runtime.  Pure functions of their arguments.       *)
(*                                                                         *)
(* A severity is its rank, 0 for blocker to 4 for info.  A title is what   *)
(* the code can tell of one: its length, its lower-cased text and the text *)
(* without punctuation.  A body is its length.  A length of 0, a path or a *)
(* rule that is empty, and a line of 0 stand for fields the agent left     *)
(* out, or that are not usable.                                            *)
(***************************************************************************)
EXTENDS Paths, Payloads

CONSTANTS maxTitle, maxBody \* MAX_TITLE_CHARS, MAX_BODY_CHARS

-----------------------------------------------------------------------------
(* Severities. *)

Blocker == 0
Info == 4
Severity == Blocker..Info
NoSeverity == -1      \* the proposal has none
UnknownSeverity == -2 \* the proposal has a string that is none

\* What an agent proposes, as far as it is read.
IsProposal(raw) ==
  /\ raw.severity \in Severity \cup {NoSeverity, UnknownSeverity}
  /\ raw.title.length \in Nat /\ raw.body \in Nat /\ raw.line \in Int
  /\ IsList(raw.path)

Downgrade(severity) == IF severity = Info THEN Info ELSE severity + 1
Calibrate(severity, override) == IF override >= severity THEN override ELSE severity

\* Only what the rule asks for is looked at.
EffectiveSeverityByRule(severity, scenario, requiresScenario) ==
  IF ~scenario /\ requiresScenario THEN Downgrade(severity) ELSE severity

\* A claim that does not say how it fails loses a step.
EffectiveSeverity(severity, scenario, requiresScenario) ==
  IF ~scenario /\ (severity = Blocker \/ requiresScenario)
  THEN Downgrade(severity) ELSE severity

-----------------------------------------------------------------------------
(* Anchors. *)

InRange(line, start, count) == start <= line /\ line < start + count
Anchor(path, line, side) == [path |-> path, line |-> line, side |-> side, anchored |-> TRUE]
Fallback(path, line) == [path |-> path, line |-> line, side |-> "right", anchored |-> FALSE]

(***************************************************************************)
(* AnchorResolver.resolve: the new side of any hunk before the old side of *)
(* any; a removed line of a renamed file is under its previous path.       *)
(***************************************************************************)
Resolve(diff, path, line) ==
  LET named == {i \in DOMAIN diff : path \in {diff[i].path, diff[i].previousPath}}
      file  == FirstAt(diff, named)
      Hit(startOf(_), countOf(_)) ==
        \E h \in Range(file.hunks) : InRange(line, startOf(h), countOf(h))
  IN  IF named = {} THEN Fallback(path, line)
      ELSE IF file.binary THEN Fallback(file.path, line)
      ELSE IF Hit(LAMBDA h : h.newStart, LAMBDA h : h.newLines)
           THEN Anchor(file.path, line, "right")
      ELSE IF Hit(LAMBDA h : h.oldStart, LAMBDA h : h.oldLines)
           THEN Anchor(IF file.previousPath = NoPath THEN file.path ELSE file.previousPath,
                       line, "left")
      ELSE Fallback(file.path, line)

-----------------------------------------------------------------------------
(* Narrowing. *)

\* What `validate` refuses before it anchors.
PlaceRejection(raw) ==
  FirstFailure(<< <<raw.path = NoPath, "missing-path">>,
                  <<~IsSafeRelativePath(raw.path), "unsafe-path">>,
                  <<raw.line <= 0, "invalid-line">> >>)

\* A patch of a proposal, or one on its own: `none`, or its path and whether its diff is empty.
NoPatch == [path |-> NoPath, diff |-> NoText]
UsablePatch(patch) == IsSafeRelativePath(patch.path) /\ patch.diff # NoText

\* What narrowProposal refuses; it looks at the place again.
NarrowRejection(raw) ==
  FirstFailure(<< <<raw.title.length = 0, "missing-title">>,
                  <<raw.body = 0, "missing-body">>,
                  <<raw.severity = NoSeverity, "missing-severity">>,
                  <<raw.severity = UnknownSeverity, "unknown-severity">>,
                  <<PlaceRejection(raw) # NoText, PlaceRejection(raw)>>,
                  <<raw.patch # NoPatch /\ ~UsablePatch(raw.patch), "invalid-patch">> >>)

RequiresScenario(rules, rule) ==
  LET named == {i \in DOMAIN rules : rules[i].id = rule}
  IN  rule # NoText /\ named # {} /\ FirstAt(rules, named).requiresScenario

\* narrowProposal, for a proposal it does not refuse.
Narrow(raw, id, anchor, requiresScenario) ==
  [findingId |-> id,
   severity  |-> EffectiveSeverity(raw.severity, raw.scenario, requiresScenario),
   title |-> raw.title, body |-> raw.body, anchor |-> anchor, rule |-> raw.rule,
   scenario |-> raw.scenario, patch |-> raw.patch]

\* findingInvariantViolation: the net for findings that do not come out of Narrow.
InvariantHolds(f) ==
  /\ f.severity \in Severity
  /\ f.title.length > 0 /\ f.body > 0
  /\ f.severity = Blocker => f.scenario
  /\ IsSafeRelativePath(f.anchor.path) /\ f.anchor.line > 0

\* narrowPatches: what is refused is told in `discarded`.
NarrowPatches(patches) ==
  LET usable == {i \in DOMAIN patches : UsablePatch(patches[i])}
  IN  [patches   |-> Picked(patches, usable),
       discarded |-> [i \in 1..Cardinality(DOMAIN patches \ usable) |-> "invalid-patch"]]

-----------------------------------------------------------------------------
(* Identities. *)

PublishKey(f) == <<f.anchor.path, f.anchor.line, f.anchor.side, f.anchor.anchored, f.rule>>
DedupeKey(f) == <<f.anchor.path, f.anchor.line, f.rule, f.title.lower>>
MemoryKey(path, rule, title) == <<path, rule, title.lower>>
FindingMemoryKey(f) == MemoryKey(f.anchor.path, f.rule, f.title)

-----------------------------------------------------------------------------
(***************************************************************************)
(* validate: one proposal after the other, with the findings so far, the   *)
(* reasons why others were discarded, and the publish keys seen.           *)
(***************************************************************************)
ExceedsSizeCap(f) == f.title.length > maxTitle \/ f.body > maxBody

NothingValidated == [findings |-> <<>>, discarded |-> <<>>, seen |-> {}]
Discard(acc, reason) == [acc EXCEPT !.discarded = Append(@, reason)]
Keep(acc, finding) ==
  [acc EXCEPT !.findings = Append(@, finding), !.seen = @ \cup {PublishKey(finding)}]

\* The finding that the proposal in this place would be.
FindingOf(proposals, diff, rules, i) ==
  LET raw == proposals[i]
  IN  Narrow(raw, i, Resolve(diff, raw.path, raw.line), RequiresScenario(rules, raw.rule))

ValidateOne(acc, raw, finding) ==
  IF PlaceRejection(raw) # NoText THEN Discard(acc, PlaceRejection(raw))
  ELSE IF NarrowRejection(raw) # NoText THEN Discard(acc, NarrowRejection(raw))
  ELSE IF ExceedsSizeCap(finding) THEN Discard(acc, "size-cap")
  ELSE IF PublishKey(finding) \in acc.seen THEN Discard(acc, "duplicate")
  ELSE Keep(acc, finding)

Validate(proposals, diff, rules) ==
  LET upTo[n \in 0..Len(proposals)] ==
        IF n = 0 THEN NothingValidated
        ELSE ValidateOne(upTo[n - 1], proposals[n], FindingOf(proposals, diff, rules, n))
  IN  upTo[Len(proposals)]

-----------------------------------------------------------------------------
(***************************************************************************)
(* mergeFindings: entries are <<shard, finding>>.  The groups are in the   *)
(* order their keys were first met; the most severe finding of a group     *)
(* stays, the first of them when several are.                              *)
(***************************************************************************)
MoreSevere(f, g) == f.severity < g.severity

GroupWith(groups, f) == {g \in DOMAIN groups : DedupeKey(groups[g].finding) = DedupeKey(f)}

MergeOne(groups, entry) ==
  LET f    == entry[2]
      same == GroupWith(groups, f)
      g    == Min(same)
  IN  IF same = {} THEN Append(groups, [finding |-> f, shardHits |-> {entry[1]}])
      ELSE [groups EXCEPT
             ![g] = [finding   |-> IF MoreSevere(f, @.finding) THEN f ELSE @.finding,
                     shardHits |-> @.shardHits \cup {entry[1]}]]

MergeFindings(sharded) ==
  LET upTo[n \in 0..Len(sharded)] ==
        IF n = 0 THEN <<>> ELSE MergeOne(upTo[n - 1], sharded[n])
  IN  upTo[Len(sharded)]

FindingsOf(groups) == [g \in DOMAIN groups |-> groups[g].finding]

\* applySeverityOverrides: `overrides` is a function of the rules that have one.
ApplySeverityOverrides(findings, overrides) ==
  [i \in DOMAIN findings |->
    IF findings[i].rule \in DOMAIN overrides
    THEN [findings[i] EXCEPT !.severity = Calibrate(@, overrides[findings[i].rule])]
    ELSE findings[i]]

(***************************************************************************)
(* clusterWithinShard: a finding joins the first group whose present       *)
(* representative is near it, and takes its place if it is better.         *)
(***************************************************************************)
Distance(f, g) ==
  IF f.anchor.line > g.anchor.line THEN f.anchor.line - g.anchor.line
  ELSE g.anchor.line - f.anchor.line

Near(f, g, window) ==
  /\ f.rule = g.rule /\ f.anchor.path = g.anchor.path
  /\ Distance(f, g) <= window
  /\ f.title.loose = g.title.loose

\* The longer body wins, whatever the severities.
LongerRepresentative(f, g) == f.body > g.body

BetterRepresentative(f, g) ==
  \/ f.severity < g.severity
  \/ f.severity = g.severity /\ f.body > g.body

ClusterOne(reps, f, window) ==
  LET near == {g \in DOMAIN reps : Near(reps[g], f, window)}
  IN  IF near = {} THEN Append(reps, f)
      ELSE [reps EXCEPT ![Min(near)] = IF BetterRepresentative(f, @) THEN f ELSE @]

ClusterWithinShard(findings, window) ==
  LET upTo[n \in 0..Len(findings)] ==
        IF n = 0 THEN <<>> ELSE ClusterOne(upTo[n - 1], findings[n], window)
  IN  IF window <= 0 THEN findings ELSE upTo[Len(findings)]

-----------------------------------------------------------------------------
(***************************************************************************)
(* suppressResolved: an accepted exception names one finding ("exact"), a  *)
(* rule ("rule") or a pattern of paths, of one rule or of any ("glob").    *)
(***************************************************************************)
IsWildcard(exception) == exception.kind # "exact"
IsException(exception) ==
  /\ exception.kind \in {"exact", "rule", "glob"}
  /\ exception.kind = "glob" => exception.pattern # <<>> /\ IsList(exception.pattern)

\* A pattern covers its files whatever rule the exception was accepted for.
CoversAnyRule(exception, f) ==
  CASE exception.kind = "exact" ->
         MemoryKey(exception.path, exception.rule, exception.title) = FindingMemoryKey(f)
    [] exception.kind = "rule" -> exception.rule # NoText /\ f.rule = exception.rule
    [] exception.kind = "glob" ->
         exception.pattern # <<>> /\ MatchesGlob(exception.pattern, f.anchor.path)

Covers(exception, f) ==
  CASE exception.kind = "exact" ->
         MemoryKey(exception.path, exception.rule, exception.title) = FindingMemoryKey(f)
    [] exception.kind = "rule" -> exception.rule # NoText /\ f.rule = exception.rule
    [] exception.kind = "glob" ->
         /\ exception.pattern # <<>> /\ MatchesGlob(exception.pattern, f.anchor.path)
         /\ exception.rule \in {NoText, f.rule}

\* What an exception means: it names the finding, its rule, or a pattern of its path.
Accepts(exception, f) ==
  CASE exception.kind = "exact" ->
         /\ exception.path = f.anchor.path /\ exception.rule = f.rule
         /\ exception.title.lower = f.title.lower
    [] exception.kind = "rule" -> exception.rule = f.rule /\ f.rule # NoText
    [] exception.kind = "glob" ->
         /\ PatternMeans(exception.pattern, f.anchor.path)
         /\ exception.rule = NoText \/ exception.rule = f.rule

\* The exact exceptions are looked at first, then the others in order; the last exact
\* exception of a key replaces earlier ones in the Map.
SuppressedBy(f, resolved) ==
  LET covering == {i \in DOMAIN resolved : Covers(resolved[i], f)}
      wild     == {i \in covering : IsWildcard(resolved[i])}
      exact    == covering \ wild
  IN  IF exact # {} THEN <<resolved[Max(exact)]>>
      ELSE IF wild # {} THEN <<FirstAt(resolved, wild)>> ELSE <<>>

SuppressResolved(findings, resolved) ==
  LET accepted == {i \in DOMAIN findings : SuppressedBy(findings[i], resolved) # <<>>}
  IN  [findings   |-> Picked(findings, DOMAIN findings \ accepted),
       suppressed |-> Picked(findings, accepted)]
=============================================================================

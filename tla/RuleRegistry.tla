----------------------------- MODULE RuleRegistry -----------------------------
(***************************************************************************)
(* The registry of rule packs, packages/core/rule-registry/src/index.ts.   *)
(* Packs are a sequence, in the order of their registration; a pack has an *)
(* id and rules, and a rule the sets of patterns it applies to, and not.   *)
(***************************************************************************)
EXTENDS Paths

CONSTANT disabledRules

\* A pack registered again keeps its place, with what it now holds.
Register(packs, pack) ==
  IF \E i \in DOMAIN packs : packs[i].id = pack.id
  THEN [i \in DOMAIN packs |-> IF packs[i].id = pack.id THEN pack ELSE packs[i]]
  ELSE Append(packs, pack)

AppliesTo(rule, path) ==
  /\ \A pattern \in rule.excludes : ~MatchesGlob(pattern, path)
  /\ \E pattern \in rule.applies : MatchesGlob(pattern, path)

(***************************************************************************)
(* match: the rules of a path in the order their ids were first met, each  *)
(* as severe as its most severe registration.                              *)
(***************************************************************************)
Match(packs, path) ==
  LET applying == SelectSeq(FlattenSeq([p \in DOMAIN packs |-> packs[p].rules]),
                            LAMBDA r : r.id \notin disabledRules /\ AppliesTo(r, path))
      Step(rules, rule) ==
        LET same == {i \in DOMAIN rules : rules[i].id = rule.id}
        IN  IF same = {} THEN Append(rules, rule)
            ELSE [i \in DOMAIN rules |->
                   IF i \in same /\ rule.severity < rules[i].severity THEN rule ELSE rules[i]]
  IN  FoldLeft(Step, <<>>, applying)
=============================================================================

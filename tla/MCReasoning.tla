------------------------------ MODULE MCReasoning ------------------------------
(* Instances of Reasoning for TLC. *)
EXTENDS Reasoning, TLC

A == <<"src", "a.ts">>
B == <<"src", "b.ts">>
C == <<"docs", "c.ts">>
Old == <<"src", "old.ts">>

\* Every hunk holds a line like one that names a file, where there is room: a removed one, or an
\* added one when nothing was there.
Hunk(old, oldLines, new, newLines, bytes) ==
  [oldStart |-> old, oldLines |-> oldLines, newStart |-> new, newLines |-> newLines,
   body |-> IF bytes = 1 THEN <<>>
            ELSE << [kind |-> IF oldLines = 0 THEN "+++ " ELSE "--- ",
                     names |-> <<"docs", "x.ts">>, bytes |-> bytes - 1] >>]
File(path, from, status, hunks) ==
  [path |-> path, renamedFrom |-> from, status |-> status, binary |-> FALSE, large |-> FALSE,
   hunks |-> hunks]
\* A file whose hunks take these bytes.
Sized(path, bytes) ==
  File(path, NoPath, "modified",
       [h \in DOMAIN bytes |-> Hunk(10 * h, 2, 10 * h, 1, bytes[h])])
Change(forge, change, imports) == [forge |-> forge, change |-> change, imports |-> imports]

(* For the sharding: every combination of three files' hunks, and of imports. *)
HunkSizes == {<<>>, <<1>>, <<2, 2>>, <<1, 4>>}
Imports(path, spec) == path :> <<spec>>
Graphs == {<<>>, Imports(A, <<"..", "docs", "c">>), Imports(C, <<"..", "src", "a">>),
           Imports(A, <<".", "b">>) @@ Imports(B, <<"..", "..", "c">>),
           Imports(A, <<".", "d">>) @@ Imports(C, <<"..", "src", "e">>)}
SizedInputs ==
  {Change("github", <<Sized(A, a), Sized(B, b), Sized(C, c)>>, g) :
     a \in HunkSizes, b \in HunkSizes, c \in HunkSizes, g \in Graphs}

(* For the findings: a renamed file whose second hunk's old range meets the first's new
   range, a binary file, and one without rules. *)
Renamed == File(A, Old, "renamed", <<Hunk(1, 2, 3, 2, 3), Hunk(8, 2, 10, 1, 3)>>)
Binary == [File(B, NoPath, "modified", <<>>) EXCEPT !.binary = TRUE]
Unruled == File(<<"x.svg">>, NoPath, "modified", <<Hunk(1, 1, 1, 1, 9)>>)
TalkedInput == Change("github", <<Renamed, Binary, Unruled>>, <<>>)
NoRulesInput == Change("gitlab", <<Unruled>>, <<>>)
\* Files that only one without rules links.
BetweenInput ==
  Change("github", <<Sized(A, <<1>>), Sized(B, <<1>>), Unruled, Sized(C, <<1>>)>>,
         Imports(A, <<"..", "x.svg">>) @@ Imports(<<"x.svg">>, <<".", "docs", "c">>))
LongInput == Change("local", <<Sized(A, <<4, 4, 4, 4, 4>>)>>, <<>>)

(* For the parsers: what a file may become, at every forge. *)
MovedOnly == File(A, Old, "renamed", <<>>)
Added == File(C, NoPath, "added", <<Hunk(0, 0, 1, 1, 2)>>)
Deleted == File(B, NoPath, "deleted", <<Hunk(1, 2, 0, 0, 2)>>)
Escaping == File(<<"..", "x.ts">>, NoPath, "modified", <<Hunk(1, 1, 1, 1, 2)>>)
Large == [Renamed EXCEPT !.large = TRUE]
Elsewhere == <<"src", "d.ts">>
\* One change has more files than GitHub is asked for.
ShownInputs ==
  {Change(forge, change, <<>>) :
     forge \in {"github", "gitlab", "local"},
     change \in {<<Renamed, Binary>>, <<MovedOnly, Deleted, Added>>,
                <<Escaping, [Binary EXCEPT !.path = Elsewhere], Deleted>>,
                <<Added, Renamed, Unruled, Deleted>>, <<Large, Added>>}}
MCInputs == SizedInputs \cup ShownInputs \cup {TalkedInput, NoRulesInput, BetweenInput, LongInput}

Deep == [deep |-> TRUE, names |-> {}]
Segment(S) == [deep |-> FALSE, names |-> S]
Rule(id, severity, scenario, applies, excludes) ==
  [id |-> id, severity |-> severity, requiresScenario |-> scenario,
   applies |-> applies, excludes |-> excludes]
AllOf(S) == <<Deep, Segment(S)>>
Sources == {"a.ts", "b.ts", "c.ts", "old.ts"}
\* A rule of two packs, one that is disabled, one with an exception, and a pack that is replaced.
MCPacks ==
  << [id |-> "p", rules |-> <<Rule("gone", 1, FALSE, {<<Deep>>}, {})>>],
     [id |-> "q", rules |-> <<Rule("off", 0, FALSE, {<<Deep>>}, {}),
                              Rule("r", 2, TRUE, {AllOf(Sources)}, {})>>],
     [id |-> "p", rules |-> <<Rule("r", 3, FALSE, {AllOf(Sources)}, {}),
                              Rule("s", 2, TRUE, {<<Segment({"src"}), Deep>>}, {AllOf({"b.ts"})}),
                              Rule("r", 1, FALSE, {AllOf(Sources)}, {})>>] >>

Title(lower, loose) == [lower |-> lower, loose |-> loose, length |-> 2]
T == Title("t", "t")
Bang == Title("t!", "t")
Other == Title("u", "u")

Proposal(severity, title, body, path, line, rule, scenario) ==
  [severity |-> severity, title |-> title, body |-> body, path |-> path, line |-> line,
   rule |-> rule, scenario |-> scenario, patch |-> NoPatch]

Say(proposals, patches) == [proposals |-> proposals, patches |-> patches]
Minor == Proposal(2, T, 1, A, 3, "r", FALSE)
MajorTwin == Proposal(1, T, 1, A, 3, "r", TRUE)
MinorTwin == Proposal(2, T, 2, A, 3, "r", TRUE)
Guess == Proposal(Blocker, Bang, 2, A, 4, "r", FALSE)
Sure == Proposal(Blocker, Other, 1, Old, 8, "s", TRUE)
Stated == Proposal(2, Bang, 3, A, 10, "s", FALSE)
Missed == Proposal(3, T, 2, A, 5, "", FALSE)
Reworded == Proposal(2, Other, 1, A, 3, "r", FALSE)
Broken == <<Proposal(NoSeverity, T, 1, A, 3, "r", FALSE), Proposal(1, T, 1, <<"", "etc">>, 3, "", FALSE),
            Proposal(1, T, 9, B, 3, "", FALSE),
            [Proposal(1, T, 1, B, 3, "", FALSE) EXCEPT !.patch = [path |-> B, diff |-> ""]]>>

MCTalk == {Say(<<>>, <<>>), Say(<<Minor>>, <<[path |-> A, diff |-> "d"], [path |-> <<>>, diff |-> "d"]>>),
         Say(<<MajorTwin, Guess>>, <<>>), Say(<<MinorTwin, Stated>>, <<>>),
         Say(<<Guess, Sure, Minor>>, <<>>), Say(<<Missed, Missed, Reworded>>, <<>>),
         Say(Broken, <<>>)}
Quiet == Say(<<>>, <<>>)
MCAnswers == MCTalk \cup {Quiet}
\* The agents of the inputs for the sharding only fail.
MCSays == [i \in MCInputs |-> IF i = TalkedInput THEN MCTalk
                              ELSE IF i = LongInput THEN {Quiet} ELSE {}]

MCFileSizes == <<"src", "d">> :> 3 @@ <<"src", "e">> :> 2

Pattern(p, rule) == [kind |-> "glob", pattern |-> p, rule |-> rule]
MCMemories ==
  {<<[kind |-> "exact", path |-> A, rule |-> "r", title |-> T]>>,
   <<[kind |-> "rule", rule |-> "s"], [kind |-> "exact", path |-> Old, rule |-> "r", title |-> Other]>>,
   <<Pattern(<<Segment({"src"}), Deep, Segment({"a.ts", "b.ts"})>>, "r")>>,
   <<Pattern(<<Deep, Segment({"old.ts"})>>, "")>>,
   <<Pattern(<<Segment({"src"}), Segment({"docs"}), Deep>>, ""), Pattern(<<Deep>>, "s")>>}

MCOverrides == "s" :> 3
MCExtensions == <<"", ".ts">>
================================================================================

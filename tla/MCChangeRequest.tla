----------------------------- MODULE MCChangeRequest -----------------------------
(* An instance of ChangeRequest for TLC. *)
EXTENDS ChangeRequest, TLC

A == <<"src", "a.ts">>
B == <<"src", "b.ts">>
Pkg == <<"package.json">>
Lock == <<"yarn.lock">>
Flow == <<".github", "x">>

abc == <<Line("a"), Line("b"), Line("c")>>
MCFiles == A :> abc @@ Pkg :> <<Line("scripts"), Line("test"), Line("a"), LastLine("b")>>
           @@ Lock :> <<Line("a")>> @@ Flow :> <<Line("a")>>
L(kind, text) == [kind |-> kind, text |-> text]
Hunk(old, count, lines) == [old |-> old, count |-> count, lines |-> lines]
Patch(path, hunks) == [path |-> path, hunks |-> hunks]

Comment(by, key) == [by |-> by, key |-> key, run |-> 0, answered |-> TRUE]
Finding(key, anchored) == [key |-> key, anchored |-> anchored]

Quiet(forge) ==
  [forge |-> forge, runs |-> {1}, findings |-> [r \in Runs |-> <<>>], fix |-> FALSE,
   patches |-> <<>>, files |-> MCFiles, base |-> MCFiles, entries |-> A :> "file",
   changed |-> {A}, binary |-> {}, commands |-> FALSE,
   branch |-> [r \in Runs |-> r], comments |-> <<>>, pushed |-> <<>>, faults |-> 0, sticky |-> <<>>]

(* Two runs with findings in common, some of them commented before. *)
MCFindings == <<Finding("k", TRUE), Finding("l", FALSE), Finding("m", TRUE)>>
Reruns == <<<<Finding("m", TRUE), Finding("k", TRUE)>>, <<Finding("k", TRUE), Finding("k", TRUE)>>>>
Before == <<<<>>, <<Comment("other", "k")>>, <<Comment("other", "z"), Comment(Bot, "k")>>,
            <<Comment(Bot, "y"), Comment(Bot, "y"), Comment(Bot, "k")>>>>
Commenting == {"commenting"} \X {"github", "gitlab"} \X (0..1) \X (DOMAIN Reruns) \X (DOMAIN Before)
Commented(s) ==
  [Quiet(s[2]) EXCEPT !.runs = {1, 2}, !.faults = s[3], !.comments = Before[s[5]],
                      !.findings = <<MCFindings, Reruns[s[4]]>>]
Printing == {<<"printing">>}
Printed == [Quiet("local") EXCEPT !.findings[1] = MCFindings]

(* Fixes while others push, with requests that fail; the patches of two files, or of one. *)
InA(hunks) == Patch(A, hunks)
Second == Hunk(2, NoCount, <<L("remove", "b"), L("add", "B")>>)
Third == Hunk(3, NoCount, <<L("context", "c"), L("add", "d")>>)
Fixes == <<<<>>, <<InA(<<Second>>)>>, <<InA(<<Second, Third>>)>>, <<InA(<<Third>>), InA(<<Second>>)>>,
           <<InA(<<Second>>), Patch(B, <<Hunk(0, 0, <<L("add", "n")>>)>>)>>,
           <<InA(<<Second>>), InA(<<Hunk(9, NoCount, <<L("context", "b")>>)>>)>>>>
Longer == [MCFiles EXCEPT ![A] = abc \o <<Line("z")>>]
Moved == [MCFiles EXCEPT ![A] = <<Line("z")>> \o abc]
Bases == <<MCFiles, Longer, Moved>>
Pushes == <<<<>>, <<Longer>>, <<With(Longer, B, abc)>>>>
Fixing == {"fixing"} \X {"github", "gitlab", "local"} \X (DOMAIN Fixes) \X (0..1)
            \X (DOMAIN Bases) \X (DOMAIN Pushes)
Fixed(s) ==
  [Quiet(s[2]) EXCEPT !.fix = TRUE, !.patches = Fixes[s[3]], !.commands = (s[4] = 1),
                      !.faults = s[4], !.base = Bases[s[5]], !.pushed = Pushes[s[6]]]
Names == <<<<1, 2>>, <<1, 1>>>>
Twice == {"twice"} \X {"github", "gitlab"} \X (DOMAIN Names)
FixedTwice(s) ==
  [Quiet(s[2]) EXCEPT !.fix = TRUE, !.runs = {1, 2}, !.faults = 1,
                      !.patches = <<InA(<<Second>>)>>, !.branch = Names[s[3]]]

(* Every patch of one hunk of up to two lines, and some after a first hunk. *)
Kinds == {L("add", "a"), L("remove", "a"), L("remove", "b"), L("context", "a"),
          L("context", "b"), L("eof", ""), L("blank", ""), L("other", "")}
Contents == <<<<>>, <<Line("a"), LastLine("b")>>, abc>>
Hunks == {<<Hunk(o, c, l)>> : o \in 0..3, c \in {NoCount, 0},
                              l \in UNION {[1..n -> Kinds] : n \in 1..2}}
InOrder == {<<Hunk(1, 1, <<L("context", "a"), L("add", "x")>>),
              Hunk(o, 2, <<L("remove", "b"), L("context", "c"), L("eof", "")>>)>> : o \in 1..3}
Sweep == {"sweep"} \X (Hunks \cup InOrder) \X (DOMAIN Contents)
Swept(s) ==
  [Quiet("local") EXCEPT !.fix = TRUE, !.patches = <<InA(s[2])>>, !.files[A] = Contents[s[3]]]

(* Patches that a red line refuses, alone or with one that none does. *)
Add(path) == Patch(path, <<Hunk(0, 0, <<L("add", "n")>>)>>)
Red == {Add(Pkg), Add(Lock), Add(Flow), Add(<<".", "", "x">>), Add(<<".">> \o Flow), Add(B), Add(A),
        Add(<<"src", ".", "b.ts">>), Add(<<"src", "", "a.ts">>), Add(<<".">>),
        Patch(Pkg, <<Hunk(2, NoCount, <<L("remove", "test"), L("add", "lint")>>)>>),
        Patch(Pkg, <<Hunk(3, 0, <<L("add", "{broken")>>)>>),
        Patch(Pkg, <<Hunk(1, NoCount, <<L("context", "scripts"), L("add", "n")>>)>>)}
Redlined == {"redlined"} \X Red \X BOOLEAN \X {{A}, {A, Pkg}} \X {"file", "symlink"}
Lined(s) ==
  [Quiet("local") EXCEPT !.fix = TRUE, !.binary = {B}, !.changed = s[4], !.entries = A :> s[5],
                         !.patches = IF s[3] THEN <<InA(<<Second>>), s[2]>> ELSE <<s[2]>>]

(* A reporter, without and with a comment of an earlier run. *)
Reporting == {"reporting"} \X {<<>>, <<"result">>}
Reported(s) == [Quiet("github") EXCEPT !.runs = {}, !.sticky = s[2]]

MCScenarios ==
  [s \in Commenting \cup Printing \cup Fixing \cup Twice \cup Sweep \cup Redlined
     \cup Reporting |->
    CASE s[1] = "commenting" -> Commented(s)
      [] s[1] = "printing"   -> Printed
      [] s[1] = "fixing"     -> Fixed(s)
      [] s[1] = "twice"      -> FixedTwice(s)
      [] s[1] = "sweep"      -> Swept(s)
      [] s[1] = "redlined"   -> Lined(s)
      [] s[1] = "reporting"  -> Reported(s)]

Deep == [deep |-> TRUE, names |-> {}]
MCProtected == {<<[deep |-> FALSE, names |-> {".github"}], Deep>>}
MCExtensions == <<"">>
================================================================================

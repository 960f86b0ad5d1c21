--------------------------- MODULE MCMemoryCommands ---------------------------
(***************************************************************************)
(* Instances of MemoryCommands for TLC: every actor, forge and kind of     *)
(* event once, and one maintainer whose commands follow one another.       *)
(***************************************************************************)
EXTENDS MemoryCommands

Text(value) == [text |-> value]
Number(value) == [number |-> value]
Flag(value) == [flag |-> value]

\* The paths, patterns and titles of the findings.
A == <<"src", "a.ts">>
B == <<"docs", "b.ts">>
Title(text, lower) == [text |-> text, lower |-> lower, loose |-> lower, length |-> 2]
Loud == Title("Leak", "leak")
Finding(path, rule, title) ==
  [anchor |-> Anchor(path, 3, "right"), rule |-> rule, title |-> title, severity |-> 2]
MCProposed == <<Finding(A, "r", Loud), Finding(A, "s", Loud), Finding(B, "r", Title("x", "x")),
                Finding(B, "", Loud)>>

Deep == [deep |-> TRUE, names |-> {}]
Literal(name) == [deep |-> FALSE, names |-> {name}]
Star == [deep |-> FALSE, names |-> {"a.ts", "b.ts"}]
Glob(text, pattern) == [text |-> text, pattern |-> pattern]
Sources == Glob("src/**", <<Literal("src"), Deep>>)
Typescript == Glob("**/*.ts", <<Deep, Star>>)
Escaping == Glob("../**", <<Literal(".."), Deep>>)

\* What a reader of the findings may comment, and what they were told to.
Typed == [
  ofFinding |-> AcceptCommand(MCProposed[1]),
  reworded  |-> Line("accept", <<>>, <<A, "r", Loud>>),
  unruled   |-> AcceptCommand(MCProposed[4]),
  ofRule    |-> Line("accept-rule", <<Word("r")>>, <<>>),
  sources   |-> Line("accept-glob", <<Sources>>, <<>>),
  sourcesOf |-> Line("accept-glob", <<Sources, Word("s")>>, <<>>),
  scripts   |-> Line("accept-glob", <<Typescript>>, <<>>)]
Told == [name \in DOMAIN Typed |-> ForgetCommand(ParseMemoryReference(Typed[name]))]
Odd == [
  bare     |-> Line("accept-rule", <<>>, <<>>),
  wordy    |-> Line("forget-rule", <<Word("r"), Word("s")>>, <<>>),
  escaping |-> Line("accept-glob", <<Escaping>>, <<>>),
  partial  |-> Line("accept", <<>>, <<A>>),
  outside  |-> Line("accept", <<>>, << <<"..", "a.ts">>, "r", Loud>>),
  untitled |-> Line("forget", <<>>, <<A, "r", [Loud EXCEPT !.length = 0]>>),
  review   |-> Line("review", <<>>, <<>>),
  explain  |-> Line("explain", <<>>, <<>>),
  rules    |-> Line("rules", <<>>, <<>>),
  fix      |-> Line("fix", <<>>, <<>>),
  diagnose |-> Line("diagnose", <<>>, <<>>),
  unknown  |-> Line("merge", <<>>, <<>>),
  quoted   |-> [Line("accept-rule", <<Word("r")>>, <<>>) EXCEPT !.mention = FALSE]]

LineOf(name) ==
  CASE name[1] = "typed" -> Typed[name[2]]
    [] name[1] = "told" -> Told[name[2]]
    [] name[1] = "odd" -> Odd[name[2]]
TypedNames == {<<"typed", name>> : name \in DOMAIN Typed}
ToldNames == {<<"told", name>> : name \in DOMAIN Told}
OddNames == {<<"odd", name>> : name \in DOMAIN Odd}

(* Payloads. *)
Pull(number, headRepo) ==
  [number |-> Number(number), base |-> [sha |-> Text("base")],
   head |-> [sha |-> Text("head"), repo |-> headRepo]]
Named(name) == [full_name |-> Text(name)]
By(login) == [sender |-> [login |-> Text(login)]]

ChangePayload(number, login) ==
  By(login) @@ [repository |-> Named("o/r"), pull_request |-> Pull(number, Named("f/r"))]
ReviewComment(number, login, line) ==
  ChangePayload(number, login) @@ [comment |-> [body |-> Text([first |-> line])]]
IssueComment(number, login, line) ==
  By(login) @@ [repository |-> Named("o/r"), issue |-> [number |-> Number(number)],
                comment |-> [body |-> Text([first |-> line])]]
CheckPayload(number, conclusion) ==
  [check_run |-> [conclusion |-> Text(conclusion),
                  pull_requests |-> << Pull(number, Absent) @@ [repository |-> Named("o/r")] >>]]

Logins == {"owner", "pusher", "triager", "stranger", "odd", "down"}
\* An event is its kind, its forge, its change request, its actor and its line.
Comments(lines, logins, forges, changes) ==
  {<<"comment", f, c, l, n>> : f \in forges, c \in changes, l \in logins, n \in lines}
Malformed == {"none", "nameless", "unlinked", "passed", "shaless", "bodiless", "anonymous", "issue"}
MCEventsIn ==
  [people |-> Comments({<<"typed", "ofRule">>, <<"odd", "review">>, <<"odd", "fix">>,
                        <<"odd", "diagnose">>}, Logins, {"github", "gitlab", "local"}, {1, 2, 3})
               \cup Comments(OddNames, {"owner"}, {"github"}, {1})
               \cup {<<"change", f, c, l, <<>> >> : f \in {"github", "gitlab"}, c \in {1, 2}, l \in Logins}
               \cup {<<"check", "github", 1, "owner", <<>> >>}
               \cup {<<"malformed", m>> : m \in Malformed},
   memory |-> Comments(TypedNames \cup ToldNames, {"owner"}, {"github"}, {1}),
   overlap |-> Comments({<<"typed", "ofFinding">>, <<"typed", "sourcesOf">>, <<"told", "sourcesOf">>},
                        {"owner"}, {"github"}, {1})]

MalformedPayload(which) ==
  LET change == ChangePayload(1, "owner")
  IN CASE which = "none" -> By("owner")
       [] which = "nameless" -> [change EXCEPT !.repository = Named("")]
       [] which = "unlinked" -> [check_run |-> [conclusion |-> Text("failure"), pull_requests |-> <<>>]]
       [] which = "passed" -> CheckPayload(1, "success")
       [] which = "shaless" -> [change EXCEPT !.pull_request.base.sha = Text("main")]
       [] which = "bodiless" -> change @@ [comment |-> [body |-> Absent, user |-> [login |-> Text("owner")]]]
       [] which = "anonymous" -> ChangePayload(1, "")
       [] which = "issue" -> IssueComment(1, "owner", Typed["ofRule"])

Payload(e) ==
  CASE e[1] = "comment" -> Handed(ReviewComment(e[3], e[4], LineOf(e[5])), "d", e[2])
    [] e[1] = "change" -> Handed(ChangePayload(e[3], e[4]), "d", e[2])
    [] e[1] = "check" -> Handed(CheckPayload(e[3], "timed_out"), "d", e[2])
    [] e[1] = "malformed" -> Handed(MalformedPayload(e[2]), "d", "github")
MCPayloadOf == [e \in MCEventsIn.people \cup MCEventsIn.memory |-> Payload(e)]

MCScenarios ==
  {[name |-> "people", runs |-> {1}, allowWrite |-> a, enableDiagnose |-> d, store |-> s, commands |-> 1] :
     a \in BOOLEAN, d \in BOOLEAN, s \in BOOLEAN}
  \cup {[name |-> n, runs |-> IF n = "memory" THEN {1} ELSE {1, 2}, allowWrite |-> FALSE,
         enableDiagnose |-> TRUE, store |-> TRUE, commands |-> 3] : n \in {"memory", "overlap"}}

(* The forges. *)
Answered(role) == [status |-> 200, role |-> role]
MCAnswerTo(forge, login) ==
  CASE login \in {"stranger", "github-actions[bot]"} -> [status |-> 404]
    [] login = "down" -> [status |-> 500]
    [] login = "owner" -> Answered(IF forge = "github" THEN Text("admin") ELSE Number(50))
    [] login = "pusher" -> Answered(IF forge = "github" THEN Text("push") ELSE Number(30))
    [] login = "triager" -> Answered(IF forge = "github" THEN Text("triage") ELSE Number(20))
    [] login = "odd" -> Answered(IF forge = "github" THEN Text("constructor") ELSE Number(35))

\* From the repository, from a fork, and from what is gone.
MCChangeAt(forge, number) ==
  IF forge = "github"
  THEN CASE number = 1 -> [head |-> [repo |-> [fork |-> Flag(FALSE)]]]
         [] number = 2 -> [head |-> [repo |-> [fork |-> Flag(TRUE)]]]
         [] number = 3 -> [head |-> [repo |-> Absent]]
  ELSE CASE number = 1 -> [source_project_id |-> Number(1), target_project_id |-> Number(1)]
         [] number = 2 -> [source_project_id |-> Number(2), target_project_id |-> Number(1)]
         [] number = 3 -> [target_project_id |-> Number(1)]
MCExtensions == <<"", ".ts">>
=============================================================================

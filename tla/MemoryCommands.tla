---------------------------- MODULE MemoryCommands ----------------------------
(***************************************************************************)
(* What comments do to the memory of accepted exceptions: a comment is     *)
(* ingested, routed and authorized (Events), its first line is parsed, the *)
(* store records or forgets an exception, and a reply confirms it; a       *)
(* review suppresses what the store holds (Findings).                      *)
(*                                                                         *)
(* `runMemoryCommand` of packages/core/review-runtime, split at its        *)
(* awaits.  The store is not part of the code: it keeps one exception per  *)
(* key, in the order of recording, and may save them in the file format    *)
(* that the code defines and read them back.                               *)
(***************************************************************************)
EXTENDS Events, Findings

CONSTANTS
  Runs,        \* the runs that may overlap
  PayloadOf,   \* what is handed over for an event, by the event's name
  EventsIn,    \* the events that may arrive, by the scenario's name
  Scenarios,   \* a name, the runs there are, allowWrite, enableDiagnose, whether there is a
               \* store, and how many commands may be executed
  AnswerTo(_, _), \* what a forge answers when asked for an actor's permission
  ChangeAt(_, _), \* what it tells of a change request
  Proposed     \* what every review would report without a memory

VARIABLES
  given,    \* the scenario
  run,      \* what each run is doing
  store,    \* the accepted exceptions
  executed  \* the commands that the store has executed, in order

memoryVars == <<given, run, store, executed>>

-----------------------------------------------------------------------------
(***************************************************************************)
(* parseMemoryReference.  An identity is the sequence of what a JSON array *)
(* of strings on the line holds: <<path, rule, title>>, <<>> without a     *)
(* bracket, and anything else for what is not such an array.               *)
(***************************************************************************)
RuleVerbs == {"accept-rule", "forget-rule"}
GlobVerbs == {"accept-glob", "forget-glob"}

Unparsed(message) == [message |-> message]
Exact(path, rule, title) ==
  [message |-> NoText, kind |-> "exact", path |-> path, rule |-> rule, title |-> title]
OfRule(rule) == [message |-> NoText, kind |-> "rule", rule |-> rule]
OfGlob(glob, rule) ==
  [message |-> NoText, kind |-> "glob", glob |-> glob.text, pattern |-> glob.pattern, rule |-> rule]

ParseExact(identity) ==
  IF identity = <<>> THEN Unparsed("expected an identity")
  ELSE IF Len(identity) # 3 THEN Unparsed("not three strings")
  ELSE IF ~IsSafeRelativePath(identity[1]) THEN Unparsed("unsafe path")
  ELSE IF identity[3].length = 0 THEN Unparsed("empty title")
  ELSE Exact(identity[1], identity[2], identity[3])

\* A wildcard form with too many words is read as if it had an identity.
ParseMemoryReference(line) ==
  LET words == line.words
  IN  IF line.verb \in RuleVerbs /\ words = <<>> THEN Unparsed("expected a rule")
      ELSE IF line.verb \in RuleVerbs /\ Len(words) = 1 THEN OfRule(words[1].text)
      ELSE IF line.verb \in GlobVerbs /\ Len(words) \in {1, 2}
           THEN IF IsSafeGlobPattern(words[1].pattern)
                THEN OfGlob(words[1], IF Len(words) = 2 THEN words[2].text ELSE NoText)
                ELSE Unparsed("unsafe glob")
      ELSE ParseExact(line.identity)

-----------------------------------------------------------------------------
(***************************************************************************)
(* The commands that the bot prints.                                       *)
(***************************************************************************)
Lowered(title) == [title EXCEPT !.text = title.lower]
Word(text) == [text |-> text, pattern |-> <<[deep |-> FALSE, names |-> {text}]>>]
Line(verb, words, identity) ==
  [mention |-> TRUE, verb |-> verb, words |-> words, identity |-> identity]

AcceptCommand(f) == Line("accept", <<>>, <<f.anchor.path, f.rule, Lowered(f.title)>>)

ForgetCommand(ref) ==
  CASE ref.kind = "exact" -> Line("forget", <<>>, <<ref.path, ref.rule, Lowered(ref.title)>>)
    [] ref.kind = "rule" -> Line("forget-rule", <<Word(ref.rule)>>, <<>>)
    [] ref.kind = "glob" ->
         Line("forget-glob", << [text |-> ref.glob, pattern |-> ref.pattern] >>
                                \o (IF ref.rule = NoText THEN <<>> ELSE <<Word(ref.rule)>>), <<>>)

-----------------------------------------------------------------------------
(***************************************************************************)
(* Exceptions and their keys.                                              *)
(***************************************************************************)
\* The pattern is no part of the key: a faulty variant.
WildcardMemoryKeyOfRule(rule, glob) == << <<"*">>, rule, NoText >>
WildcardMemoryKey(rule, glob) == << <<"*">>, rule, glob >>

KeyOf(ref) ==
  CASE ref.kind = "exact" -> MemoryKey(ref.path, ref.rule, ref.title)
    [] ref.kind = "rule" -> WildcardMemoryKey(ref.rule, NoText)
    [] ref.kind = "glob" -> WildcardMemoryKey(ref.rule, ref.glob)

\* A reference with its key and who accepted it.
ResolvedException(ref, login) ==
  [field \in DOMAIN ref \cup {"key", "resolvedBy"} |->
    IF field = "key" THEN KeyOf(ref) ELSE IF field = "resolvedBy" THEN login ELSE ref[field]]

\* rehydrateException: what it refuses, and what it makes of the rest; the key is derived anew.
Corrupt(exception) ==
  \/ exception.kind = "rule" /\ exception.rule = NoText
  \/ exception.kind = "glob" /\ ~IsSafeGlobPattern(exception.pattern)
  \/ exception.kind = "exact" /\ (~IsSafeRelativePath(exception.path) \/ exception.title.length = 0)
  \/ exception.resolvedBy = NoText
RehydrateException(exception) == [exception EXCEPT !.key = KeyOf(exception)]

\* parseMemory: one exception that is refused makes the whole file unreadable.
ParseMemory(exceptions) ==
  IF \E e \in Range(exceptions) : Corrupt(e) THEN <<>>
  ELSE [i \in DOMAIN exceptions |-> RehydrateException(exceptions[i])]

\* The store.
Without(exceptions, key) ==
  Picked(exceptions, {i \in DOMAIN exceptions : exceptions[i].key # key})
Recorded(exceptions, exception) == Append(Without(exceptions, exception.key), exception)

-----------------------------------------------------------------------------
(***************************************************************************)
(* authorize: what the run makes of an event.                              *)
(***************************************************************************)
Event(e) == Ingest(PayloadOf[e])
IntentOf(e) == Route(Event(e), given.enableDiagnose)
Reference(e) == ParseMemoryReference(Event(e).body.first)
Answer(e) == AnswerTo(Event(e).forge, Event(e).actor)

\* Every event that may arrive has a payload, and comes from a forge that is registered;
\* writing is allowed or is not.
ASSUME InputsAreReal ==
  /\ \A s \in Scenarios : /\ s.runs \subseteq Runs /\ s.allowWrite \in BOOLEAN
                          /\ EventsIn[s.name] \subseteq DOMAIN PayloadOf
  /\ \A e \in DOMAIN PayloadOf :
       IngestFailure(PayloadOf[e]) = NoText => Event(e).forge \in {"github", "gitlab", "local"}

\* The events that ask the memory for something.
Asking ==
  {e \in DOMAIN PayloadOf :
     IngestFailure(PayloadOf[e]) = NoText /\ Route(Event(e), TRUE) \in {"accept", "forget"}}

IsTitle(title) ==
  title = [text |-> title.text, lower |-> title.lower, loose |-> title.loose, length |-> title.length]

\* A line is split at its blanks, and a word is one pattern of paths wherever it stands.
IsCommandLine(line) ==
  /\ IsList(line.words)
  /\ \A word \in Range(line.words) : word.text # NoText /\ IsList(word.pattern)
  /\ Len(line.identity) = 3 => IsList(line.identity[1]) /\ IsTitle(line.identity[3])

ASSUME CommandsAreReal ==
  /\ \A e \in Asking : IsCommandLine(Event(e).body.first)
  /\ \A e, other \in Asking :
       \A word \in Range(Event(e).body.first.words), also \in Range(Event(other).body.first.words) :
         word.text = also.text => word.pattern = also.pattern

\* Findings that reviews report name a file of the repository, and have a title.
ASSUME ProposedAreReal ==
  /\ IsList(Proposed)
  /\ \A f \in Range(Proposed) :
       /\ IsList(f.anchor.path) /\ IsSafeRelativePath(f.anchor.path)
       /\ IsTitle(f.title) /\ f.title.length # 0

TrustInput(e) ==
  [isFork |-> IsFork(Event(e).forge, ChangeAt(Event(e).forge, Event(e).change)),
   permission |-> ResolvePermission(Event(e).forge, Answer(e)),
   intent |-> IntentOf(e),
   allowWrite |-> given.allowWrite]

Idle == [stage |-> "idle"]
Ended(e, code, why) == [stage |-> "over", event |-> e, code |-> code, why |-> why]

\* How far runReview comes with an event before it waits for the store.
Judged(e) ==
  IF IngestFailure(PayloadOf[e]) # NoText
  THEN Ended(e, "E_INVALID_PAYLOAD", IngestFailure(PayloadOf[e]))
  ELSE IF IntentOf(e) = "none" THEN Ended(e, "neutral", NoText)
  ELSE IF Event(e).forge # "local" /\ Faulty(Answer(e)) THEN Ended(e, "E_UNEXPECTED", NoText)
  ELSE IF ~MeetsTrust(ResolveTrust(TrustInput(e)), IntentMinTrust[IntentOf(e)])
  THEN Ended(e, "E_DENIED", ExplainDenial(TrustInput(e)))
  ELSE IF IntentOf(e) \notin {"accept", "forget"}
  THEN Ended(e, "reviews", CapabilitiesFor(ResolveTrust(TrustInput(e))))
  ELSE IF ~given.store THEN Ended(e, "E_MEMORY_UNAVAILABLE", NoText)
  ELSE IF Reference(e).message # NoText THEN Ended(e, "E_MEMORY_ARGS", Reference(e).message)
  ELSE [stage |-> "record", event |-> e]

Deliver(r, e) ==
  /\ run[r] = Idle
  /\ run' = [run EXCEPT ![r] = Judged(e)]
  /\ UNCHANGED <<given, store, executed>>

\* What the store makes of a command.
Executed(e) ==
  IF IntentOf(e) = "accept" THEN Recorded(store, ResolvedException(Reference(e), Event(e).actor))
  ELSE Without(store, KeyOf(Reference(e)))

\* The store executes the command, or fails.
Record(r) ==
  /\ run[r].stage = "record"
  /\ \/ /\ Len(executed) < given.commands
        /\ store' = Executed(run[r].event)
        /\ executed' = Append(executed, run[r].event)
        /\ run' = [run EXCEPT ![r].stage = "reply"]
     \/ run' = [run EXCEPT ![r] = Idle] /\ UNCHANGED <<store, executed>>
  /\ UNCHANGED given

\* The confirmation is posted, or is not: what the store did stays.
Reply(r) ==
  /\ run[r].stage = "reply"
  /\ run' = [run EXCEPT ![r] = Idle]
  /\ UNCHANGED <<given, store, executed>>

\* The store is saved and read back.
Restart ==
  /\ store' = ParseMemory(store)
  /\ UNCHANGED <<given, run, executed>>

Init ==
  /\ given \in Scenarios
  /\ run = [r \in Runs |-> Idle]
  /\ store = <<>> /\ executed = <<>>

Next ==
  \/ \E r \in given.runs : (\E e \in EventsIn[given.name] : Deliver(r, e)) \/ Record(r) \/ Reply(r)
  \/ Restart

Spec == Init /\ [][Next]_memoryVars

-----------------------------------------------------------------------------
\* What a reader takes a command to be about.
Subject(ref) ==
  CASE ref.kind = "exact" -> <<"exact", ref.path, ref.rule, ref.title.lower>>
    [] ref.kind = "rule" -> <<"rule", ref.rule>>
    [] ref.kind = "glob" -> <<"glob", ref.glob, ref.rule>>

\* The accepted exceptions that nobody has taken back since.
Standing ==
  {i \in DOMAIN executed :
     /\ IntentOf(executed[i]) = "accept"
     /\ \A j \in DOMAIN executed :
          j > i /\ IntentOf(executed[j]) = "forget" => Subject(Reference(executed[j])) # Subject(Reference(executed[i]))}

Undoes(line, ref) ==
  LET back == ParseMemoryReference(line)
  IN  line.verb \in {"forget", "forget-rule", "forget-glob"}
        /\ back.message = NoText /\ Subject(back) = Subject(ref)

(***************************************************************************)
(* A review reports a finding exactly when no accepted exception that      *)
(* still stands is about it, whatever was accepted, forgotten, accepted    *)
(* again and saved before; the command printed with a finding is about it, *)
(* and the forget command printed with a confirmation takes back what was  *)
(* accepted, and nothing else (runMemoryCommand, parseMemoryReference,     *)
(* suppressResolved, parseMemory).                                         *)
(***************************************************************************)
AcceptIsHonored ==
  /\ \A f \in Range(Proposed) :
       /\ f \in Range(SuppressResolved(Proposed, store).findings)
            <=> \A i \in Standing : ~Accepts(Reference(executed[i]), f)
       /\ LET ref == ParseMemoryReference(AcceptCommand(f))
          IN  ref.message = NoText /\ Accepts(ref, f)
  /\ \A i \in Standing : Undoes(ForgetCommand(Reference(executed[i])), Reference(executed[i]))

Repaired(in) ==
  CASE ExplainDenial(in) = "isFork" -> [in EXCEPT !.isFork = FALSE]
    [] ExplainDenial(in) = "permission" -> [in EXCEPT !.permission = "write"]
    [] ExplainDenial(in) = "allowWrite" -> [in EXCEPT !.allowWrite = TRUE]
    [] OTHER -> in

\* May push to the repository, by the forge's own roles; and asks from it.
MayPush(forge, answer) ==
  CASE forge = "local" -> TRUE
    [] forge = "github" -> answer.status = 200 /\ IsText(answer.role)
                             /\ answer.role.text \in {"admin", "maintain", "write", "push"}
    [] forge = "gitlab" -> answer.status = 200 /\ IsNumber(answer.role)
                             /\ answer.role.number \in {30, 40, 50}

(***************************************************************************)
(* Who may not push to the repository decides nothing in it, and from a    *)
(* fork nobody does more than have it reviewed; and a denial names what is *)
(* missing: repairing what it names ends the denial or brings up the next  *)
(* cause, until the actor is authorized (authorize, resolveTrust,          *)
(* explainDenial, resolvePermission, isFork).                              *)
(***************************************************************************)
DenialNamesCause ==
  \A r \in Runs : run[r].stage # "idle" /\ IngestFailure(PayloadOf[run[r].event]) = NoText =>
    LET in     == TrustInput(run[r].event)
        push   == MayPush(Event(run[r].event).forge, Answer(run[r].event))
        ended(codes) == run[r].stage = "over" /\ run[r].code \in codes
    IN  /\ ~ended({"neutral", "E_UNEXPECTED", "E_DENIED"}) =>
             IF in.isFork THEN in.intent \in {"review", "explain", "rules"}
             ELSE push /\ (in.intent = "fix" => given.allowWrite)
        /\ ended({"E_DENIED"}) =>
             /\ run[r].why \in {"isFork", "permission", "allowWrite"}
             /\ ExplainDenial(Repaired(in)) # run[r].why
             /\ ExplainDenial(Repaired(Repaired(Repaired(in)))) = NoText

\* "The comment payload carries no shas, so the driver enriches it with a top-level
\* `pull_request` object before calling in": no comment is refused for want of one (ingest).
CommentsAreEnriched ==
  \A r \in Runs : run[r].stage = "over" /\ run[r].code = "E_INVALID_PAYLOAD" =>
    ~(Kind(PayloadOf[run[r].event]) = "comment" /\ run[r].why = "missing pull_request object")
=============================================================================

--------------------------- MODULE ReviewPipeline ---------------------------
(***************************************************************************)
(* `runReview` of packages/core/review-runtime/src/index.ts, split at its  *)
(* awaits, with what its runs share: the two slots of the trust policy and *)
(* the slot of the review tools.                                           *)
(*                                                                         *)
(* stage[r] names the await run r is suspended in; an action of r is the   *)
(* stretch from that await to the next one.  A slot holds the run whose    *)
(* value is bound in it.  Each await may reject, which ends in the catch   *)
(* and the finally of runReview.  The watchdog fires at any time: it       *)
(* cancels an agent that is listening and aborts the agents of the shards, *)
(* which are given its signal, and nothing else.                           *)
(***************************************************************************)
EXTENDS Naturals, FiniteSets

CONSTANTS
  Runs,            \* calls of runReview in one process
  maxConcurrent,   \* how many the driver lets overlap
  None             \* no run

\* A slot for which the run holds no disposer.
Unbound == "unbound"

ASSUME PipelineConstants ==
  /\ maxConcurrent \in Nat \ {0}
  /\ None \notin Runs
  /\ Unbound \notin Runs \cup {None}

VARIABLES
  stage,           \* the await a run is suspended in
  intent,          \* what the event asks for
  actor,           \* who asks, as the forge answers
  trust,           \* the request's trust, which authorize resolved
  granted,         \* the policy's level for the same actor, once activated
  slot,            \* the shared slots
  saved,           \* what a run's disposers will restore, per slot
  fired,           \* the run's watchdog has fired
  cancelled,       \* the watchdog cancelled the run's agent
  asked,           \* the run got an answer of its agent or of some shard's
  known,           \* what the hoisted variables of runReview hold
  gate,            \* the outcome of the validation commands
  report,          \* the terminal result
  effects,         \* what the run did to the forge, the memory and the disk
  allowWrite,      \* the configured write mode
  depsAllowWrite   \* its value when the plugin was applied

runVars == <<stage, intent, actor, trust, granted, fired, cancelled, asked, known, gate, report,
             effects>>
slotVars == <<slot, saved>>
vars == <<runVars, slotVars, allowWrite, depsAllowWrite>>
\* What no stage after authorize changes.
settledVars == <<intent, actor, trust, granted, fired, cancelled, allowWrite, depsAllowWrite>>

Intents == {"none", "review", "diagnose", "fix", "memory"}
Actors == {"fork", "writer", "visitor"}
Levels == {"none", "untrusted", "trusted-read", "trusted-write"}
Slots == {"input", "writeContext", "toolContext"}

Stages == {"new", "authorize", "record", "reply", "diff", "context", "shards", "create", "agent",
           "dispose", "giveUp", "recall", "inline", "summary", "plan", "write", "gate",
           "gateComment", "commit", "done"}
Statuses == {"success", "neutral", "denied", "validation_failed", "failed", "timed_out"}
\* What a run may have done, what it may know of that, and what its result may tell.
Deeds == {"recorded", "reply", "inline", "summary", "written", "gateComment", "committed"}
Facts == {"findings", "publication"}
Told == Facts \cup {"write"}
Outcomes == {"unrun", "passed", "failed"}

InProgress == {r \in Runs : stage[r] \notin {"new", "done"}}

-----------------------------------------------------------------------------
(***************************************************************************)
(* Faulty variants of definitions below.                                   *)
(***************************************************************************)
\* Disposing of the agent restores the run's other slots as well.
AgentSlotsAll == Slots
\* The write context is never unbound.
RunSlotsTrustOnly == {"input"}
\* The catch reports the failure only.
HoistedNothing(r) == {}
\* A fork's actor is judged by the permission alone.
ResolveForkLast(a, i, allow) ==
  IF a = "visitor" THEN "none"
  ELSE IF i # "fix" THEN "trusted-read" ELSE IF allow THEN "trusted-write" ELSE "none"
\* A blocked fix reports success.
BlockedStatusGreen == "success"
\* The abort listener is not registered.
ListeningNever(r) == FALSE

-----------------------------------------------------------------------------
(***************************************************************************)
(* Trust.                                                                  *)
(***************************************************************************)
Resolve(a, i, allow) ==
  CASE a = "fork" -> "untrusted"
    [] a = "visitor" -> "none"
    [] a = "writer" /\ i # "fix" -> "trusted-read"
    [] a = "writer" /\ i = "fix" -> IF allow THEN "trusted-write" ELSE "none"

TrustOrder == <<"none", "untrusted", "trusted-read", "trusted-write">>
Rank(l) == CHOOSE i \in DOMAIN TrustOrder : TrustOrder[i] = l
MeetsTrust(l, minimum) == Rank(l) >= Rank(minimum)

\* INTENT_MIN_TRUST; explain and rules are as review, accept and forget are "memory".
MinTrust == [none |-> "none", review |-> "untrusted", diagnose |-> "trusted-read",
             fix |-> "trusted-write", memory |-> "trusted-read"]

-----------------------------------------------------------------------------
(***************************************************************************)
(* Slots: binding one remembers what it held, disposing puts that back.    *)
(***************************************************************************)
Bind(r, s) ==
  /\ slot' = [slot EXCEPT ![s] = r]
  /\ saved' = [saved EXCEPT ![r][s] = slot[s]]

Held(r, S) == {s \in S : saved[r][s] # Unbound}

Unwind(r, S) ==
  /\ slot' = [s \in Slots |-> IF s \in Held(r, S) THEN saved[r][s] ELSE slot[s]]
  /\ saved' = [saved EXCEPT ![r] = [s \in Slots |-> IF s \in S THEN Unbound ELSE @[s]]]

\* What is bound by the agent's effects, and by runReview itself.
AgentSlots == {"toolContext"}
RunSlots == {"input", "writeContext"}

-----------------------------------------------------------------------------
(***************************************************************************)
(* Ends of a run.                                                          *)
(***************************************************************************)
Await(r, next) == stage' = [stage EXCEPT ![r] = next] /\ UNCHANGED report

Terminal(r, status, told) ==
  /\ stage' = [stage EXCEPT ![r] = "done"]
  /\ report' = [report EXCEPT ![r] = [status |-> status, tells |-> told]]

\* A result is returned, and the finally runs.
Returns(r, status, told) == Terminal(r, status, told) /\ Unwind(r, RunSlots)

\* statusFromFailure, by the phase that throws.  A stretch that starts when the shards or the
\* agent are through validates their answers, whose fields may have any type; the fan-out itself
\* throws only when it was aborted.
FailureStatuses(r) ==
  IF fired[r] THEN {"timed_out"}
  ELSE CASE stage[r] = "authorize" -> {"denied"}
         [] stage[r] = "shards" -> {"validation_failed"}
         [] stage[r] = "dispose" -> {"failed", "validation_failed"}
         [] OTHER -> {"failed"}

\* What the catch finds in the variables hoisted out of the try.
Hoisted(r) == known[r]

\* Something throws: the catch reports and the finally runs.
Throws(r) == \E status \in FailureStatuses(r) : Returns(r, status, Hoisted(r))

\* The status of a fix whose validation commands did not pass.
BlockedStatus == "failed"

Did(r, done) == effects' = [effects EXCEPT ![r] = @ \cup done]
Learns(r, what) == known' = [known EXCEPT ![r] = @ \cup what]

-----------------------------------------------------------------------------
Init ==
  /\ stage = [r \in Runs |-> "new"]
  /\ intent = [r \in Runs |-> "none"]
  /\ actor = [r \in Runs |-> "visitor"]
  /\ trust = [r \in Runs |-> "none"]
  /\ granted = [r \in Runs |-> "none"]
  /\ slot = [s \in Slots |-> None]
  /\ saved = [r \in Runs |-> [s \in Slots |-> Unbound]]
  /\ fired = [r \in Runs |-> FALSE]
  /\ cancelled = [r \in Runs |-> FALSE]
  /\ asked = [r \in Runs |-> FALSE]
  /\ known = [r \in Runs |-> {}]
  /\ gate = [r \in Runs |-> "unrun"]
  /\ report = [r \in Runs |-> None]
  /\ effects = [r \in Runs |-> {}]
  /\ allowWrite \in BOOLEAN
  /\ depsAllowWrite = allowWrite

HasRoom == Cardinality(InProgress) < maxConcurrent

\* ingest may reject the payload; an event that asks for nothing ends neutral.
Start(r) ==
  /\ stage[r] = "new" /\ HasRoom
  /\ \/ Throws(r) /\ UNCHANGED intent
     \/ \E i \in Intents :
          /\ intent' = [intent EXCEPT ![r] = i]
          /\ IF i = "none" THEN Returns(r, "neutral", {})
                           ELSE Await(r, "authorize") /\ UNCHANGED slotVars
  /\ UNCHANGED <<actor, trust, granted, fired, cancelled, asked, known, gate, effects,
                 allowWrite, depsAllowWrite>>

\* The forge answered who asks.  The request's trust is resolved with the write mode the
\* plugin was applied with, the policy's with the present one.
AuthorizeEnds(r) ==
  /\ stage[r] = "authorize"
  /\ \/ Throws(r) /\ UNCHANGED <<actor, trust, granted>>
     \/ \E a \in Actors :
          LET resolved == Resolve(a, intent[r], depsAllowWrite)
              allowed == MeetsTrust(resolved, MinTrust[intent[r]])
          IN  /\ actor' = [actor EXCEPT ![r] = a]
              /\ trust' = [trust EXCEPT ![r] = resolved]
              /\ \/ ~allowed /\ Throws(r) /\ UNCHANGED granted
                 \/ /\ allowed /\ intent[r] = "memory"
                    /\ Await(r, "record") /\ UNCHANGED <<slotVars, granted>>
                 \/ /\ allowed /\ intent[r] # "memory"
                    /\ Bind(r, "input")
                    /\ granted' = [granted EXCEPT ![r] = Resolve(a, intent[r], allowWrite)]
                    /\ Await(r, "diff")
  /\ UNCHANGED <<intent, fired, cancelled, asked, known, gate, effects, allowWrite, depsAllowWrite>>

\* runMemoryCommand: the exception is recorded or forgotten, then confirmed.
RecordEnds(r) ==
  /\ stage[r] = "record"
  /\ \/ Throws(r) /\ \E some \in SUBSET {"recorded"} : Did(r, some)
     \/ Await(r, "reply") /\ Did(r, {"recorded"}) /\ UNCHANGED slotVars
  /\ UNCHANGED <<settledVars, asked, known, gate>>

ReplyEnds(r) ==
  /\ stage[r] = "reply"
  /\ \/ Throws(r) /\ \E some \in SUBSET {"reply"} : Did(r, some)
     \/ Returns(r, "success", {}) /\ Did(r, {"reply"})
  /\ UNCHANGED <<settledVars, asked, known, gate>>

DiffEnds(r) ==
  /\ stage[r] = "diff"
  /\ \/ Throws(r)
     \/ Bind(r, "writeContext") /\ Await(r, "context")
  /\ UNCHANGED <<settledVars, asked, gate, known, effects>>

\* Imports, failed checks and neighbours.  A change of several shards is fanned out to one agent
\* each unless that is switched off, and one no rule applies to skips the model.
ContextEnds(r) ==
  /\ stage[r] = "context"
  /\ \/ Throws(r)
     \/ \E next \in {"shards", "create", "recall"} : Await(r, next) /\ UNCHANGED slotVars
  /\ UNCHANGED <<settledVars, asked, gate, known, effects>>

\* The agents of the shards, created without a setup, are through.  An aborted fan-out throws;
\* one without a single answer falls back to one agent.
ShardsEnd(r) ==
  /\ stage[r] = "shards"
  /\ \/ Throws(r) /\ UNCHANGED asked
     \/ /\ ~fired[r]
        /\ \E next \in {"create", "recall"} :
             Await(r, next) /\ asked' = [asked EXCEPT ![r] = next = "recall"] /\ UNCHANGED slotVars
  /\ UNCHANGED <<settledVars, gate, known, effects>>

\* agents.create ran its setup and resolved; the abort listener is added and the turn starts.
AgentStarts(r) ==
  /\ stage[r] = "create"
  /\ \/ Throws(r)
     \/ Bind(r, "toolContext") /\ Await(r, "agent")
  /\ UNCHANGED <<settledVars, asked, gate, known, effects>>

\* whenIdle settles, for a cancelled agent too: a run whose watchdog fired by now gives up, and
\* so does one whose agent failed; the agent is disposed of either way.
AgentEnds(r) ==
  /\ stage[r] = "agent"
  /\ \E next \in {"dispose", "giveUp"} : Await(r, next) /\ (fired[r] => next = "giveUp")
  /\ UNCHANGED <<settledVars, asked, gate, slotVars, known, effects>>

\* The agent's effects are undone.  A watchdog that fired meanwhile is not looked at again.
Disposed(r) ==
  /\ stage[r] \in {"dispose", "giveUp"}
  /\ \/ /\ \E status \in FailureStatuses(r) : Terminal(r, status, Hoisted(r))
        /\ Unwind(r, AgentSlots \cup RunSlots) /\ UNCHANGED asked
     \/ /\ stage[r] = "dispose" /\ Await(r, "recall") /\ Unwind(r, AgentSlots)
        /\ asked' = [asked EXCEPT ![r] = TRUE]
  /\ UNCHANGED <<settledVars, gate, known, effects>>

\* Accepted exceptions are read and the snapshot is written, both as far as they can be.
RecallEnds(r) ==
  /\ stage[r] = "recall"
  /\ Await(r, "inline")
  /\ Learns(r, {"findings"})
  /\ UNCHANGED <<settledVars, asked, gate, slotVars, effects>>

\* Some inline comments may be on the forge when the call rejects.
InlineEnds(r) ==
  /\ stage[r] = "inline"
  /\ \E some \in SUBSET {"inline"} : Did(r, some)
  /\ Throws(r) \/ (Await(r, "summary") /\ UNCHANGED slotVars)
  /\ UNCHANGED <<settledVars, asked, gate, known>>

\* The summary is a comment too; its response may be lost.
SummaryEnds(r) ==
  /\ stage[r] = "summary"
  /\ \/ /\ Throws(r) /\ UNCHANGED known
        /\ \E some \in SUBSET {"summary"} : Did(r, some)
     \/ /\ Did(r, {"summary"}) /\ Learns(r, {"publication"})
        /\ IF intent[r] = "fix" THEN Await(r, "plan") /\ UNCHANGED slotVars
                                ELSE Returns(r, "success", known'[r])
  /\ UNCHANGED <<settledVars, asked, gate>>

\* mutate's first phase: every patch is read, applied in memory and checked by rejectWrite,
\* which refuses without a write context.  No patch ends the stage, and nobody proposed one where
\* the model was skipped.
PlanEnds(r) ==
  /\ stage[r] = "plan"
  /\ \/ Throws(r)
     \/ Returns(r, "success", known[r] \cup {"write"})
     \/ asked[r] /\ slot["writeContext"] # None /\ Await(r, "write") /\ UNCHANGED slotVars
  /\ UNCHANGED <<settledVars, asked, gate, known, effects>>

\* The second phase writes the files; a failure may come after some of them.
WriteEnds(r) ==
  /\ stage[r] = "write"
  /\ \/ Throws(r) /\ \E some \in SUBSET {"written"} : Did(r, some)
     \/ \E next \in {"gate", "commit"} :
          Await(r, next) /\ Did(r, {"written"}) /\ UNCHANGED slotVars
  /\ UNCHANGED <<settledVars, asked, gate, known>>

\* The validation commands.
GateEnds(r) ==
  /\ stage[r] = "gate"
  /\ \/ Throws(r) /\ UNCHANGED gate
     \/ \E outcome \in {"passed", "failed"} :
          /\ gate' = [gate EXCEPT ![r] = outcome]
          /\ Await(r, IF outcome = "passed" THEN "commit" ELSE "gateComment")
          /\ UNCHANGED slotVars
  /\ UNCHANGED <<settledVars, asked, known, effects>>

GateCommentEnds(r) ==
  /\ stage[r] = "gateComment"
  /\ \/ Throws(r)
     \/ Returns(r, BlockedStatus, known[r] \cup {"write"})
  /\ \E some \in SUBSET {"gateComment"} : Did(r, some)
  /\ UNCHANGED <<settledVars, asked, gate, known>>

\* A sink that finds nothing to commit is no failure; a response may be lost.
CommitEnds(r) ==
  /\ stage[r] = "commit"
  /\ \/ Throws(r)
     \/ Returns(r, "success", known[r] \cup {"write"})
  /\ \E some \in SUBSET {"committed"} : Did(r, some)
  /\ UNCHANGED <<settledVars, asked, gate, known>>

-----------------------------------------------------------------------------
\* The abort listener exists while the agent's turn is awaited.
Listening(r) == stage[r] = "agent"

Watchdog(r) ==
  /\ r \in InProgress /\ ~fired[r]
  /\ fired' = [fired EXCEPT ![r] = TRUE]
  /\ cancelled' = [cancelled EXCEPT ![r] = Listening(r)]
  /\ UNCHANGED <<stage, intent, actor, trust, granted, asked, known, gate, report, effects,
                 slotVars, allowWrite, depsAllowWrite>>

\* The write mode is switched in the Web UI.  The policy watches it; the runtime's getter was
\* evaluated when `deps` was spread from `base`.
Toggle ==
  /\ allowWrite' = ~allowWrite
  /\ UNCHANGED <<runVars, slotVars, depsAllowWrite>>

\* Calls of the forge, the memory, the disk and the agent factory.
ServiceEnds(r) ==
  \/ AuthorizeEnds(r) \/ RecordEnds(r) \/ ReplyEnds(r) \/ DiffEnds(r) \/ ContextEnds(r)
  \/ AgentStarts(r) \/ Disposed(r) \/ RecallEnds(r) \/ InlineEnds(r) \/ SummaryEnds(r)
  \/ PlanEnds(r) \/ WriteEnds(r) \/ GateCommentEnds(r) \/ CommitEnds(r)

\* What may take for ever: a fan-out, an agent's turn, a validation command.
WorkEnds(r) == ShardsEnd(r) \/ AgentEnds(r) \/ GateEnds(r)

StageEnds(r) == ServiceEnds(r) \/ WorkEnds(r)

Next ==
  \/ \E r \in Runs : Start(r) \/ StageEnds(r) \/ Watchdog(r)
  \/ Toggle

\* Calls of services end, and the timer fires.  An agent's turn ends if it was cancelled, and the
\* agents of the shards if the signal they were given was aborted.  A command is given neither a
\* timeout nor the signal: nothing says that it ends.
Fairness ==
  \A r \in Runs :
    /\ WF_vars(ServiceEnds(r))
    /\ WF_vars(Watchdog(r))
    /\ WF_vars(cancelled[r] /\ AgentEnds(r))
    /\ WF_vars(fired[r] /\ ShardsEnd(r))

Spec == Init /\ [][Next]_vars
FairSpec == Spec /\ Fairness
\* Commands that end as well.
PromptSpec == FairSpec /\ \A r \in Runs : WF_vars(GateEnds(r))

-----------------------------------------------------------------------------
(***************************************************************************)
(* Properties.                                                             *)
(***************************************************************************)
Types ==
  /\ stage \in [Runs -> Stages]
  /\ intent \in [Runs -> Intents]
  /\ actor \in [Runs -> Actors]
  /\ trust \in [Runs -> Levels]
  /\ granted \in [Runs -> Levels]
  /\ slot \in [Slots -> Runs \cup {None}]
  /\ saved \in [Runs -> [Slots -> Runs \cup {None, Unbound}]]
  /\ fired \in [Runs -> BOOLEAN]
  /\ cancelled \in [Runs -> BOOLEAN]
  /\ asked \in [Runs -> BOOLEAN]
  /\ known \in [Runs -> SUBSET Facts]
  /\ gate \in [Runs -> Outcomes]
  /\ report \in [Runs -> [status : Statuses, tells : SUBSET Told] \cup {None}]
  /\ effects \in [Runs -> SUBSET Deeds]
  /\ allowWrite \in BOOLEAN
  /\ depsAllowWrite \in BOOLEAN

\* Types, and the driver's bound on overlapping runs.
TypeOK == Types /\ Cardinality(InProgress) <= maxConcurrent

\* An agent's tool calls are gated, guarded and answered from its own run's slots, and a
\* write plan is checked against its own run's change set: the getters of the trust policy
\* and the review tools, as tools/pre-execute, the write guard, the tools and mutate read them.
\* The agents of the shards bind no tool context, so that none answers them, least of all another
\* run's.
ScopesAreOwn ==
  \A r \in Runs :
    /\ stage[r] \in {"shards", "agent"} => slot["input"] = r /\ slot["writeContext"] = r
    /\ stage[r] = "agent" => slot["toolContext"] = r
    /\ stage[r] = "shards" => slot["toolContext"] = None
    /\ stage[r] \in {"plan", "write"} => slot["writeContext"] = r

\* Between runs every slot is empty, so that a governed tool call fails closed: nothing a
\* finished run bound survives it, however it ended.
NothingStaysBound ==
  \A s \in Slots : slot[s] # None => slot[s] \in InProgress

\* What a run published on the forge, its terminal result tells, also when a later stage or
\* the watchdog ends the run in the catch; the publication's figures too, once the summary is up
\* and its response arrived.
PublishedIsReported ==
  \A r \in Runs : stage[r] = "done" =>
    /\ effects[r] \cap {"inline", "summary"} # {} => "findings" \in report[r].tells
    /\ known[r] \subseteq report[r].tells

\* A commit is a fix a writer asked for, not from a fork, with write mode on when the plugin was
\* applied; its findings were published and its files written before, and no validation command
\* that ran had failed.
CommitsAreEarned ==
  \A r \in Runs : "committed" \in effects[r] =>
    /\ intent[r] = "fix" /\ actor[r] = "writer" /\ depsAllowWrite
    /\ {"written", "summary"} \subseteq effects[r]
    /\ gate[r] # "failed"

\* The verdict tells what happened: success means that the run published or confirmed and was
\* not blocked, denied and neutral that it did nothing at all, a failed validation that nothing
\* was done either, timed out that the watchdog fired.
HonestVerdict ==
  \A r \in Runs : stage[r] = "done" =>
    LET status == report[r].status
    IN  /\ status = "success" => effects[r] \cap {"summary", "reply"} # {} /\ gate[r] # "failed"
        /\ status \in {"denied", "neutral"} => effects[r] = {} /\ granted[r] = "none"
        /\ status = "validation_failed" => effects[r] = {}
        /\ status = "timed_out" => fired[r]

\* Nothing hangs but a validation command and an agent that started after its run's watchdog:
\* every run ends or gets to one of the two, so that one past its gate ends; and it leaves its
\* agent if the watchdog had not fired then, since the timer cancels an agent that does not end.
OnlyLateAgentsAndCommandsHang ==
  \A r \in Runs :
    /\ r \in InProgress ~> stage[r] \in {"agent", "gate", "done"}
    /\ stage[r] = "agent" /\ ~fired[r] ~> stage[r] \in {"gate", "done"}

\* Every run ends in a terminal result: a timeout aborts the stage in flight and still reaches
\* report (the comment above runReview).
EveryRunReports == \A r \in Runs : r \in InProgress ~> stage[r] = "done"

=============================================================================

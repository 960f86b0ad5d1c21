# A TLA+ model of dsh-reviewer-bot

dsh-reviewer-bot reviews change requests with a language model. A driver (a
GitHub Action, a command line, or a webhook daemon) hands one forge event to the
review runtime, whose pipeline decides whether the actor may ask for what the
event asks, fetches the diff, lets agents propose findings and patches,
validates what they propose, publishes it on the forge and, in write mode,
commits it. This directory holds TLA+ modules of the parts whose correctness
depends on order, concurrency, failure or intricate case analysis, the TLC runs
that check them, and TLAPS proofs.

Paths below are relative to the repository's `packages/`.

## Inventory

| component | state it keeps | operations | interacts with | what makes it correct |
|---|---|---|---|---|
| task queue, `drivers/driver-webhook` `createQueue` | waiting lists per repository, running repositories, in-flight and completed keys, `accepting`, drain waiters | `enqueue`, `settle`, `pump`, `drain` | the HTTP handler calls `enqueue`; `pump` calls `run`, whose promise calls `settle` | one run per repository, caps, no lost task, no missed wake-up, drain ends |
| workspace pool, `createWorkspacePool` and `createGitBackend` | LRU cache of idle workspaces, table of leases, directories on disk | `lease`, `release`, `dispose`, each awaiting git or rm | leased and released by the queue's `run`, disposed by the plugin's disposer | exclusive leases, bounded cache, a leased tree stays intact, no directory lost |
| daemon wiring, `apply` | the plugin's life | listen, stop, drain, dispose | all of the above and `runReview` | no lease outlives its run, the pool is torn down under nobody, unloading ends |
| HTTP handler, `createHandler` | none | one request to one response | `enqueue` | signature before payload before queue; an answer is what becomes of the event |
| review runtime, `core/review-runtime` | per run: stage, watchdog, what was published | ingest, route, authorize, context, reason (with fan-out over shards), validate, publish, mutate, report, memory commands | every service below | a terminal result always, denied intents go nowhere, no proposal is lost, published findings are reported, patches are validated before they are committed |
| trust policy, `core/trust-policy` | one slot for the run's decision, one for its write context | `activate`, `bindWriteContext` and their disposers, `resolveTrust`, `rejectWrite` | the runtime binds, tool calls and mutate read | a run is judged by its own decision; nothing stays bound after it; no write behind a red line |
| review tools, `tools/tool-review` | one slot for the run's shards | `activate`, tool calls | the agent | a tool reads the shards of its own run |
| progress reporter, `core/progress` | sticky comment id, throttle, write chain | `begin`, `advance`, `finish` | the forge's comments | the terminal body is the last one written |
| forges, `forge/*` | none of their own; the forge's comments, branches, commits | diffs, inline comments with idempotency markers, commits by several requests, permissions | REST services, git | a diff is read whole, a repeated publication adds nothing, a commit is whole or absent |
| review core, `core/review-core` | none | narrowing of proposals, keys, globs | runtime | every published finding is sound, deduplicated and capped |
| registries, `core/forge`, `core/rule-registry` | registered gateways and rule packs | `register`, `match` and disposers | plugins | a file gets the rules that apply to it |
| results store, `core/results` | a ring of results, watchers | `ingest`, `list`, `clear`, `watch` | drivers, the Web UI | bounded, newest first |
| Action and CLI drivers, configuration, bootstrap, baseline rules | none, or one process' | argument and payload translation, data | | not modelled |

What is hard to test here: orders of deliveries, settlements and unloading in the
queue; what happens between a lease's or a release's awaits; slots shared by
concurrent runs; a watchdog that fires between stages; shards that answer in any
order or not at all; requests to a forge that do their work and lose their
answer; patches, diffs, patterns and references at the borders of their formats.
`PROJECT.json` lists each hazard with its line.

## How the modules fit together

```
WebhookDaemon ── WebhookHandler ── Payloads
  ├─ Q == INSTANCE WebhookQueue ── (QueueImplementsLifecycle) ── DeliveryLifecycle
  └─ P == INSTANCE WorkspacePool

ReviewPipeline                    the awaits of a run, and the slots runs share

Reasoning ── ShardFanOut          diff → context → agents → findings
  ├─ DiffSources, DiffSharding, RuleRegistry ── Paths ── Lists
  └─ Findings ── Paths, Payloads

ChangeRequest                     what runs leave at the forge
  ├─ Publication ── RedLines ── Paths, Patches
  └─ Progress

MemoryCommands                    comment → trust → memory → suppression
  ├─ Events ── Payloads
  └─ Findings
```

`MC*` modules hold the instances for TLC (`MCQueueStream` a specification of its own,
of a queue that has been served for long), `*_proofs` the theorems. `Lists` has what
`filter` and `find` of an array return (`Picked`, `FirstAt`), written so that it can be
proved about, and loops over arrays are recursive functions of the number of elements
seen (`ValidateOne`, `MergeOne`, `ClusterOne`, `SplitOne` are their bodies). The pipeline is
modelled twice over, at two grains: `ReviewPipeline` has the awaits, failures and
slots of `runReview`, by one agent or by one for each shard, and no data;
`Reasoning`, `Publication` and `MemoryCommands` have the data of a stretch of it and
only those awaits that matter to that data.

## Modules

### WebhookQueue

One action per entry point: `Enqueue` (with `Refuse`, `Coalesce` and `Push` for
its outcomes), `Settle` and `Drain`. None of them awaits, so each is atomic in
the code too. `pump` is called last by each; its loop turns at most once per
call, because its exit condition holds whenever no entry point is running. That
exit condition is the invariant `WorkConserving`, which is checked and proved, so
the simplification is justified by the model itself.

`waiting[r]` is the list of repository r in the Map `queues`, `order` the
insertion order of the Map's keys, on which `nextQueuedRepo` depends. `runs`
counts the promises of `run` that have not settled, which the code does not keep
but whose bookkeeping (`active`, `inFlight`) the properties compare with it. The
history variables (`accepted`, `started`, `finished`, `superseded`, `forgotten`,
`drained`) are never read by an action; `started` saturates at 2.

A delivery is its dedupe key: the coalesce key and the repository are functions
of it, since a redelivery carries the same payload. Metrics and callbacks that
log are left out.

Fairness: a started review settles (`WF(Settle(d))`), because `runReview` has a
wall-clock budget; finding 3 and the validation commands (Observations) show where
that budget does not end it. Nothing is assumed of the forge: events come or do not.

With a cache that holds every delivery a repository cannot be busy for ever, since
each runs at most once. `MCQueueStream` starts from a queue that was
served for long, under a cache of one key: a delivery that comes again after the
cache forgot it is run again, and a handful of deliveries makes an endless stream.
There a waiting delivery leaves the queue unless every slot's worth of other
repositories always has one waiting (`OnlyBusyReposStarve`), and with one slot the
exception is real.

### DeliveryLifecycle, QueueImplementsLifecycle

The abstract specification knows one status per delivery and what may follow
what: new, queued, running, done, or replaced by an event of its change request
that arrives; one running delivery per repository, `slots` in all.
`QueueImplementsLifecycle` maps the queue's state to a status per delivery and
states that every step of the queue is a step of that life or leaves it alone.
It holds when every delivery has a change request and the cache forgets nothing;
the observations below say what happens otherwise.

### WorkspacePool

The pool's methods await git and rm commands, so each is split at its awaits:
`Lease`, then `RefreshEnds` or `CreateEnds`; `Release`, then `CleanEnds`, then
`RemoveEnds` for the rm of an eviction or of a workspace that could not be
cleaned. `call[u]` says which await a user's calls are suspended in, `victim[u]`
what its rm destroys. `cache` is in the order of last use, which is the Map's
insertion order as long as the clock does not go back.

The directories are external: `disk[r]` is empty or missing, a checked-out tree,
or debris. A command may fail at any time, a clone only succeeds in an empty
directory, a fetch and a clean only in a tree, and an rm under way (`Sweep`)
deletes whatever the directory holds at that time. The initial states let any
directory be there, as a process that died leaves it. `orphaned` records the
directories that a failure left behind. What a run writes in its workspace is
not modelled: no code hands the leased directory to the review.

### WebhookHandler, Payloads, WebhookDaemon

`WebhookHandler` is `createHandler`: the checks of a request in their order, each
with its status (`Rejection`, `StatusOf`), the signature of each forge over an
abstract digest, the delivery's id, and the identity read off a payload that may
be any of three forges' (`ReadEventIdentity`), of which the dedupe and coalesce
keys are made. Untyped input is modelled in `Payloads`: objects are functions
from the fields they have, and a leaf knows whether it is a text, a number or a
flag.

`WebhookDaemon` instantiates queue and pool and joins them as `apply` does. A
delivery *is* an HTTP request here, so the queue's keys and repositories are what
the handler computes: the handler never awaits, so a request that it lets through
is enqueued in the same step. The queue step that starts a task executes the
first stretch of `lease`, because `run` is called by `pump` and runs up to its
first await; a task's promise settles once its lease was rejected or its release
returned; the disposer stops, drains, disposes.

Fairness: promises are handled, reviews end and so do git and rm commands. The
last is an assumption the code does not enforce: it waits for them without a
timeout. That reviews end is one too, for what finding 3 and the commands show:
`DrainTerminates` and `UnloadTerminates` say that queue, pool and disposer add no way to hang.

### ReviewPipeline

`runReview`, split at its awaits. `stage[r]` names the await run r is suspended
in, and an action of r is the code from that await to the next one, with every
call it makes in between: `AuthorizeEnds`, for instance, is the answer of the
forge, `resolveTrust`, the check of the intent's minimum, `activate`, and the
start of `fetchDiff`. The reason stage is `create`, `agent` and `dispose` (or `giveUp`)
for one agent, and `shards` where a change of several shards is fanned out: one agent
each, created without the setup that binds the tools' context and narrows their
scope, and a single one after that if none answered.

Wherever the code awaits or may throw, the action has a disjunct `Throws`: the catch's report, with what the hoisted variables hold
(`known`), and the finally's disposers. Its status is the one of the phase that throws
(`FailureStatuses`): an answer whose fields have other types than they should fails
validation. `asked` says that some agent answered; nobody else proposes a patch.
Awaits between which nothing shared changes, such as those of one loop, are one stage.

The trust policy's decision, its write context and the tools' context are one
slot each for the whole process. `slot[s]` is the run whose value is bound in s
and `saved[r][s]` what r's disposer would restore, so that disposers that run out
of order do here what they do in the code.

`Watchdog(r)` is the timer: it fires at any time of a run, sets `fired`, and
cancels the agent if its abort listener exists then (`Listening`). The agents of the
shards are given its signal.

`trust` is what `authorize` resolved and `granted` the level the policy derives
from the same actor. The two read the write mode at different places:
`depsAllowWrite` is the value that spreading `base` into `deps` froze, and
`allowWrite` what the policy's watcher keeps up to date. `Toggle` is the switch.

External, and modelled by what the code may see of it: who asks (`Actors`: a
fork, a writer, anyone else), whether a call succeeds, fails, or fails after it
took effect, whether an agent ever ends. `effects` records what was done to the
forge, the memory and the disk, which the code does not keep and the properties
compare with the terminal result.

Fairness: calls of services end and timers fire; an agent's turn ends if it was
cancelled, and the shards' agents if the signal was aborted; otherwise they need not.
The watchdog exists for agents that do not end, so assuming that they do would beg
the question. A validation command is given neither a timeout nor the signal, so
nothing is assumed of it, and a run may hang there. Only finding 3 is stated under
commands that end (`PromptSpec`), so that its trace is about agents.

### ShardFanOut and Reasoning

`ShardFanOut` is the reason stage: the choice between one agent and the workers,
and the workers of `fanOutShards` over their cursor. A worker runs uninterrupted
from the answer of one shard to its next call (`ShardEnds`); the one that ends
last goes on to what follows `Promise.all` (`Joined`). An agent answers, rejects
or is cancelled by the watchdog; the last two are `NoAnswer`. The single agent is created
in a step of its own (`creates`), and one that was created after the watchdog fired is
a `lateAgent`, which nothing cancels.

`Reasoning` puts around it what `runReview` does with a diff: `Fetch` (how each
forge tells of the change and how its parser reads it, `DiffSources`),
`Assemble` (rules, shards, neighbors), the reason stage, `ValidateStep`
(narrowing, anchoring, merging over shards, calibration, clustering) and
`Recall` (suppression by what the memory holds, which may fail). A file may be `large`:
GitHub then shows no patch of it, as a comment in its `fetchDiff` says (`Omitted`).

Fairness (`ReviewSpec`): what is waited for ends once the signal was aborted
(`Prompt`), and the timer fires. Before that, and for a late agent, nothing is assumed.

The algorithms are operators in modules of their own, each checked against what it
means rather than against a copy of itself: the parsers against the change that was
made (`IsDiffOf`), `ShardDiff` against the set of hunks and the closed sets of the
import graph between the files that are shown to agents, matching by the table of
`matchSegments` (a row per position of the pattern, filled from its end) against the
meaning of a pattern (`PatternMeans`, proved equal for all patterns and paths),
validation, merging and clustering against the proposals of each shard.

Data: a path is the sequence of its segments; a severity its rank; a title its
length, its lower-cased form and its form without punctuation, which are the
three things the code tells of one; a body its length; a line of a diff what it
starts with and its size.

### Publication, Patches, RedLines, Progress, ChangeRequest

`Publication` is what runs of one change request leave at its forge: `publish` over
the three `createInlineComments` (list, then one post per finding, then the summary)
and `mutate` over the three `commitPatches` (plan, write, gate, then the requests of a
commit). Runs overlap; each request to the forge may be refused, or do its work and
lose its answer (`Fault`), as often as the scenario says; others push to the default
branch. An earlier list may hold one key twice, as a fault of before leaves it, and
what is there already is not charged to the runs. `FileOf` is the file of the
workspace that a patch's path resolves to, in which empty segments and `.` are dropped
wherever they stand; the guard's `NormalPath` drops a leading `./` only, so that the
two disagree where they do in the code. `AppliedTo` is a patch's outcome. `Patches` is
`applyUnifiedDiff` and the providers' copies of it over hunks of typed lines. Its
reference is what a unified diff says: every line it keeps or removes is at its place
in the file, and the file it leaves is a text (`IsSaidOf`, `Said`). `Guesses` names
where applying goes beyond that, and `LinesUp` and `Meant` are what applying comes to,
guesses included. `RedLines` is `rejectWrite`.

`Progress` is the reporter with its write chain and its throttle, over requests
that fail or lose their answers. It is composed with `Publication` in
`ChangeRequest`; a scenario has either runs or a reporter, because neither reads
what the other writes, and no caller in the repository creates a reporter yet.

Fairness: the forge answers what is under way (`WF(ChainStep)`). Nothing is
assumed of the stream of events.

### Events and MemoryCommands

`Events` is `ingest`, `route` and `authorize` with the actor resolvers of the
forges and the trust table, over payloads of all kinds and malformed ones.
`MemoryCommands` runs them and goes on with `runMemoryCommand` at its awaits. The
memory store is external: no driver in the repository provides one. It keeps one
exception per key, may fail, and may be saved and read back by the file format
the code defines (`Restart`, `ParseMemory`).

## Runs

| run | what is checked | bounds | result |
|---|---|---|---|
| `queue_slots` | serialization, backpressure, wake-ups, coalescing, no silent drop, draining, and that draining ends; the queue implements DeliveryLifecycle | five deliveries, two of them of one change request, three repositories, two slots, lists of two, a cache that never overflows | passes |
| `queue_stream` | types, duplicates and replaced deliveries while a cache overflows; a waiting delivery leaves the queue unless another repository always has one waiting | a queue that was served for long: four pushes of one repository that come again and again, two new events of one change request of another, one slot, lists of two, a cache of one | passes |
| `daemon` | answers are honest, exclusive workspaces, bounded cache, exact leases, no lost directory, disposal when idle, unloading ends | four events of two forges and two repositories with one name and number in common, nine requests that are refused, two slots, lists of one, a pool of one, any leftover directories | passes |
| `pipeline` | own scopes, nothing left bound, publication reported, commits earned, honest verdicts, and that nothing hangs but a validation command and an agent started after the watchdog | two runs, one after the other, all intents and actors, one agent or one for each shard, the switch at any time | passes |
| `reasoning` | diffs read whole but for patches that GitHub omits, coverage told, shards partition the diff, no proposal swallowed, suppression exactly of what was accepted, reported findings sound, the reason stage ends unless its agent is late | three files of up to two hunks in every combination with five import graphs; renamed, added, deleted, binary, large and escaping files at three forges, and one file more than a list is read for; seven answers of agents over up to seven shards and two workers; five memories | passes |
| `change_request` | comments once and none forgotten, fixes whole, nothing written behind a red line under the spelling the guard compares, the result last and attempted | two runs of three findings over four earlier lists of comments and at most one fault; six fixes over three default branches and three pushes; every patch of one hunk of up to two lines over three files; ten red-line patches; a reporter over five ticks | passes |
| `memory_commands` | accepted exceptions are honored and taken back, denials name their cause | every forge, change request and actor with every kind of event; three commands of fourteen forms; two runs that overlap | passes |
| `daemon_eviction` | a leased tree stays intact | two repositories, two slots, a pool of one | violated: finding 1 |
| `pipeline_scopes` | an agent works in its own run's scopes | two runs that overlap | violated: finding 2 |
| `pipeline_timeout` | every run ends in a terminal result | one run, whose commands end | violated: finding 3 |
| `fix_patches` | the workspace that is validated has all patches | the scenarios of `change_request` | violated: finding 4 |
| `comments_unheard` | no comment is refused for want of a `pull_request` | the events of `memory_commands` | violated: finding 5 |

Why the bounds are enough. Two slots and three repositories make both kinds of
waiting happen (for the slot and for the repository); a list of two holds a task
to coalesce with and another that must keep its place; with a cache of one, four
pushes are what it takes for a list that is never empty; a pool of one and two repositories evict while a lease is out.
Two runs of the pipeline are what it takes for one to leave something to another,
or to disturb it; the pipeline keeps nothing that a third would add to. One run
at a time is what the Action and the CLI do, and a daemon with
`maxConcurrentRepos` of one. Three files are what it takes for two to be linked
and a third to lie between them; two workers and more shards than workers make a
worker return to the cursor while another is out. One fault per scenario is what
the properties about repeats speak of; an earlier comment of another author, one
beyond the pages that are read (`readCap`), and a second run that reads before
the first has posted are all there. Three commands are an accept, a forget, and
an accept again. Bounds of the code that are too large to meet are parameters:
`readCap` and `maxListed` for MAX_PAGES pages, `maxDeepSegments` for
MAX_GLOB_STAR_SEGMENTS, `maxTitle` and `maxBody` for the caps on texts, `horizon`
for the clock.

`CHECK_DEADLOCK FALSE` is said where a run of the model ends: a review that was
published, a change request whose runs are over, commands at their bound.

### Findings

1. An eviction's rm is awaited after the repository left the cache. A task of
   that repository that starts meanwhile clones into the same directory, and
   loses the tree it was handed. The comment says idle workspaces are destroyed.
2. `activate`, `bindWriteContext` and the tools' `activate` each keep one value
   for the process. With reviews of two repositories at a time, the later one's
   decision is the one that judges the earlier one's tool calls. "The per-run
   trust decision", as its comment calls it, is not per run.
3. The abort listener is registered after `agents.create`. A watchdog that fired
   before, while the diff was fetched, say, cancels nothing, and the run waits
   for an agent that nobody stops, where the comment above `runReview` says that
   a terminal result is always produced.
4. `mutate` applies each of two patches of one file to the file as it was, and
   the second write takes the first away before the validation commands run; the
   commit has both. The comment in `commitPatches` relies on the opposite.
5. A comment's payload names no shas. The comment in `ingest` says that the driver
   adds a `pull_request`; neither driver does, so every command fails.

### Observations

What was met while modelling and no run is about:

- `nextQueuedRepo` keeps to the Map's order, and a repository whose list is never
  empty keeps its place in it. With one slot it starves those behind it, where the
  configuration's comment says that the bound on its list prevents that:
  `OnlyBusyReposStarve` cannot do without its exception.
- `spawnConfined` waits for a validation command's close without a timeout, and is
  not given the watchdog's signal: a command that hangs keeps its run from reporting,
  as in finding 3, and its repository's slot.
- `normalizeWritePath` strips a leading `./` and nothing else, while `mutate` resolves
  the path: a patch may name a file in a way that the guard does not compare with its
  plain name. The comment in `writeRedLineViolation` says that the two agree;
  `AllOrNothing` has to assume it (`IsSpelledOut`).
- `applyUnifiedDiff` puts blank lines between the end of the file and a hunk that
  begins after it, where its comment says that such a hunk fails rather than guesses.
  It does not look at a header's counts, skips blank lines of a hunk, takes a marker for
  the line before it whatever the file has there, and lets a line without a newline run
  into the next (`Guesses`).
- A redelivery of an event without a change request that arrives while the first copy
  waits is queued and runs twice.
- The pool's partition leaves out the forge: repositories of one name on two
  forges share a queue and a directory. A failed refresh, or a process that died,
  leaves a directory in which every later clone fails.
- After the write mode was switched on, a fix is still denied; after it was
  switched off, `authorize` still resolves `trusted-write` and only the policy's
  own copy knows better (`deps` is spread from `base`, which evaluates the getter
  once).
- No driver provides a memory store, so accept and forget end in
  E_MEMORY_UNAVAILABLE; accept commands are printed on change requests of forks,
  where nobody may use them; one exception of a memory file that does not parse
  rejects the whole file; a wildcard command with a word too many is read as an
  exact one.
- A file named `*` is a safe path, so that its exact key can be a pattern's: accepting
  the one replaces the other in the store. The comments at the key and at the forget
  command exclude it; `AcceptsAreHonored` has to assume that nobody names such a file.
- `check_run` events are ingested from `base.repository` and identified by the
  handler from the payload's root; a GitLab payload never passes `ingest`.
- A rename without changes is binary to GitHub and GitLab and not to git.
  Neighbors that import a changed file are never found, only those it imports.
- Clustering may take a representative that was accepted for a member that was
  not, so that the member is suppressed with it.
- Findings that share a publish key are posted once, and the second is in none of
  the three counts.
- GitHub's commit takes its parent by sha and the contents by the branch's name,
  GitLab's branch starts where the default branch then is: a push in between mixes
  the two. A fix is committed onto the default branch and validated in the
  workspace of the change request. A commit of the local forge takes along what
  was staged before.
- The agents of the shards are created without the setup that gives the single agent
  its tools' context and narrows their scope: `read_diff_shard` and the others that
  need it answer none of them.
- A file whose patch GitHub omits for its size is taken for a binary one. Its hunks
  are reviewed by nobody, nothing says so, and a fix of it is refused as binary.
- Entries of a shard's answer that are not objects are dropped before they are
  counted among the proposals; the model's answers are typed.
- Requests are cut at MAX_PAGES pages without a word.

## Proofs

Eight modules hold theorems, all checked to the last leaf by `tlapm`. Those about the
refinement are in `WebhookQueue_proofs`, the lemmas about the loops of `Findings` in
`Findings_proofs`, the theorems about the fan-out, the parsers and the review in
`Reasoning_proofs`, those about the progress reporter and about publication in
`ChangeRequest_proofs`.

`WebhookQueue_proofs`, for all deliveries, repositories, keys and bounds that
satisfy `QueueConstants` and `CoalesceKeysAreLocal`:

- `TypeCorrect`: `Spec => []TypeOK`, the bound of the completed-key cache
  included. The work is in lemmas on the data: `BoundedAddProperties`,
  `MapDeleteProperties`, `NextQueuedIsFirst` (the CHOOSE of the least index
  exists, by well-founded induction on the naturals).
- `RepositoriesAreSerial` and `BackpressureHolds`, from one inductive invariant:
  types, the agreement of `active`, `inFlight` and `runs`, and the caps.
  Serialization alone is not inductive: a settlement removes its repository from
  `active`, and only the agreement says that no other run of it is left.
- `NoMissedWakeUp`, from an invariant that adds to it that the Map holds exactly
  the repositories whose list is not empty, once each, which is what makes one
  turn of the loop enough.

Every entry point ends in `pump`, so the lemmas are about `Pump` applied to the
values an entry point leaves (`PushArguments`, `SettleArguments`), and the step
proofs put them together per action.

The second half of the module is about what the queue remembers of the past:

- `OneWaits`, `NoneIsDropped`, `ReplacedNeverRuns` and `AtMostOneRun`, from one
  invariant of what the queue remembers of the past (`HistoryInv`). Unless the
  cache forgot it, a delivery that was started runs or is in the cache, and so does
  one that was replaced: that is what the duplicate check sees. `OneWaits` belongs to it, since coalescing replaces the
  first candidate only, and a second one would start later under a key that was
  replaced.
- `DrainIsHonest`, with `QuietSinceDrained`: once the promise resolved nothing is
  accepted, so nothing can be pushed, started or settled any more.
- `EveryoneAccountedFor`: `[]AccountInv`. Whatever the queue serves or remembers it has
  accepted, and for every delivery that it accepted, the delivery itself or an event
  of its change request waits, runs or has run. No run lists it: it is what the
  daemon's answers rest on.

Its last part is the refinement of DeliveryLifecycle, by the map of
`QueueImplementsLifecycle`:

- `QueueImplements` assumes that every delivery carries a change request
  (`AllKeyed`) and, of the behaviour, that the cache forgets nothing. Both are
  needed: a push without a key can wait beside its redelivery, and a forgotten key
  runs again.
- `LargeCacheForgetsNone` discharges the second for a cache with room for every
  delivery (`RoomForAll`): the keys in it are distinct, so it is never full when a
  new one arrives. `LargeCacheImplements` puts the two together.

`WebhookDaemon_proofs`, for all requests, secrets and bounds that satisfy
`DaemonConstants`. The queue's theorems are used through an instance (`QP`) whose
assumptions the daemon's tasks are shown to meet (`TasksSuitTheQueue`,
`ChangesAreLocal`: a coalesce key holds the repository's name).

- `NoSharedWorkspace`: the composition's point. The pool's `lease` looks at its
  table, awaits git and only then writes it, so alone it can hand out a workspace
  twice; the queue never has two unsettled runs of a repository (`OneRunEach`), and
  calls are under way exactly for unsettled runs (`CallsFollow`), so a task that
  starts meets no call of its repository.
- `ForgeIsToldTheTruth`: `[]AnswersAreHonest`. The handler's answer is computed in
  the step that enqueues, so the invariant relates each answer to what the queue
  holds of the request from then on; `EveryoneAccountedFor` is the queue's part.
- `CacheStaysBounded`, `LeaseTableIsExact`, `EveryDirectoryKnown` and
  `PoolDisposedWhenIdle`, from one inductive invariant (`PoolInv`, one lemma per
  step of the pool). It is stronger than the properties where the code relies on
  more: what each call of release destroys (`VictimsKnown`), that a clone accounts
  for no directory (`KeepsDirectory`: one that fails leaves what was there to
  whatever accounted for it), and that the pool is disposed of in a drained daemon
  (`Phases`).

`ReviewPipeline_proofs`, for all runs and all bounds that satisfy
`PipelineConstants`:

- `PipelineTypeCorrect`: `Spec => []TypeOK`. The bound on overlap is a lemma on
  cardinality (`BoundHolds`): only `Start` adds a run, and it needs room.
- `PublicationIsTold`, `CommitsEarned` and `VerdictIsHonest`, with any number of
  runs overlapping, one agent or one for each shard, and every status of a failure. The three are not inductive: that a commit is earned depends
  on what each of the awaits before it established. The strengthening `RunInv`
  says, for each await, what the run has done and knows when it is suspended
  there (`Ordered`). It speaks of one run at a time, so a step of one run keeps
  it for the others (`SameKeeps`).
- `ScopesAreSound` (an agent, also that of a shard, works under its own run's decision
  and write context; the single agent in its own run's tool context, and those of the
  shards in none) and `NothingOutlivesItsRun` (nothing stays bound), *where runs do not overlap*. The
  assumption `maxConcurrent = 1` is what finding 2 shows to be
  needed. With it, no other run is under way when one moves (`RunsAreAlone`), and
  `Scoped` is inductive: the slots bound are exactly those that belong to the
  await (`ScopeOf`), and every disposer would restore the empty slot.

`Paths_proofs` holds what the other proofs need of lists, and one theorem:

- `GlobsMeanWhatTheySay`: for every pattern and every path, `matchSegments` as the
  code computes it (`MatchesGlob`, a table filled from the end) is what a pattern
  means (`PatternMeans`: the path is cut in pieces that fit). The red lines, the rule
  packs and the suppression rest on it.

It is an induction over data, which the library's induction theorems cannot be used
for here. Three facts in first-order form take their place: a set of naturals has a
least element (`LeastNatural`), a set that holds 0 and is closed under successors up
to N holds 0..N (`Induction`), and a step function that leads from a set into itself
can be iterated (`Iterates`). The last shows that a recursive function *exists*, so
that what its CHOOSE picks satisfies its defining equation; `Induction` then proves
what holds of its last value. `PickedProperties` (`filter`) and `FlattenProperties`
are the first two uses, and every loop in `Findings_proofs` (validation, merging,
clustering) and in `Reasoning_proofs` is treated alike.

`Reasoning_proofs`, first about the fan-out, for any number of shards, any
concurrency and any answers that satisfy `FanOutConstants`:

- `FanOutTypeCorrect` and `ShardsAreTakenOnce`: no two workers hold one shard, and
  the shards that were reported are those taken and not in hand.
- `CoverageTold`: a fan-out that returns reviewed some shard and counts the others.
  `CoverageIsHonest` speaks of the end only; that `incomplete` is the number of
  failures *reported so far* is what a step preserves, and that the shards are
  taken in the order of the cursor is why "reported" is all of them in the end.
  `ReviewCoverageTold` is the same of the whole review, whose `Assemble` sets the
  number of shards before the first worker starts.

Then about the forges and their parsers:

- `ForgesShowTheChange`: for any change (`IsChange`: a list of files as git lists
  them) at any of the three forges, what `fetchDiff` returns is the change (`IsDiffOf`):
  each file inside the repository, in order, with its names and its hunks at their
  places and of their sizes. The exceptions are GitHub's and are stated: the files beyond
  its pages (`Shows`), and the hunks of a file whose patch it omits (`Omitted`), which is
  there as a binary file without any, never with some. A line of a hunk may look like a line that names a file
  (`--- a/x` where `-- a/x` was removed), and the local parser reads the name from the
  first line of each side that has one. Two inductions over lines carry the proof: the
  output is cut exactly where a file begins, since no line of a hunk looks like
  `diff --git`, and what follows a hunk's header up to the next one is added to its
  size. `IsFile` says what is assumed of git's output: a binary file has no hunks, an
  added file removes no lines and a deleted one adds none.

And about a review as a whole, for any changes, packs, overrides, memories, window
and caps, and any answers, that satisfy `InputsAreReal` (changes are lists of files
as git lists them, no two of which share a name), `AnswersAreReal` (proposals have the fields that are read;
titles that are equal in lower case are equal without punctuation),
`OverridesAreReal`, `MemoriesAreReal` and `ListIsBounded`:

- `EveryProposalAnswered`: `[]NothingSwallowed`. The state invariant (`Settled`) says
  only that the groups, the report and the suppressed findings are functions of the
  answers; the work is in the loops, each with the invariant that its author would
  have written: validation keeps or discards every proposal (`ValidateProperties`), a
  group is led by the most severe of its findings so far and the first of those
  (`Merged`), every finding so far is represented by one that is as severe
  (`Represented`), and calibration is monotone (`CalibrationIsMonotone`), so that a
  representative of calibrated findings is one of what they were before.
- `AcceptedIsSuppressed`: `[]SuppressedIffAccepted`, from `CoversIffAccepts` (for the
  patterns, `GlobsMeanWhatTheySay`) and the split of the list (`SuppressProperties`).
- `ReviewedDiffIsWhole`: `[]DiffIsWhole`, which is `ForgesShowTheChange` for the
  input's forge and change (`FetchedIsWhole`), with the same two exceptions.
- `ShardsHoldTheDiff`: `[]ShardsPartitionDiff`, for any budget. Three loops of
  `shardDiff` and `clusterFiles` carry it. The union-find (`RepresentativesAreLinks`):
  after n files, two have one representative only if they are in every set that is
  closed under the imports of these n, and they have one if an import of these n links
  them. The order (`OrderIsGrouped`): the files of a cluster come one after the other,
  each once, in whatever order the clusters are. The packing (`PackCuts`): the shards so
  far and the one being packed are the pieces of the hunks so far between increasing
  cut points, each within the budget or of one hunk, and a shard is marked exactly when
  one of its two cut points lies within a file. That a cut point lies within a file
  exactly when the two shards around it share one (`SharedAcrossCut`) needs that a
  file's hunks follow one another, and so the order. The attempt to prove it corrected
  the property: linked files used to be taken over all files of the diff, and two text
  files that only a binary file links, or one no rule applies to, may well be shown
  apart (`BetweenInput` in the run has such a diff).
- `ReportIsAnchored`: `[]ReportedAreSound`. That a blocker says how it fails survives
  narrowing, merging, calibration and clustering (`LoweredAreSound`); that a finding's
  file is inside the repository follows from what the parsers let through
  (`HeldDiffIsInside`); that it is anchored exactly when its line is in a hunk is
  `ResolveProperties`. `resolve` takes the first file that has the name, so
  if one file took the former name of another, a line of the second would be sought in
  the hunks of the first. The proof rests on no two files of a diff sharing a name,
  former names included (`NamesApart`), and derives it from the diff being whole
  (`DiffOfIsApart`): the files of a change share none (`InputsAreReal`), because git
  takes the former name of a rename from the paths that were deleted, and each of those
  for one file only.

`ChangeRequest_proofs`, of the reporter, for any stages, throttle and length of a run
that satisfy `ProgressConstants`:

- `ProgressTypeCorrect`: a comment that is edited exists.
- `ResultIsFinal`: a result that was told stays. The invariant says why: only the
  first write of the chain is under way (`OneUnderWay`), the result is behind all
  others (`ResultEnds`), and while no comment is known no stage waits
  (`UnknownHoldsNoStage`), which is why the terminal write of a run without a
  comment need not go through the chain.
- `ThrottleHolds`: waiting stages are spaced, because the slot that was taken is
  never older than a stage that waits (`SlotIsLatest`).

And of publication, for any scenarios, any runs that overlap and
any faults of the forge that satisfy `ScenariosAreReal` (what a scenario lists are
lists, its earlier comments are not the runs' own, paths are sequences, files are
sequences of lines, and a hunk starts at a line and counts lines) and
`ProtectedAreReal`:

- `FindingsCommentedOnce`: `[]CommentedOnce`. A comment is written twice only by a
  run that could not know of the first. The strengthening `Informed` says what a run
  that posts knows (the bot's comments on the pages it listed, and its own that were
  answered) and that it has posted nothing before it listed.
- `EveryFindingIsTold`: `[]NothingForgotten`. `Tallied` counts, at every post, the
  findings passed so far, so that the figures of the summary are cardinalities
  (`OneMoreFinding`); `IsTrue` carries them to the summary and past later steps.
- `NoPartialFix`: `[]AllOrNothing`. A workspace is touched only after every patch of
  the plan passed the red lines and applied (`Careful`); what differs in it or on a
  branch is the result of a patch. That no file behind a red line differs is said of
  the files that all patches name as the guard spells them (`IsSpelledOut`), without
  which it does not hold.
- `PatchesMeanWhatTheySay`: a unified diff that says what is in the file (`IsSaidOf`:
  each line it keeps or removes is the file's line at the place its header gives, in
  order, with its newline or without) applies, and leaves what it says (`Said`: the
  file's lines outside of the hunks, and the new side of each hunk); and one that
  applies says so unless applying took one of the guesses (`Guesses`). The reference
  knows no loop, no cursor and no last kind, and no padding. Two steps lead to it.
  `ApplyingComesTo` is about the loops: `Apply` succeeds exactly when `LinesUp`, and then
  leaves `Meant`. The invariant of the loop over a hunk's lines (`OutIs`) has the
  difficulty in it: behind an added or a context line the output is still as if no
  marker came, and only the next line settles it. It is stated line by line (`OneLine`),
  carried through a hunk (`HunkMeans`) and through the hunks (`HunksMean`).
  `SaidIsMeant` and `AppliedWithoutAGuess` are about the meanings: without a guess the
  lines that `Meant` joins are a text already, which joining leaves as it is
  (`RejoinKeeps`), and the places that the header and the lines before give are the
  same (`PlacesInOrder`). It assumes of a hunk what the header's pattern gives: a start
  and a count that are natural numbers; and of the file that its lines are lines.
- `FixesAreWhole`: `[]FixIsWhole`. The invariant (`FixInv`) follows a run from the plan
  to the branch: while it writes, the patches before the one it is at are on disk
  (`Writes`), of those that share their file with no other; from the gate on, all of
  these are (`Written`); while it reads and nobody has pushed since it read the base,
  what it holds is every path so far with its patches on the base (`Reads`); and a
  branch is a fix (`IsFix`), which stays so because its run has ended. A push only
  raises the number of pushes, so that equal numbers mean the base that was read.
  With `PatchesMeanOneAfterTheOther` the patches of a path, each applied to what the one
  before left, come to what they mean. The attempt to prove it corrected the model and
  the property: `Apply` used to join lines without regard to a newline that is missing
  in the middle, gave a context line a newline that the file's own lacks, and let a
  hunk begin no further than the end of the file; and the second part of the property
  used to speak of any patch, also of one of two for a file, which the workspace holds
  only the last of (finding 4).

`MemoryCommands_proofs`, for any payloads, commands and forges that satisfy
`InputsAreReal`, `CommandsAreReal` (a line is split at its blanks, and one word is one
pattern wherever it stands) and `ProposedAreReal` (findings name a file inside the
repository and have a title):

- `DenialsAreExplained`: `[]DenialNamesCause`. What a run holds at each await is a
  function of its event (`Judged`), whatever happened meanwhile to the memory, so the
  theorem comes down to a case analysis of `resolveTrust` against the reasons that are
  told, over all forges and intents (`TrustTable`, `DenialTable`, `RepairTable`).
- `AcceptsAreHonored`: `[]AcceptIsHonored`, *where no comment is about a file called `*`*
  (`NoFileIsNamedStar`: such a file's exact key can be that of a pattern, see Observations). The invariant
  (`HistoryInv`) relates the store to the whole history of its commands: the keys it
  holds are those of the accepts that stand. Recording drops the exception of the key
  before it appends, forgetting drops it, and a store that is saved comes back as it
  was (`StoreIsReread`), because nothing that a command can record is refused by
  `rehydrateException`. Keys and subjects are then the same thing
  (`KeysTellSubjects`), so that the command that a confirmation prints takes back
  what it says and nothing else (`PrintedCommandUndoes`).

Only model-checked: liveness under fairness (`DrainTerminates`, `OnlyBusyReposStarve`,
`UnloadTerminates`, `OnlyLateAgentsAndCommandsHang`, `ReasonEnds`, `FinishIsAttempted`),
which is out of the prover's reach. Every invariant of a passing run is proved.

## Not modelled

Cryptography (a digest is an abstract pair), parsing of bytes and JSON, path
quoting in git's output, formatting of comments and logs, metrics, the Web UI
client, build scripts. In the runtime: the replay snapshot, the classification of
confined runs, the diagnose context (failed checks and their logs) and the
prompts. In the trust policy: the table of tools per tier and the reading of tool
arguments. In the forges: `fetchFile`, `openPullRequest` and the listing that
finds the sticky comment. In the registries: disposers and gateways; the forge
registry's disposer deletes by id, and no caller in the repository replaces a
gateway. The results store is synchronous and has one writer; its drivers only
read it. The Action and CLI drivers, configuration and bootstrap are one process
around one run, without state of their own; the baseline rules are data.
A write that was rejected by a timeout of the client and lands later at the forge
is outside of `Progress`: a request has landed, or not, when it settles.

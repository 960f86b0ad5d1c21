------------------------------ MODULE Publication ------------------------------
(***************************************************************************)
(* What the runs of one change request leave at its forge: `publish` and   *)
(* `mutate` of packages/core/review-runtime over the three providers of    *)
(* packages/forge.  A run posts its findings inline, then its summary; a   *)
(* run that fixes goes on to write the patches to its workspace, to        *)
(* validate them and to commit them.                                       *)
(*                                                                         *)
(* Runs overlap: an event that arrives while a review of the same change   *)
(* request is under way starts another, and so does a redelivery.  Any     *)
(* request to the forge may be refused, or do its work and lose its        *)
(* answer; and others push to the default branch meanwhile.                *)
(***************************************************************************)
EXTENDS RedLines

CONSTANTS
  Runs,
  Scenarios, \* what the runs are about, by the name of a scenario: see given
  readCap    \* the comments a run reads at most: MAX_PAGES pages of PER_PAGE

VARIABLES
  scenario,
  comments, \* the inline comments of the change request, in order
  replies,  \* the comments of its conversation
  base,     \* the default branch: its tree, and how often it was pushed to
  branches, \* the branches runs have made, by name
  disk,     \* the workspace of each run
  step,     \* what each run does next
  at,       \* the finding, the write or the path that it is at
  known,    \* the keys it takes for published
  stats,    \* what it counted
  plan,     \* the contents it will write, or will commit
  seen,     \* the default branch, as it read it for its commit
  listed,   \* how many comments there were when it read them
  faults    \* how many more requests fail

forgeVars == <<comments, replies, base, branches>>
mutateVars == <<disk, plan, seen>>
pubVars == <<scenario, forgeVars, step, at, known, stats, mutateVars, listed, faults>>

Bot == "bot"
NoTree == <<>>
NoStats == [published |-> 0, degraded |-> 0, failed |-> 0]
Ended == {"done", "rejected", "blocked", "failed"}

(***************************************************************************)
(* A scenario says which forge it is, which runs there are and what each   *)
(* found, the patches that were accepted, in order, how the files of the   *)
(* change request and of the default branch begin, what kind of entry each *)
(* of them is, which paths the change request touches and which are        *)
(* binary, whether commands validate a fix, the names of the runs'         *)
(* branches, the comments that are there, what others push and how many    *)
(* requests fail.                                                          *)
(***************************************************************************)
given == Scenarios[scenario]

\* The lists in a patch are lists, and a hunk begins at a line and counts lines.
IsPatch(patch) ==
  /\ IsList(patch.path) /\ IsList(patch.hunks)
  /\ \A hunk \in Range(patch.hunks) :
       IsList(hunk.lines) /\ hunk.old \in Nat /\ CountOf(hunk.count) \in Nat

\* A scenario's runs are among Runs, its lists are lists, files are lists of lines, and the
\* comments that are there are not those of its runs.
ASSUME ScenariosAreReal ==
  /\ readCap \in Nat
  /\ \A s \in DOMAIN Scenarios :
       LET g == Scenarios[s]
       IN  /\ g.runs \subseteq Runs
           /\ IsList(g.patches) /\ \A patch \in Range(g.patches) : IsPatch(patch)
           /\ IsList(g.pushed)
           /\ \A tree \in {g.files, g.base} \cup Range(g.pushed) :
                \A p \in DOMAIN tree : IsList(tree[p])
           /\ IsList(g.comments)
           /\ \A c \in Range(g.comments) : c.run \notin Runs
           /\ \A r \in Runs : IsList(g.findings[r])

Init ==
  /\ scenario \in DOMAIN Scenarios
  /\ comments = given.comments /\ replies = <<>>
  /\ base = [tree |-> given.base, pushes |-> 0]
  /\ branches = <<>>
  /\ disk = [r \in Runs |-> given.files]
  /\ step = [r \in Runs |-> "list"] /\ at = [r \in Runs |-> 1]
  /\ known = [r \in Runs |-> {}] /\ stats = [r \in Runs |-> NoStats]
  /\ plan = [r \in Runs |-> <<>>] /\ seen = [r \in Runs |-> NoTree]
  /\ listed = [r \in Runs |-> 0]
  /\ faults = given.faults

Goes(r, to) == step' = [step EXCEPT ![r] = to] /\ at' = [at EXCEPT ![r] = 1]
Advances(r) == step' = step /\ at' = [at EXCEPT ![r] = @ + 1]

\* A request fails: it is refused, or its answer is lost.
Fault == faults > 0 /\ faults' = faults - 1
Works == UNCHANGED faults

-----------------------------------------------------------------------------
(* Inline comments. *)

(* Faulty variants of the definitions below. *)
KeysOfAnyone(list) == {list[i].key : i \in {j \in DOMAIN list : j <= readCap}}
LearnsNothing(r, key) == UNCHANGED known

\* The keys of the bot's own comments, as far as they are read.
KeysOf(list) == {list[i].key : i \in {j \in DOMAIN list : j <= readCap /\ list[j].by = Bot}}

\* createInlineComments begins with the comments that are there; the terminal keeps none.
List(r) ==
  /\ step[r] = "list"
  /\ \/ /\ Works
        /\ known' = IF given.forge = "local" THEN known
                    ELSE [known EXCEPT ![r] = KeysOf(comments)]
        /\ listed' = [listed EXCEPT ![r] = Len(comments)]
        /\ Goes(r, "post")
     \/ /\ Fault /\ given.forge # "local" /\ Goes(r, "failed")
        /\ UNCHANGED <<known, listed>>
  /\ UNCHANGED <<scenario, forgeVars, stats, mutateVars>>

Findings(r) == given.findings[r]
Counts(r, field) == stats' = [stats EXCEPT ![r][field] = @ + 1]
CommentOf(r, key, answered) == [by |-> Bot, key |-> key, run |-> r, answered |-> answered]
Learns(r, key) == known' = [known EXCEPT ![r] = @ \cup {key}]
Forgets(r, key) == UNCHANGED known

(***************************************************************************)
(* One finding: one that is not anchored goes to the summary, one whose    *)
(* key is known is passed over, and another is posted.  A failure is       *)
(* counted and the others follow.                                          *)
(***************************************************************************)
Skip(r) ==
  /\ step[r] = "post" /\ at[r] <= Len(Findings(r))
  /\ LET f == Findings(r)[at[r]]
     IN  \/ /\ ~f.anchored /\ Counts(r, "degraded")
         \/ /\ f.anchored /\ f.key \in known[r] /\ UNCHANGED stats
  /\ Advances(r) /\ Works
  /\ UNCHANGED <<scenario, forgeVars, known, listed, mutateVars>>

Post(r) ==
  /\ step[r] = "post" /\ at[r] <= Len(Findings(r))
  /\ LET f == Findings(r)[at[r]]
     IN  /\ f.anchored /\ f.key \notin known[r]
         /\ \/ /\ Works /\ Counts(r, "published")
               /\ IF given.forge = "local" THEN UNCHANGED known ELSE Learns(r, f.key)
               /\ comments' = Append(comments, CommentOf(r, f.key, TRUE))
            \/ /\ Fault /\ given.forge # "local" /\ Counts(r, "failed")
               /\ Forgets(r, f.key)
               /\ comments' \in {comments, Append(comments, CommentOf(r, f.key, FALSE))}
  /\ Advances(r)
  /\ UNCHANGED <<scenario, replies, base, branches, listed, mutateVars>>

\* GitLab asks for the change request's revisions before the first post; without, it throws.
RefsMissing(r) ==
  /\ step[r] = "post" /\ at[r] <= Len(Findings(r))
  /\ given.forge = "gitlab" /\ stats[r].published + stats[r].failed = 0
  /\ Findings(r)[at[r]].anchored /\ Findings(r)[at[r]].key \notin known[r]
  /\ Fault /\ Goes(r, "failed")
  /\ UNCHANGED <<scenario, forgeVars, known, stats, listed, mutateVars>>

\* buildSummary: what it lists, and the counts.
SummaryOf(r) ==
  [run |-> r, kind |-> "summary", stats |-> stats[r],
   inline   |-> {f.key : f \in {g \in Range(Findings(r)) : g.anchored}},
   degraded |-> {f.key : f \in {g \in Range(Findings(r)) : ~g.anchored}}]

\* The summary is a new comment of every run.
Summarize(r) ==
  /\ step[r] = "post" /\ at[r] > Len(Findings(r))
  /\ \/ /\ Works /\ replies' = Append(replies, SummaryOf(r))
        /\ Goes(r, IF given.fix THEN "plan" ELSE "done")
     \/ /\ Fault /\ given.forge # "local" /\ Goes(r, "failed")
        /\ replies' \in {replies, Append(replies, SummaryOf(r))}
  /\ UNCHANGED <<scenario, comments, base, branches, known, stats, listed, mutateVars>>

-----------------------------------------------------------------------------
(* Writing and validating. *)

Patched == given.patches
PathsPatched == {Patched[i].path : i \in DOMAIN Patched}
ContentOf(tree, path) == IF path \in DOMAIN tree THEN tree[path] ELSE <<>>
With(tree, path, content) ==
  [p \in DOMAIN tree \cup {path} |-> IF p = path THEN content ELSE tree[p]]

\* fs.resolve: the file that a patch is about, whose name has no empty segments and no dots.
FileOf(patch) == SelectSeq(patch.path, LAMBDA segment : segment \notin {"", "."})
AppliedTo(tree, patch) == Apply(ContentOf(tree, FileOf(patch)), patch.hunks)

\* What phase 1 looks at for each patch: the entry, whether it applies, the red lines.  The
\* workspace itself is a directory.
Refused(r, patch) ==
  LET before  == ContentOf(disk[r], FileOf(patch))
      applied == AppliedTo(disk[r], patch)
  IN  \/ FileOf(patch) = <<>>
      \/ FileOf(patch) \in DOMAIN given.entries /\ given.entries[FileOf(patch)] # "file"
      \/ ~applied.ok
      \/ RejectsWrite(patch.path, patch.hunks, before, applied.content,
                      given.changed, given.binary)

\* Faulty: what was accepted before a refused patch is written all the same.
PlanUpTo(r, patches) ==
  [i \in 1..Cardinality({j \in DOMAIN patches : \A k \in 1..j : ~Refused(r, patches[k])}) |->
    [path |-> FileOf(patches[i]), content |-> AppliedTo(disk[r], patches[i]).content]]

\* Each patch on the file as it is before any is written.
PlanOf(r, patches) ==
  IF \E i \in DOMAIN patches : Refused(r, patches[i]) THEN <<>>
  ELSE [i \in DOMAIN patches |->
         [path |-> FileOf(patches[i]), content |-> AppliedTo(disk[r], patches[i]).content]]

Plan(r) ==
  /\ step[r] = "plan"
  /\ plan' = [plan EXCEPT ![r] = PlanOf(r, Patched)]
  /\ Goes(r, IF Patched = <<>> THEN "done"
             ELSE IF plan'[r] = <<>> THEN "rejected" ELSE "write")
  /\ UNCHANGED <<scenario, forgeVars, known, stats, listed, disk, seen, faults>>

\* Phase 2: a write that fails leaves the earlier ones.
Write(r) ==
  /\ step[r] = "write"
  /\ IF at[r] > Len(plan[r])
     THEN Works /\ Goes(r, "gate") /\ UNCHANGED disk
     ELSE \/ /\ Works /\ Advances(r)
             /\ disk' = [disk EXCEPT ![r] = With(@, plan[r][at[r]].path, plan[r][at[r]].content)]
          \/ Fault /\ Goes(r, "failed") /\ UNCHANGED disk
  /\ UNCHANGED <<scenario, forgeVars, known, stats, listed, plan, seen>>

Blocked(r) == [run |-> r, kind |-> "validation", stats |-> stats[r],
               inline |-> {}, degraded |-> {}]

\* The commands pass, fail, which is told in a comment, or cannot be run.
Gate(r) ==
  /\ step[r] = "gate"
  /\ \/ Works /\ Goes(r, "base") /\ UNCHANGED replies
     \/ /\ given.commands
        /\ \/ Works /\ Goes(r, "blocked") /\ replies' = Append(replies, Blocked(r))
           \/ Fault /\ Goes(r, "failed") /\ replies' \in {replies, Append(replies, Blocked(r))}
  /\ UNCHANGED <<scenario, comments, base, branches, known, stats, listed, mutateVars>>

-----------------------------------------------------------------------------
(* Committing. *)

\* The paths in the order they are first patched, each with its patches.
PathOrder ==
  Picked([i \in DOMAIN Patched |-> Patched[i].path],
         {i \in DOMAIN Patched : \A j \in 1..(i - 1) : Patched[j].path # Patched[i].path})

\* A faulty group: the last patch of a path stands for all.
LastOfGroup(path) ==
  <<Patched[Max({i \in DOMAIN Patched : Patched[i].path = path})].hunks>>

Group(path) ==
  Picked([i \in DOMAIN Patched |-> Patched[i].hunks],
         {i \in DOMAIN Patched : Patched[i].path = path})

\* The head of the default branch and its tree: the parent.  The contents follow by name.
ReadBase(r) ==
  /\ step[r] = "base" /\ given.forge # "local"
  /\ seen' = [seen EXCEPT ![r] = base]
  /\ plan' = [plan EXCEPT ![r] = <<>>]
  /\ \/ Works /\ Goes(r, "contents")
     \/ Fault /\ Goes(r, "failed")
  /\ UNCHANGED <<scenario, forgeVars, known, stats, listed, disk>>

ReadContent(r) ==
  /\ step[r] = "contents" /\ at[r] <= Len(PathOrder)
  /\ LET path    == PathOrder[at[r]]
         content == ContentOf(base.tree, path)
         applied == ApplyAll(given.forge, content, Group(path))
     IN  \/ /\ Works /\ applied.ok /\ Advances(r)
            /\ plan' = [plan EXCEPT ![r] =
                 Append(@, [path |-> path, content |-> applied.content,
                            exists |-> path \in DOMAIN base.tree])]
         \/ Works /\ ~applied.ok /\ Goes(r, "failed") /\ UNCHANGED plan
         \/ Fault /\ Goes(r, "failed") /\ UNCHANGED plan
  /\ UNCHANGED <<scenario, forgeVars, known, stats, listed, disk, seen>>

\* The last entry of a path counts.
TreeOf(tree, entries) ==
  LET places(p) == {i \in DOMAIN entries : entries[i].path = p}
  IN  [p \in DOMAIN tree \cup {entries[i].path : i \in DOMAIN entries} |->
        IF places(p) # {} THEN entries[Max(places(p))].content ELSE tree[p]]

Branch(r, from, entries) ==
  [by |-> r, parent |-> from, tree |-> TreeOf(from.tree, entries), pushes |-> base.pushes]
Name(r) == given.branch[r]
Creates(r, branch) == branches' = With(branches, Name(r), branch)

(***************************************************************************)
(* GitHub gets blobs, a tree over the parent's, a commit and, last, the    *)
(* branch, which must be new.  Nothing is seen of them before the branch.  *)
(***************************************************************************)
CommitToGitHub(r) ==
  /\ step[r] = "contents" /\ at[r] > Len(PathOrder) /\ given.forge = "github"
  /\ \/ /\ Works /\ Name(r) \notin DOMAIN branches
        /\ Creates(r, Branch(r, seen[r], plan[r])) /\ Goes(r, "done")
     \/ Works /\ Name(r) \in DOMAIN branches /\ Goes(r, "failed") /\ UNCHANGED branches
     \/ /\ Fault /\ Goes(r, "failed")
        /\ \/ UNCHANGED branches
           \/ Name(r) \notin DOMAIN branches /\ Creates(r, Branch(r, seen[r], plan[r]))
  /\ UNCHANGED <<scenario, comments, replies, base, known, stats, listed, mutateVars>>

(***************************************************************************)
(* GitLab makes the branch from the default branch as it now is, and       *)
(* refuses to create a file that is there or to update one that is not.    *)
(***************************************************************************)
Accepts(r) ==
  /\ Name(r) \notin DOMAIN branches
  /\ \A i \in DOMAIN plan[r] : plan[r][i].exists <=> plan[r][i].path \in DOMAIN base.tree

CommitToGitLab(r) ==
  /\ step[r] = "contents" /\ at[r] > Len(PathOrder) /\ given.forge = "gitlab"
  /\ \/ Works /\ Accepts(r) /\ Creates(r, Branch(r, base, plan[r])) /\ Goes(r, "done")
     \/ Works /\ ~Accepts(r) /\ Goes(r, "failed") /\ UNCHANGED branches
     \/ /\ Fault /\ Goes(r, "failed")
        /\ \/ UNCHANGED branches
           \/ Accepts(r) /\ Creates(r, Branch(r, base, plan[r]))
  /\ UNCHANGED <<scenario, comments, replies, base, known, stats, listed, mutateVars>>

(***************************************************************************)
(* The local provider commits what is on disk, on a branch that it makes   *)
(* or checks out; without a difference there is nothing to commit, which   *)
(* is no failure.                                                          *)
(***************************************************************************)
CommitLocally(r) ==
  /\ step[r] = "base" /\ given.forge = "local"
  /\ \/ /\ Works /\ Goes(r, "done")
        /\ IF \E i \in DOMAIN Patched : LET file == FileOf(Patched[i])
                                        IN  ContentOf(disk[r], file) # ContentOf(given.files, file)
           THEN Creates(r, [by |-> r, parent |-> [tree |-> given.files, pushes |-> 0],
                            tree |-> disk[r], pushes |-> 0])
           ELSE UNCHANGED branches
     \/ Fault /\ Goes(r, "failed") /\ UNCHANGED branches
  /\ UNCHANGED <<scenario, comments, replies, base, known, stats, listed, mutateVars>>

\* Someone pushes to the default branch.
Push ==
  /\ base.pushes < Len(given.pushed)
  /\ base' = [tree |-> given.pushed[base.pushes + 1], pushes |-> base.pushes + 1]
  /\ UNCHANGED <<scenario, comments, replies, branches, step, at, known, stats, mutateVars,
                 listed, faults>>

RunStep(r) ==
  \/ List(r) \/ Skip(r) \/ Post(r) \/ RefsMissing(r) \/ Summarize(r)
  \/ Plan(r) \/ Write(r) \/ Gate(r)
  \/ ReadBase(r) \/ ReadContent(r)
  \/ CommitToGitHub(r) \/ CommitToGitLab(r) \/ CommitLocally(r)

Next == Push \/ \E r \in given.runs : RunStep(r)

Spec == Init /\ [][Next]_pubVars

-----------------------------------------------------------------------------
(***************************************************************************)
(* A finding that several runs report is commented once.  Two comments of  *)
(* the bot carry one key, the later one's by a run, only if that run had   *)
(* read the comments before the earlier was posted, and if that was the    *)
(* same run, the answer to its first post was lost; or if the earlier is   *)
(* beyond what a run reads (createInlineComments, publishIdempotencyKey).  *)
(***************************************************************************)
CommentedOnce ==
  given.forge # "local" =>
    \A i, j \in DOMAIN comments :
      (/\ i < j /\ comments[i].by = Bot /\ comments[j].by = Bot
       /\ comments[i].key = comments[j].key /\ comments[j].run \in Runs)
      => \/ i > readCap
         \/ /\ i > listed[comments[j].run]
            /\ comments[i].run = comments[j].run => ~comments[i].answered

(***************************************************************************)
(* A run that has published lists every finding in its summary, and every  *)
(* anchored one is in a comment of the bot, unless it is among those       *)
(* counted as failed: nobody else's comment stands for it.  The counts add *)
(* up to the findings but for those that were commented before.            *)
(***************************************************************************)
NothingForgotten ==
  \A s \in Range(replies) :
    s.kind = "summary" =>
      LET own      == Findings(s.run)
          anchored == {i \in DOMAIN own : own[i].anchored}
          posted   == {c.key : c \in {d \in Range(comments) : d.by = Bot}}
          bare     == {i \in anchored : own[i].key \notin posted}
      IN  /\ s.inline \cup s.degraded = {own[i].key : i \in DOMAIN own}
          /\ s.stats.degraded = Len(own) - Cardinality(anchored)
          /\ Cardinality(bare) <= s.stats.failed
          /\ s.stats.published = Cardinality({i \in DOMAIN comments :
                                   comments[i].run = s.run /\ comments[i].answered})

\* The default branch that a run's branch starts from did not move while the run committed.
Undisturbed(b) == branches[b].pushes = seen[branches[b].by].pushes

\* What the patches of a path mean where they are applied one after the other.
MeantBy(content, path) ==
  MeantAll(content, Picked([i \in DOMAIN Patched |-> Patched[i].hunks],
                           {i \in DOMAIN Patched : Patched[i].path = path}))

\* Where a patch is committed: the local provider commits the files of the workspace.
CommittedAt(patch) == IF given.forge = "local" THEN FileOf(patch) ELSE patch.path

(***************************************************************************)
(* A branch of a fix is its parent with every accepted patch, whole and in *)
(* order, and nothing else; and where the change request and the default   *)
(* branch agree on a file that one patch is about, it is what was          *)
(* validated (commitPatches, mutate).                                      *)
(***************************************************************************)
FixIsWhole ==
  \A b \in DOMAIN branches :
    LET branch == branches[b]
        parent == branch.parent.tree
    IN  /\ given.forge # "local" /\ Undisturbed(b) =>
             /\ DOMAIN branch.tree = DOMAIN parent \cup PathsPatched
             /\ \A p \in DOMAIN branch.tree :
                  branch.tree[p] = IF p \in PathsPatched
                                   THEN MeantBy(ContentOf(parent, p), p) ELSE parent[p]
        /\ \A i \in DOMAIN Patched :
             LET file == FileOf(Patched[i])
                 path == CommittedAt(Patched[i])
             IN  (/\ given.forge = "local" \/ Undisturbed(b)
                  /\ \A j \in DOMAIN Patched : FileOf(Patched[j]) = file => j = i
                  /\ ContentOf(parent, path) = ContentOf(given.files, file))
                 => branch.tree[path] = disk[branch.by][file]

Guarded(path) ==
  \/ \E pattern \in protectedPaths : PatternMeans(pattern, path)
  \/ path \in given.binary
  \/ Last(path) \in Lockfiles /\ ManifestFor(path) \notin given.changed

RedLineHolds(r, p) ==
  LET before == ContentOf(given.files, p)
  IN  disk[r][p] # before =>
        ~Guarded(p) /\ (IsManifest(p) => ScriptsOf(disk[r][p]) = ScriptsOf(before))

\* Every patch of a file names it as the guard does.
IsSpelledOut(p) == \A i \in DOMAIN Patched : FileOf(Patched[i]) = p => NormalPath(Patched[i].path) = p

(***************************************************************************)
(* A workspace in which something was written holds no file behind a red   *)
(* line that differs, and every manifest has the scripts it had, but for   *)
(* files that a patch names with empty segments or dots; and every patch   *)
(* of the plan applied.  A run that validation stopped has made no branch  *)
(* (mutate, rejectWrite).                                                  *)
(***************************************************************************)
AllOrNothing ==
  \A r \in Runs :
    /\ \A p \in DOMAIN disk[r] : IsSpelledOut(p) => RedLineHolds(r, p)
    /\ disk[r] # given.files => \A i \in DOMAIN Patched :
         AppliedTo(given.files, Patched[i]).ok
    /\ step[r] = "blocked" => \A b \in DOMAIN branches : branches[b].by # r

\* "multiple hunks against the same file apply cumulatively (the runtime's mutate stage
\* applies them sequentially)" (commitPatches, packages/forge/forge-github).
WorkspaceHasAllPatches ==
  \A r \in Runs :
    step[r] = "gate" => \A i \in DOMAIN Patched :
      LET file == FileOf(Patched[i])
      IN  disk[r][file] = ApplyAll(given.forge, ContentOf(given.files, file),
                                   Group(Patched[i].path)).content
=============================================================================

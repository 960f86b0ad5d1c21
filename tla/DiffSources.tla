----------------------------- MODULE DiffSources -----------------------------
(***************************************************************************)
(* How a change becomes the diff that is reviewed: `fetchDiff` of the      *)
(* GitHub, GitLab and local forges, with their parsers.                    *)
(*                                                                         *)
(* A line is a record: its kind is what it starts with, `bytes` its size,  *)
(* and a line that is read for more than its size has that in fields of    *)
(* its own.  The lines of a hunk's body start with a blank, a plus or a    *)
(* minus, and may thereby look like a line that names a file.              *)
(***************************************************************************)
EXTENDS Paths

CONSTANT maxListed \* MAX_PAGES * PER_PAGE, the files that GitHub's list is read for

ASSUME ListIsBounded == maxListed \in Nat

NoCounts == -1   \* a header without a count
Nowhere == <<"/dev/null">>

LinesOf(count) == IF count = NoCounts THEN 1 ELSE count

(***************************************************************************)
(* parseHunks: what precedes the first header is skipped.                  *)
(***************************************************************************)
HunkOf(header) ==
  [oldStart |-> header.oldStart, oldLines |-> LinesOf(header.oldCount),
   newStart |-> header.newStart, newLines |-> LinesOf(header.newCount), bytes |-> header.bytes]
Longer(hunk, line) == [hunk EXCEPT !.bytes = @ + line.bytes]

ParseOne(hunks, line) ==
  IF line.kind = "@@" THEN Append(hunks, HunkOf(line))
  ELSE IF hunks = <<>> THEN hunks
  ELSE [hunks EXCEPT ![Len(hunks)] = Longer(@, line)]

ParseHunks(lines) ==
  LET upTo[n \in 0..Len(lines)] ==
        IF n = 0 THEN <<>> ELSE ParseOne(upTo[n - 1], lines[n])
  IN  upTo[Len(lines)]

DiffFile(path, previousPath, binary, hunks) ==
  [path |-> path, previousPath |-> previousPath, binary |-> binary, hunks |-> hunks]
Safe(path) == IF IsSafeRelativePath(path) THEN path ELSE NoPath

\* The pages of a list that are asked for.
Paged(list) == SubSeq(list, 1, IF Len(list) <= maxListed THEN Len(list) ELSE maxListed)

\* GitHub's entries; one without a patch is binary, or too large.
FetchDiffGitHub(entries) ==
  LET listed == Paged(entries)
      named  == Picked(listed, {i \in DOMAIN listed : IsSafeRelativePath(listed[i].filename)})
  IN  [i \in DOMAIN named |->
        DiffFile(named[i].filename, Safe(named[i].previous_filename),
                 named[i].patch = <<>>, ParseHunks(named[i].patch))]

\* GitLab's changes, which always name both paths.
FetchDiffGitLab(changes) ==
  LET named == Picked(changes, {i \in DOMAIN changes : IsSafeRelativePath(changes[i].new_path)})
  IN  [i \in DOMAIN named |->
        DiffFile(named[i].new_path,
                 IF named[i].old_path = named[i].new_path THEN NoPath ELSE Safe(named[i].old_path),
                 named[i].diff = <<>>, ParseHunks(named[i].diff))]

(***************************************************************************)
(* parseGitDiff: the output is cut before every `diff --git` line; of the  *)
(* lines that name a file, the first of each side counts.                  *)
(***************************************************************************)
OldKinds == {"rename from", "--- "}
NewKinds == {"rename to", "+++ "}
NamingKinds == OldKinds \cup NewKinds

Naming(lines, kinds) ==
  {i \in DOMAIN lines : lines[i].kind \in kinds /\ lines[i].names # Nowhere}

\* A faulty variant: the last one counts.
LastNamed(lines, kinds) ==
  IF Naming(lines, kinds) = {} THEN NoPath ELSE lines[Max(Naming(lines, kinds))].names

Named(lines, kinds) ==
  IF Naming(lines, kinds) = {} THEN NoPath ELSE FirstAt(lines, Naming(lines, kinds)).names

SplitOne(sections, line) ==
  IF line.kind = "diff --git" THEN Append(sections, <<line>>)
  ELSE IF sections = <<>> THEN sections
  ELSE [sections EXCEPT ![Len(sections)] = Append(@, line)]

SplitFileSections(lines) ==
  LET upTo[n \in 0..Len(lines)] ==
        IF n = 0 THEN <<>> ELSE SplitOne(upTo[n - 1], lines[n])
  IN  upTo[Len(lines)]

ParseFileSection(section) ==
  LET old    == Named(section, OldKinds)
      new    == Named(section, NewKinds)
      header == old = NoPath /\ new = NoPath
      oldPath == IF header THEN Head(section).old ELSE old
      path   == IF header THEN Head(section).new ELSE IF new # NoPath THEN new ELSE old
  IN  DiffFile(Safe(path), IF oldPath = path THEN NoPath ELSE Safe(oldPath),
               \E l \in Range(section) : l.kind = "Binary files", ParseHunks(section))

ParseGitDiff(lines) ==
  LET sections == SplitFileSections(lines)
      files    == [i \in DOMAIN sections |-> ParseFileSection(sections[i])]
  IN  Picked(files, {i \in DOMAIN files : files[i].path # NoPath})

-----------------------------------------------------------------------------
(***************************************************************************)
(* What the forges show of a change, a sequence of files.  A file has the  *)
(* path it was renamed from, if any, is added, deleted or neither, is      *)
(* binary or has hunks, and may be over the size cap of GitHub, which then *)
(* omits its patch.                                                        *)
(***************************************************************************)
HunkLines(h) ==
  << [kind |-> "@@", oldStart |-> h.oldStart, oldCount |-> IF h.oldLines = 1 THEN NoCounts ELSE h.oldLines,
      newStart |-> h.newStart, newCount |-> IF h.newLines = 1 THEN NoCounts ELSE h.newLines,
      bytes |-> 1] >> \o h.body
PatchOf(file) == FlattenSeq([h \in DOMAIN file.hunks |-> HunkLines(file.hunks[h])])

OldName(file) == IF file.renamedFrom = NoPath THEN file.path ELSE file.renamedFrom

\* The kinds of the lines outside of hunks.
HeaderKinds == {"diff --git", "rename from", "rename to", "Binary files", "@@"}

\* What is known of a file of a change.  A line of a hunk may name a file where it removes a line
\* or adds one, but it does not look like a header: it starts with what tells a hunk's lines apart.
IsFile(file) ==
  /\ IsList(file.path) /\ IsList(file.renamedFrom) /\ IsList(file.hunks)
  /\ file.path \notin {NoPath, file.renamedFrom} /\ Nowhere \notin {file.path, file.renamedFrom}
  /\ file.binary \in BOOLEAN /\ (file.binary => file.hunks = <<>>)
  /\ file.large \in BOOLEAN
  /\ \A h \in Range(file.hunks) :
       /\ h.oldLines \in Nat /\ h.newLines \in Nat /\ IsList(h.body)
       /\ \A line \in Range(h.body) :
            /\ line.kind \notin HeaderKinds /\ line.bytes \in Nat
            /\ file.status = "added" => line.kind # "--- "
            /\ file.status = "deleted" => line.kind # "+++ "

GitHubShows(file) ==
  [filename |-> file.path, previous_filename |-> file.renamedFrom,
   patch |-> IF file.large THEN <<>> ELSE PatchOf(file)]
GitLabShows(file) ==
  [new_path |-> file.path, old_path |-> OldName(file), diff |-> PatchOf(file)]

Names(kind, path) == [kind |-> kind, names |-> path, bytes |-> 1]
GitPrints(file) ==
  << [kind |-> "diff --git", old |-> OldName(file), new |-> file.path, bytes |-> 1] >>
  \o (IF file.renamedFrom = NoPath THEN <<>>
      ELSE <<Names("rename from", file.renamedFrom), Names("rename to", file.path)>>)
  \o (IF file.binary THEN << [kind |-> "Binary files", bytes |-> 1] >>
      ELSE IF file.hunks = <<>> THEN <<>>
      ELSE <<Names("--- ", IF file.status = "added" THEN Nowhere ELSE OldName(file)),
             Names("+++ ", IF file.status = "deleted" THEN Nowhere ELSE file.path)>>
           \o PatchOf(file))

FetchDiff(forge, change) ==
  CASE forge = "github" -> FetchDiffGitHub([i \in DOMAIN change |-> GitHubShows(change[i])])
    [] forge = "gitlab" -> FetchDiffGitLab([i \in DOMAIN change |-> GitLabShows(change[i])])
    [] forge = "local" -> ParseGitDiff(FlattenSeq([i \in DOMAIN change |-> GitPrints(change[i])]))

-----------------------------------------------------------------------------
(***************************************************************************)
(* A diff holds every file of the change inside the repository, in order,  *)
(* under its name and its former name, with its hunks where they are; a    *)
(* file whose patch the forge omits has none of them, and is marked.       *)
(***************************************************************************)
IsHunkOf(hunk, h) ==
  /\ hunk.oldStart = h.oldStart /\ hunk.oldLines = h.oldLines
  /\ hunk.newStart = h.newStart /\ hunk.newLines = h.newLines
  /\ hunk.bytes = 1 + BytesOf(h.body)

Omitted(file, forge) == forge = "github" /\ file.large

IsDiffFileOf(d, file, forge) ==
  /\ d.path = file.path /\ d.previousPath = Safe(file.renamedFrom)
  /\ file.binary => d.binary
  /\ Omitted(file, forge) => d.binary /\ d.hunks = <<>>
  /\ ~Omitted(file, forge) =>
       /\ d.binary => file.hunks = <<>>
       /\ DOMAIN d.hunks = DOMAIN file.hunks
       /\ \A h \in DOMAIN file.hunks : IsHunkOf(d.hunks[h], file.hunks[h])

IsDiffOf(diff, change, forge) ==
  LET inside == Picked(change, {i \in DOMAIN change : IsSafeRelativePath(change[i].path)})
  IN  IsList(diff) /\ DOMAIN diff = DOMAIN inside /\ \A i \in DOMAIN inside : IsDiffFileOf(diff[i], inside[i], forge)
=============================================================================

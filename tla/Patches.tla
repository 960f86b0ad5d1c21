-------------------------------- MODULE Patches --------------------------------
(***************************************************************************)
(* Unified diffs of one file: how a provider splits one into hunks, how    *)
(* `applyUnifiedDiff` of packages/core/review-runtime (and its copies in   *)
(* the GitHub and GitLab providers) applies one, and what one means.       *)
(*                                                                         *)
(* A file is a sequence of lines with their texts and whether a newline    *)
(* follows; only the last may be without.  A hunk is its header's old      *)
(* start and count and its lines, each of a kind: "add", "remove",         *)
(* "context", "eof" for the marker of a missing newline, "blank" for an    *)
(* empty line, or another, which no hunk may have.                         *)
(***************************************************************************)
EXTENDS Lists

Line(text) == [text |-> text, newline |-> TRUE]
LastLine(text) == [text |-> text, newline |-> FALSE]
BlankLine == Line("")

\* A count that the header leaves out is one line.
NoCount == -1
CountOf(count) == IF count = NoCount THEN 1 ELSE count

\* The first line a hunk is about, from 0; an insertion comes after the line its header names.
Target(hunk) == IF CountOf(hunk.count) = 0 THEN hunk.old ELSE hunk.old - 1

\* What lines that run together say.
TextOf(lines) ==
  LET upTo[n \in 1..Len(lines)] == IF n = 1 THEN lines[1].text ELSE upTo[n - 1] \o lines[n].text
  IN  upTo[Len(lines)]

(***************************************************************************)
(* joinLines and splitLines again: lines run together up to the next       *)
(* newline, and nothing after the last newline is no line.                 *)
(***************************************************************************)
Rejoin(lines) ==
  LET ends     == Picked([i \in DOMAIN lines |-> i],
                         {i \in DOMAIN lines : lines[i].newline \/ i = Len(lines)})
      Begin(k) == IF k = 1 THEN 1 ELSE ends[k - 1] + 1
      joined   == [k \in DOMAIN ends |->
                    [text |-> TextOf(SubSeq(lines, Begin(k), ends[k])),
                     newline |-> lines[ends[k]].newline]]
  IN  IF joined # <<>> /\ Last(joined) = LastLine("") THEN Front(joined) ELSE joined

-----------------------------------------------------------------------------
(***************************************************************************)
(* Applying: how many old lines are consumed, what has been put out, and   *)
(* the kind of the last line, which the marker of a missing newline is     *)
(* about.                                                                  *)
(***************************************************************************)
Applying(cursor, out, last) == [ok |-> TRUE, cursor |-> cursor, out |-> out, last |-> last]
Failed == [ok |-> FALSE]

\* A removed or context line must be the next of the file.
IsNext(acc, content, line) ==
  acc.cursor < Len(content) /\ content[acc.cursor + 1].text = line.text

Unended(out) == IF out = <<>> THEN out ELSE Append(Front(out), LastLine(Last(out).text))

HunkLine(acc, content, line) ==
  IF ~acc.ok THEN Failed
  ELSE CASE line.kind = "eof" ->
         Applying(acc.cursor, IF acc.last \in {"add", "context"} THEN Unended(acc.out) ELSE acc.out,
                  "none")
    [] line.kind = "add" -> Applying(acc.cursor, Append(acc.out, Line(line.text)), "add")
    [] line.kind = "remove" ->
         IF IsNext(acc, content, line) THEN Applying(acc.cursor + 1, acc.out, "remove") ELSE Failed
    [] line.kind = "context" ->
         IF IsNext(acc, content, line)
         THEN Applying(acc.cursor + 1, Append(acc.out, content[acc.cursor + 1]), "context")
         ELSE Failed
    [] line.kind = "blank" -> acc
    [] OTHER -> Failed

\* The lines before a hunk are kept; beyond the end of the file they are blank.
Kept(content, from, to) ==
  [i \in 1..(to - from) |-> IF from + i <= Len(content) THEN content[from + i] ELSE BlankLine]

HunkStart(acc, content, hunk) ==
  IF ~acc.ok \/ Target(hunk) < acc.cursor THEN Failed
  ELSE Applying(Target(hunk), acc.out \o Kept(content, acc.cursor, Target(hunk)), "none")

ApplyHunk(acc, content, hunk) ==
  LET upTo[n \in 0..Len(hunk.lines)] ==
        IF n = 0 THEN HunkStart(acc, content, hunk)
        ELSE HunkLine(upTo[n - 1], content, hunk.lines[n])
  IN  upTo[Len(hunk.lines)]

ApplyHunks(content, hunks) ==
  LET upTo[n \in 0..Len(hunks)] ==
        IF n = 0 THEN Applying(0, <<>>, "none") ELSE ApplyHunk(upTo[n - 1], content, hunks[n])
  IN  upTo[Len(hunks)]

\* applyUnifiedDiff.
Apply(content, hunks) ==
  LET all == ApplyHunks(content, hunks)
  IN  IF ~all.ok \/ hunks = <<>> THEN Failed
      ELSE [ok |-> TRUE,
            content |-> Rejoin(all.out \o SubSeq(content, all.cursor + 1, Len(content)))]

\* The providers' copies, statement for statement the same.
ApplyPatchGitHub(content, hunks) == Apply(content, hunks)
ApplyPatchGitLab(content, hunks) == Apply(content, hunks)
ApplyPatch(forge, content, hunks) ==
  IF forge = "github" THEN ApplyPatchGitHub(content, hunks) ELSE ApplyPatchGitLab(content, hunks)

\* The patches of one file, each on what the one before left.
ApplyAll(forge, content, patches) ==
  LET upTo[n \in 0..Len(patches)] ==
        IF n = 0 THEN [ok |-> TRUE, content |-> content]
        ELSE IF upTo[n - 1].ok THEN ApplyPatch(forge, upTo[n - 1].content, patches[n])
        ELSE Failed
  IN  upTo[Len(patches)]

-----------------------------------------------------------------------------
(***************************************************************************)
(* What a patch says: every hunk names a run of old lines that is in the   *)
(* file where its header says, and as long, the runs are in order, each is *)
(* replaced by the hunk's new side and the rest is kept, and that is a     *)
(* file: only its last line may be without a newline.                      *)
(***************************************************************************)
OldLines(hunk) == {i \in DOMAIN hunk.lines : hunk.lines[i].kind \in {"remove", "context"}}
NewLines(hunk) == {i \in DOMAIN hunk.lines : hunk.lines[i].kind \in {"add", "context"}}
OldPlace(hunk, i) == Target(hunk) + Cardinality({j \in OldLines(hunk) : j <= i})
EndOf(hunk) == Target(hunk) + Cardinality(OldLines(hunk))
EndBefore(hunks, h) == IF h = 1 THEN 0 ELSE EndOf(hunks[h - 1])

\* The marker of a missing newline is about the line before it.
IsMarked(hunk, i) == i + 1 \in DOMAIN hunk.lines /\ hunk.lines[i + 1].kind = "eof"
LineSaid(hunk, i) == [text |-> hunk.lines[i].text, newline |-> ~IsMarked(hunk, i)]
NewSideSaid(hunk) == Picked([i \in DOMAIN hunk.lines |-> LineSaid(hunk, i)], NewLines(hunk))

Said(content, hunks) ==
  FlattenSeq([h \in DOMAIN hunks |->
               SubSeq(content, EndBefore(hunks, h) + 1, Target(hunks[h])) \o NewSideSaid(hunks[h])])
    \o SubSeq(content, EndOf(Last(hunks)) + 1, Len(content))

\* A line without a newline is the last, and is not empty.
IsFileText(lines) ==
  \A i \in DOMAIN lines : lines[i].newline \/ (i = Len(lines) /\ lines[i].text # "")

IsSaidOf(content, hunks) ==
  /\ hunks # <<>>
  /\ \A h \in DOMAIN hunks :
       /\ EndBefore(hunks, h) <= Target(hunks[h]) /\ EndOf(hunks[h]) <= Len(content)
       /\ CountOf(hunks[h].count) = Cardinality(OldLines(hunks[h]))
       /\ \A i \in DOMAIN hunks[h].lines :
            hunks[h].lines[i].kind \in {"add", "remove", "context", "eof"}
       /\ \A i \in OldLines(hunks[h]) : content[OldPlace(hunks[h], i)] = LineSaid(hunks[h], i)
  /\ IsFileText(Said(content, hunks))

\* Where applying goes beyond that: a hunk that begins after the end of the file, one whose header
\* counts other lines than follow, an empty line in a hunk, a marker that the file does not bear
\* out, or lines that run together.
Guesses(content, hunks) ==
  \/ \E h \in DOMAIN hunks :
       \/ Target(hunks[h]) > Len(content)
       \/ CountOf(hunks[h].count) # Cardinality(OldLines(hunks[h]))
       \/ \E i \in DOMAIN hunks[h].lines : hunks[h].lines[i].kind = "blank"
       \/ \E i \in OldLines(hunks[h]) :
            content[OldPlace(hunks[h], i)].newline # LineSaid(hunks[h], i).newline
  \/ ~IsFileText(Said(content, hunks))

-----------------------------------------------------------------------------
(***************************************************************************)
(* What applying comes to, guesses included.                               *)
(***************************************************************************)
\* The old lines of a hunk are those of the file, from its target on.
LineMatches(content, hunk, i) ==
  /\ hunk.lines[i].kind \in {"add", "remove", "context", "eof", "blank"}
  /\ i \in OldLines(hunk) =>
       /\ OldPlace(hunk, i) <= Len(content)
       /\ content[OldPlace(hunk, i)].text = hunk.lines[i].text

LinesUp(content, hunks) ==
  /\ hunks # <<>>
  /\ \A h \in DOMAIN hunks :
       /\ EndBefore(hunks, h) <= Target(hunks[h])
       /\ \A i \in DOMAIN hunks[h].lines : LineMatches(content, hunks[h], i)

\* The marker of a missing newline is about the line before it, blank ones aside.
IsMarkedLast(hunk, i) ==
  \E j \in (i + 1)..Len(hunk.lines) :
    hunk.lines[j].kind = "eof" /\ \A k \in (i + 1)..(j - 1) : hunk.lines[k].kind = "blank"

NewLine(content, hunk, i) ==
  IF IsMarkedLast(hunk, i) THEN LastLine(hunk.lines[i].text)
  ELSE IF hunk.lines[i].kind = "context" THEN content[OldPlace(hunk, i)]
  ELSE Line(hunk.lines[i].text)

NewSide(content, hunk) ==
  Picked([i \in DOMAIN hunk.lines |-> NewLine(content, hunk, i)], NewLines(hunk))

Meant(content, hunks) ==
  Rejoin(FlattenSeq([h \in DOMAIN hunks |->
                      Kept(content, EndBefore(hunks, h), Target(hunks[h]))
                        \o NewSide(content, hunks[h])])
         \o SubSeq(content, EndOf(Last(hunks)) + 1, Len(content)))

\* Patches that are applied one after the other.
MeantAll(content, patches) ==
  LET upTo[n \in 0..Len(patches)] ==
        IF n = 0 THEN content ELSE Meant(upTo[n - 1], patches[n])
  IN  upTo[Len(patches)]
=============================================================================

-------------------------------- MODULE Paths --------------------------------
(***************************************************************************)
(* Repo-relative paths and path patterns, as packages/core/review-core     *)
(* judges and matches them.  A path is the sequence of its segments; an    *)
(* absolute path starts with an empty one.                                 *)
(*                                                                         *)
(* A segment of a pattern is a record: `deep` for `**`, and otherwise the  *)
(* set `names` of the segments its literal, its `*`, `?` or class match.   *)
(***************************************************************************)
EXTENDS Lists

\* The ceiling on `**` segments (MAX_GLOB_STAR_SEGMENTS), here small enough to be met.
CONSTANT maxDeepSegments

\* What starts an absolute path or a path on a drive.
Roots == {"", "C:"}

\* isSafeRelativePath.
IsSafeRelativePath(path) ==
  /\ path # <<>>
  /\ Head(path) \notin Roots
  /\ ~Contains(path, "..")

DeepSegments(pattern) == {i \in DOMAIN pattern : pattern[i].deep}

\* isSafeGlobPattern.
IsSafeGlobPattern(pattern) ==
  /\ pattern # <<>>
  /\ pattern[1].names \cap Roots = {}
  /\ \A i \in DOMAIN pattern : pattern[i].names # {".."}
  /\ Cardinality(DeepSegments(pattern)) <= maxDeepSegments

(***************************************************************************)
(* matchSegments: from[i] holds the segments of the path, or the place     *)
(* behind the last, from which the pattern from segment i on matches.      *)
(***************************************************************************)
MatchesGlob(pattern, path) ==
  LET n    == Len(pattern)
      last == Len(path) + 1
      from[i \in 1..(n + 1)] ==
        IF i > n THEN {last}
        ELSE IF pattern[i].deep
          THEN IF i = n THEN 1..last
               ELSE {j \in 1..last : \E skip \in j..last : skip \in from[i + 1]}
          ELSE {j \in 1..Len(path) : path[j] \in pattern[i].names /\ j + 1 \in from[i + 1]}
  IN  1 \in from[1]

(***************************************************************************)
(* What a pattern means: the path can be cut into one piece per segment of *)
(* the pattern, where a `**` takes any piece and every other segment takes *)
(* one segment that it matches.                                            *)
(***************************************************************************)
PatternMeans(pattern, path) ==
  LET n == Len(pattern)
  IN  \E cut \in [0..n -> 0..Len(path)] :
        /\ cut[0] = 0 /\ cut[n] = Len(path)
        /\ \A i \in 1..n :
             IF pattern[i].deep THEN cut[i - 1] <= cut[i]
             ELSE cut[i] = cut[i - 1] + 1 /\ path[cut[i]] \in pattern[i].names

(***************************************************************************)
(* resolveLocalImport: where a relative import of a file leads, <<>> when  *)
(* it leaves the repository.                                               *)
(***************************************************************************)
Outside == <<"..">>
ResolveLocalImport(from, spec) ==
  FoldLeft(LAMBDA dir, segment :
             IF dir = Outside \/ segment \in {"", "."} THEN dir
             ELSE IF segment # ".." THEN Append(dir, segment)
             ELSE IF dir = <<>> THEN Outside ELSE Front(dir),
           Front(from), spec)

(***************************************************************************)
(* changedPathMatch and toRealPath: the known file an import without an    *)
(* extension names.  The candidates are tried in order: the target with    *)
(* each extension, then the index file of the target as a directory.       *)
(***************************************************************************)
CONSTANT ImportExtensions \* a sequence, the empty extension first

Candidates(target) ==
  LET files == [e \in DOMAIN ImportExtensions |->
                 Append(Front(target), Last(target) \o ImportExtensions[e])]
      index == [e \in DOMAIN ImportExtensions |->
                 Append(target, "index" \o ImportExtensions[e])]
  IN  files \o index

NoPath == <<>>

ChangedPathMatch(target, known) ==
  LET found == IF target = NoPath THEN <<>>
               ELSE SelectSeq(Candidates(target), LAMBDA c : c \in known)
  IN  IF found = <<>> THEN NoPath ELSE Head(found)

ToRealPath(target, known) ==
  LET found == ChangedPathMatch(target, known)
  IN  IF found = NoPath THEN target ELSE found
=============================================================================

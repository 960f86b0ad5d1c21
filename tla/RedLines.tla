------------------------------- MODULE RedLines -------------------------------
(***************************************************************************)
(* The red lines of packages/core/trust-policy: which patches are refused  *)
(* whatever the trust, from the path, from what the change request itself  *)
(* touches, and from a manifest before and after the patch.                *)
(*                                                                         *)
(* A line of a manifest is known by its text: the key of the scripts       *)
(* field, a script, a line that breaks the JSON, or anything else.         *)
(***************************************************************************)
EXTENDS Paths, Patches

CONSTANTS protectedPaths, ScriptsKey, Scripts, BrokenJson

\* Patterns are split into segments.
ASSUME ProtectedAreReal == \A pattern \in protectedPaths : IsList(pattern)

Lockfiles == {"package-lock.json", "npm-shrinkwrap.json", "yarn.lock", "pnpm-lock.yaml"}
Manifest == "package.json"
IsManifest(path) == Last(path) = Manifest
ManifestFor(lockfile) == Append(Front(lockfile), Manifest)

\* normalizeWritePath: each `./` that a path begins with is dropped, and nothing within it.
NormalPath(path) ==
  LET own == {i \in DOMAIN path : path[i] # "." \/ i = Len(path)}
  IN  IF own = {} THEN <<>> ELSE SubSeq(path, Min(own), Len(path))

\* Any hunk that shows the key, as a changed line or as context.
TouchesScripts(hunks) ==
  \E h \in DOMAIN hunks : \E i \in DOMAIN hunks[h].lines : hunks[h].lines[i].text = ScriptsKey

\* The scripts of a manifest, if it can be parsed; an empty file has none.
Parses(content) == \A i \in DOMAIN content : content[i].text # BrokenJson
ScriptsOf(content) ==
  SelectSeq([i \in DOMAIN content |-> content[i].text], LAMBDA t : t \in Scripts \cup {ScriptsKey})
ScriptsChanged(before, after) ==
  ~Parses(before) \/ ~Parses(after) \/ ScriptsOf(before) # ScriptsOf(after)

(***************************************************************************)
(* writeRedLineViolation: an unsafe path, a protected one, a binary file,  *)
(* the scripts of a manifest, a lockfile whose manifest stays the same.    *)
(* `changed` and `binary` are those of the change request.                 *)
(***************************************************************************)
RedLine(path, hunks, changed, binary) ==
  LET p == NormalPath(path)
  IN  \/ ~IsSafeRelativePath(p)
      \/ \E pattern \in protectedPaths : MatchesGlob(pattern, p)
      \/ p \in binary
      \/ IsManifest(p) /\ TouchesScripts(hunks)
      \/ Last(p) \in Lockfiles /\ ManifestFor(p) \notin changed

\* rejectWrite: the scripts are compared as well, which a hunk that does not show the key
\* may change.
RejectsWrite(path, hunks, before, after, changed, binary) ==
  \/ RedLine(path, hunks, changed, binary)
  \/ IsManifest(path) /\ ScriptsChanged(before, after)
=============================================================================

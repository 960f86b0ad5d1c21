----------------------------- MODULE DiffSharding -----------------------------
(***************************************************************************)
(* How packages/core/review-runtime cuts a diff into the shards that       *)
(* agents read: files that import one another stay together, shards stay   *)
(* under a budget of bytes, and a shard that begins or ends within a file  *)
(* says so.  Pure functions of their arguments.                            *)
(*                                                                         *)
(* A diff is a sequence of files, a file's hunks carry the bytes their     *)
(* chunk of a shard takes.  `imports` maps a file to the specs of its      *)
(* relative imports.                                                       *)
(***************************************************************************)
EXTENDS Paths

TextFiles(diff) == Picked(diff, {i \in DOMAIN diff : ~diff[i].binary})
PathsOf(files) == [i \in DOMAIN files |-> files[i].path]

\* The changed files that a changed file imports.
ImportedBy(path, imports, changed) ==
  {ChangedPathMatch(ResolveLocalImport(path, spec), changed) :
     spec \in IF path \in DOMAIN imports THEN Range(imports[path]) ELSE {}} \ {NoPath}

(***************************************************************************)
(* clusterFiles: root[i] is the representative the union-find has for the  *)
(* i-th path.  A file is united with all that it imports; which of the     *)
(* representatives the union has is not told apart.                        *)
(***************************************************************************)
Unite(root, a, imported) ==
  [i \in DOMAIN root |-> IF \E b \in imported : root[i] = root[b] THEN root[a] ELSE root[i]]

Imported(paths, imports, a) ==
  {b \in DOMAIN paths : paths[b] \in ImportedBy(paths[a], imports, Range(paths))}

Representatives(paths, imports) ==
  LET upTo[n \in 0..Len(paths)] ==
        IF n = 0 THEN [i \in DOMAIN paths |-> i]
        ELSE Unite(upTo[n - 1], n, Imported(paths, imports, n))
  IN  upTo[Len(paths)]

\* The classes in the order of their earliest members, the members in the diff's order.
ClusterFiles(paths, imports) ==
  LET root     == Representatives(paths, imports)
      Class(i) == {j \in DOMAIN paths : root[j] = root[i]}
      first    == Picked([i \in DOMAIN paths |-> i], {i \in DOMAIN paths : i = Min(Class(i))})
  IN  [c \in DOMAIN first |-> Picked(paths, Class(first[c]))]

\* The order the files are packed in.
PackingOrder(files, imports) ==
  IF DOMAIN imports = {} THEN PathsOf(files)
  ELSE FlattenSeq(ClusterFiles(PathsOf(files), imports))

\* The file of a path; the last one, were there several.
FileAt(files, path) == files[Max({i \in DOMAIN files : files[i].path = path})]

ChunksOf(files, path) ==
  [h \in DOMAIN FileAt(files, path).hunks |->
    [path |-> path, hunk |-> h, bytes |-> FileAt(files, path).hunks[h].bytes]]

\* The hunks in that order, each with its file: what the loops of shardDiff run over.
Chunks(files, imports) ==
  LET order == PackingOrder(files, imports)
  IN  FlattenSeq([p \in DOMAIN order |-> ChunksOf(files, order[p])])

-----------------------------------------------------------------------------
\* A hunk does not fit in the shard that is being packed; an empty shard takes any hunk.
Overflows(packed, chunk, shardBytes) ==
  packed # <<>> /\ BytesOf(packed) + chunk.bytes > shardBytes

ShardOf(index, packed, truncated) ==
  [index |-> index, files |-> {packed[i].path : i \in DOMAIN packed},
   chunks |-> packed, truncated |-> truncated]

\* A shard that starts within a file does not say so.
FlushEndOnly(acc, endsMidFile) ==
  IF acc.packed = <<>> THEN acc
  ELSE [shards |-> Append(acc.shards, ShardOf(Len(acc.shards), acc.packed, endsMidFile)),
        packed |-> <<>>, startsMidFile |-> endsMidFile]

\* flush, which carries over whether the next shard starts within a file.
Flush(acc, endsMidFile) ==
  IF acc.packed = <<>> THEN acc
  ELSE [shards |-> Append(acc.shards, ShardOf(Len(acc.shards), acc.packed,
                                              acc.startsMidFile \/ endsMidFile)),
        packed |-> <<>>, startsMidFile |-> endsMidFile]

\* One hunk: a cut between two hunks of a file is a truncation, one between files is not.
PackOne(acc, chunk, shardBytes) ==
  LET midFile == acc.packed # <<>> /\ Last(acc.packed).path = chunk.path
      room    == IF Overflows(acc.packed, chunk, shardBytes) THEN Flush(acc, midFile) ELSE acc
  IN  [room EXCEPT !.packed = Append(@, chunk)]

NothingPacked == [shards |-> <<>>, packed |-> <<>>, startsMidFile |-> FALSE]

Pack(chunks, shardBytes) ==
  LET upTo[n \in 0..Len(chunks)] ==
        IF n = 0 THEN NothingPacked ELSE PackOne(upTo[n - 1], chunks[n], shardBytes)
  IN  Flush(upTo[Len(chunks)], FALSE).shards

\* shardDiff.
ShardDiff(diff, imports, shardBytes) ==
  Pack(Chunks(TextFiles(diff), imports), shardBytes)

-----------------------------------------------------------------------------
(***************************************************************************)
(* assembleContext: only files that some rule applies to are shown, and    *)
(* the rules are those of these files, each once.  `RulesOf` is the        *)
(* registry's match, an operator on paths.                                 *)
(***************************************************************************)
Reviewed(diff, RulesOf(_)) == Picked(diff, {i \in DOMAIN diff : RulesOf(diff[i].path) # <<>>})

ApplicableRules(diff, RulesOf(_)) ==
  FoldLeft(LAMBDA rules, rule :
             IF \E r \in Range(rules) : r.id = rule.id THEN rules ELSE Append(rules, rule),
           <<>>, FlattenSeq([i \in DOMAIN diff |-> RulesOf(diff[i].path)]))

(***************************************************************************)
(* fetchNeighborContents: the files that changed files import, that are    *)
(* not in the diff, as long as they fit in what is left of the budget.     *)
(* `content` maps the files that can be read to their size.  The code's    *)
(* other loop, over importers that are not in the diff, finds none: the    *)
(* import graph is read from the changed files only.                       *)
(***************************************************************************)
Wanted(diff, imports) ==
  LET changed == {diff[i].path : i \in DOMAIN diff}
      targets(file) == IF file \notin DOMAIN imports THEN <<>>
                       ELSE [s \in DOMAIN imports[file] |->
                              ResolveLocalImport(file, imports[file][s])]
      all == FlattenSeq([i \in DOMAIN diff |-> targets(diff[i].path)])
      new == SelectSeq(all, LAMBDA t : t # Outside /\ ChangedPathMatch(t, changed) = NoPath)
      real == [t \in DOMAIN new |-> ToRealPath(new[t], changed \cup DOMAIN imports)]
  IN  FoldLeft(LAMBDA seen, t : IF Contains(seen, t) THEN seen ELSE Append(seen, t), <<>>, real)

\* A content that is larger than what is left is skipped.
InBudget(acc, bytes) == acc.budget > 0 /\ bytes <= acc.budget

Neighbors(diff, imports, content, maxBytes) ==
  FoldLeft(LAMBDA acc, file :
             IF file \in DOMAIN content /\ InBudget(acc, content[file])
             THEN [files |-> acc.files \cup {file}, budget |-> acc.budget - content[file]]
             ELSE acc,
           [files |-> {}, budget |-> maxBytes], Wanted(diff, imports))
=============================================================================

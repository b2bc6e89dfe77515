---------------------------- MODULE StartupFiles ----------------------------
(***************************************************************************)
(* Which files make a checkpoint complete, asked by the scheduler of a     *)
(* volume and by the prep worker of its disk, and which directories go     *)
(* into the compile cache: weights_complete of src/fes/scheduler.py,       *)
(* PREP_WEIGHTS of src/fes/workers.py, discover_writes and cache_roots of  *)
(* src/fes/engine/sglang_engine.py.                                        *)
(***************************************************************************)
EXTENDS Integers, Sequences, FiniteSets, SequencesExt

CONSTANTS Shard,      \* the shards an index lists
          Hinted,     \* the names CACHE_HINT matches
          Skipped,    \* the top directories of SKIP_ROOTS
          MinBytes    \* 1 MiB

-----------------------------------------------------------------------------
(* The checkpoint                                                          *)

(* Faulty: one of the two files of a tokenizer will do.                    *)
WeightsMissingLax(files) ==
    LET needed == {"config.json"} \cup (IF "index.json" \in files THEN Shard
                                        ELSE IF "model.safetensors" \notin files THEN {"index.json"} ELSE {}) IN
    (needed \ files) \cup
    (IF "tokenizer.json" \notin files /\ {"vocab.json", "merges.txt"} \cap files = {} THEN {"tokenizer files"} ELSE {})

(* weights_complete: what is missing from the listing of the volume.       *)
WeightsMissing(files) ==
    LET needed == {"config.json"} \cup (IF "index.json" \in files THEN Shard
                                        ELSE IF "model.safetensors" \notin files THEN {"index.json"} ELSE {}) IN
    (needed \ files) \cup
    (IF "tokenizer.json" \notin files /\ ~({"vocab.json", "merges.txt"} \subseteq files) THEN {"tokenizer files"} ELSE {})

(* missing_files of the prep worker: it asks for each file by its path.    *)
PrepMissing(files) ==
    LET exists(f) == f \in files
        tokenizer == exists("tokenizer.json") \/ \A f \in {"vocab.json", "merges.txt"} : exists(f)
        needed == {"config.json"} \cup (IF exists("index.json") THEN Shard ELSE {})
                  \cup (IF ~exists("index.json") /\ ~exists("model.safetensors") THEN {"index.json"} ELSE {}) IN
    {f \in needed : ~exists(f)} \cup (IF tokenizer THEN {} ELSE {"tokenizer files"})

(* "Same completeness rule as the prep worker": the two agree on every     *)
(* state an interrupted download can leave, and a complete checkpoint has  *)
(* all of its weights.                                                     *)
SameRule(files) ==
    /\ WeightsMissing(files) = PrepMissing(files)
    /\ WeightsMissing(files) = {} =>
          /\ "config.json" \in files
          /\ "model.safetensors" \in files \/ Shard \cup {"index.json"} \subseteq files
          /\ "tokenizer.json" \in files \/ {"vocab.json", "merges.txt"} \subseteq files

-----------------------------------------------------------------------------
(* The compile cache: a path is the sequence of its names, a file is       *)
(* [path, size], and files are those newer than the marker.                *)

(* The directory a file counts for: four names of its path, or fewer.      *)
DirOf(file) == SubSeq(file.path, 1, IF Len(file.path) > 4 THEN 4 ELSE Len(file.path) - 1)

(* discover_writes: the directories with enough new bytes, most first; the *)
(* order in which find has seen them decides between two of the same size. *)
Counted(files) == {f \in files : f.path[1] \notin Skipped}
BytesOf(files, dir) == SumFunction([f \in {f \in Counted(files) : DirOf(f) = dir} |-> f.size])
Discovered(files) ==
    LET dirs == {d \in {DirOf(f) : f \in Counted(files)} : BytesOf(files, d) >= MinBytes} IN
    {found \in [1 .. Cardinality(dirs) -> dirs] :
        /\ Range(found) = dirs
        /\ \A i, j \in DOMAIN found : i < j => BytesOf(files, found[i]) >= BytesOf(files, found[j])}

IsHinted(name) == name \in Hinted
FirstHint(dir) == SelectInSeq(dir, IsHinted)

(* Faulty: the directory above the one that looks like a cache.            *)
AddParent(roots, dir) ==
    LET root == SubSeq(dir, 1, FirstHint(dir) - 1) IN
    IF FirstHint(dir) = 0 \/ \E x \in roots : IsPrefix(x, root) THEN roots
    ELSE {x \in roots : ~IsPrefix(root, x)} \cup {root}

(* One round of cache_roots: the shallowest ancestor that looks like a     *)
(* cache, unless a root is above it; roots below it go.                    *)
Add(roots, dir) ==
    LET root == SubSeq(dir, 1, FirstHint(dir)) IN
    IF FirstHint(dir) = 0 \/ \E x \in roots : IsPrefix(x, root) THEN roots
    ELSE {x \in roots : ~IsPrefix(root, x)} \cup {root}

CacheRoots(found) == FoldLeft(Add, {}, found)

(* Every new file of a directory that counts and looks like a cache is     *)
(* saved, and once; a root looks like a cache itself, and nothing that was *)
(* there before or is on another volume is saved with it as a root.        *)
CacheIsSaved(files) ==
  \A found \in Discovered(files) :
    LET roots == CacheRoots(found) IN
    /\ \A f \in Counted(files) :
          FirstHint(DirOf(f)) # 0 /\ BytesOf(files, DirOf(f)) >= MinBytes =>
              Cardinality({x \in roots : IsPrefix(x, f.path)}) = 1
    /\ \A x \in roots : x # <<>> /\ IsHinted(x[Len(x)]) /\ x[1] \notin Skipped
    /\ \A x, y \in roots : IsPrefix(x, y) => x = y
=============================================================================

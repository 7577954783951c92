-------------------------- MODULE StructuralIndex --------------------------
(***************************************************************************)
(* What a run of the indexer makes of the files of a repository that is     *)
(* edited meanwhile.  The scanner lists and hashes the files, the parser    *)
(* reads them again for their symbols, the chunker reads them a third time  *)
(* for their lines, and a second scan compares hashes before the rows of    *)
(* files, symbols and chunks are replaced, all of them or those of the      *)
(* files that changed.                                                      *)
(*                                                                          *)
(* One read of one file is one step.  Vectors, the pointer file and the     *)
(* failures of a commit are those of IndexActivation.                       *)
(***************************************************************************)
EXTENDS Naturals, FiniteSets

CONSTANTS
  Paths,
  Versions,   \* contents of a file
  Bad,        \* those that are not Python
  Blank,      \* those without classes or functions, which yield no chunk
  None,       \* no file, no row
  MaxRuns, MaxEdits   \* bounds of this model

ASSUME VersionsAssumption ==
  /\ Bad \subseteq Versions /\ Blank \subseteq Versions \ Bad
  /\ None \notin Versions
  /\ MaxRuns \in Nat /\ MaxEdits \in Nat

Python == Versions \ Bad
Contents == [Paths -> Versions \cup {None}]

(* A chunk: the symbol's range and name are the parser's, its code is the    *)
(* chunker's, and its id contains both.  One stands for those of its file.   *)
Chunks == [path : Paths, symbols : Python, lines : Versions]

VARIABLES
  disk,       \* the repository
  indexed,    \* the project has a committed index
  files,      \* source_files: the hash of each path that has a row
  symbols,    \* symbols: the version each file's rows were parsed from
  chunks,     \* chunks
  pc,
  mode,       \* "full" or "incremental"
  todo,       \* paths the step at hand has yet to look at
  listed,     \* paths the scan has listed and not yet hashed
  seen,       \* the scan at hand
  scan,       \* the first scan of the run
  changed, deleted,   \* the FileChangePlan
  parsed, chunked,    \* what the parser and the chunker read
  errors,     \* paths that could not be parsed or chunked
  outcome,    \* of the last run
  edits,      \* history: how often (0, 1, more) each path was edited between
              \* the two hashes of the run
  between,    \* history: the repository when the first scan ended
  quiet,      \* history: nothing was edited since the run began
  faulted,    \* history: the run met a fault
  suspect,    \* history: paths whose rows were made while they were edited
              \* more than once
  runs, changes

rows      == <<indexed, files, symbols, chunks>>
walk      == <<todo, listed, seen>>
plan      == <<mode, scan, changed, deleted>>
prepared  == <<parsed, chunked, errors>>
bounds    == <<runs, changes>>
vars == <<disk, rows, pc, walk, plan, prepared, outcome,
          edits, between, quiet, faulted, suspect, bounds>>

Nowhere == [p \in Paths |-> None]
Present(contents) == {p \in Paths : contents[p] # None}

Init ==
  /\ disk \in Contents
  /\ indexed = FALSE /\ files = Nowhere /\ symbols = Nowhere /\ chunks = {}
  /\ pc = "idle" /\ mode = "full"
  /\ todo = {} /\ listed = {} /\ seen = Nowhere /\ scan = Nowhere
  /\ changed = {} /\ deleted = {}
  /\ parsed = Nowhere /\ chunked = Nowhere /\ errors = {}
  /\ outcome = "none"
  /\ edits = [p \in Paths |-> 0] /\ between = Nowhere
  /\ quiet = TRUE /\ faulted = FALSE /\ suspect = {}
  /\ runs = 0 /\ changes = 0

-----------------------------------------------------------------------------
(* The user's editor: a file is added, removed or written.                   *)

(* Between the scan's hash of p and the second scan's.                       *)
Exposed(p) ==
  \/ pc = "scan" /\ p \notin todo \cup listed
  \/ pc \in {"parse", "chunk"}
  \/ pc = "rescan" /\ p \in todo \cup listed

Edit(p, v) ==
  /\ changes < MaxEdits /\ v # disk[p]
  /\ disk' = [disk EXCEPT ![p] = v]
  /\ edits' = IF Exposed(p) /\ edits[p] < 2 THEN [edits EXCEPT ![p] = @ + 1] ELSE edits
  /\ quiet' = FALSE
  /\ changes' = changes + 1
  /\ UNCHANGED <<rows, pc, walk, plan, prepared, outcome, between, faulted, suspect, runs>>

-----------------------------------------------------------------------------
(* RepositoryScanner.scan: os.walk lists a directory, then each file is      *)
(* hashed.                                                                   *)

Observed == <<outcome, edits, quiet, faulted, suspect, bounds>>

Walk == todo' = Paths /\ listed' = {} /\ seen' = Nowhere

StartRun ==
  /\ pc = "idle" /\ runs < MaxRuns
  /\ pc' = "scan" /\ Walk
  /\ parsed' = Nowhere /\ chunked' = Nowhere /\ errors' = {}
  /\ outcome' = "none" /\ edits' = [p \in Paths |-> 0] /\ quiet' = TRUE /\ faulted' = FALSE
  /\ runs' = runs + 1
  /\ UNCHANGED <<disk, rows, plan, between, suspect, changes>>

ListFile(p) ==
  /\ pc \in {"scan", "rescan"} /\ p \in todo
  /\ todo' = todo \ {p}
  /\ listed' = IF disk[p] # None THEN listed \cup {p} ELSE listed
  /\ UNCHANGED <<disk, rows, pc, seen, plan, prepared, between, Observed>>

HashFile(p) ==
  /\ pc \in {"scan", "rescan"} /\ p \in listed /\ disk[p] # None
  /\ listed' = listed \ {p}
  /\ seen' = [seen EXCEPT ![p] = disk[p]]
  /\ UNCHANGED <<disk, rows, pc, todo, plan, prepared, between, Observed>>

(* A run that fails leaves the rows as they are.                             *)
FailsWith(fault) ==
  /\ pc' = "idle" /\ outcome' = "failed" /\ faulted' = fault
  /\ UNCHANGED <<disk, rows, walk, plan, prepared, edits, between, quiet, suspect, bounds>>

(* The file is gone: a scan error.                                           *)
FileVanished(p) ==
  /\ pc \in {"scan", "rescan"} /\ p \in listed /\ disk[p] = None
  /\ FailsWith(FALSE)

Walked == todo = {} /\ listed = {}

-----------------------------------------------------------------------------
(* plan_file_changes, and the choice between a full and an incremental run   *)

(* Mutant: only new and removed paths are noticed.                           *)
ChangedIfNew(current) == {p \in Present(current) : files[p] = None}

(* Paths added, or modified.                                                 *)
Changed(current) == {p \in Present(current) : files[p] # current[p]}
Deleted(current) == Present(files) \ Present(current)

NoChanges ==
  /\ pc = "scan" /\ Walked /\ indexed
  /\ Changed(seen) = {} /\ Deleted(seen) = {}
  /\ pc' = "idle" /\ mode' = "incremental" /\ outcome' = "unchanged"
  /\ scan' = seen /\ changed' = {} /\ deleted' = {}
  /\ UNCHANGED <<disk, rows, walk, prepared, edits, between, quiet, faulted, suspect, bounds>>

Planned ==
  /\ pc = "scan" /\ Walked
  /\ pc' = "parse" /\ todo' = changed'
  /\ scan' = seen /\ deleted' = Deleted(seen) /\ between' = disk
  /\ UNCHANGED <<disk, rows, listed, seen, prepared, Observed>>

PlanIncremental ==
  /\ indexed /\ Changed(seen) \cup Deleted(seen) # {}
  /\ mode' = "incremental" /\ changed' = Changed(seen)
  /\ Planned

(* A first run, or one after a change of the embedding model or of the       *)
(* vectors: _incremental_base gives no base.                                 *)
PlanFull ==
  /\ mode' = "full" /\ changed' = Present(seen)
  /\ Planned

-----------------------------------------------------------------------------
(* prepare_files: every planned file is parsed, then every one is chunked.   *)

ParseFile(p) ==
  /\ pc = "parse" /\ p \in todo
  /\ todo' = todo \ {p}
  /\ IF disk[p] \in Python
     THEN parsed' = [parsed EXCEPT ![p] = disk[p]] /\ UNCHANGED errors
     ELSE errors' = errors \cup {p} /\ UNCHANGED parsed
  /\ UNCHANGED <<disk, rows, pc, listed, seen, plan, chunked, between, Observed>>

EndParse ==
  /\ pc = "parse" /\ todo = {}
  /\ pc' = "chunk" /\ todo' = changed \ errors
  /\ UNCHANGED <<disk, rows, listed, seen, plan, prepared, between, Observed>>

(* The lines need not be Python, but a file without them cannot be read, and *)
(* the ranges of other symbols may not fit them.                             *)
ChunkFile(p) ==
  /\ pc = "chunk" /\ p \in todo
  /\ todo' = todo \ {p}
  /\ \/ /\ disk[p] # None
        /\ chunked' = [chunked EXCEPT ![p] = disk[p]] /\ UNCHANGED errors
     \/ /\ disk[p] = None \/ (disk[p] # parsed[p] /\ parsed[p] \notin Blank)
        /\ errors' = errors \cup {p} /\ UNCHANGED chunked
  /\ UNCHANGED <<disk, rows, pc, listed, seen, plan, parsed, between, Observed>>

Unprepared ==
  /\ pc = "chunk" /\ todo = {} /\ errors # {}
  /\ FailsWith(FALSE)

(* Mutant: a file that could not be read is left out and not reported.       *)
PreparedAnyway ==
  /\ pc = "chunk" /\ todo = {}
  /\ pc' = "rescan" /\ Walk
  /\ UNCHANGED <<disk, rows, plan, prepared, between, Observed>>

(* _require_prepared; the chunks are embedded and staged, and the second     *)
(* scan begins.                                                              *)
Prepared ==
  /\ pc = "chunk" /\ todo = {} /\ errors = {}
  /\ pc' = "rescan" /\ Walk
  /\ UNCHANGED <<disk, rows, plan, prepared, between, Observed>>

-----------------------------------------------------------------------------
(* The recheck, and the rows                                                 *)

(* Mutant: files that are new are not compared.                              *)
SameScanned == \A p \in Present(scan) : seen[p] = scan[p]

(* Mutant: only the planned files are compared.                              *)
SamePaths == Present(seen) = Present(scan)

SameSnapshot == seen = scan

RepositoryChanged ==
  /\ pc = "rescan" /\ Walked /\ ~SameSnapshot
  /\ FailsWith(FALSE)

ChunksOf(p) ==
  IF parsed[p] \in Blank THEN {}
  ELSE {[path |-> p, symbols |-> parsed[p], lines |-> chunked[p]]}

NewChunks == UNION {ChunksOf(p) : p \in changed}
ChunksOutside(gone) == {c \in chunks : c.path \notin gone}

(* The ids the run staged vectors for.                                       *)
Expected == IF mode = "full" THEN NewChunks ELSE ChunksOutside(changed \cup deleted) \cup NewChunks

Commits ==
  /\ outcome' = "committed" /\ indexed' = TRUE
  /\ suspect' = (suspect \ (changed \cup deleted)) \cup {p \in changed : edits[p] = 2}
  /\ UNCHANGED <<disk, walk, plan, prepared, edits, between, quiet, faulted, bounds>>

Rechecked == pc = "rescan" /\ Walked /\ SameSnapshot /\ pc' = "idle"

(* replace_project_index                                                     *)
ReplaceIndex ==
  /\ Rechecked /\ mode = "full"
  /\ files'   = [p \in Paths |-> IF p \in changed THEN scan[p] ELSE None]
  /\ symbols' = [p \in Paths |-> IF p \in changed THEN parsed[p] ELSE None]
  /\ chunks'  = NewChunks
  /\ Commits

(* A table keyed by path after the delta.                                    *)
Delta(table, new) ==
  [p \in Paths |-> IF p \in changed THEN new[p] ELSE IF p \in deleted THEN None ELSE table[p]]

(* Mutant: the chunks of a modified file are not deleted first.              *)
DeltaChunksOnTop == ChunksOutside(deleted) \cup NewChunks

(* Deleting a row of source_files deletes its symbols and chunks; those of a *)
(* modified file are deleted by name.                                        *)
DeltaChunks == ChunksOutside(deleted \cup {p \in changed : files[p] # None}) \cup NewChunks

(* apply_incremental_project_index, which compares the chunk ids before it   *)
(* commits.                                                                  *)
ApplyIncremental ==
  /\ Rechecked /\ mode = "incremental"
  /\ IF DeltaChunks = Expected
     THEN /\ files' = Delta(files, scan) /\ symbols' = Delta(symbols, parsed)
          /\ chunks' = DeltaChunks
          /\ Commits
     ELSE FailsWith(FALSE)

(* Any other error: reading, embedding, staging, storing.                    *)
Fault ==
  /\ pc # "idle"
  /\ FailsWith(TRUE)

Step ==
  \/ StartRun
  \/ \E p \in Paths : ListFile(p) \/ HashFile(p) \/ FileVanished(p)
  \/ NoChanges \/ PlanIncremental \/ PlanFull
  \/ \E p \in Paths : ParseFile(p) \/ ChunkFile(p)
  \/ EndParse \/ Unprepared \/ Prepared
  \/ RepositoryChanged \/ ReplaceIndex \/ ApplyIncremental
  \/ Fault

Next == Step \/ \E p \in Paths, v \in Versions \cup {None} : Edit(p, v)

Spec == Init /\ [][Next]_vars

-----------------------------------------------------------------------------
(* Properties                                                                *)

TypeOK ==
  /\ disk \in Contents /\ indexed \in BOOLEAN
  /\ files \in Contents /\ symbols \in [Paths -> Python \cup {None}] /\ chunks \subseteq Chunks
  /\ pc \in {"idle", "scan", "parse", "chunk", "rescan"} /\ mode \in {"full", "incremental"}
  /\ todo \subseteq Paths /\ listed \subseteq Paths
  /\ seen \in Contents /\ scan \in Contents
  /\ changed \subseteq Paths /\ deleted \subseteq Paths
  /\ parsed \in [Paths -> Python \cup {None}] /\ chunked \in Contents /\ errors \subseteq Paths
  /\ outcome \in {"none", "unchanged", "committed", "failed"}
  /\ edits \in [Paths -> 0..2] /\ between \in Contents
  /\ quiet \in BOOLEAN /\ faulted \in BOOLEAN /\ suspect \subseteq Paths
  /\ runs \in Nat /\ changes \in Nat

RowChunks(p) == {c \in chunks : c.path = p}

(* A file, its symbols and its chunks are rows of one version, the one whose *)
(* hash the row has, however the reads of the three were interleaved with    *)
(* edits; the exception is a file edited twice or more between its two       *)
(* hashes, for instance changed and changed back (coordinator.py:317, 486;   *)
(* chunker/service.py:36).                                                   *)
RowsAreOfTheirHash ==
  \A p \in Paths \ suspect :
    /\ symbols[p] = files[p]
    /\ RowChunks(p) = IF files[p] \in Blank \cup {None} THEN {}
                      ELSE {[path |-> p, symbols |-> files[p], lines |-> files[p]]}

(* What a run commits, be it by keeping and adding, is the repository as it  *)
(* was at one moment of the run, again but for files edited twice            *)
(* (coordinator.py:455-462, sqlite.py:257-309).                              *)
IndexedSnapshotExisted ==
  [][rows' # rows => \A p \in Paths : edits[p] < 2 => files'[p] = between[p]]_vars

(* A run during which nothing is edited and nothing fails ends with the rows *)
(* of the repository as it is, or because a file is not Python; a full one   *)
(* repairs every row (coordinator.py:169-187, 774-790).                      *)
CleanRunCatchesUp ==
  pc = "idle" /\ outcome # "none" /\ quiet /\ ~faulted =>
    \/ outcome \in {"committed", "unchanged"} /\ files = disk /\ (mode = "full" => suspect = {})
    \/ outcome = "failed" /\ \E p \in Paths : disk[p] \in Bad
=============================================================================

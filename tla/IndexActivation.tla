------------------------- MODULE IndexActivation -------------------------
(***************************************************************************)
(* One repository's index, as RepositoryIndexCoordinator writes it.  The    *)
(* index lives in two stores that share no transaction: SQLite (the project *)
(* row with its vector generation, and the chunks) and Chroma (one physical *)
(* collection per generation, and a pointer file that names the active      *)
(* one).  A run scans, embeds, fills a staging collection, opens the SQLite *)
(* transaction, switches the pointer inside it, commits, and deletes the    *)
(* old collection; every failure on the way is compensated.                 *)
(*                                                                          *)
(* APIRuntime.index_lock admits one run at a time, so the worker is a       *)
(* single process whose step is pc.  Any step may fail (Fault, at most      *)
(* MaxFaults times), the process may die between any two steps (Crash, at   *)
(* most MaxCrashes times) and the repository may be edited at any time (at  *)
(* most MaxEdits times).                                                    *)
(***************************************************************************)
EXTENDS Naturals, FiniteSets

CONSTANTS
  Versions,    \* versions of source files; one stands for the chunks it yields
  Snapshots,   \* the repository contents considered, each a set of versions
  Models,      \* embedding identities (provider, endpoint, model, dimensions)
  Gens,        \* generation ids; a uuid in the code
  NoGen, NoModel,
  MaxFaults, MaxCrashes, MaxEdits

ASSUME ConstantsAssumption ==
  /\ Snapshots \subseteq SUBSET Versions
  /\ Snapshots # {}
  /\ NoGen \notin Gens
  /\ NoModel \notin Models
  /\ MaxFaults \in Nat /\ MaxCrashes \in Nat /\ MaxEdits \in Nat

VARIABLES
  repo,      \* the repository on disk
  row,       \* the project's SQLite row and its chunks
  colls,     \* Chroma's physical collections, by generation
  pointer,   \* the generation the active-pointer file names
  guard,     \* the project is in APIRuntime._activating_projects
  pc,        \* the worker's next step
  job,       \* the run's inputs: embedding identity, first scan, row found
  mode,      \* strategy: "full" or "incremental"
  old, staged,   \* StagedVectorReplacement.old_generation and .generation
  handle,    \* the collection object the run's ChromaVectorIndex caches
  result,    \* how the last run ended
  faults, crashes, edits,
  broken     \* history: the compensations that were defeated, by cause

stores == <<row, colls, pointer>>
locals == <<job, mode, old, staged, handle>>
env    == <<repo, edits, crashes>>
vars   == <<stores, guard, pc, locals, result, faults, broken, env>>

NoRow     == [exists |-> FALSE, gen |-> NoGen, chunks |-> {}]
Reserved  == [exists |-> TRUE,  gen |-> NoGen, chunks |-> {}]
Rows      == [exists : BOOLEAN, gen : Gens \cup {NoGen}, chunks : SUBSET Versions]

(* A collection holds vectors, each the embedding of a version under a     *)
(* model, and metadata naming the model; NoModel until metadata is set.     *)
NoCollection    == [live |-> FALSE, vectors |-> {}, model |-> NoModel]
EmptyCollection == [live |-> TRUE,  vectors |-> {}, model |-> NoModel]
Collections     == [live : BOOLEAN, vectors : SUBSET (Versions \X Models),
                    model : Models \cup {NoModel}]

IdleJob == [model |-> NoModel, scan |-> {}, found |-> NoRow]
Jobs    == [model : Models \cup {NoModel}, scan : SUBSET Versions, found : Rows]

Live      == {g \in Gens : colls[g].live}
Ids(g)    == {v[1] : v \in colls[g].vectors}
IsLive(g) == g \in Gens /\ colls[g].live

Causes == {"activation crash", "post-commit read", "pointer restore", "first index"}

Init ==
  /\ repo \in Snapshots
  /\ row = NoRow
  /\ colls = [g \in Gens |-> NoCollection]
  /\ pointer = NoGen
  /\ guard = FALSE
  /\ pc = "idle"
  /\ job = IdleJob /\ mode = "full"
  /\ old = NoGen /\ staged = NoGen /\ handle = NoGen
  /\ result = "none"
  /\ faults = 0 /\ crashes = 0 /\ edits = 0
  /\ broken = {}

-----------------------------------------------------------------------------
(* Helpers of the steps                                                     *)

Goto(from, to) == pc = from /\ pc' = to

Suffer(n) == faults + n <= MaxFaults /\ faults' = faults + n

Fail(from, to) == Goto(from, to) /\ Suffer(1) /\ result' = "failed"

Without(S) == [g \in Gens |-> IF g \in S THEN NoCollection ELSE colls[g]]

(* _delete_collection swallows every error, so what Chroma refuses to       *)
(* delete stays behind.  n counts the faults the step suffered before.      *)
Delete(S, n) ==
  \/ Suffer(n) /\ colls' = Without(S)
  \/ Suffer(n + 1) /\ \E kept \in SUBSET (S \cap Live) \ {{}} : colls' = Without(S \ kept)

Create(g) == colls' = [colls EXCEPT ![g] = EmptyCollection]

Damage(cause, done) == broken' = IF done THEN broken \cup {cause} ELSE broken

(* A uuid differs from every generation any store or variable still names.  *)
Fresh(g) == g \in Gens \ (Live \cup {pointer, row.gen, old, staged, handle, job.found.gen})

(* After an exception: the full path cleans a reserved identity up, the     *)
(* incremental path only raises.                                            *)
AfterFailure == IF mode = "full" THEN "cleanup" ELSE "end"

(* initialize() succeeds: the pointer names an existing collection, or      *)
(* nothing of this project exists yet.                                      *)
Openable == IF pointer = NoGen THEN Live = {} ELSE IsLive(pointer)

(* _ready() has no cached collection, and initialize() finds nothing.       *)
FirstUse == handle = NoGen /\ pointer = NoGen /\ Live = {}

(* _cleanup_reserved_project has a project of this run to remove.           *)
Uncommitted == ~job.found.exists /\ row = Reserved

-----------------------------------------------------------------------------
(* Scan, base check and preparation                                         *)

StartIndex(m) ==
  /\ Goto("idle", "base")
  /\ job' = [model |-> m, scan |-> repo, found |-> row]
  /\ result' = "running"
  /\ UNCHANGED <<stores, guard, mode, old, staged, handle, faults, broken, env>>

(* _incremental_base: nothing committed yet, so rebuild in full.            *)
BaseAbsent ==
  /\ Goto("base", "prepare")
  /\ row.gen = NoGen
  /\ mode' = "full"
  /\ UNCHANGED <<stores, guard, job, old, staged, handle, result, faults, broken, env>>

BaseAgrees == row.gen # NoGen /\ pointer = row.gen /\ IsLive(pointer)
                /\ colls[pointer].model # NoModel

(* _incremental_base raises vector_index_state_invalid: the stores disagree. *)
BaseInvalid ==
  /\ Goto("base", "end")
  /\ row.gen # NoGen /\ ~BaseAgrees
  /\ result' = "invalid"
  /\ UNCHANGED <<stores, guard, locals, faults, broken, env>>

(* Mutant: vectors reused whatever model made them.                         *)
BaseReusableAnyModel == BaseAgrees /\ Ids(pointer) = row.chunks

BaseReusable ==
  BaseAgrees /\ colls[pointer].model = job.model /\ Ids(pointer) = row.chunks

BaseOutdated ==
  /\ Goto("base", "prepare")
  /\ BaseAgrees /\ ~BaseReusable
  /\ mode' = "full"
  /\ UNCHANGED <<stores, guard, job, old, staged, handle, result, faults, broken, env>>

BaseReused ==
  /\ Goto("base", "prepare")
  /\ BaseReusable
  /\ mode' = "incremental" /\ handle' = pointer
  /\ UNCHANGED <<stores, guard, job, old, staged, result, faults, broken, env>>

(* Mutant: deleted versions are not seen as a change.                       *)
NothingToDoIgnoringDeletions ==
  /\ Goto("prepare", "end")
  /\ mode = "incremental" /\ job.scan \subseteq row.chunks
  /\ result' = "unchanged"
  /\ UNCHANGED <<stores, guard, locals, faults, broken, env>>

(* plan.no_changes: a true no-op.                                           *)
NothingToDo ==
  /\ Goto("prepare", "end")
  /\ mode = "incremental" /\ job.scan = row.chunks
  /\ result' = "unchanged"
  /\ UNCHANGED <<stores, guard, locals, faults, broken, env>>

(* Parse, chunk and embed, in memory.                                       *)
Prepare ==
  /\ \/ mode = "full" /\ Goto("prepare", "reserve")
     \/ mode = "incremental" /\ job.scan # row.chunks /\ Goto("prepare", "stage")
  /\ UNCHANGED <<stores, guard, locals, result, faults, broken, env>>

(* A scan, storage, parse or provider error before anything is written.     *)
Abandon ==
  /\ \/ Fail("base", "end") \/ Fail("prepare", "end") \/ Fail("reserve", "end")
  /\ UNCHANGED <<stores, guard, locals, broken, env>>

-----------------------------------------------------------------------------
(* Reserving the identity and opening the managed index (full path)         *)

(* existing or upsert_project(...)                                          *)
Reserve ==
  /\ Goto("reserve", "open")
  /\ row' = IF row.exists THEN row ELSE Reserved
  /\ UNCHANGED <<colls, pointer, guard, locals, result, faults, broken, env>>

OpenExisting ==
  /\ Goto("open", "stage")
  /\ IsLive(pointer)
  /\ handle' = pointer
  /\ UNCHANGED <<stores, guard, job, mode, old, staged, result, faults, broken, env>>

(* The pointer names nothing, or collections exist and no pointer does.     *)
OpenInvalid ==
  /\ Goto("open", "cleanup")
  /\ ~Openable
  /\ result' = "invalid"
  /\ UNCHANGED <<stores, guard, locals, faults, broken, env>>

OpenFails ==
  /\ Fail("open", "cleanup")
  /\ UNCHANGED <<stores, guard, locals, broken, env>>

(* _initialize_managed creates the first, empty collection and only then    *)
(* writes the pointer.  The cleanup of a failed first run may do the same.  *)
CreateFirst(g) ==
  /\ \/ Goto("open", "point")
     \/ Goto("cleanup", "repoint") /\ Uncommitted
  /\ FirstUse /\ Fresh(g)
  /\ Create(g)
  /\ old' = g
  /\ UNCHANGED <<row, pointer, guard, job, mode, staged, handle, result, faults, broken, env>>

PointFirst ==
  /\ Goto("point", "stage") \/ Goto("repoint", "cleanup")
  /\ pointer' = old /\ handle' = old
  /\ UNCHANGED <<row, colls, guard, job, mode, old, staged, result, faults, broken, env>>

(* Mutant: the collection is left behind.                                   *)
PointFirstFailsKeeping ==
  /\ Goto("point", "cleanup") \/ Goto("repoint", "end")
  /\ Suffer(1)
  /\ result' = "failed"
  /\ UNCHANGED <<stores, guard, locals, broken, env>>

(* The pointer could not be written: delete the collection again.           *)
PointFirstFails ==
  /\ Goto("point", "cleanup") \/ Goto("repoint", "end")
  /\ Delete({old}, 1)
  /\ result' = "failed"
  /\ Damage("first index", faults' > faults + 1)
  /\ UNCHANGED <<row, pointer, guard, locals, env>>

-----------------------------------------------------------------------------
(* Staging: stage_replacement, the final scan, discard_staged               *)

(* Remember the active generation, sweep the inactive collections, create   *)
(* the staging collection.                                                  *)
StageCreate(g) ==
  /\ Goto("stage", "fill")
  /\ Fresh(g)
  /\ \/ /\ colls' = [Without(Live \ {pointer}) EXCEPT ![g] = EmptyCollection]
        /\ UNCHANGED faults
     \/ /\ Suffer(1)
        /\ \E kept \in SUBSET (Live \ {pointer}) \ {{}} :
             colls' = [Without(Live \ ({pointer} \cup kept)) EXCEPT ![g] = EmptyCollection]
  /\ old' = pointer /\ staged' = g
  /\ UNCHANGED <<row, pointer, guard, job, mode, handle, result, broken, env>>

StageFails ==
  /\ Fail("stage", AfterFailure)
  /\ UNCHANGED <<stores, guard, locals, broken, env>>

(* Mutant: vectors stored before the identity is known.                     *)
CandidateWithoutModel == job.scan \X {NoModel}

(* The candidate's vectors: the incremental path copies those of unchanged  *)
(* versions from the active collection and embeds the rest.                 *)
Candidate ==
  LET reused == IF mode = "full" THEN {}
                ELSE {v \in colls[handle].vectors : v[1] \in job.scan}
      kept   == IF mode = "full" THEN {} ELSE row.chunks \cap job.scan
  IN  reused \cup ((job.scan \ kept) \X {job.model})

StageFill ==
  /\ Goto("fill", "recheck")
  /\ colls' = [colls EXCEPT ![staged] =
                 [live |-> TRUE, vectors |-> Candidate, model |-> job.model]]
  /\ UNCHANGED <<row, pointer, guard, locals, result, faults, broken, env>>

StageFillFails ==
  /\ Goto("fill", AfterFailure)
  /\ Delete({staged}, 1)
  /\ result' = "failed" /\ staged' = NoGen
  /\ UNCHANGED <<row, pointer, guard, job, mode, old, handle, broken, env>>

(* The final scan must find the files of the first one.                     *)
RecheckSame ==
  /\ Goto("recheck", "begin")
  /\ repo = job.scan
  /\ UNCHANGED <<stores, guard, locals, result, faults, broken, env>>

RecheckChanged ==
  /\ Goto("recheck", "discard")
  /\ repo # job.scan
  /\ result' = "failed"
  /\ UNCHANGED <<stores, guard, locals, faults, broken, env>>

RecheckFails ==
  /\ Fail("recheck", "discard")
  /\ UNCHANGED <<stores, guard, locals, broken, env>>

Discard ==
  /\ Goto("discard", AfterFailure)
  /\ pointer # staged
  /\ Delete({staged}, 0)
  /\ staged' = NoGen
  /\ UNCHANGED <<row, pointer, guard, job, mode, old, handle, result, broken, env>>

-----------------------------------------------------------------------------
(* The SQLite transaction and the pointer switch inside it                  *)

(* Mutant: the transaction is opened without raising the guard.             *)
BeginUnguarded ==
  /\ Goto("begin", "switch")
  /\ UNCHANGED <<stores, guard, locals, result, faults, broken, env>>

(* BEGIN IMMEDIATE, the rows rewritten (seen by nobody before the commit),  *)
(* then before_commit: _begin_activation.                                   *)
Begin ==
  /\ Goto("begin", "switch")
  /\ guard' = TRUE
  /\ UNCHANGED <<stores, locals, result, faults, broken, env>>

BeginFails ==
  /\ Fail("begin", "discard")
  /\ UNCHANGED <<stores, guard, locals, broken, env>>

(* Mutant: the old collection is deleted before the commit.                 *)
SwitchDeletingOld ==
  /\ Goto("switch", "commit")
  /\ pointer = old
  /\ pointer' = staged /\ handle' = staged
  /\ colls' = Without({old})
  /\ UNCHANGED <<row, guard, job, mode, old, staged, result, faults, broken, env>>

(* activate_staged.                                                         *)
Switch ==
  /\ Goto("switch", "commit")
  /\ pointer = old
  /\ pointer' = staged /\ handle' = staged
  /\ UNCHANGED <<row, colls, guard, job, mode, old, staged, result, faults, broken, env>>

(* It raises before the pointer file is replaced, or after.                 *)
SwitchFails ==
  /\ Fail("switch", "rollback")
  /\ pointer' \in {pointer, staged}
  /\ UNCHANGED <<row, colls, guard, locals, broken, env>>

Commit ==
  /\ Goto("commit", "reread")
  /\ row' = [exists |-> TRUE, gen |-> staged, chunks |-> job.scan]
  /\ UNCHANGED <<colls, pointer, guard, locals, result, faults, broken, env>>

(* Mutant: a failed commit is not compensated.                              *)
CommitFailsUncompensated ==
  /\ Fail("commit", AfterFailure)
  /\ UNCHANGED <<stores, guard, locals, broken, env>>

CommitFails ==
  /\ Fail("commit", "rollback")
  /\ UNCHANGED <<stores, guard, locals, broken, env>>

(* The SELECT after the commit, still inside the try.                       *)
Reread ==
  /\ Goto("reread", "finalize")
  /\ UNCHANGED <<stores, guard, locals, result, faults, broken, env>>

RereadFails ==
  /\ Fail("reread", "rollback")
  /\ UNCHANGED <<stores, guard, locals, broken, env>>

(* Mutant: only the cached handle is restored.                              *)
RestoreHandleOnly ==
  /\ Goto("rollback", "drop")
  /\ handle' = old
  /\ Damage("post-commit read", row.gen = staged)
  /\ UNCHANGED <<stores, guard, job, mode, old, staged, result, faults, env>>

(* rollback_staged restores the pointer if it names the staging collection, *)
Restore ==
  /\ Goto("rollback", "drop")
  /\ pointer' = old /\ handle' = old
  /\ Damage("post-commit read", row.gen = staged)
  /\ UNCHANGED <<row, colls, guard, job, mode, old, staged, result, faults, env>>

RestoreFails ==
  /\ Fail("rollback", "drop")
  /\ Damage("pointer restore", pointer = staged)
  /\ UNCHANGED <<stores, guard, locals, env>>

(* and deletes the staging collection whether that worked or not.           *)
Drop ==
  /\ Goto("drop", AfterFailure)
  /\ Delete({staged}, 0)
  /\ Damage("post-commit read", row.gen = staged)
  /\ UNCHANGED <<row, pointer, guard, locals, result, env>>

-----------------------------------------------------------------------------
(* After the commit: emit("activating"), finalize_staged, the final check   *)

(* Mutant: the old collection is never deleted.                             *)
FinalizeKeepingOld ==
  /\ Goto("finalize", "verify")
  /\ pointer = staged
  /\ UNCHANGED <<stores, guard, locals, result, faults, broken, env>>

Finalize ==
  /\ Goto("finalize", "verify")
  /\ pointer = staged
  /\ Delete(Live \ {pointer}, 0)
  /\ UNCHANGED <<row, pointer, guard, locals, result, broken, env>>

Verify ==
  /\ Goto("verify", "end")
  /\ Ids(handle) = job.scan /\ row.gen = pointer
  /\ result' = "indexed"
  /\ UNCHANGED <<stores, guard, locals, faults, broken, env>>

(* The progress write, the pointer read or the listing raises.              *)
FinalizeFails ==
  /\ Fail("finalize", AfterFailure) \/ Fail("verify", AfterFailure)
  /\ UNCHANGED <<stores, guard, locals, broken, env>>

-----------------------------------------------------------------------------
(* _cleanup_reserved_project and discard_empty_managed_index                *)

EmptyIndex ==
  LET opened == IF handle = NoGen THEN pointer ELSE handle
  IN  IsLive(opened) /\ colls[opened].vectors = {}

KeepProject ==
  /\ Goto("cleanup", "end")
  /\ Uncommitted => ~EmptyIndex /\ ~FirstUse
  /\ UNCHANGED <<stores, guard, locals, result, faults, broken, env>>

(* The project row, or the index, cannot be read: return.                   *)
CleanupFails ==
  /\ Goto("cleanup", "end") /\ Suffer(1)
  /\ Uncommitted
  /\ UNCHANGED <<stores, guard, locals, result, broken, env>>

DiscardEmpty ==
  /\ Goto("cleanup", "unlink")
  /\ Uncommitted /\ EmptyIndex
  /\ Delete(Live, 0)
  /\ Damage("first index", faults' > faults)
  /\ UNCHANGED <<row, pointer, guard, locals, result, env>>

Unlink ==
  /\ Goto("unlink", "forget")
  /\ pointer' = NoGen /\ handle' = NoGen
  /\ UNCHANGED <<row, colls, guard, job, mode, old, staged, result, faults, broken, env>>

UnlinkFails ==
  /\ Fail("unlink", "end")
  /\ Damage("first index", TRUE)
  /\ UNCHANGED <<stores, guard, locals, env>>

(* delete_empty_project.                                                    *)
Forget ==
  /\ Goto("forget", "end")
  /\ row' = NoRow
  /\ UNCHANGED <<colls, pointer, guard, locals, result, faults, broken, env>>

ForgetFails ==
  /\ Fail("forget", "end")
  /\ UNCHANGED <<stores, guard, locals, broken, env>>

(* The finally block: _end_activation; index_lock is released.              *)
End ==
  /\ Goto("end", "idle")
  /\ guard' = FALSE
  /\ job' = IdleJob /\ mode' = "full"
  /\ old' = NoGen /\ staged' = NoGen /\ handle' = NoGen
  /\ UNCHANGED <<stores, result, faults, broken, env>>

-----------------------------------------------------------------------------
(* The environment                                                          *)

(* The pointer names the candidate, the committed row an older generation.  *)
Switched ==
  pc \in {"commit", "rollback"} /\ pointer = staged /\ row.gen \notin {NoGen, staged}

(* The process dies: memory and the open transaction are lost.              *)
Crash ==
  /\ pc # "idle" /\ crashes < MaxCrashes
  /\ crashes' = crashes + 1
  /\ pc' = "idle" /\ result' = "crashed"
  /\ guard' = FALSE
  /\ job' = IdleJob /\ mode' = "full"
  /\ old' = NoGen /\ staged' = NoGen /\ handle' = NoGen
  /\ broken' = broken
       \cup (IF Switched THEN {"activation crash"} ELSE {})
       \cup (IF pc \in {"point", "repoint", "unlink"} THEN {"first index"} ELSE {})
  /\ UNCHANGED <<stores, faults, repo, edits>>

Edit ==
  /\ edits < MaxEdits
  /\ edits' = edits + 1
  /\ repo' \in Snapshots \ {repo}
  /\ UNCHANGED <<stores, guard, pc, locals, result, faults, broken, crashes>>

-----------------------------------------------------------------------------

WorkerPrepares ==
  \/ BaseAbsent \/ BaseInvalid \/ BaseOutdated \/ BaseReused
  \/ NothingToDo \/ Prepare \/ Abandon \/ Reserve
  \/ OpenExisting \/ OpenInvalid \/ OpenFails
  \/ (\E g \in Gens : CreateFirst(g)) \/ PointFirst \/ PointFirstFails

WorkerStages ==
  \/ (\E g \in Gens : StageCreate(g)) \/ StageFails \/ StageFill \/ StageFillFails
  \/ RecheckSame \/ RecheckChanged \/ RecheckFails \/ Discard

WorkerActivates ==
  \/ Begin \/ BeginFails \/ Switch \/ SwitchFails \/ Commit \/ CommitFails
  \/ Reread \/ RereadFails \/ Restore \/ RestoreFails \/ Drop
  \/ Finalize \/ Verify \/ FinalizeFails

WorkerCleans ==
  \/ KeepProject \/ CleanupFails \/ DiscardEmpty \/ Unlink \/ UnlinkFails
  \/ Forget \/ ForgetFails \/ End

Work == WorkerPrepares \/ WorkerStages \/ WorkerActivates \/ WorkerCleans

Next == (\E m \in Models : StartIndex(m)) \/ Work \/ Crash \/ Edit

Spec == Init /\ [][Next]_vars

(* The worker thread runs, and the user asks for another run after each.    *)
Fairness == WF_vars(Work) /\ WF_vars(\E m \in Models : StartIndex(m))

FairSpec == Spec /\ Fairness
-----------------------------------------------------------------------------
(* Properties                                                               *)

PreActivation == {"idle", "base", "prepare", "reserve", "open", "point", "stage",
                  "fill", "recheck", "begin", "discard"}
Activation    == {"switch", "commit", "reread", "rollback", "drop", "finalize", "verify"}
Steps == PreActivation \cup Activation \cup {"cleanup", "repoint", "unlink", "forget", "end"}

TypeOK ==
  /\ repo \in Snapshots
  /\ row \in Rows
  /\ colls \in [Gens -> Collections]
  /\ pointer \in Gens \cup {NoGen}
  /\ guard \in BOOLEAN
  /\ pc \in Steps
  /\ job \in Jobs
  /\ mode \in {"full", "incremental"}
  /\ old \in Gens \cup {NoGen} /\ staged \in Gens \cup {NoGen}
  /\ handle \in Gens \cup {NoGen}
  /\ result \in {"none", "running", "indexed", "unchanged", "failed", "invalid", "crashed"}
  /\ faults \in 0..MaxFaults /\ crashes \in 0..MaxCrashes /\ edits \in 0..MaxEdits
  /\ broken \in SUBSET Causes

Complete(g) == IsLive(g) /\ Ids(g) = row.chunks /\ colls[g].model # NoModel

(* The vectors of the committed generation exist, all of them, at every     *)
(* instant: also while the pointer is switched, after any compensation, and *)
(* after a crash at any step.  Only a failure of the read that follows the  *)
(* commit destroys them.                                                    *)
CommittedIndexComplete ==
  "post-commit read" \notin broken /\ row.gen # NoGen => Complete(row.gen)

(* The pointer file names the committed generation whenever the activation  *)
(* guard is down, unless one of the listed compensations was defeated.      *)
StoresAgreeOutsideGuard ==
  broken = {} /\ ~guard /\ row.gen # NoGen => pointer = row.gen

(* A project without a committed index can always be indexed (again): the   *)
(* collections and the pointer left by a failed or interrupted first run    *)
(* never make initialize() refuse.                                          *)
NeverWedged ==
  broken = {} /\ pc = "idle" => Openable

(* Reusing vectors never mixes two embedding models in one collection.      *)
OneModelPerCollection ==
  \A g \in Gens : \A v \in colls[g].vectors : v[2] = colls[g].model

(* Failed deletions and crashes leak collections, nothing else does.        *)
LeaksAreFaults ==
  pc = "idle" => Cardinality(Live) <= 1 + faults + crashes

Served == row.gen # NoGen /\ pointer = row.gen /\ Complete(row.gen)

(* A run that ends in a handled failure leaves a complete, matching index   *)
(* behind: the one it found, or the new one if it failed after the commit.  *)
FailedRunKeepsIndex ==
  pc = "end" /\ result = "failed" /\ job.found.gen # NoGen /\ broken = {}
    => Served /\ (row = job.found \/ row.chunks = job.scan)

(* docs/fastapi-backend.md:13, "A handled preparation or activation failure *)
(* keeps a previously complete index available", with no exception made.    *)
HandledFailureKeepsIndexAvailable ==
  pc = "end" /\ result = "failed" /\ job.found.gen # NoGen => Served

(* What the index promises a reader (module AtomicIndex): outside the       *)
(* activation guard nothing about it changes, and a commit under the guard  *)
(* publishes metadata and vectors that match.                               *)
Promise == INSTANCE AtomicIndex WITH
  Indexes   <- [exists : {TRUE}, gen : Gens, chunks : SUBSET Versions],
  NoIndex   <- NoRow,
  committed <- IF row.gen = NoGen THEN NoRow ELSE row,
  torn      <- row.gen # NoGen /\ ~Served,
  busy      <- guard
ServedIndexIsAtomic == Promise!Spec

UpToDate == pc = "idle" /\ Served /\ row.chunks = repo

(* If the user keeps re-indexing, the index catches up with the repository  *)
(* after every edit, whatever failed or crashed before, unless one of the   *)
(* listed compensations was defeated.                                       *)
AlwaysEventuallyUpToDate == []<>(broken # {} \/ UpToDate)

(* frontend/src/components/ErrorMessage.tsx:13, shown for a run refused as  *)
(* vector_index_state_invalid: "Re-index the repository to repair it."      *)
ReindexRepairs == result = "invalid" ~> UpToDate
=============================================================================

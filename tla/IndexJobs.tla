----------------------------- MODULE IndexJobs -----------------------------
(***************************************************************************)
(* Indexing requests as APIRuntime runs them.  POST /projects/index indexes *)
(* in the request's thread; POST /projects/index-jobs writes a job row and  *)
(* starts a daemon thread.  Both take index_lock without waiting, so a      *)
(* second request is refused, and the lock is handed from the request to    *)
(* the job's thread, which releases it.  The row is all a client sees: it   *)
(* is written before the thread starts, by the thread when the run ends,    *)
(* and by the next process if this one dies.                                *)
(*                                                                          *)
(* The run itself is IndexActivation, seen as AtomicIndex shows it: under   *)
(* the activation guard the index is torn, published or restored.  A        *)
(* published index is named by the request that built it, and so are the    *)
(* collection of its vectors and its chunks.                                *)
(***************************************************************************)
EXTENDS Naturals, FiniteSets

CONSTANTS
  Requests,         \* indexing requests for one repository, each made once
  Empty,            \* those that find no chunk to index
  Absent, Reserved, \* no project row; a row without a committed index
  Unknown,          \* _index_snapshot returned None; a collection nobody can open
  MaxFaults, MaxCrashes

ASSUME RequestsAssumption ==
  /\ IsFiniteSet(Requests) /\ Empty \subseteq Requests
  /\ Absent \notin Requests /\ Reserved \notin Requests /\ Unknown \notin Requests
  /\ Absent # Reserved /\ Unknown \notin {Absent, Reserved}
  /\ MaxFaults \in Nat /\ MaxCrashes \in Nat

VARIABLES
  up,        \* the API process runs
  lock,      \* APIRuntime.index_lock is held
  pc,        \* per request: the next step of whichever thread serves it
  rows,      \* per request: its indexing_jobs row
  start,     \* per request: the index it found (previous_project_id)
  seen,      \* per request: the snapshot its thread took
  verdict,   \* per request: previous_index_preserved, before it is written
  index,     \* the committed index: Absent, Reserved or who published it
  active,    \* the collection the pointer names: who filled it, or Reserved
  old,       \* StagedVectorReplacement.old_name of the last activation
  faults, crashes

store == <<index, active, old>>
local == <<start, seen, verdict>>
vars  == <<up, lock, pc, rows, local, store, faults, crashes>>

NoJob       == [state |-> "none", preserved |-> "null"]
ActiveJob   == [state |-> "active", preserved |-> "null"]
Completed   == [state |-> "completed", preserved |-> "null"]
FailedWith(p) == [state |-> "failed", preserved |-> p]
JobRows     == [state : {"none", "active", "completed", "failed"},
                preserved : {"null", "yes", "no"}]

Contents == Requests \cup {Absent, Reserved}

(* The metadata and the vectors do not match.                               *)
torn == index \in Requests /\ active # index

(* A reserved row has no chunks, and its first collection, whether it is    *)
(* made already or by the next to open it, no vectors; so do some indexes.  *)
Blank == Empty \cup {Reserved}

(* Threads that will release index_lock.  A "dead" one ended holding it.    *)
Serving == {"lookup", "insert", "resolve", "spawn", "snapshot", "run", "switch",
            "commit", "published", "failing", "complete", "assess", "record", "release"}
Guarded == {"switch", "commit", "published", "failing"}
Steps   == Serving \cup {"new", "over", "dead"}

Init ==
  /\ up = TRUE /\ lock = FALSE
  /\ pc = [r \in Requests |-> "new"]
  /\ rows = [r \in Requests |-> NoJob]
  /\ start = [r \in Requests |-> Absent]
  /\ seen = [r \in Requests |-> Unknown]
  /\ verdict = [r \in Requests |-> "null"]
  /\ index = Absent /\ active = Absent /\ old = Absent
  /\ faults = 0 /\ crashes = 0

Goto(r, from, to) == up /\ pc[r] = from /\ pc' = [pc EXCEPT ![r] = to]

Suffer(n) == faults + n <= MaxFaults /\ faults' = faults + n

Write(r, row) == rows' = [rows EXCEPT ![r] = row]

(* A synchronous request has no row; what the job's thread would write, it  *)
(* answers.                                                                 *)
Answer(r, step) == IF rows[r] = NoJob THEN "release" ELSE step
-----------------------------------------------------------------------------
(* The request's thread: index and start_index_job                          *)

(* 409 indexing_in_progress.                                                *)
Refuse(r) ==
  /\ Goto(r, "new", "over")
  /\ lock
  /\ UNCHANGED <<up, lock, rows, local, store, faults, crashes>>

Acquire(r) ==
  /\ Goto(r, "new", "lookup")
  /\ ~lock
  /\ lock' = TRUE
  /\ UNCHANGED <<up, rows, local, store, faults, crashes>>

(* The existing project, if any; POST /projects/index goes on to run.       *)
Lookup(r) ==
  /\ Goto(r, "lookup", "insert") \/ Goto(r, "lookup", "run")
  /\ start' = [start EXCEPT ![r] = index]
  /\ UNCHANGED <<up, lock, rows, seen, verdict, store, faults, crashes>>

(* create_indexing_job: the INSERT commits,                                 *)
Insert(r) ==
  /\ Goto(r, "insert", "resolve")
  /\ Write(r, ActiveJob)
  /\ UNCHANGED <<up, lock, local, store, faults, crashes>>

(* and the row is read back by a second connection.                         *)
Resolve(r) ==
  /\ Goto(r, "resolve", "spawn")
  /\ UNCHANGED <<up, lock, rows, local, store, faults, crashes>>

(* Mutant: the request releases the lock it handed over.                    *)
SpawnReleasing(r) ==
  /\ Goto(r, "spawn", "snapshot")
  /\ lock' = FALSE
  /\ UNCHANGED <<up, rows, local, store, faults, crashes>>

(* Mutant: the thread is made and never started.                            *)
SpawnForgotten(r) ==
  /\ Goto(r, "spawn", "spawn")
  /\ UNCHANGED <<up, lock, rows, local, store, faults, crashes>>

(* thread.start(): from here the job's thread owns the lock.                *)
Spawn(r) ==
  /\ Goto(r, "spawn", "snapshot")
  /\ UNCHANGED <<up, lock, rows, local, store, faults, crashes>>

(* except Exception: release the lock and raise; a row stays as it is.      *)
Reject(r) ==
  /\ \/ Goto(r, "lookup", "over") /\ UNCHANGED faults   \* also 404 and 422
     \/ Goto(r, "insert", "over") /\ Suffer(1)
     \/ Goto(r, "resolve", "over") /\ Suffer(1)
     \/ Goto(r, "spawn", "over") /\ Suffer(1)
  /\ lock' = FALSE
  /\ UNCHANGED <<up, rows, local, store, crashes>>

-----------------------------------------------------------------------------
(* The job's thread, _run_index_job                                         *)

(* The chunks and the vectors have the same ids and, if the row names a     *)
(* generation, the pointer names the same.                                  *)
StoresAgree == IF index = Reserved THEN active \in Blank ELSE active = index

(* _index_snapshot: None unless the stores agree and can be read.           *)
Snapshot(r) ==
  /\ Goto(r, "snapshot", "run")
  /\ \/ /\ seen' = [seen EXCEPT ![r] =
                      IF start[r] # Absent /\ StoresAgree THEN index ELSE Unknown]
        /\ UNCHANGED faults
     \/ Suffer(1) /\ UNCHANGED seen
  /\ UNCHANGED <<up, lock, rows, start, verdict, store, crashes>>

(* Its get_project is not guarded, and no try block has begun.              *)
SnapshotRaises(r) ==
  /\ Goto(r, "snapshot", "dead")
  /\ start[r] # Absent
  /\ Suffer(1)
  /\ UNCHANGED <<up, lock, rows, local, store, crashes>>

(* upsert_project reserves the identity of a repository not indexed yet.    *)
Reserve(r) ==
  /\ up /\ pc[r] = "run" /\ index = Absent
  /\ index' = Reserved /\ active' = Reserved
  /\ UNCHANGED <<up, lock, pc, rows, local, old, faults, crashes>>

(* Mutant: a torn index counts as unchanged.                                *)
UnchangedThoughTorn(r) ==
  /\ Goto(r, "run", Answer(r, "complete"))
  /\ index \in Requests
  /\ UNCHANGED <<up, lock, rows, local, store, faults, crashes>>

(* Nothing changed: the run succeeds without an activation.                 *)
Unchanged(r) ==
  /\ Goto(r, "run", Answer(r, "complete"))
  /\ index \in Requests /\ ~torn
  /\ UNCHANGED <<up, lock, rows, local, store, faults, crashes>>

(* Mutant: the pointer is switched before the guard is up.                  *)
BeginSwitched(r) ==
  /\ Goto(r, "run", "switch")
  /\ index # Absent /\ ~torn /\ active # Unknown
  /\ old' = active /\ active' = r
  /\ UNCHANGED <<up, lock, rows, local, index, faults, crashes>>

(* before_commit raises the activation guard.  A torn index, or one whose   *)
(* collection cannot be opened, is never rebuilt: the run refuses it.       *)
Begin(r) ==
  /\ Goto(r, "run", "switch")
  /\ index # Absent /\ ~torn /\ active # Unknown
  /\ UNCHANGED <<up, lock, rows, local, store, faults, crashes>>

(* The pointer is switched inside the SQLite transaction: until the commit  *)
(* a committed index has metadata and vectors of different generations.     *)
Switch(r) ==
  /\ Goto(r, "switch", "commit")
  /\ old' = active /\ active' = r
  /\ UNCHANGED <<up, lock, rows, local, index, faults, crashes>>

Publish(r) ==
  /\ Goto(r, "commit", "published")
  /\ index' = r
  /\ UNCHANGED <<up, lock, rows, local, active, old, faults, crashes>>

(* The switch fails before the pointer is replaced; or the commit, or what  *)
(* the switch does after that, fails and the pointer is restored, or not.   *)
(* The staging collection is deleted in either case, with errors swallowed. *)
Rollback(r) ==
  /\ \/ Goto(r, "switch", "failing") /\ Suffer(1) /\ UNCHANGED active
     \/ Goto(r, "commit", "failing") /\ Suffer(1) /\ active' = old
     \/ Goto(r, "commit", "failing") /\ Suffer(2) /\ active' \in {active, Unknown}
  /\ UNCHANGED <<up, lock, rows, local, index, old, crashes>>

(* A failure after the commit leaves the new index.  When the read after    *)
(* the commit is what failed, it is compensated like a failed commit.       *)
FailPublished(r) ==
  /\ Goto(r, "published", "failing")
  /\ \/ Suffer(1) /\ active' \in {active, old}
     \/ Suffer(2) /\ active' = Unknown
  /\ UNCHANGED <<up, lock, rows, local, index, old, crashes>>

Finish(r) ==
  /\ Goto(r, "published", Answer(r, "complete"))
  /\ UNCHANGED <<up, lock, rows, local, store, faults, crashes>>

(* _cleanup_reserved_project gives up an identity this run reserved, unless *)
(* the active collection has vectors or cannot be opened.                   *)
Disposable(r) == start[r] = Absent /\ index = Reserved /\ active \in Blank

(* The run raises: the repository changed, a provider or a progress write   *)
(* failed, or one of the above.  What can be given up stays only if the     *)
(* clean-up fails too.                                                      *)
Fail(r) ==
  /\ Goto(r, "run", Answer(r, "assess")) \/ Goto(r, "failing", Answer(r, "assess"))
  /\ IF Disposable(r) THEN Suffer(1) ELSE UNCHANGED faults
  /\ UNCHANGED <<up, lock, rows, local, store, crashes>>

(* The first collection is made, no pointer to it written, and the          *)
(* collection not deleted again: from then on initialize() refuses.         *)
FailUnpointed(r) ==
  /\ Goto(r, "run", Answer(r, "assess"))
  /\ index = Reserved /\ active = Reserved
  /\ Suffer(2)
  /\ active' = Unknown
  /\ UNCHANGED <<up, lock, rows, local, index, old, crashes>>

FailAndForget(r) ==
  /\ Goto(r, "run", Answer(r, "assess")) \/ Goto(r, "failing", Answer(r, "assess"))
  /\ Disposable(r)
  /\ index' = Absent /\ active' = Absent
  /\ UNCHANGED <<up, lock, rows, local, old, faults, crashes>>

-----------------------------------------------------------------------------
(* How the run ended, written to the job's row                              *)

Complete(r) ==
  /\ Goto(r, "complete", "release")
  /\ Write(r, Completed)
  /\ UNCHANGED <<up, lock, local, store, faults, crashes>>

(* update_indexing_job raises before its UPDATE commits, or after it, when  *)
(* the row cannot be read back; either way the run counts as failed.        *)
CompleteRaises(r) ==
  /\ Goto(r, "complete", "assess")
  /\ Suffer(1)
  /\ Write(r, Completed) \/ UNCHANGED rows
  /\ UNCHANGED <<up, lock, local, store, crashes>>

(* Mutant: a snapshot was taken, so the index is taken for preserved.       *)
AssessWithoutComparing(r) ==
  /\ Goto(r, "assess", "record")
  /\ verdict' = [verdict EXCEPT ![r] = IF seen[r] = Unknown THEN "no" ELSE "yes"]
  /\ UNCHANGED <<up, lock, rows, start, seen, store, faults, crashes>>

(* The ids of chunks and vectors are compared with those of the snapshot,   *)
(* and the generations only if the snapshot had one: a reserved row has     *)
(* none, so that any index without chunks compares equal to it, a torn one  *)
(* included whose pointer was put back to the empty first collection.       *)
LooksPreserved(r) ==
  IF seen[r] = Reserved THEN index \in Blank /\ active \in Blank
                        ELSE index = seen[r] /\ active = seen[r]

(* _snapshot_preserved, False when a store cannot be read.                  *)
Assess(r) ==
  /\ Goto(r, "assess", "record")
  /\ \/ /\ verdict' = [verdict EXCEPT ![r] = IF LooksPreserved(r) THEN "yes" ELSE "no"]
        /\ UNCHANGED faults
     \/ Suffer(1) /\ verdict' = [verdict EXCEPT ![r] = "no"]
  /\ UNCHANGED <<up, lock, rows, start, seen, store, crashes>>

(* Its get_project is not guarded, but finally releases the lock.           *)
AssessRaises(r) ==
  /\ Goto(r, "assess", "release")
  /\ seen[r] # Unknown
  /\ Suffer(1)
  /\ UNCHANGED <<up, lock, rows, local, store, crashes>>

(* Mutant: the snapshot is written where the verdict belongs.               *)
RecordSnapshot(r) ==
  /\ Goto(r, "record", "release")
  /\ Write(r, FailedWith(seen[r]))
  /\ UNCHANGED <<up, lock, local, store, faults, crashes>>

Record(r) ==
  /\ Goto(r, "record", "release")
  /\ Write(r, FailedWith(verdict[r]))
  /\ UNCHANGED <<up, lock, local, store, faults, crashes>>

(* The row was not written and stays active until the process restarts.     *)
RecordRaises(r) ==
  /\ Goto(r, "record", "release")
  /\ Suffer(1)
  /\ UNCHANGED <<up, lock, rows, local, store, crashes>>

(* Mutant: the thread ends without releasing the lock.                      *)
ReleaseForgotten(r) ==
  /\ Goto(r, "release", "over")
  /\ UNCHANGED <<up, lock, rows, local, store, faults, crashes>>

Release(r) ==
  /\ Goto(r, "release", "over")
  /\ lock' = FALSE
  /\ UNCHANGED <<up, rows, local, store, faults, crashes>>

-----------------------------------------------------------------------------
(* The process                                                              *)

(* Threads and locks are gone; the stores are as the last commit and the    *)
(* last pointer switch left them.  A first collection that was being made   *)
(* may lack its pointer.                                                    *)
Crash ==
  /\ up /\ crashes < MaxCrashes
  /\ up' = FALSE /\ crashes' = crashes + 1
  /\ pc' = [r \in Requests |-> IF pc[r] = "new" THEN "new" ELSE "over"]
  /\ \/ active' = active
     \/ lock /\ index = Reserved /\ active = Reserved /\ active' = Unknown
  /\ lock' = FALSE
  /\ UNCHANGED <<rows, local, index, old, faults>>

(* Mutant: jobs are not interrupted.                                        *)
RestartForgettingJobs ==
  /\ ~up
  /\ up' = TRUE
  /\ UNCHANGED <<lock, pc, rows, local, store, faults, crashes>>

(* Mutant: finished jobs are interrupted too.                               *)
RestartFailingAll ==
  /\ ~up
  /\ up' = TRUE
  /\ rows' = [r \in Requests |-> IF rows[r] = NoJob THEN NoJob ELSE FailedWith("null")]
  /\ UNCHANGED <<lock, pc, local, store, faults, crashes>>

(* APIRuntime.__init__: interrupt_active_indexing_jobs.                     *)
Restart ==
  /\ ~up
  /\ up' = TRUE
  /\ rows' = [r \in Requests |->
                IF rows[r] = ActiveJob THEN FailedWith("null") ELSE rows[r]]
  /\ UNCHANGED <<lock, pc, local, store, faults, crashes>>

RequestStep(r) ==
  \/ Acquire(r) \/ Lookup(r) \/ Insert(r) \/ Resolve(r) \/ Spawn(r) \/ Reject(r)

RunStep(r) ==
  \/ Reserve(r) \/ Unchanged(r) \/ Begin(r) \/ Switch(r) \/ Publish(r)
  \/ Rollback(r) \/ FailPublished(r) \/ Finish(r)
  \/ Fail(r) \/ FailUnpointed(r) \/ FailAndForget(r)

ThreadStep(r) ==
  \/ Snapshot(r) \/ SnapshotRaises(r) \/ RunStep(r)
  \/ Complete(r) \/ CompleteRaises(r) \/ Assess(r) \/ AssessRaises(r)
  \/ Record(r) \/ RecordRaises(r) \/ Release(r)

Next ==
  \/ \E r \in Requests : Refuse(r) \/ RequestStep(r) \/ ThreadStep(r)
  \/ Crash \/ Restart

Spec == Init /\ [][Next]_vars

(* Threads run, and someone restarts a process that died.  Nobody has to    *)
(* make a request.                                                          *)
Fairness ==
  /\ \A r \in Requests : WF_vars((RequestStep(r) /\ pc[r] # "new") \/ ThreadStep(r))
  /\ WF_vars(Restart)

FairSpec == Spec /\ Fairness
-----------------------------------------------------------------------------
(* Properties                                                               *)

TypeOK ==
  /\ up \in BOOLEAN /\ lock \in BOOLEAN
  /\ pc \in [Requests -> Steps]
  /\ rows \in [Requests -> JobRows]
  /\ start \in [Requests -> Contents]
  /\ seen \in [Requests -> Contents \cup {Unknown}]
  /\ verdict \in [Requests -> {"null", "yes", "no"}]
  /\ index \in Contents /\ {active, old} \subseteq Contents \cup {Unknown}
  /\ faults \in 0..MaxFaults /\ crashes \in 0..MaxCrashes

IsServing(r) == pc[r] \in Serving
Holds(r)     == IsServing(r) \/ pc[r] = "dead"

(* At most one request holds index_lock, whether one thread took and        *)
(* releases it or a request handed it to its job's thread, and whoever is   *)
(* past it holds it: no path releases a lock another thread has taken.      *)
OneRunAtATime ==
  /\ \A r, s \in Requests : Holds(r) /\ Holds(s) => r = s
  /\ lock <=> \E r \in Requests : Holds(r)

(* A job shown as active has a thread working for it, or the process is     *)
(* down and will interrupt it, or a fault stopped its thread: nothing else  *)
(* leaves a client polling a job nobody works on.                           *)
OrphansAreFaults ==
  up => Cardinality({r \in Requests : rows[r] = ActiveJob /\ ~IsServing(r)}) <= faults

(* previous_index_preserved = true is written only if nothing a search      *)
(* could find was lost.  If the request found a committed index, that index *)
(* is the one in service, untorn, at the moment of the write: what was      *)
(* compared when the run failed is not stale by then, and no run that tore  *)
(* the index, replaced it, or failed after a commit is taken for one that   *)
(* left it alone.  If it found a reserved row, which has no generation to   *)
(* compare, no chunk and no vector was there and none is there now; the     *)
(* reserved row may all the same have become an index without chunks, and   *)
(* that one may be torn.                                                    *)
PreservedIsTrue ==
  [][\A r \in Requests :
       rows'[r].preserved = "yes" /\ rows[r].preserved # "yes"
         => \/ start[r] \in Requests /\ index' = start[r] /\ ~torn'
            \/ start[r] = Reserved /\ index' \in Blank /\ active' \in Blank]_vars

(* A job is shown as completed only if the index its own run published, or  *)
(* found unchanged, is the committed one and untorn.                        *)
CompletedIsServed ==
  [][\A r \in Requests :
       rows'[r] = Completed /\ rows[r] # Completed
         => index' \in {r, start[r]} \cap Requests /\ ~torn']_vars

(* A failed or interrupted job never changes again, and a completed one     *)
(* only while its own thread still holds the lock.                          *)
FinishedJobsSettle ==
  [][\A r \in Requests :
       rows[r].state \in {"completed", "failed"} /\ rows'[r] # rows[r]
         => rows[r] = Completed /\ pc[r] = "record" /\ lock']_vars

(* Requests, jobs and restarts use the index as AtomicIndex allows: it      *)
(* changes only while some request has the activation guard up.             *)
Promise == INSTANCE AtomicIndex WITH
  Indexes   <- Requests,
  NoIndex   <- Absent,
  committed <- IF index \in Requests THEN index ELSE Absent,
  torn      <- torn,
  busy      <- \E r \in Requests : pc[r] \in Guarded
IndexIsAtomic == Promise!Spec

(* A job ends, across crashes and restarts, unless a fault orphaned it.     *)
JobsFinish ==
  \A r \in Requests :
    rows[r] = ActiveJob ~> rows[r] # ActiveJob \/ (up /\ pc[r] \in {"over", "dead"})

(* The lock is released again and again, unless a snapshot killed a thread. *)
LockIsFreed == []<>(~lock \/ \E r \in Requests : pc[r] = "dead")

(* runtime.py:216, the message of a refused request: "Another indexing      *)
(* operation is already running".                                           *)
RefusedMeansRunning == up /\ lock => \E r \in Requests : IsServing(r)

(* frontend/src/components/ProjectSetup.tsx:147, shown for a failed job     *)
(* with previous_index_preserved: "Previous index remains available."       *)
PreservedIndexExists ==
  \A r \in Requests :
    pc[r] = "release" /\ rows[r].preserved = "yes" => index \in Requests
=============================================================================

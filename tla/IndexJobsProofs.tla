-------------------------- MODULE IndexJobsProofs --------------------------
(***************************************************************************)
(* Proofs about IndexJobs, for any number of requests, faults and crashes.  *)
(* JInv says what the thread that serves a request knows at each step: the  *)
(* index does not change behind it, because index_lock is its own.          *)
(***************************************************************************)
EXTENDS IndexJobs, FiniteSetTheorems, TLAPS

(* The stages of a request before its run, and of the run itself.           *)
Starting == {"insert", "resolve", "spawn", "snapshot"}
Indexing == {"run", "switch", "commit"}

(* What the request found is still there, or the identity it reserved.      *)
IndexAsFound(r) ==
  /\ pc[r] \in Starting => index = start[r] /\ seen[r] = Unknown
  /\ pc[r] \in Indexing => index = start[r] \/ (start[r] = Absent /\ index = Reserved)

(* The pointer is switched before the commit, so a run that may call itself *)
(* successful left a whole index behind.                                    *)
IndexAsLeft(r) ==
  /\ pc[r] = "commit" => active = r
  /\ pc[r] = "published" => index = r /\ ~torn
  /\ pc[r] = "complete" => index \in {r, start[r]} \cap Requests /\ ~torn

(* The committed index it found is in service; or it found a reserved row,  *)
(* and neither store holds anything.                                        *)
NothingLost(r) ==
  \/ start[r] \in Requests /\ index = start[r] /\ ~torn
  \/ start[r] = Reserved /\ index \in Blank /\ active \in Blank

(* The snapshot and the verdict compared from it are not stale.             *)
VerdictHolds(r) ==
  /\ seen[r] \in {Unknown, start[r]} /\ seen[r] # Absent
  /\ pc[r] \in {"new", "lookup"} => seen[r] = Unknown
  /\ pc[r] = "record" /\ verdict[r] = "yes" => NothingLost(r)

RowAsWritten(r) ==
  /\ pc[r] \in {"new", "lookup", "insert"} => rows[r] = NoJob
  /\ pc[r] \in Indexing \cup {"resolve", "spawn", "snapshot", "published", "failing"}
       => rows[r] \in {NoJob, ActiveJob}
  /\ pc[r] = "complete" => rows[r] = ActiveJob
  /\ pc[r] \in {"assess", "record"} => rows[r] \in {ActiveJob, Completed}

Knows(r) == IndexAsFound(r) /\ IndexAsLeft(r) /\ VerdictHolds(r) /\ RowAsWritten(r)

DownIsIdle == ~up => \A r \in Requests : ~Holds(r)

JInv == TypeOK /\ OneRunAtATime /\ DownIsIdle /\ \A r \in Requests : Knows(r)

-----------------------------------------------------------------------------
(* One request moves at a time                                              *)

(* A step of a request or of the thread that serves it.                     *)
Step(r) == Refuse(r) \/ RequestStep(r) \/ ThreadStep(r)

(* It changes what belongs to that request and leaves the others alone.     *)
Moves(r) ==
  /\ pc'[r] \in Steps
  /\ \A q \in Requests \ {r} :
       /\ pc'[q] = pc[q] /\ rows'[q] = rows[q]
       /\ start'[q] = start[q] /\ seen'[q] = seen[q] /\ verdict'[q] = verdict[q]

(* Faults stay within their bound.                                          *)
LEMMA Suffering ==
  ASSUME faults \in 0..MaxFaults, NEW n \in Nat, Suffer(n)
  PROVE  faults' \in 0..MaxFaults
  BY RequestsAssumption DEF Suffer

(* Every step keeps the types.                                              *)
LEMMA StepTypes ==
  ASSUME NEW r \in Requests, Step(r), TypeOK
  PROVE  TypeOK'
<1> USE RequestsAssumption DEF TypeOK, Steps, Serving, Contents, JobRows,
   NoJob, ActiveJob, Completed, FailedWith
<1>1. CASE Refuse(r)
  BY <1>1 DEF Refuse, Goto, store, local
<1>2. CASE Acquire(r)
  BY <1>2 DEF Acquire, Goto, store, local
<1>3. CASE Lookup(r)
  BY <1>3 DEF Lookup, Goto, store
<1>4. CASE Insert(r)
  BY <1>4 DEF Insert, Goto, Write, store, local
<1>5. CASE Resolve(r)
  BY <1>5 DEF Resolve, Goto, store, local
<1>6. CASE Spawn(r)
  BY <1>6 DEF Spawn, Goto, store, local
<1>7. CASE Reject(r)
  <2>1. faults' \in 0..MaxFaults
    BY <1>7, Suffering DEF Reject
  <2>2. QED
    BY <1>7, <2>1 DEF Reject, Goto, store, local
<1>8. CASE Snapshot(r)
  <2>1. faults' \in 0..MaxFaults
    BY <1>8, Suffering DEF Snapshot
  <2>2. QED
    BY <1>8, <2>1 DEF Snapshot, Goto, store
<1>9. CASE SnapshotRaises(r)
  <2>1. faults' \in 0..MaxFaults
    BY <1>9, Suffering DEF SnapshotRaises
  <2>2. QED
    BY <1>9, <2>1 DEF SnapshotRaises, Goto, store, local
<1>10. CASE Reserve(r)
  BY <1>10 DEF Reserve, local
<1>11. CASE Unchanged(r)
  BY <1>11 DEF Unchanged, Goto, Answer, store, local
<1>12. CASE Begin(r)
  BY <1>12 DEF Begin, Goto, store, local
<1>13. CASE Switch(r)
  BY <1>13 DEF Switch, Goto, local
<1>14. CASE Publish(r)
  BY <1>14 DEF Publish, Goto, local
<1>15. CASE Rollback(r)
  <2>1. faults' \in 0..MaxFaults
    BY <1>15, Suffering DEF Rollback
  <2>2. QED
    BY <1>15, <2>1 DEF Rollback, Goto, local
<1>16. CASE FailPublished(r)
  <2>1. faults' \in 0..MaxFaults
    BY <1>16, Suffering DEF FailPublished
  <2>2. QED
    BY <1>16, <2>1 DEF FailPublished, Goto, local
<1>17. CASE Finish(r)
  BY <1>17 DEF Finish, Goto, Answer, store, local
<1>18. CASE Fail(r)
  <2>1. faults' \in 0..MaxFaults
    BY <1>18, Suffering DEF Fail
  <2>2. QED
    BY <1>18, <2>1 DEF Fail, Goto, Answer, store, local
<1>19. CASE FailAndForget(r)
  BY <1>19 DEF FailAndForget, Goto, Answer, local
<1>20. CASE Complete(r)
  BY <1>20 DEF Complete, Goto, Write, store, local
<1>21. CASE CompleteRaises(r)
  <2>1. faults' \in 0..MaxFaults
    BY <1>21, Suffering DEF CompleteRaises
  <2>2. QED
    BY <1>21, <2>1 DEF CompleteRaises, Goto, Write, store, local
<1>22. CASE Assess(r)
  <2>1. faults' \in 0..MaxFaults
    BY <1>22, Suffering DEF Assess
  <2>2. QED
    BY <1>22, <2>1 DEF Assess, Goto, store
<1>23. CASE AssessRaises(r)
  <2>1. faults' \in 0..MaxFaults
    BY <1>23, Suffering DEF AssessRaises
  <2>2. QED
    BY <1>23, <2>1 DEF AssessRaises, Goto, store, local
<1>24. CASE Record(r)
  BY <1>24 DEF Record, Goto, Write, store, local
<1>25. CASE RecordRaises(r)
  <2>1. faults' \in 0..MaxFaults
    BY <1>25, Suffering DEF RecordRaises
  <2>2. QED
    BY <1>25, <2>1 DEF RecordRaises, Goto, store, local
<1>26. CASE Release(r)
  BY <1>26 DEF Release, Goto, store, local
<1>27. CASE FailUnpointed(r)
  <2>1. faults' \in 0..MaxFaults
    BY <1>27, Suffering DEF FailUnpointed
  <2>2. QED
    BY <1>27, <2>1 DEF FailUnpointed, Goto, Answer, local
<1>28. QED
  BY <1>1, <1>2, <1>3, <1>4, <1>5, <1>6, <1>7, <1>8, <1>9, <1>10, <1>11,
     <1>12, <1>13, <1>14, <1>15, <1>16, <1>17, <1>18, <1>19, <1>20, <1>21,
     <1>22, <1>23, <1>24, <1>25, <1>26, <1>27 DEF Step, RequestStep, ThreadStep,
     RunStep

(* A step of a request moves only that request.                             *)
LEMMA StepMoves ==
  ASSUME NEW r \in Requests, Step(r), TypeOK
  PROVE  Moves(r)
<1> USE DEF Moves, TypeOK, Steps, Serving
<1>1. CASE Refuse(r)
  BY <1>1 DEF Refuse, Goto, store, local
<1>2. CASE Acquire(r)
  BY <1>2 DEF Acquire, Goto, store, local
<1>3. CASE Lookup(r)
  BY <1>3 DEF Lookup, Goto, store
<1>4. CASE Insert(r)
  BY <1>4 DEF Insert, Goto, Write, store, local
<1>5. CASE Resolve(r)
  BY <1>5 DEF Resolve, Goto, store, local
<1>6. CASE Spawn(r)
  BY <1>6 DEF Spawn, Goto, store, local
<1>7. CASE Reject(r)
  BY <1>7 DEF Reject, Goto, store, local
<1>8. CASE Snapshot(r)
  BY <1>8 DEF Snapshot, Goto, store
<1>9. CASE SnapshotRaises(r)
  BY <1>9 DEF SnapshotRaises, Goto, store, local
<1>10. CASE Reserve(r)
  BY <1>10 DEF Reserve, local
<1>11. CASE Unchanged(r)
  BY <1>11 DEF Unchanged, Goto, Answer, store, local
<1>12. CASE Begin(r)
  BY <1>12 DEF Begin, Goto, store, local
<1>13. CASE Switch(r)
  BY <1>13 DEF Switch, Goto, local
<1>14. CASE Publish(r)
  BY <1>14 DEF Publish, Goto, local
<1>15. CASE Rollback(r)
  BY <1>15 DEF Rollback, Goto, local
<1>16. CASE FailPublished(r)
  BY <1>16 DEF FailPublished, Goto, local
<1>17. CASE Finish(r)
  BY <1>17 DEF Finish, Goto, Answer, store, local
<1>18. CASE Fail(r)
  BY <1>18 DEF Fail, Goto, Answer, store, local
<1>19. CASE FailAndForget(r)
  BY <1>19 DEF FailAndForget, Goto, Answer, local
<1>20. CASE Complete(r)
  BY <1>20 DEF Complete, Goto, Write, store, local
<1>21. CASE CompleteRaises(r)
  BY <1>21 DEF CompleteRaises, Goto, Write, store, local
<1>22. CASE Assess(r)
  BY <1>22 DEF Assess, Goto, store
<1>23. CASE AssessRaises(r)
  BY <1>23 DEF AssessRaises, Goto, store, local
<1>24. CASE Record(r)
  BY <1>24 DEF Record, Goto, Write, store, local
<1>25. CASE RecordRaises(r)
  BY <1>25 DEF RecordRaises, Goto, store, local
<1>26. CASE Release(r)
  BY <1>26 DEF Release, Goto, store, local
<1>27. CASE FailUnpointed(r)
  BY <1>27 DEF FailUnpointed, Goto, Answer, local
<1>28. QED
  BY <1>1, <1>2, <1>3, <1>4, <1>5, <1>6, <1>7, <1>8, <1>9, <1>10, <1>11,
     <1>12, <1>13, <1>14, <1>15, <1>16, <1>17, <1>18, <1>19, <1>20, <1>21,
     <1>22, <1>23, <1>24, <1>25, <1>26, <1>27 DEF Step, RequestStep, ThreadStep,
     RunStep

(* The lock is taken when free and released by its holder only.             *)
LEMMA StepLocks ==
  ASSUME NEW r \in Requests, Step(r), TypeOK, OneRunAtATime
  PROVE  OneRunAtATime'
<1> USE DEF TypeOK, OneRunAtATime, Holds, IsServing, Serving
<1>1. CASE Refuse(r)
  BY <1>1 DEF Refuse, Goto
<1>2. CASE Acquire(r)
  BY <1>2 DEF Acquire, Goto
<1>3. CASE Lookup(r)
  BY <1>3 DEF Lookup, Goto
<1>4. CASE Insert(r)
  BY <1>4 DEF Insert, Goto
<1>5. CASE Resolve(r)
  BY <1>5 DEF Resolve, Goto
<1>6. CASE Spawn(r)
  BY <1>6 DEF Spawn, Goto
<1>7. CASE Reject(r)
  BY <1>7 DEF Reject, Goto
<1>8. CASE Snapshot(r)
  BY <1>8 DEF Snapshot, Goto
<1>9. CASE SnapshotRaises(r)
  BY <1>9 DEF SnapshotRaises, Goto
<1>10. CASE Reserve(r)
  BY <1>10 DEF Reserve
<1>11. CASE Unchanged(r)
  BY <1>11 DEF Unchanged, Goto, Answer
<1>12. CASE Begin(r)
  BY <1>12 DEF Begin, Goto
<1>13. CASE Switch(r)
  BY <1>13 DEF Switch, Goto
<1>14. CASE Publish(r)
  BY <1>14 DEF Publish, Goto
<1>15. CASE Rollback(r)
  BY <1>15 DEF Rollback, Goto
<1>16. CASE FailPublished(r)
  BY <1>16 DEF FailPublished, Goto
<1>17. CASE Finish(r)
  BY <1>17 DEF Finish, Goto, Answer
<1>18. CASE Fail(r)
  BY <1>18 DEF Fail, Goto, Answer
<1>19. CASE FailAndForget(r)
  BY <1>19 DEF FailAndForget, Goto, Answer
<1>20. CASE Complete(r)
  BY <1>20 DEF Complete, Goto
<1>21. CASE CompleteRaises(r)
  BY <1>21 DEF CompleteRaises, Goto
<1>22. CASE Assess(r)
  BY <1>22 DEF Assess, Goto
<1>23. CASE AssessRaises(r)
  BY <1>23 DEF AssessRaises, Goto
<1>24. CASE Record(r)
  BY <1>24 DEF Record, Goto
<1>25. CASE RecordRaises(r)
  BY <1>25 DEF RecordRaises, Goto
<1>26. CASE Release(r)
  BY <1>26 DEF Release, Goto
<1>27. CASE FailUnpointed(r)
  BY <1>27 DEF FailUnpointed, Goto, Answer
<1>28. QED
  BY <1>1, <1>2, <1>3, <1>4, <1>5, <1>6, <1>7, <1>8, <1>9, <1>10, <1>11,
     <1>12, <1>13, <1>14, <1>15, <1>16, <1>17, <1>18, <1>19, <1>20, <1>21,
     <1>22, <1>23, <1>24, <1>25, <1>26, <1>27 DEF Step, RequestStep, ThreadStep,
     RunStep

(* Only the thread that holds the lock touches the index.                   *)
LEMMA StepOwnsIndex ==
  ASSUME TypeOK, NEW r \in Requests, Step(r)
  PROVE  Holds(r) \/ UNCHANGED store
<1> USE DEF TypeOK, Holds, IsServing, Serving, Goto
<1>1. CASE Refuse(r)
  BY <1>1 DEF Refuse
<1>2. CASE Acquire(r)
  BY <1>2 DEF Acquire
<1>3. CASE Lookup(r) \/ Insert(r) \/ Resolve(r) \/ Spawn(r) \/ Reject(r)
  BY <1>3 DEF Lookup, Insert, Resolve, Spawn, Reject
<1>4. CASE RunStep(r)
  BY <1>4 DEF RunStep, Reserve, Unchanged, Begin, Switch, Publish, Rollback,
     FailPublished, Finish, Fail, FailUnpointed, FailAndForget
<1>5. CASE ThreadStep(r) /\ ~RunStep(r)
  BY <1>5 DEF ThreadStep, Snapshot, SnapshotRaises, Complete, CompleteRaises,
     Assess, AssessRaises, Record, RecordRaises, Release
<1>6. QED
  BY <1>1, <1>2, <1>3, <1>4, <1>5 DEF Step, RequestStep

(* What the serving thread knows survives its own steps,                    *)
LEMMA StepKnows ==
  ASSUME NEW r \in Requests, Step(r), TypeOK, Knows(r)
  PROVE  Knows(r)'
<1> USE RequestsAssumption DEF TypeOK, Knows, IndexAsFound, IndexAsLeft,
   VerdictHolds, RowAsWritten, Starting, Indexing, Contents, NoJob, ActiveJob,
   Completed, FailedWith, NothingLost, torn, Blank
<1>1. CASE Refuse(r)
  BY <1>1 DEF Refuse, Goto, store, local
<1>2. CASE Acquire(r)
  BY <1>2 DEF Acquire, Goto, store, local
<1>3. CASE Lookup(r)
  BY <1>3 DEF Lookup, Goto, store
<1>4. CASE Insert(r)
  BY <1>4 DEF Insert, Goto, Write, store, local
<1>5. CASE Resolve(r)
  BY <1>5 DEF Resolve, Goto, store, local
<1>6. CASE Spawn(r)
  BY <1>6 DEF Spawn, Goto, store, local
<1>7. CASE Reject(r)
  BY <1>7 DEF Reject, Goto, store, local
<1>8. CASE Snapshot(r)
  BY <1>8 DEF Snapshot, StoresAgree, Goto, store
<1>9. CASE SnapshotRaises(r)
  BY <1>9 DEF SnapshotRaises, Goto, store, local
<1>10. CASE Reserve(r)
  BY <1>10 DEF Reserve, local
<1>11. CASE Unchanged(r)
  BY <1>11 DEF Unchanged, Goto, Answer, store, local
<1>12. CASE Begin(r)
  BY <1>12 DEF Begin, Goto, store, local
<1>13. CASE Switch(r)
  BY <1>13 DEF Switch, Goto, local
<1>14. CASE Publish(r)
  BY <1>14 DEF Publish, Goto, local
<1>15. CASE Rollback(r)
  BY <1>15 DEF Rollback, Goto, local
<1>16. CASE FailPublished(r)
  BY <1>16 DEF FailPublished, Goto, local
<1>17. CASE Finish(r)
  BY <1>17 DEF Finish, Goto, Answer, store, local
<1>18. CASE Fail(r)
  BY <1>18 DEF Fail, Goto, Answer, store, local
<1>19. CASE FailAndForget(r)
  BY <1>19 DEF FailAndForget, Disposable, Goto, Answer, local
<1>20. CASE Complete(r)
  BY <1>20 DEF Complete, Goto, Write, store, local
<1>21. CASE CompleteRaises(r)
  BY <1>21 DEF CompleteRaises, Goto, Write, store, local
<1>22. CASE Assess(r)
  BY <1>22 DEF Assess, LooksPreserved, Goto, store
<1>23. CASE AssessRaises(r)
  BY <1>23 DEF AssessRaises, Goto, store, local
<1>24. CASE Record(r)
  BY <1>24 DEF Record, Goto, Write, store, local
<1>25. CASE RecordRaises(r)
  BY <1>25 DEF RecordRaises, Goto, store, local
<1>26. CASE Release(r)
  BY <1>26 DEF Release, Goto, store, local
<1>27. CASE FailUnpointed(r)
  BY <1>27 DEF FailUnpointed, Goto, Answer, local
<1>28. QED
  BY <1>1, <1>2, <1>3, <1>4, <1>5, <1>6, <1>7, <1>8, <1>9, <1>10, <1>11,
     <1>12, <1>13, <1>14, <1>15, <1>16, <1>17, <1>18, <1>19, <1>20, <1>21,
     <1>22, <1>23, <1>24, <1>25, <1>26, <1>27 DEF Step, RequestStep, ThreadStep,
     RunStep

(* and what the others know: none of them holds the lock.                   *)
LEMMA BystanderKnows ==
  ASSUME NEW r \in Requests, NEW q \in Requests \ {r},
         JInv, Moves(r), Holds(r) \/ UNCHANGED store
  PROVE  Knows(q)'
<1>1. CASE UNCHANGED store
  BY <1>1 DEF JInv, Knows, Moves, store, torn, IndexAsFound, IndexAsLeft,
     VerdictHolds, NothingLost, RowAsWritten
<1>2. CASE Holds(r)
  <2>1. pc[q] \in {"new", "over"}
    BY <1>2 DEF JInv, TypeOK, OneRunAtATime, Holds, IsServing, Steps
  <2>2. QED
    BY <2>1 DEF JInv, Knows, Moves, IndexAsFound, IndexAsLeft, VerdictHolds,
       RowAsWritten, Starting, Indexing
<1>3. QED
  BY <1>1, <1>2

(* The invariant holds at the start,                                        *)
LEMMA JInvInit == Init => JInv
<1> SUFFICES ASSUME Init PROVE JInv
  OBVIOUS
<1> USE RequestsAssumption DEF Init
<1>1. TypeOK
  <2>1. /\ pc \in [Requests -> Steps] /\ rows \in [Requests -> JobRows]
        /\ verdict \in [Requests -> {"null", "yes", "no"}]
    BY DEF Steps, JobRows, NoJob
  <2>2. /\ start \in [Requests -> Contents] /\ index \in Contents
        /\ seen \in [Requests -> Contents \cup {Unknown}]
    BY DEF Contents
  <2>3. faults \in 0..MaxFaults /\ crashes \in 0..MaxCrashes
    OBVIOUS
  <2>4. QED
    BY <2>1, <2>2, <2>3 DEF TypeOK
<1>2. OneRunAtATime /\ DownIsIdle
  BY DEF OneRunAtATime, DownIsIdle, Holds, IsServing, Serving
<1>3. ASSUME NEW r \in Requests PROVE Knows(r)
  BY DEF Knows, IndexAsFound, IndexAsLeft, VerdictHolds, RowAsWritten, Starting,
     Indexing
<1>4. QED
  BY <1>1, <1>2, <1>3 DEF JInv

(* after every step of a request,                                           *)
LEMMA JInvStep ==
  ASSUME JInv, NEW r \in Requests, Step(r)
  PROVE  JInv'
<1>1. TypeOK' /\ OneRunAtATime' /\ Knows(r)'
  BY StepTypes, StepLocks, StepKnows DEF JInv
<1>2. \A q \in Requests \ {r} : Knows(q)'
  BY StepMoves, StepOwnsIndex, BystanderKnows DEF JInv
<1>3. up /\ up'
  BY DEF Step, RequestStep, ThreadStep, RunStep, Goto, Refuse, Acquire, Lookup,
     Insert, Resolve, Spawn, Reject, Snapshot, SnapshotRaises, Reserve, Unchanged,
     Begin, Switch, Publish, Rollback, FailPublished, Finish, Fail, FailUnpointed,
     FailAndForget, Complete, CompleteRaises, Assess, AssessRaises, Record,
     RecordRaises, Release
<1>4. QED
  BY <1>1, <1>2, <1>3 DEF JInv, DownIsIdle

(* after a crash, which frees the lock and ends every thread,               *)
LEMMA JInvCrash == JInv /\ Crash => JInv'
<1> SUFFICES ASSUME JInv, Crash PROVE JInv'
  OBVIOUS
<1> USE DEF JInv, Crash, store, local
<1>1. /\ pc' \in [Requests -> {"new", "over"}]
      /\ \A r \in Requests : pc'[r] = "new" => pc[r] = "new"
  BY DEF TypeOK
<1>2. crashes' \in 0..MaxCrashes
  BY RequestsAssumption DEF TypeOK
<1>3. TypeOK'
  BY <1>1, <1>2 DEF TypeOK, Steps
<1>4. OneRunAtATime' /\ DownIsIdle'
  BY <1>1 DEF OneRunAtATime, DownIsIdle, Holds, IsServing, Serving
<1>5. ASSUME NEW r \in Requests PROVE Knows(r)'
  BY <1>1 DEF Knows, IndexAsFound, IndexAsLeft, VerdictHolds, RowAsWritten,
     Starting, Indexing
<1>6. QED
  BY <1>3, <1>4, <1>5

(* A new process has no thread at work on a row it interrupts.              *)
LEMMA JInvRestart == JInv /\ Restart => JInv'
<1> SUFFICES ASSUME JInv, Restart PROVE JInv'
  OBVIOUS
<1> USE DEF JInv, Restart, store, local
<1>1. TypeOK'
  BY DEF TypeOK, JobRows, FailedWith, ActiveJob
<1>2. OneRunAtATime' /\ DownIsIdle'
  BY DEF OneRunAtATime, DownIsIdle, Holds, IsServing
<1>3. ASSUME NEW r \in Requests PROVE Knows(r)'
  BY DEF Knows, TypeOK, DownIsIdle, Holds, IsServing, Serving, IndexAsFound,
     IndexAsLeft, VerdictHolds, RowAsWritten, Starting, Indexing, NoJob, ActiveJob
<1>4. QED
  BY <1>1, <1>2, <1>3

(* and after any step.                                                      *)
LEMMA JInvNext == JInv /\ [Next]_vars => JInv'
<1>1. JInv /\ UNCHANGED vars => JInv'
  BY DEF vars, store, torn, local, JInv, TypeOK, OneRunAtATime, DownIsIdle, Holds,
     IsServing, Knows, IndexAsFound, IndexAsLeft, VerdictHolds, NothingLost,
     RowAsWritten
<1>2. QED
  BY <1>1, JInvStep, JInvCrash, JInvRestart DEF Next, Step

(* The strengthened invariant holds in every reachable state.               *)
THEOREM JInvAlways == Spec => []JInv
<1>1. QED
  BY JInvInit, JInvNext, PTL DEF Spec

-----------------------------------------------------------------------------
(* The properties                                                           *)

(* Every variable keeps its type.                                           *)
THEOREM TypeCorrect == Spec => []TypeOK
<1>1. JInv => TypeOK
  BY DEF JInv
<1>2. QED
  BY <1>1, JInvAlways, PTL

(* index_lock admits one request, however it is handed over.                *)
THEOREM MutualExclusion == Spec => []OneRunAtATime
<1>1. JInv => OneRunAtATime
  BY DEF JInv
<1>2. QED
  BY <1>1, JInvAlways, PTL

(* The steps that write a job's row.                                        *)
LEMMA RowsWritten ==
  ASSUME [Next]_vars
  PROVE  \/ rows' = rows
         \/ Restart
         \/ \E r \in Requests : Insert(r) \/ Complete(r) \/ CompleteRaises(r) \/ Record(r)
  BY DEF vars, Next, RequestStep, ThreadStep, RunStep, Refuse, Acquire, Lookup,
     Resolve, Spawn, Reject, Snapshot, SnapshotRaises, Reserve, Unchanged, Begin,
     Switch, Publish, Rollback, FailPublished, Finish, Fail, FailUnpointed,
     FailAndForget, Assess,
     AssessRaises, RecordRaises, Release, Crash

(* previous_index_preserved is written true only if the committed index the *)
(* request found is in service, or if the request found a reserved row and  *)
(* still neither store holds anything.  That the row it found is still the  *)
(* one in place holds in the first case only: Assess compares generations   *)
(* only when the snapshot has one.                                          *)
THEOREM PreservedVerdict == Spec => PreservedIsTrue
<1> DEFINE A == \A r \in Requests :
                  rows'[r].preserved = "yes" /\ rows[r].preserved # "yes"
                    => \/ start[r] \in Requests /\ index' = start[r] /\ ~torn'
                       \/ start[r] = Reserved /\ index' \in Blank /\ active' \in Blank
<1>1. ASSUME JInv, [Next]_vars PROVE A
  <2> USE DEF JInv, TypeOK
  <2>1. CASE rows' = rows
    BY <2>1
  <2>2. CASE Restart
    BY <2>2 DEF Restart, FailedWith
  <2>3. ASSUME NEW q \in Requests, Insert(q) \/ Complete(q) \/ CompleteRaises(q) PROVE A
    BY <1>1, <2>3 DEF Insert, Complete, CompleteRaises, Write, ActiveJob, Completed
  <2>4. ASSUME NEW q \in Requests, Record(q) PROVE A
    BY <1>1, <2>4 DEF Record, Goto, Write, FailedWith, Knows, VerdictHolds, NothingLost,
       store, torn
  <2>5. QED
    BY <1>1, <2>1, <2>2, <2>3, <2>4, RowsWritten
<1>2. QED
  BY <1>1, JInvAlways, PTL DEF Spec, PreservedIsTrue

(* A job is never shown as completed without the index it reports.          *)
THEOREM CompletedServed == Spec => CompletedIsServed
<1> DEFINE A == \A r \in Requests :
                  rows'[r] = Completed /\ rows[r] # Completed
                    => index' \in {r, start[r]} \cap Requests /\ ~torn'
<1>1. ASSUME JInv, [Next]_vars PROVE A
  <2> USE DEF JInv, TypeOK
  <2>1. CASE rows' = rows
    BY <2>1
  <2>2. CASE Restart
    BY <2>2 DEF Restart, FailedWith, Completed
  <2>3. ASSUME NEW q \in Requests, Insert(q) \/ Record(q) PROVE A
    BY <1>1, <2>3 DEF Insert, Record, Write, ActiveJob, FailedWith, Completed
  <2>4. ASSUME NEW q \in Requests, Complete(q) \/ CompleteRaises(q) PROVE A
    BY <1>1, <2>4 DEF Complete, CompleteRaises, Goto, Write, Knows, IndexAsLeft, store, torn
  <2>5. QED
    BY <1>1, <2>1, <2>2, <2>3, <2>4, RowsWritten
<1>2. QED
  BY <1>1, JInvAlways, PTL DEF Spec, CompletedIsServed

(* A finished job stays as it is, except for its own thread's second        *)
(* thoughts while the lock is held.                                         *)
THEOREM FinishedSettle == Spec => FinishedJobsSettle
<1> DEFINE A == \A r \in Requests :
                  rows[r].state \in {"completed", "failed"} /\ rows'[r] # rows[r]
                    => rows[r] = Completed /\ pc[r] = "record" /\ lock'
<1>1. ASSUME JInv, [Next]_vars PROVE A
  <2> USE DEF JInv, TypeOK
  <2>1. CASE rows' = rows
    BY <2>1
  <2>2. CASE Restart
    BY <2>2 DEF Restart, ActiveJob
  <2>3. ASSUME NEW q \in Requests, Insert(q) \/ Complete(q) \/ CompleteRaises(q) PROVE A
    BY <1>1, <2>3 DEF Insert, Complete, CompleteRaises, Goto, Write, Knows, RowAsWritten,
       NoJob, ActiveJob
  <2>4. ASSUME NEW q \in Requests, Record(q) PROVE A
    <3>1. lock'
      BY <1>1, <2>4 DEF Record, Goto, OneRunAtATime, Holds, IsServing, Serving
    <3>2. QED
      BY <1>1, <2>4, <3>1 DEF Record, Goto, Write, Knows, RowAsWritten, ActiveJob, Completed
  <2>5. QED
    BY <1>1, <2>1, <2>2, <2>3, <2>4, RowsWritten
<1>2. QED
  BY <1>1, JInvAlways, PTL DEF Spec, FinishedJobsSettle

-----------------------------------------------------------------------------
(* Jobs that nobody works on                                                *)

(* An active row is lost for good once its thread can only release the lock *)
(* or has ended.  Orphans are lost, and a lost job is paid for by a fault   *)
(* already when it is lost, before its thread ends.                         *)
Lost     == {r \in Requests : rows[r] = ActiveJob /\ pc[r] \in {"release", "over", "dead"}}
LostPaid == up => Cardinality(Lost) <= faults

(* A step that loses a job suffers a fault.                                 *)
LEMMA StepLoses ==
  ASSUME JInv, NEW r \in Requests, Step(r)
  PROVE  \/ Lost' \subseteq Lost /\ faults' >= faults
         \/ Lost' \subseteq Lost \cup {r} /\ faults' >= faults + 1
<1>1. \A q \in Requests \ {r} : pc'[q] = pc[q] /\ rows'[q] = rows[q]
  BY StepMoves DEF JInv, Moves
<1>2. Lost' \subseteq Lost \cup {r}
  BY <1>1 DEF Lost
<1>3. faults \in Nat /\ faults' \in Nat
  BY StepTypes, RequestsAssumption DEF JInv, TypeOK
<1>4. \/ faults' = faults /\ (r \in Lost' => r \in Lost)
      \/ faults' >= faults + 1
  <2> USE <1>3 DEF Lost, JInv, TypeOK, Goto, Suffer, Knows, RowAsWritten, NoJob, ActiveJob
  <2>1. CASE Refuse(r) \/ RequestStep(r)
    BY <2>1 DEF Refuse, RequestStep, Acquire, Lookup, Insert, Resolve, Spawn, Reject
  <2>2. CASE Snapshot(r) \/ SnapshotRaises(r)
    BY <2>2 DEF Snapshot, SnapshotRaises
  <2>3. CASE RunStep(r)
    BY <2>3 DEF RunStep, Reserve, Unchanged, Begin, Switch, Publish, Rollback,
       FailPublished, Finish, Fail, FailUnpointed, FailAndForget, Answer, NoJob
  <2>4. CASE Complete(r) \/ Record(r)
    BY <2>4 DEF Complete, Record, Write, Completed, FailedWith
  <2>5. CASE CompleteRaises(r) \/ Assess(r) \/ AssessRaises(r) \/ RecordRaises(r)
    BY <2>5 DEF CompleteRaises, Assess, AssessRaises, RecordRaises
  <2>6. CASE Release(r)
    BY <2>6 DEF Release
  <2>7. QED
    BY <2>1, <2>2, <2>3, <2>4, <2>5, <2>6 DEF Step, ThreadStep
<1>5. QED
  BY <1>2, <1>3, <1>4

(* Lost jobs stay paid for: a restart even settles them all.                *)
LEMMA LostPaidNext == JInv /\ LostPaid /\ [Next]_vars => LostPaid'
<1> SUFFICES ASSUME JInv, LostPaid, [Next]_vars PROVE LostPaid'
  OBVIOUS
<1>1. IsFiniteSet(Lost) /\ Cardinality(Lost) \in Nat /\ faults \in Nat
  <2>1. Lost \in SUBSET Requests
    BY DEF Lost
  <2>2. IsFiniteSet(Lost)
    BY <2>1, RequestsAssumption, FS_Subset
  <2>3. QED
    BY <2>2, FS_CardinalityType, RequestsAssumption DEF JInv, TypeOK
<1>2. CASE UNCHANGED vars
  BY <1>2 DEF vars, LostPaid, Lost
<1>3. ASSUME NEW r \in Requests, Step(r) PROVE LostPaid'
  <2>1. up
    BY <1>3 DEF Step, RequestStep, ThreadStep, RunStep, Goto, Refuse, Acquire, Lookup,
       Insert, Resolve, Spawn, Reject, Snapshot, SnapshotRaises, Reserve, Unchanged,
       Begin, Switch, Publish, Rollback, FailPublished, Finish, Fail, FailUnpointed,
     FailAndForget, Complete, CompleteRaises, Assess, AssessRaises, Record,
     RecordRaises, Release
  <2>2. faults' \in Nat
    BY <1>3, StepTypes, RequestsAssumption DEF JInv, TypeOK
  <2>3. CASE Lost' \subseteq Lost /\ faults' >= faults
    <3>1. Cardinality(Lost') <= Cardinality(Lost) /\ Cardinality(Lost') \in Nat
      BY <1>1, <2>3, FS_Subset, FS_CardinalityType
    <3>2. QED
      BY <1>1, <2>1, <2>2, <2>3, <3>1 DEF LostPaid
  <2>4. CASE Lost' \subseteq Lost \cup {r} /\ faults' >= faults + 1
    <3>1. IsFiniteSet(Lost \cup {r}) /\ Cardinality(Lost \cup {r}) <= Cardinality(Lost) + 1
      BY <1>1, FS_AddElement
    <3>2. /\ Cardinality(Lost') <= Cardinality(Lost \cup {r})
          /\ Cardinality(Lost') \in Nat /\ Cardinality(Lost \cup {r}) \in Nat
      BY <2>4, <3>1, FS_Subset, FS_CardinalityType
    <3>3. QED
      BY <1>1, <2>1, <2>2, <2>4, <3>1, <3>2 DEF LostPaid
  <2>5. QED
    BY <1>3, <2>3, <2>4, StepLoses
<1>4. CASE Crash
  BY <1>4 DEF Crash, LostPaid
<1>5. CASE Restart
  <2>1. Lost' = {}
    BY <1>5 DEF Restart, Lost, FailedWith, ActiveJob, JInv, TypeOK
  <2>2. QED
    BY <1>1, <1>5, <2>1, FS_EmptySet DEF Restart, LostPaid
<1>6. QED
  BY <1>2, <1>3, <1>4, <1>5 DEF Next, Step

(* A client polls a job nobody works on only as often as a fault stopped a  *)
(* thread: no path of start_index_job or _run_index_job loses a row.        *)
THEOREM OrphansPaid == Spec => []OrphansAreFaults
<1>1. ASSUME Init PROVE LostPaid
  <2>1. Lost = {}
    BY <1>1 DEF Init, Lost
  <2>2. Cardinality(Lost) = 0 /\ faults = 0
    BY <1>1, <2>1, FS_EmptySet DEF Init
  <2>3. QED
    BY <2>2 DEF LostPaid
<1>2. JInv /\ LostPaid => OrphansAreFaults
  <2> SUFFICES ASSUME JInv, LostPaid, up PROVE OrphansAreFaults
    BY DEF OrphansAreFaults
  <2> DEFINE Orphans == {r \in Requests : rows[r] = ActiveJob /\ ~IsServing(r)}
  <2>1. Orphans \in SUBSET Lost
    BY DEF JInv, TypeOK, Steps, Serving, IsServing, Lost, Knows, RowAsWritten, NoJob, ActiveJob
  <2>2. Lost \in SUBSET Requests
    BY DEF Lost
  <2>3. IsFiniteSet(Lost) /\ IsFiniteSet(Orphans)
    BY <2>1, <2>2, RequestsAssumption, FS_Subset
  <2>4. Cardinality(Orphans) <= Cardinality(Lost)
    BY <2>1, <2>3, FS_Subset
  <2>5. Cardinality(Orphans) \in Nat /\ Cardinality(Lost) \in Nat /\ faults \in Nat
    BY <2>3, FS_CardinalityType, RequestsAssumption DEF JInv, TypeOK
  <2>6. QED
    BY <2>4, <2>5 DEF LostPaid, OrphansAreFaults
<1>3. QED
  BY <1>1, <1>2, LostPaidNext, JInvAlways, PTL DEF Spec

-----------------------------------------------------------------------------
(* IndexJobs implements AtomicIndex                                         *)

Committed == IF index \in Requests THEN index ELSE Absent
Busy      == \E r \in Requests : pc[r] \in Guarded

(* The guard is up exactly if the one request that holds the lock raised it.*)
LEMMA BusyIsOwn ==
  ASSUME JInv, NEW r \in Requests, Moves(r), Holds(r)
  PROVE  (Busy <=> pc[r] \in Guarded) /\ (Busy' <=> pc'[r] \in Guarded)
<1>1. \A q \in Requests \ {r} : pc[q] \notin Guarded /\ pc'[q] \notin Guarded
  BY DEF JInv, OneRunAtATime, Holds, IsServing, Serving, Guarded, Moves
<1>2. QED
  BY <1>1 DEF Busy

(* Before and after the guarded stages nothing a reader sees changes.       *)
LEMMA QuietStep ==
  ASSUME JInv, NEW r \in Requests, Moves(r),
         pc[r] \notin Guarded, pc'[r] \notin Guarded, UNCHANGED <<Committed, torn>>
  PROVE  UNCHANGED <<Committed, torn, Busy>>
<1>1. \A q \in Requests : (pc[q] \in Guarded) <=> (pc'[q] \in Guarded)
  BY DEF Moves
<1>2. QED
  BY <1>1 DEF Busy

(* Every step of a request is a step of AtomicIndex, or none.               *)
LEMMA StepIsAtomic ==
  ASSUME JInv, NEW r \in Requests, Step(r)
  PROVE  [Promise!Next]_<<Committed, torn, Busy>>
<1>0. Moves(r)
  BY StepMoves DEF JInv
<1> USE DEF JInv, TypeOK, Goto, torn
<1>1. CASE Begin(r)
  <2>1. pc[r] = "run" /\ pc'[r] = "switch" /\ UNCHANGED <<Committed, torn>>
    BY <1>1 DEF Begin, store, Committed
  <2>2. ~Busy /\ Busy'
    BY <1>0, <2>1, BusyIsOwn DEF Holds, IsServing, Serving, Guarded
  <2>3. QED
    BY <2>1, <2>2 DEF Promise!Next, Promise!Raise, Committed, Busy
<1>2. CASE Switch(r) \/ Rollback(r) \/ FailPublished(r)
  <2>1. pc[r] \in Guarded /\ pc'[r] \in Guarded /\ UNCHANGED Committed /\ torn' \in BOOLEAN
    <3>1. CASE Switch(r)
      BY <3>1 DEF Switch, Guarded, Committed
    <3>2. CASE Rollback(r)
      BY <3>2 DEF Rollback, Guarded, Committed
    <3>3. CASE FailPublished(r)
      BY <3>3 DEF FailPublished, Guarded, Committed
    <3>4. QED
      BY <1>2, <3>1, <3>2, <3>3
  <2>2. Busy /\ Busy'
    BY <2>1 DEF Busy
  <2>3. QED
    BY <2>1, <2>2 DEF Promise!Next, Promise!Disturb, Committed, Busy
<1>3. CASE Publish(r)
  <2>1. /\ pc[r] \in Guarded /\ pc'[r] \in Guarded
        /\ Committed' \in Requests /\ torn' = FALSE
    BY <1>3 DEF Publish, Knows, IndexAsLeft, Guarded, Committed
  <2>2. Busy /\ Busy'
    BY <2>1 DEF Busy
  <2>3. QED
    BY <2>1, <2>2 DEF Promise!Next, Promise!Publish, Committed, Busy
<1>4. CASE (pc[r] = "failing" /\ (Fail(r) \/ FailAndForget(r))) \/ Finish(r)
  <2>1. /\ pc[r] \in Guarded /\ pc'[r] \notin Guarded
        /\ UNCHANGED <<Committed, torn>>
    BY <1>4, RequestsAssumption DEF Fail, FailAndForget, Disposable, Finish, Answer,
       Guarded, store, Committed
  <2>2. Busy /\ ~Busy'
    BY <1>0, <2>1, BusyIsOwn DEF Holds, IsServing, Serving, Guarded
  <2>3. QED
    BY <2>1, <2>2 DEF Promise!Next, Promise!Lower, Committed, Busy
<1>5. CASE \/ pc[r] = "run" /\ (Fail(r) \/ FailAndForget(r))
           \/ FailUnpointed(r) \/ Reserve(r) \/ Unchanged(r)
  <2>1. pc[r] \notin Guarded /\ pc'[r] \notin Guarded /\ UNCHANGED <<Committed, torn>>
    BY <1>5, RequestsAssumption DEF Fail, FailUnpointed, FailAndForget, Disposable,
       Reserve, Unchanged, Answer, Guarded, store, Committed
  <2>2. QED
    BY <1>0, <2>1, QuietStep
<1>6. CASE Refuse(r) \/ RequestStep(r)
  <2>1. pc[r] \notin Guarded /\ pc'[r] \notin Guarded /\ UNCHANGED <<Committed, torn>>
    BY <1>6 DEF Refuse, RequestStep, Acquire, Lookup, Insert, Resolve, Spawn, Reject,
       Guarded, store, Committed
  <2>2. QED
    BY <1>0, <2>1, QuietStep
<1>7. CASE ThreadStep(r) /\ ~RunStep(r)
  <2>1. pc[r] \notin Guarded /\ pc'[r] \notin Guarded /\ UNCHANGED <<Committed, torn>>
    BY <1>7 DEF ThreadStep, Snapshot, SnapshotRaises, Complete, CompleteRaises, Assess,
       AssessRaises, Record, RecordRaises, Release, Guarded, store, Committed
  <2>2. QED
    BY <1>0, <2>1, QuietStep
<1>8. Fail(r) \/ FailAndForget(r) => pc[r] \in {"run", "failing"}
  BY DEF Fail, FailAndForget
<1>9. QED
  BY <1>1, <1>2, <1>3, <1>4, <1>5, <1>6, <1>7, <1>8 DEF Step, ThreadStep, RunStep

(* So is every step of the system.                                          *)
LEMMA NextIsAtomic ==
  ASSUME JInv, [Next]_vars
  PROVE  [Promise!Next]_<<Committed, torn, Busy>>
<1>1. CASE UNCHANGED vars
  BY <1>1 DEF vars, store, torn, Committed, Busy
<1>2. CASE Restart
  BY <1>2 DEF Restart, store, torn, Committed, Busy
<1>3. CASE Crash
  <2>1. UNCHANGED <<Committed, torn>> /\ ~Busy'
    BY <1>3, RequestsAssumption DEF JInv, TypeOK, Crash, torn, Committed, Busy, Guarded
  <2>2. CASE Busy
    BY <2>1, <2>2 DEF Promise!Next, Promise!Lower, Committed, Busy
  <2>3. CASE ~Busy
    BY <2>1, <2>3 DEF Busy
  <2>4. QED
    BY <2>2, <2>3
<1>4. QED
  BY <1>1, <1>2, <1>3, StepIsAtomic DEF Next, Step

(* Whatever requests, jobs and restarts do, the index changes only under    *)
(* the activation guard, and a change publishes a whole index.              *)
THEOREM JobsAreAtomic == Spec => IndexIsAtomic
<1>1. Init => Promise!Init
  BY RequestsAssumption DEF Init, torn, Promise!Init, Guarded
<1>2. JInv /\ [Next]_vars => [Promise!Next]_(Promise!vars)
  BY NextIsAtomic DEF Promise!vars, Committed, Busy
<1>3. QED
  BY <1>1, <1>2, JInvAlways, PTL DEF Spec, IndexIsAtomic, Promise!Spec

-----------------------------------------------------------------------------
(* A request ends, and with it its hold on the lock                         *)

(* The steps left to the threads that serve a request, at most.             *)
StepsLeft(r) ==
  CASE pc[r] = "new"       -> 16
    [] pc[r] = "lookup"    -> 15
    [] pc[r] = "insert"    -> 14
    [] pc[r] = "resolve"   -> 13
    [] pc[r] = "spawn"     -> 12
    [] pc[r] = "snapshot"  -> 11
    [] pc[r] = "run"       -> IF index = Absent THEN 10 ELSE 9
    [] pc[r] = "switch"    -> 8
    [] pc[r] = "commit"    -> 7
    [] pc[r] = "published" -> 6
    [] pc[r] = "failing"   -> 5
    [] pc[r] = "complete"  -> 4
    [] pc[r] = "assess"    -> 3
    [] pc[r] = "record"    -> 2
    [] pc[r] = "release"   -> 1
    [] OTHER               -> 0

(* Its own steps take some of them; no other step, crash or restart gives   *)
(* any back.                                                                *)
Advances ==
  \A r \in Requests :
    /\ StepsLeft(r) \in 0..16
    /\ Step(r) => StepsLeft(r)' < StepsLeft(r)
    /\ StepsLeft(r)' <= StepsLeft(r)

(* A step of a request's own leads to one nearer its end.                   *)
LEMMA StepAdvances ==
  ASSUME JInv, NEW r \in Requests, Step(r)
  PROVE  StepsLeft(r)' < StepsLeft(r)
<1> USE RequestsAssumption DEF JInv, TypeOK, Goto, StepsLeft
<1>1. CASE Refuse(r) \/ RequestStep(r)
  BY <1>1 DEF Refuse, RequestStep, Acquire, Lookup, Insert, Resolve, Spawn, Reject, store, local
<1>2. CASE Snapshot(r) \/ SnapshotRaises(r)
  BY <1>2 DEF Snapshot, SnapshotRaises, store, local
<1>3. CASE Reserve(r)
  BY <1>3 DEF Reserve
<1>4. CASE Unchanged(r) \/ Begin(r) \/ Switch(r) \/ Publish(r)
  BY <1>4 DEF Unchanged, Begin, Switch, Publish, Answer
<1>5. CASE Rollback(r) \/ FailPublished(r) \/ Finish(r)
  BY <1>5 DEF Rollback, FailPublished, Finish, Answer
<1>6. CASE Fail(r) \/ FailUnpointed(r) \/ FailAndForget(r)
  BY <1>6 DEF Fail, FailUnpointed, FailAndForget, Answer
<1>7. CASE \/ Complete(r) \/ CompleteRaises(r) \/ Assess(r) \/ AssessRaises(r)
           \/ Record(r) \/ RecordRaises(r) \/ Release(r)
  BY <1>7 DEF Complete, CompleteRaises, Assess, AssessRaises, Record, RecordRaises, Release
<1>. QED BY <1>1, <1>2, <1>3, <1>4, <1>5, <1>6, <1>7 DEF Step, ThreadStep, RunStep

(* A thread only runs in a live process, and does not end it.               *)
LEMMA StepKeepsUp ==
  ASSUME NEW r \in Requests, Step(r)
  PROVE  up /\ up'
BY DEF Step, RequestStep, ThreadStep, RunStep, Goto, Refuse, Acquire, Lookup,
   Insert, Resolve, Spawn, Reject, Snapshot, SnapshotRaises, Reserve, Unchanged,
   Begin, Switch, Publish, Rollback, FailPublished, Finish, Fail, FailUnpointed,
     FailAndForget, Complete, CompleteRaises, Assess, AssessRaises, Record,
     RecordRaises, Release

(* No two requests are in a run: what one does to the index costs no other  *)
(* a step.                                                                  *)
LEMMA BystanderAdvances ==
  ASSUME JInv, NEW r \in Requests, Step(r), NEW q \in Requests \ {r}
  PROVE  StepsLeft(q)' <= StepsLeft(q)
<1>1. pc'[q] = pc[q]
  BY StepMoves DEF Moves, JInv
<1>2. CASE pc[q] # "run"
  BY <1>1, <1>2 DEF StepsLeft
<1>3. CASE pc[q] = "run"
  <2>1. ~Holds(r)
    BY <1>3 DEF JInv, OneRunAtATime, Holds, IsServing, Serving
  <2>2. index' = index
    BY <2>1, StepOwnsIndex DEF JInv, store
  <2>. QED BY <1>1, <1>3, <2>2 DEF StepsLeft
<1>. QED BY <1>2, <1>3

(* A request and its job take at most sixteen steps, whatever fails, and no *)
(* other request, crash or restart lengthens them.                          *)
THEOREM RequestsAreShort == Spec => [][Advances]_vars
<1>1. ASSUME JInv, [Next]_vars PROVE [Advances]_vars
  <2>1. \A q \in Requests : StepsLeft(q) \in 0..16
    BY DEF StepsLeft
  <2>2. ASSUME NEW r \in Requests, Step(r), NEW q \in Requests
        PROVE  StepsLeft(q)' <= StepsLeft(q)
    <3>1. StepsLeft(q) \in Nat /\ StepsLeft(q)' \in Nat
      BY DEF StepsLeft
    <3>. QED BY <1>1, <2>2, <3>1, StepAdvances, BystanderAdvances
  <2>3. CASE Crash
    <3>1. \A q \in Requests : pc'[q] = IF pc[q] = "new" THEN "new" ELSE "over"
      BY <2>3 DEF Crash
    <3>2. \A q \in Requests : StepsLeft(q)' <= StepsLeft(q)
      BY <3>1 DEF StepsLeft
    <3>3. up /\ ~up'
      BY <2>3 DEF Crash
    <3>4. \A r \in Requests : Step(r) => up'
      BY StepKeepsUp
    <3>. QED BY <2>1, <3>2, <3>3, <3>4 DEF Advances
  <2>4. CASE Restart
    <3>1. pc' = pc /\ index' = index /\ ~up
      BY <2>4 DEF Restart, store
    <3>2. \A q \in Requests : StepsLeft(q)' <= StepsLeft(q)
      BY <3>1 DEF StepsLeft
    <3>3. \A r \in Requests : ~Step(r)
      BY <3>1, StepKeepsUp
    <3>. QED BY <2>1, <3>2, <3>3 DEF Advances
  <2>5. ASSUME NEW r \in Requests, Step(r)
        PROVE  Advances
    BY <1>1, <2>1, <2>2, <2>5, StepAdvances DEF Advances
  <2>. QED BY <1>1, <2>3, <2>4, <2>5 DEF Next, Step
<1>. QED BY <1>1, JInvAlways, PTL DEF Spec
====

---------------------- MODULE IndexActivationProofs ----------------------
(***************************************************************************)
(* Proofs about IndexActivation, for any repository contents, models,       *)
(* generations and numbers of faults, crashes and edits.  The properties    *)
(* are not inductive by themselves: IInv adds what the worker knows at each *)
(* of its steps about the pointer, the staging collection and the row.      *)
(***************************************************************************)
EXTENDS IndexActivation, FiniteSetTheorems, TLAPS

(* TypeOK, in two parts.                                                    *)
ControlTypes ==
  /\ guard \in BOOLEAN /\ pc \in Steps
  /\ mode \in {"full", "incremental"}
  /\ result \in {"none", "running", "indexed", "unchanged", "failed", "invalid", "crashed"}
  /\ faults \in 0..MaxFaults /\ crashes \in 0..MaxCrashes /\ edits \in 0..MaxEdits
  /\ broken \in SUBSET Causes

DataTypes ==
  /\ repo \in Snapshots /\ row \in Rows /\ job \in Jobs
  /\ colls \in [Gens -> Collections]
  /\ pointer \in Gens \cup {NoGen}
  /\ old \in Gens \cup {NoGen} /\ staged \in Gens \cup {NoGen}
  /\ handle \in Gens \cup {NoGen}

(* Past the base check a committed index is the active one.                 *)
Checked == {"prepare", "reserve", "open", "point", "stage", "fill", "recheck",
            "begin", "switch", "discard"}

InvGuard ==
  /\ pc \in PreActivation => ~guard
  /\ pc \in Activation => guard

InvJob ==
  /\ pc # "idle" => job.model \in Models
  /\ pc # "idle" => \/ row = job.found
                    \/ row.gen = NoGen /\ job.found.gen = NoGen
                    \/ row.gen # NoGen /\ row.chunks = job.scan

InvRow == row.gen # NoGen => row.exists

InvChecked == pc \in Checked /\ row.gen # NoGen => pointer = row.gen /\ IsLive(pointer)

InvReuse ==
  /\ pc \in {"reserve", "open", "point"} => mode = "full"
  /\ pc \in {"prepare", "stage", "fill"} /\ mode = "incremental" =>
       /\ row.gen # NoGen /\ handle = pointer
       /\ Ids(pointer) = row.chunks /\ colls[pointer].model = job.model

InvOpen ==
  pc \in {"stage", "fill", "recheck", "begin", "switch"} => handle = pointer /\ IsLive(pointer)

InvStaging ==
  pc \in {"fill", "recheck", "begin", "switch", "discard"} =>
    old = pointer /\ IsLive(old) /\ IsLive(staged) /\ staged # old

InvFilled ==
  pc \in {"recheck", "begin", "switch", "discard", "commit", "reread", "finalize", "verify"} =>
    IsLive(staged) /\ Ids(staged) = job.scan /\ colls[staged].model # NoModel

InvSwitched ==
  pc = "commit" =>
    /\ pointer = staged /\ handle = staged /\ staged # old /\ IsLive(old)
    /\ row.gen \in {NoGen, old}

InvCommitted ==
  pc \in {"reread", "finalize", "verify"} =>
    /\ row.gen = staged /\ pointer = staged /\ handle = staged /\ row.chunks = job.scan
    /\ pc = "reread" => staged # old /\ IsLive(old)

InvRollback ==
  pc = "rollback" =>
    /\ staged # old /\ IsLive(old) /\ IsLive(staged)
    /\ pointer \in {old, staged}
    /\ row.gen \in {NoGen, old, staged}
    /\ row.gen = staged => pointer = staged

InvDrop ==
  pc = "drop" =>
    /\ staged # old /\ IsLive(old) /\ staged \in Gens
    /\ pointer \in {old, staged}
    /\ row.gen \in {NoGen, old, staged}
    /\ broken = {} => pointer = old /\ row.gen # staged

InvFirst ==
  /\ pc \in {"point", "repoint"} => pointer = NoGen /\ IsLive(old) /\ Live = {old}
  /\ pc \in {"point", "repoint", "unlink", "forget"} => row.gen = NoGen
  /\ pc = "unlink" /\ broken = {} => Live = {}

InvAgree ==
  broken = {} /\ row.gen # NoGen /\ pc \notin {"commit", "rollback"} => pointer = row.gen

InvOpenable == broken = {} /\ pc \notin {"point", "repoint", "unlink"} => Openable

Knowledge ==
  /\ InvChecked /\ InvReuse /\ InvOpen /\ InvStaging /\ InvFilled
  /\ InvSwitched /\ InvCommitted /\ InvRollback /\ InvDrop /\ InvFirst

IInv ==
  /\ TypeOK
  /\ InvGuard /\ InvJob /\ InvRow
  /\ Knowledge
  /\ InvAgree /\ InvOpenable
  /\ CommittedIndexComplete /\ OneModelPerCollection

-----------------------------------------------------------------------------
(* Frames: what a step leaves alone keeps what was known about it.          *)

(* No collection written.                                                   *)
LEMMA CollsFrame ==
  ASSUME colls' = colls
  PROVE  /\ Live' = Live
         /\ OneModelPerCollection => OneModelPerCollection'
         /\ \A g \in Gens : Ids(g)' = Ids(g)
  BY DEF Live, OneModelPerCollection, Ids

(* A committed index stays complete if its collection is left alone.        *)
LEMMA CommittedFrame ==
  ASSUME CommittedIndexComplete, row' = row, broken \subseteq broken',
         row.gen # NoGen => colls'[row.gen] = colls[row.gen]
  PROVE  CommittedIndexComplete'
  BY DEF CommittedIndexComplete, Complete, IsLive, Ids

(* Deleting S: other collections are untouched, and one of S is gone or     *)
(* untouched.                                                               *)
LEMMA DeleteEffect ==
  ASSUME TypeOK, NEW S, NEW n \in {0, 1}, Delete(S, n)
  PROVE  /\ colls' \in [Gens -> Collections]
         /\ faults' \in 0..MaxFaults
         /\ \A g \in Gens : colls'[g] = colls[g] \/ (g \in S /\ colls'[g] = NoCollection)
<1>0. NoCollection \in Collections
  BY DEF NoCollection, Collections
<1>1. faults' \in 0..MaxFaults
  BY ConstantsAssumption DEF TypeOK, Delete, Suffer
<1>2. PICK D \in SUBSET S : colls' = Without(D)
  <2>1. CASE colls' = Without(S)
    BY <2>1
  <2>2. ASSUME NEW kept, colls' = Without(S \ kept) PROVE \E D \in SUBSET S : colls' = Without(D)
    BY <2>2
  <2>3. QED BY <2>1, <2>2 DEF Delete
<1>3. colls \in [Gens -> Collections]
  BY DEF TypeOK
<1>4. \A g \in Gens : colls'[g] = IF g \in D THEN NoCollection ELSE colls[g]
  BY <1>2 DEF Without
<1>5. colls' \in [Gens -> Collections]
  BY <1>0, <1>2, <1>3 DEF Without
<1>6. \A g \in Gens : colls'[g] = colls[g] \/ (g \in S /\ colls'[g] = NoCollection)
  BY <1>4
<1>7. QED BY <1>1, <1>5, <1>6

(* Deleting keeps one model per collection, and no collection appears.      *)
LEMMA DeleteKeeps ==
  ASSUME TypeOK, NEW S, NEW n \in {0, 1}, Delete(S, n)
  PROVE  /\ OneModelPerCollection => OneModelPerCollection'
         /\ Live' \subseteq Live
         /\ Live \ S \subseteq Live'
         /\ \A g \in Gens \ S : colls'[g] = colls[g] /\ Ids(g)' = Ids(g)
  BY DeleteEffect DEF OneModelPerCollection, NoCollection, Live, Ids

(* Faults stay within their bound.                                          *)
LEMMA Suffering ==
  ASSUME faults \in 0..MaxFaults, NEW n \in Nat, Suffer(n)
  PROVE  faults' \in 0..MaxFaults
  BY ConstantsAssumption DEF Suffer

(* Removing collections leaves collections.                                 *)
LEMMA WithoutType ==
  ASSUME colls \in [Gens -> Collections], NEW S
  PROVE  Without(S) \in [Gens -> Collections]
<1>1. NoCollection \in Collections
  BY DEF NoCollection, Collections
<1>2. QED
  BY <1>1 DEF Without

(* What StageFill stores: one vector for each version of the scan, of the   *)
(* run's model, copied or embedded.                                         *)
LEMMA CandidateVectors ==
  ASSUME IInv, pc = "fill"
  PROVE  /\ Candidate \in SUBSET (Versions \X Models)
         /\ {v[1] : v \in Candidate} = job.scan
         /\ \A v \in Candidate : v[2] = job.model
<1>1. job.scan \subseteq Versions /\ job.model \in Models
  BY DEF IInv, TypeOK, Jobs, InvJob
<1>2. CASE mode = "full"
  <2>1. Candidate = job.scan \X {job.model}
    BY <1>2 DEF Candidate
  <2>2. \A x \in job.scan : <<x, job.model>> \in Candidate
    BY <2>1
  <2>3. \A v \in Candidate : v \in Versions \X Models /\ v[2] = job.model /\ v[1] \in job.scan
    BY <1>1, <2>1
  <2>4. {v[1] : v \in Candidate} = job.scan
    <3>1. ASSUME NEW x \in job.scan PROVE x \in {v[1] : v \in Candidate}
      <4>1. <<x, job.model>> \in Candidate /\ <<x, job.model>>[1] = x
        BY <2>2
      <4>2. QED
        BY <4>1
    <3>2. QED
      BY <2>3, <3>1
  <2>5. QED
    BY <2>3, <2>4
<1>3. CASE mode # "full"
  <2> DEFINE reused == {v \in colls[handle].vectors : v[1] \in job.scan}
             added  == (job.scan \ row.chunks) \X {job.model}
  <2>1. Candidate = reused \cup added
    BY <1>3 DEF Candidate
  <2>2. /\ handle \in Gens /\ colls[handle] \in Collections
        /\ Ids(handle) = row.chunks /\ colls[handle].model = job.model
    BY <1>3 DEF IInv, TypeOK, Knowledge, InvReuse, InvOpen, IsLive
  <2>3. \A v \in reused : v \in Versions \X Models /\ v[2] = job.model /\ v[1] \in job.scan
    BY <2>2 DEF Collections, IInv, OneModelPerCollection
  <2>4. \A v \in added : v \in Versions \X Models /\ v[2] = job.model /\ v[1] \in job.scan
    BY <1>1
  <2>5. ASSUME NEW x \in job.scan PROVE \E v \in Candidate : v[1] = x
    <3>1. CASE x \in row.chunks
      BY <2>1, <2>2, <3>1 DEF Ids
    <3>2. CASE x \notin row.chunks
      <4>1. <<x, job.model>> \in added
        BY <3>2
      <4>2. QED
        BY <2>1, <4>1
    <3>3. QED
      BY <3>1, <3>2
  <2>6. QED
    BY <2>1, <2>3, <2>4, <2>5
<1>4. QED
  BY <1>2, <1>3

(* Staging leaves the committed index alone: the sweep of the inactive      *)
(* collections spares the active one, and the active one is the committed.  *)
LEMMA StagingKeepsCommitted ==
  ASSUME IInv, WorkerStages
  PROVE  /\ row' = row /\ pointer' = pointer /\ guard' = guard /\ broken' = broken
         /\ row.gen # NoGen => colls'[row.gen] = colls[row.gen]
<1> USE DEF IInv, TypeOK
<1>1. ASSUME NEW g \in Gens, StageCreate(g)
      PROVE  row.gen # NoGen => colls'[row.gen] = colls[row.gen]
  <2>1. pointer # g /\ (row.gen # NoGen => row.gen = pointer /\ pointer \in Gens)
    BY <1>1 DEF StageCreate, Goto, Fresh, Knowledge, InvChecked, Checked, IsLive
  <2>2. PICK S : pointer \notin S /\ colls' = [Without(S) EXCEPT ![g] = EmptyCollection]
    BY <1>1 DEF StageCreate
  <2>3. QED
    BY <2>1, <2>2 DEF Without
<1>2. CASE StageFill
  <2>1. pointer # staged /\ (row.gen # NoGen => row.gen = pointer /\ pointer \in Gens)
    BY <1>2 DEF StageFill, Goto, Knowledge, InvChecked, InvStaging, Checked, IsLive
  <2>2. QED
    BY <1>2, <2>1 DEF StageFill
<1>3. CASE StageFillFails \/ Discard
  <2>1. row.gen # NoGen => row.gen \in Gens \ {staged}
    BY <1>3 DEF StageFillFails, Discard, Goto, Knowledge, InvChecked, InvStaging, Checked, IsLive
  <2>2. QED
    BY <1>3, <2>1, DeleteKeeps DEF StageFillFails, Discard
<1>4. CASE StageFails \/ RecheckSame \/ RecheckChanged \/ RecheckFails
  BY <1>4 DEF StageFails, RecheckSame, RecheckChanged, RecheckFails, Fail, stores
<1>5. row' = row /\ pointer' = pointer /\ guard' = guard /\ broken' = broken
  BY DEF WorkerStages, StageCreate, StageFails, StageFill, StageFillFails, RecheckSame,
     RecheckChanged, RecheckFails, Discard, Fail, stores, locals
<1>6. QED
  BY <1>1, <1>2, <1>3, <1>4, <1>5 DEF WorkerStages

(* The commit publishes a complete collection under the active pointer.     *)
LEMMA CommitServes ==
  ASSUME IInv, Commit
  PROVE  Served'
<1> USE DEF IInv, TypeOK
<1>1. /\ IsLive(staged) /\ Ids(staged) = job.scan /\ colls[staged].model # NoModel
      /\ pointer = staged
  BY DEF Commit, Goto, Knowledge, InvFilled, InvSwitched
<1>2. /\ row'.gen = staged /\ row'.chunks = job.scan
      /\ colls' = colls /\ staged' = staged /\ pointer' = pointer
  BY DEF Commit, locals
<1>3. Ids(staged)' = job.scan
  BY <1>1, <1>2 DEF Ids
<1>4. Complete(row.gen)'
  BY <1>1, <1>2, <1>3 DEF Complete, IsLive, Ids
<1>5. QED
  BY <1>1, <1>2, <1>4, ConstantsAssumption DEF Served, IsLive

(* The steps that write a store or the guard; the others change neither.    *)
Writes ==
  \/ Reserve \/ (\E g \in Gens : CreateFirst(g)) \/ PointFirst \/ PointFirstFails
  \/ (\E g \in Gens : StageCreate(g)) \/ StageFill \/ StageFillFails \/ Discard
  \/ Begin \/ Switch \/ SwitchFails \/ Commit \/ Restore \/ Drop \/ Finalize
  \/ DiscardEmpty \/ Unlink \/ Forget \/ End

Quiet == UNCHANGED <<stores, guard>> /\ broken \subseteq broken'

(* Every step of the worker is one of them, or writes nothing.              *)
LEMMA WriteOrQuiet ==
  ASSUME Work
  PROVE  Writes \/ Quiet
<1> USE DEF Writes, Quiet, Fail, stores, locals
<1>1. CASE WorkerPrepares
  BY <1>1 DEF WorkerPrepares, BaseAbsent, BaseInvalid, BaseOutdated, BaseReused, NothingToDo,
     Prepare, Abandon, OpenExisting, OpenInvalid, OpenFails
<1>2. CASE WorkerStages
  BY <1>2 DEF WorkerStages, StageFails, RecheckSame, RecheckChanged, RecheckFails
<1>3. CASE WorkerActivates
  BY <1>3 DEF WorkerActivates, BeginFails, CommitFails, Reread, RereadFails, RestoreFails,
     Damage, Verify, FinalizeFails
<1>4. CASE WorkerCleans
  BY <1>4 DEF WorkerCleans, KeepProject, CleanupFails, UnlinkFails, Damage, ForgetFails
<1>5. QED
  BY <1>1, <1>2, <1>3, <1>4 DEF Work

(* Every step keeps the types.                                              *)
LEMMA StepControlTypes ==
  ASSUME IInv, Work
  PROVE  ControlTypes'
<1> USE ConstantsAssumption DEF IInv, TypeOK, ControlTypes, Steps,
   PreActivation, Activation, Causes
<1>1. CASE BaseAbsent
  BY <1>1 DEF BaseAbsent, Goto, stores, locals, env
<1>2. CASE BaseInvalid
  BY <1>2 DEF BaseInvalid, Goto, stores, locals, env
<1>3. CASE BaseOutdated
  BY <1>3 DEF BaseOutdated, Goto, stores, locals, env
<1>4. CASE BaseReused
  BY <1>4 DEF BaseReused, Goto, stores, locals, env
<1>5. CASE NothingToDo
  BY <1>5 DEF NothingToDo, Goto, stores, locals, env
<1>6. CASE Prepare
  BY <1>6 DEF Prepare, Goto, stores, locals, env
<1>7. CASE Abandon
  <2>1. faults' \in 0..MaxFaults
    BY <1>7, Suffering DEF Abandon, Fail
  <2>2. QED
    BY <1>7, <2>1 DEF Abandon, Fail, Goto, stores, locals, env
<1>8. CASE Reserve
  BY <1>8 DEF Reserve, Goto, locals, stores, env
<1>9. CASE OpenExisting
  BY <1>9 DEF OpenExisting, Goto, stores, locals, env
<1>10. CASE OpenInvalid
  BY <1>10 DEF OpenInvalid, Goto, stores, locals, env
<1>11. CASE OpenFails
  <2>1. faults' \in 0..MaxFaults
    BY <1>11, Suffering DEF OpenFails, Fail
  <2>2. QED
    BY <1>11, <2>1 DEF OpenFails, Fail, Goto, stores, locals, env
<1>12. ASSUME NEW g \in Gens, CreateFirst(g) PROVE ControlTypes'
  BY <1>12 DEF CreateFirst, Goto, env, stores, locals
<1>13. CASE PointFirst
  BY <1>13 DEF PointFirst, Goto, env, stores, locals
<1>14. CASE PointFirstFails
  <2>1. faults' \in 0..MaxFaults
    BY <1>14, DeleteEffect DEF PointFirstFails
  <2>2. QED
    BY <1>14, <2>1 DEF PointFirstFails, Goto, Damage, locals, stores, env
<1>15. ASSUME NEW g \in Gens, StageCreate(g) PROVE ControlTypes'
  <2>1. faults' \in 0..MaxFaults
    BY <1>15, Suffering DEF StageCreate
  <2>2. QED
    BY <1>15, <2>1 DEF StageCreate, Goto, env, stores, locals
<1>16. CASE StageFails
  <2>1. faults' \in 0..MaxFaults
    BY <1>16, Suffering DEF StageFails, Fail
  <2>2. QED
    BY <1>16, <2>1 DEF StageFails, Fail, Goto, AfterFailure, stores, locals,
       env
<1>17. CASE StageFill
  BY <1>17 DEF StageFill, Goto, locals, stores, env
<1>18. CASE StageFillFails
  <2>1. faults' \in 0..MaxFaults
    BY <1>18, DeleteEffect DEF StageFillFails
  <2>2. QED
    BY <1>18, <2>1 DEF StageFillFails, Goto, AfterFailure, env, stores, locals
<1>19. CASE RecheckSame
  BY <1>19 DEF RecheckSame, Goto, stores, locals, env
<1>20. CASE RecheckChanged
  BY <1>20 DEF RecheckChanged, Goto, stores, locals, env
<1>21. CASE RecheckFails
  <2>1. faults' \in 0..MaxFaults
    BY <1>21, Suffering DEF RecheckFails, Fail
  <2>2. QED
    BY <1>21, <2>1 DEF RecheckFails, Fail, Goto, stores, locals, env
<1>22. CASE Discard
  <2>1. faults' \in 0..MaxFaults
    BY <1>22, DeleteEffect DEF Discard
  <2>2. QED
    BY <1>22, <2>1 DEF Discard, Goto, AfterFailure, env, stores, locals
<1>23. CASE Begin
  BY <1>23 DEF Begin, Goto, stores, locals, env
<1>24. CASE BeginFails
  <2>1. faults' \in 0..MaxFaults
    BY <1>24, Suffering DEF BeginFails, Fail
  <2>2. QED
    BY <1>24, <2>1 DEF BeginFails, Fail, Goto, stores, locals, env
<1>25. CASE Switch
  BY <1>25 DEF Switch, Goto, env, stores, locals
<1>26. CASE SwitchFails
  <2>1. faults' \in 0..MaxFaults
    BY <1>26, Suffering DEF SwitchFails, Fail
  <2>2. QED
    BY <1>26, <2>1 DEF SwitchFails, Fail, Goto, locals, stores, env
<1>27. CASE Commit
  BY <1>27 DEF Commit, Goto, locals, stores, env
<1>28. CASE CommitFails
  <2>1. faults' \in 0..MaxFaults
    BY <1>28, Suffering DEF CommitFails, Fail
  <2>2. QED
    BY <1>28, <2>1 DEF CommitFails, Fail, Goto, stores, locals, env
<1>29. CASE Reread
  BY <1>29 DEF Reread, Goto, stores, locals, env
<1>30. CASE RereadFails
  <2>1. faults' \in 0..MaxFaults
    BY <1>30, Suffering DEF RereadFails, Fail
  <2>2. QED
    BY <1>30, <2>1 DEF RereadFails, Fail, Goto, stores, locals, env
<1>31. CASE Restore
  BY <1>31 DEF Restore, Goto, Damage, env, stores, locals
<1>32. CASE RestoreFails
  <2>1. faults' \in 0..MaxFaults
    BY <1>32, Suffering DEF RestoreFails, Fail
  <2>2. QED
    BY <1>32, <2>1 DEF RestoreFails, Fail, Goto, Damage, stores, locals, env
<1>33. CASE Drop
  <2>1. faults' \in 0..MaxFaults
    BY <1>33, DeleteEffect DEF Drop
  <2>2. QED
    BY <1>33, <2>1 DEF Drop, Goto, Damage, AfterFailure, locals, stores, env
<1>34. CASE Finalize
  <2>1. faults' \in 0..MaxFaults
    BY <1>34, DeleteEffect DEF Finalize
  <2>2. QED
    BY <1>34, <2>1 DEF Finalize, Goto, locals, stores, env
<1>35. CASE Verify
  BY <1>35 DEF Verify, Goto, stores, locals, env
<1>36. CASE FinalizeFails
  <2>1. faults' \in 0..MaxFaults
    BY <1>36, Suffering DEF FinalizeFails, Fail
  <2>2. QED
    BY <1>36, <2>1 DEF FinalizeFails, Fail, Goto, AfterFailure, stores,
       locals, env
<1>37. CASE KeepProject
  BY <1>37 DEF KeepProject, Goto, stores, locals, env
<1>38. CASE CleanupFails
  <2>1. faults' \in 0..MaxFaults
    BY <1>38, Suffering DEF CleanupFails
  <2>2. QED
    BY <1>38, <2>1 DEF CleanupFails, Goto, stores, locals, env
<1>39. CASE DiscardEmpty
  <2>1. faults' \in 0..MaxFaults
    BY <1>39, DeleteEffect DEF DiscardEmpty
  <2>2. QED
    BY <1>39, <2>1 DEF DiscardEmpty, Goto, Damage, locals, stores, env
<1>40. CASE Unlink
  BY <1>40 DEF Unlink, Goto, env, stores, locals
<1>41. CASE UnlinkFails
  <2>1. faults' \in 0..MaxFaults
    BY <1>41, Suffering DEF UnlinkFails, Fail
  <2>2. QED
    BY <1>41, <2>1 DEF UnlinkFails, Fail, Goto, Damage, stores, locals, env
<1>42. CASE Forget
  BY <1>42 DEF Forget, Goto, locals, stores, env
<1>43. CASE ForgetFails
  <2>1. faults' \in 0..MaxFaults
    BY <1>43, Suffering DEF ForgetFails, Fail
  <2>2. QED
    BY <1>43, <2>1 DEF ForgetFails, Fail, Goto, stores, locals, env
<1>44. CASE End
  BY <1>44 DEF End, Goto, stores, locals, env
<1>45. QED
  BY <1>1, <1>2, <1>3, <1>4, <1>5, <1>6, <1>7, <1>8, <1>9, <1>10, <1>11,
     <1>12, <1>13, <1>14, <1>15, <1>16, <1>17, <1>18, <1>19, <1>20, <1>21,
     <1>22, <1>23, <1>24, <1>25, <1>26, <1>27, <1>28, <1>29, <1>30, <1>31,
     <1>32, <1>33, <1>34, <1>35, <1>36, <1>37, <1>38, <1>39, <1>40, <1>41,
     <1>42, <1>43, <1>44 DEF Work, WorkerPrepares, WorkerStages,
     WorkerActivates, WorkerCleans

(* The stores and the run's variables keep theirs.                          *)
LEMMA StepDataTypes ==
  ASSUME IInv, Work
  PROVE  DataTypes'
<1> USE DEF IInv, TypeOK, DataTypes
<1>1. CASE BaseAbsent
  BY <1>1 DEF BaseAbsent, stores, locals, env
<1>2. CASE BaseInvalid
  BY <1>2 DEF BaseInvalid, stores, locals, env
<1>3. CASE BaseOutdated
  BY <1>3 DEF BaseOutdated, stores, locals, env
<1>4. CASE BaseReused
  BY <1>4 DEF BaseReused, stores, locals, env
<1>5. CASE NothingToDo
  BY <1>5 DEF NothingToDo, stores, locals, env
<1>6. CASE Prepare
  BY <1>6 DEF Prepare, stores, locals, env
<1>7. CASE Abandon
  BY <1>7 DEF Abandon, stores, locals, env
<1>8. CASE Reserve
  BY <1>8 DEF Reserve, locals, stores, env, Rows, Reserved
<1>9. CASE OpenExisting
  BY <1>9 DEF OpenExisting, stores, locals, env
<1>10. CASE OpenInvalid
  BY <1>10 DEF OpenInvalid, stores, locals, env
<1>11. CASE OpenFails
  BY <1>11 DEF OpenFails, stores, locals, env
<1>12. ASSUME NEW g \in Gens, CreateFirst(g) PROVE DataTypes'
  BY <1>12 DEF CreateFirst, env, stores, locals, Collections, Create,
     EmptyCollection
<1>13. CASE PointFirst
  BY <1>13 DEF PointFirst, env, stores, locals
<1>14. CASE PointFirstFails
  BY <1>14, DeleteEffect DEF PointFirstFails, locals, stores, env
<1>15. ASSUME NEW g \in Gens, StageCreate(g) PROVE DataTypes'
  <2>1. PICK S : colls' = [Without(S) EXCEPT ![g] = EmptyCollection]
    BY <1>15 DEF StageCreate
  <2>2. colls' \in [Gens -> Collections]
    BY <2>1, WithoutType DEF EmptyCollection, Collections
  <2>3. QED
    BY <1>15, <2>2 DEF StageCreate, env
<1>16. CASE StageFails
  BY <1>16 DEF StageFails, stores, locals, env
<1>17. CASE StageFill
  <2>1. Candidate \in SUBSET (Versions \X Models) /\ job.model \in Models
    BY <1>17, CandidateVectors DEF StageFill, Goto, Jobs, InvJob
  <2>2. colls' \in [Gens -> Collections]
    BY <1>17, <2>1 DEF StageFill, Collections
  <2>3. QED
    BY <1>17, <2>2 DEF StageFill, locals, env
<1>18. CASE StageFillFails
  BY <1>18, DeleteEffect DEF StageFillFails, env, stores, locals
<1>19. CASE RecheckSame
  BY <1>19 DEF RecheckSame, stores, locals, env
<1>20. CASE RecheckChanged
  BY <1>20 DEF RecheckChanged, stores, locals, env
<1>21. CASE RecheckFails
  BY <1>21 DEF RecheckFails, stores, locals, env
<1>22. CASE Discard
  BY <1>22, DeleteEffect DEF Discard, env, stores, locals
<1>23. CASE Begin
  BY <1>23 DEF Begin, stores, locals, env
<1>24. CASE BeginFails
  BY <1>24 DEF BeginFails, stores, locals, env
<1>25. CASE Switch
  BY <1>25 DEF Switch, env, stores, locals
<1>26. CASE SwitchFails
  BY <1>26 DEF SwitchFails, locals, stores, env
<1>27. CASE Commit
  BY <1>27 DEF Commit, locals, env, Rows, Jobs
<1>28. CASE CommitFails
  BY <1>28 DEF CommitFails, stores, locals, env
<1>29. CASE Reread
  BY <1>29 DEF Reread, stores, locals, env
<1>30. CASE RereadFails
  BY <1>30 DEF RereadFails, stores, locals, env
<1>31. CASE Restore
  BY <1>31 DEF Restore, env, stores, locals
<1>32. CASE RestoreFails
  BY <1>32 DEF RestoreFails, stores, locals, env
<1>33. CASE Drop
  BY <1>33, DeleteEffect DEF Drop, locals, stores, env
<1>34. CASE Finalize
  BY <1>34, DeleteEffect DEF Finalize, locals, stores, env
<1>35. CASE Verify
  BY <1>35 DEF Verify, stores, locals, env
<1>36. CASE FinalizeFails
  BY <1>36 DEF FinalizeFails, stores, locals, env
<1>37. CASE KeepProject
  BY <1>37 DEF KeepProject, stores, locals, env
<1>38. CASE CleanupFails
  BY <1>38 DEF CleanupFails, stores, locals, env
<1>39. CASE DiscardEmpty
  BY <1>39, DeleteEffect DEF DiscardEmpty, locals, stores, env
<1>40. CASE Unlink
  BY <1>40 DEF Unlink, env, stores, locals
<1>41. CASE UnlinkFails
  BY <1>41 DEF UnlinkFails, stores, locals, env
<1>42. CASE Forget
  BY <1>42 DEF Forget, locals, stores, env, Rows, NoRow, Reserved
<1>43. CASE ForgetFails
  BY <1>43 DEF ForgetFails, stores, locals, env
<1>44. CASE End
  BY <1>44 DEF End, stores, locals, env, Jobs, Rows, NoRow, IdleJob
<1>45. QED
  BY <1>1, <1>2, <1>3, <1>4, <1>5, <1>6, <1>7, <1>8, <1>9, <1>10, <1>11,
     <1>12, <1>13, <1>14, <1>15, <1>16, <1>17, <1>18, <1>19, <1>20, <1>21,
     <1>22, <1>23, <1>24, <1>25, <1>26, <1>27, <1>28, <1>29, <1>30, <1>31,
     <1>32, <1>33, <1>34, <1>35, <1>36, <1>37, <1>38, <1>39, <1>40, <1>41,
     <1>42, <1>43, <1>44 DEF Work, WorkerPrepares, WorkerStages,
     WorkerActivates, WorkerCleans

(* The guard, the job and the row.                                          *)
LEMMA StepControl ==
  ASSUME IInv, Work
  PROVE  InvGuard' /\ InvJob' /\ InvRow'
<1> USE DEF IInv, TypeOK, InvGuard, InvJob, InvRow, PreActivation, Activation
<1>1. CASE BaseAbsent
  BY <1>1 DEF BaseAbsent, Goto, stores, locals, env
<1>2. CASE BaseInvalid
  BY <1>2 DEF BaseInvalid, Goto, BaseAgrees, stores, locals, env
<1>3. CASE BaseOutdated
  BY <1>3 DEF BaseOutdated, Goto, BaseAgrees, BaseReusable, stores, locals,
     env
<1>4. CASE BaseReused
  BY <1>4 DEF BaseReused, Goto, BaseReusable, BaseAgrees, stores, locals, env
<1>5. CASE NothingToDo
  BY <1>5 DEF NothingToDo, Goto, stores, locals, env
<1>6. CASE Prepare
  BY <1>6 DEF Prepare, Goto, stores, locals, env
<1>7. CASE Abandon
  BY <1>7 DEF Abandon, Fail, Goto, stores, locals, env
<1>8. CASE Reserve
  BY <1>8 DEF Reserve, Goto, Reserved, locals, stores, env
<1>9. CASE OpenExisting
  BY <1>9 DEF OpenExisting, Goto, stores, locals, env
<1>10. CASE OpenInvalid
  BY <1>10 DEF OpenInvalid, Goto, stores, locals, env
<1>11. CASE OpenFails
  BY <1>11 DEF OpenFails, Fail, Goto, stores, locals, env
<1>12. ASSUME NEW g \in Gens, CreateFirst(g) PROVE InvGuard' /\ InvJob' /\ InvRow'
  BY <1>12 DEF CreateFirst, Goto, Fresh, Uncommitted, Reserved, FirstUse,
     Create, EmptyCollection, env, stores, locals
<1>13. CASE PointFirst
  BY <1>13 DEF PointFirst, Goto, env, stores, locals
<1>14. CASE PointFirstFails
  BY <1>14 DEF PointFirstFails, Goto, Damage, locals, stores, env
<1>15. ASSUME NEW g \in Gens, StageCreate(g) PROVE InvGuard' /\ InvJob' /\ InvRow'
  BY <1>15 DEF StageCreate, Goto, Fresh, EmptyCollection, env, stores, locals
<1>16. CASE StageFails
  BY <1>16 DEF StageFails, Fail, Goto, AfterFailure, stores, locals, env
<1>17. CASE StageFill
  BY <1>17 DEF StageFill, Goto, locals, stores, env
<1>18. CASE StageFillFails
  BY <1>18 DEF StageFillFails, Goto, AfterFailure, env, stores, locals
<1>19. CASE RecheckSame
  BY <1>19 DEF RecheckSame, Goto, stores, locals, env
<1>20. CASE RecheckChanged
  BY <1>20 DEF RecheckChanged, Goto, stores, locals, env
<1>21. CASE RecheckFails
  BY <1>21 DEF RecheckFails, Fail, Goto, stores, locals, env
<1>22. CASE Discard
  BY <1>22 DEF Discard, Goto, AfterFailure, env, stores, locals
<1>23. CASE Begin
  BY <1>23 DEF Begin, Goto, stores, locals, env
<1>24. CASE BeginFails
  BY <1>24 DEF BeginFails, Fail, Goto, stores, locals, env
<1>25. CASE Switch
  BY <1>25 DEF Switch, Goto, env, stores, locals
<1>26. CASE SwitchFails
  BY <1>26 DEF SwitchFails, Fail, Goto, locals, stores, env
<1>27. CASE Commit
  BY <1>27, ConstantsAssumption DEF Commit, Goto, locals, Knowledge, InvFilled, IsLive
<1>28. CASE CommitFails
  BY <1>28 DEF CommitFails, Fail, Goto, stores, locals, env
<1>29. CASE Reread
  BY <1>29 DEF Reread, Goto, stores, locals, env
<1>30. CASE RereadFails
  BY <1>30 DEF RereadFails, Fail, Goto, stores, locals, env
<1>31. CASE Restore
  BY <1>31 DEF Restore, Goto, Damage, env, stores, locals
<1>32. CASE RestoreFails
  BY <1>32 DEF RestoreFails, Fail, Goto, Damage, stores, locals, env
<1>33. CASE Drop
  BY <1>33 DEF Drop, Goto, Damage, AfterFailure, locals, stores, env
<1>34. CASE Finalize
  BY <1>34 DEF Finalize, Goto, locals, stores, env
<1>35. CASE Verify
  BY <1>35 DEF Verify, Goto, stores, locals, env
<1>36. CASE FinalizeFails
  BY <1>36 DEF FinalizeFails, Fail, Goto, AfterFailure, stores, locals, env
<1>37. CASE KeepProject
  BY <1>37 DEF KeepProject, Goto, Uncommitted, Reserved, FirstUse, stores,
     locals, env
<1>38. CASE CleanupFails
  BY <1>38 DEF CleanupFails, Goto, Uncommitted, Reserved, stores, locals, env
<1>39. CASE DiscardEmpty
  BY <1>39 DEF DiscardEmpty, Goto, Damage, Uncommitted, Reserved, locals,
     stores, env
<1>40. CASE Unlink
  BY <1>40 DEF Unlink, Goto, env, stores, locals
<1>41. CASE UnlinkFails
  BY <1>41 DEF UnlinkFails, Fail, Goto, Damage, stores, locals, env
<1>42. CASE Forget
  BY <1>42 DEF Forget, Goto, locals, NoRow, Knowledge, InvFirst
<1>43. CASE ForgetFails
  BY <1>43 DEF ForgetFails, Fail, Goto, stores, locals, env
<1>44. CASE End
  BY <1>44 DEF End, Goto, IdleJob, NoRow, Reserved, stores, locals, env
<1>45. QED
  BY <1>1, <1>2, <1>3, <1>4, <1>5, <1>6, <1>7, <1>8, <1>9, <1>10, <1>11,
     <1>12, <1>13, <1>14, <1>15, <1>16, <1>17, <1>18, <1>19, <1>20, <1>21,
     <1>22, <1>23, <1>24, <1>25, <1>26, <1>27, <1>28, <1>29, <1>30, <1>31,
     <1>32, <1>33, <1>34, <1>35, <1>36, <1>37, <1>38, <1>39, <1>40, <1>41,
     <1>42, <1>43, <1>44 DEF Work, WorkerPrepares, WorkerStages,
     WorkerActivates, WorkerCleans

(* What the worker knows at its next step.                                  *)
LEMMA StepKnows ==
  ASSUME IInv, Work
  PROVE  Knowledge'
<1> USE DEF IInv, TypeOK, IsLive, Knowledge, InvChecked, InvReuse, InvOpen,
   InvStaging, InvFilled, InvSwitched, InvCommitted, InvRollback, InvDrop,
   InvFirst, Checked
<1>1. CASE BaseAbsent
  BY <1>1, CollsFrame DEF BaseAbsent, Goto, stores, locals, env
<1>2. CASE BaseInvalid
  BY <1>2, CollsFrame DEF BaseInvalid, Goto, BaseAgrees, stores, locals, env
<1>3. CASE BaseOutdated
  BY <1>3, CollsFrame DEF BaseOutdated, Goto, BaseAgrees, BaseReusable,
     stores, locals, env
<1>4. CASE BaseReused
  BY <1>4, CollsFrame DEF BaseReused, Goto, BaseReusable, BaseAgrees, stores,
     locals, env
<1>5. CASE NothingToDo
  BY <1>5, CollsFrame DEF NothingToDo, Goto, stores, locals, env
<1>6. CASE Prepare
  BY <1>6, CollsFrame DEF Prepare, Goto, stores, locals, env
<1>7. CASE Abandon
  BY <1>7, CollsFrame DEF Abandon, Fail, Goto, stores, locals, env
<1>8. CASE Reserve
  BY <1>8, CollsFrame DEF Reserve, Goto, Reserved, locals, stores, env
<1>9. CASE OpenExisting
  BY <1>9, CollsFrame DEF OpenExisting, Goto, stores, locals, env
<1>10. CASE OpenInvalid
  BY <1>10, CollsFrame DEF OpenInvalid, Goto, stores, locals, env
<1>11. CASE OpenFails
  BY <1>11, CollsFrame DEF OpenFails, Fail, Goto, stores, locals, env
<1>12. ASSUME NEW g \in Gens, CreateFirst(g) PROVE Knowledge'
  <2>1. Live' = {g} /\ IsLive(g)' /\ old' = g /\ pointer' = NoGen
    BY <1>12 DEF CreateFirst, FirstUse, Create, EmptyCollection, Live
  <2>2. row' = row /\ row.gen = NoGen
    BY <1>12 DEF CreateFirst, Goto, FirstUse, Uncommitted, Reserved
  <2>3. pc' \in {"point", "repoint"} /\ (pc' = "point" => mode' = "full")
    BY <1>12 DEF CreateFirst, Goto
  <2>4. QED
    BY <2>1, <2>2, <2>3
<1>13. CASE PointFirst
  BY <1>13, CollsFrame DEF PointFirst, Goto, env, stores, locals
<1>14. CASE PointFirstFails
  BY <1>14, DeleteEffect, DeleteKeeps DEF PointFirstFails, Goto, Damage,
     locals, stores, env
<1>15. ASSUME NEW g \in Gens, StageCreate(g) PROVE Knowledge'
  <2>1. /\ pointer \in Gens /\ g # pointer /\ pointer \in Live
        /\ pc' = "fill" /\ old' = pointer /\ staged' = g
    BY <1>15 DEF StageCreate, Goto, Fresh, Live
  <2>2. PICK S : pointer \notin S /\ colls' = [Without(S) EXCEPT ![g] = EmptyCollection]
    BY <1>15 DEF StageCreate
  <2>3. colls'[pointer] = colls[pointer] /\ colls'[g] = EmptyCollection
    BY <2>1, <2>2 DEF Without
  <2>4. Ids(pointer)' = Ids(pointer)
    BY <1>15, <2>3 DEF StageCreate, Ids
  <2>5. IsLive(pointer)' /\ IsLive(g)' /\ UNCHANGED <<pointer, row, mode, handle, job>>
    BY <1>15, <2>1, <2>3 DEF StageCreate, EmptyCollection, Live
  <2>6. InvChecked' /\ InvOpen' /\ InvStaging'
    BY <1>15, <2>1, <2>5 DEF StageCreate, Goto
  <2>7. InvReuse'
    BY <1>15, <2>1, <2>3, <2>4, <2>5 DEF StageCreate, Goto
  <2>8. QED
    BY <2>1, <2>6, <2>7
<1>16. CASE StageFails
  BY <1>16, CollsFrame DEF StageFails, Fail, Goto, AfterFailure, stores,
     locals, env
<1>17. CASE StageFill
  <2>1. /\ staged \in Gens /\ pointer \in Gens /\ staged # pointer /\ pc' = "recheck"
        /\ colls'[pointer] = colls[pointer]
        /\ colls'[staged] = [live |-> TRUE, vectors |-> Candidate, model |-> job.model]
    BY <1>17 DEF StageFill, Goto
  <2>2. Ids(staged)' = job.scan /\ job.model # NoModel
    BY <1>17, <2>1, CandidateVectors, ConstantsAssumption DEF StageFill, Goto, locals, Ids, InvJob
  <2>3. InvChecked' /\ InvOpen' /\ InvStaging'
    BY <1>17, <2>1 DEF StageFill, Goto, locals
  <2>4. InvFilled'
    BY <1>17, <2>1, <2>2 DEF StageFill, locals
  <2>5. QED
    BY <2>1, <2>3, <2>4
<1>18. CASE StageFillFails
  BY <1>18, DeleteEffect, DeleteKeeps DEF StageFillFails, Goto, AfterFailure,
     env, stores, locals
<1>19. CASE RecheckSame
  BY <1>19, CollsFrame DEF RecheckSame, Goto, stores, locals, env
<1>20. CASE RecheckChanged
  BY <1>20, CollsFrame DEF RecheckChanged, Goto, stores, locals, env
<1>21. CASE RecheckFails
  BY <1>21, CollsFrame DEF RecheckFails, Fail, Goto, stores, locals, env
<1>22. CASE Discard
  BY <1>22, DeleteEffect, DeleteKeeps DEF Discard, Goto, AfterFailure, env,
     stores, locals
<1>23. CASE Begin
  BY <1>23, CollsFrame DEF Begin, Goto, stores, locals, env
<1>24. CASE BeginFails
  BY <1>24, CollsFrame DEF BeginFails, Fail, Goto, stores, locals, env
<1>25. CASE Switch
  BY <1>25, CollsFrame DEF Switch, Goto, env, stores, locals
<1>26. CASE SwitchFails
  <2>1. pc' = "rollback" /\ pointer' \in {old, staged}
    BY <1>26 DEF SwitchFails, Fail, Goto
  <2>2. /\ staged # old /\ IsLive(old)' /\ IsLive(staged)'
        /\ row.gen \in {NoGen, old}
    BY <1>26 DEF SwitchFails, Fail, Goto, locals
  <2>3. QED
    BY <1>26, <2>1, <2>2, ConstantsAssumption DEF SwitchFails, locals, IsLive
<1>27. CASE Commit
  BY <1>27, CollsFrame DEF Commit, Goto, locals, stores, env
<1>28. CASE CommitFails
  BY <1>28, CollsFrame DEF CommitFails, Fail, Goto, stores, locals, env
<1>29. CASE Reread
  BY <1>29, CollsFrame DEF Reread, Goto, stores, locals, env
<1>30. CASE RereadFails
  BY <1>30, CollsFrame DEF RereadFails, Fail, Goto, stores, locals, env
<1>31. CASE Restore
  BY <1>31, CollsFrame DEF Restore, Goto, Damage, env, stores, locals
<1>32. CASE RestoreFails
  BY <1>32, CollsFrame DEF RestoreFails, Fail, Goto, Damage, stores, locals,
     env
<1>33. CASE Drop
  BY <1>33, DeleteEffect, DeleteKeeps DEF Drop, Goto, Damage, AfterFailure,
     locals, stores, env
<1>34. CASE Finalize
  <2>1. Delete(Live \ {pointer}, 0) /\ staged = pointer /\ staged \in Gens
        /\ staged' = staged
    BY <1>34 DEF Finalize, Goto, locals
  <2>2. colls'[staged] = colls[staged] /\ Ids(staged)' = Ids(staged)
    BY <2>1, DeleteKeeps
  <2>3. QED
    BY <1>34, <2>1, <2>2 DEF Finalize, Goto, locals
<1>35. CASE Verify
  BY <1>35, CollsFrame DEF Verify, Goto, stores, locals, env
<1>36. CASE FinalizeFails
  BY <1>36, CollsFrame DEF FinalizeFails, Fail, Goto, AfterFailure, stores,
     locals, env
<1>37. CASE KeepProject
  BY <1>37, CollsFrame DEF KeepProject, Goto, Uncommitted, Reserved, FirstUse,
     stores, locals, env
<1>38. CASE CleanupFails
  BY <1>38, CollsFrame DEF CleanupFails, Goto, Uncommitted, Reserved, stores,
     locals, env
<1>39. CASE DiscardEmpty
  <2>1. row.gen = NoGen /\ pc' = "unlink"
    BY <1>39 DEF DiscardEmpty, Goto, Uncommitted, Reserved
  <2>2. ASSUME broken' = {} PROVE Live' = {}
    <3>0. faults \in Nat
      BY ConstantsAssumption
    <3>1. ~(faults' > faults)
      BY <1>39, <2>2 DEF DiscardEmpty, Damage
    <3>2. Delete(Live, 0)
      BY <1>39 DEF DiscardEmpty
    <3>3. colls' = Without(Live)
      BY <3>0, <3>1, <3>2 DEF Delete, Suffer
    <3>4. QED
      BY <3>3 DEF Without, Live, NoCollection
  <2>3. QED
    BY <1>39, <2>1, <2>2 DEF DiscardEmpty
<1>40. CASE Unlink
  BY <1>40, CollsFrame DEF Unlink, Goto, env, stores, locals
<1>41. CASE UnlinkFails
  BY <1>41, CollsFrame DEF UnlinkFails, Fail, Goto, Damage, stores, locals,
     env
<1>42. CASE Forget
  BY <1>42, CollsFrame DEF Forget, Goto, NoRow, Reserved, locals, stores, env
<1>43. CASE ForgetFails
  BY <1>43, CollsFrame DEF ForgetFails, Fail, Goto, stores, locals, env
<1>44. CASE End
  BY <1>44, CollsFrame DEF End, Goto, IdleJob, NoRow, Reserved, stores,
     locals, env
<1>45. QED
  BY <1>1, <1>2, <1>3, <1>4, <1>5, <1>6, <1>7, <1>8, <1>9, <1>10, <1>11,
     <1>12, <1>13, <1>14, <1>15, <1>16, <1>17, <1>18, <1>19, <1>20, <1>21,
     <1>22, <1>23, <1>24, <1>25, <1>26, <1>27, <1>28, <1>29, <1>30, <1>31,
     <1>32, <1>33, <1>34, <1>35, <1>36, <1>37, <1>38, <1>39, <1>40, <1>41,
     <1>42, <1>43, <1>44 DEF Work, WorkerPrepares, WorkerStages,
     WorkerActivates, WorkerCleans

(* The stores agree and the index opens, once the step is past.             *)
LEMMA StepAgrees ==
  ASSUME IInv, Work
  PROVE  InvAgree' /\ InvOpenable'
<1> USE DEF IInv, TypeOK, InvAgree, InvOpenable, Openable, IsLive
<1>1. CASE BaseAbsent
  BY <1>1, CollsFrame DEF BaseAbsent, Goto, stores, locals, env
<1>2. CASE BaseInvalid
  BY <1>2, CollsFrame DEF BaseInvalid, Goto, BaseAgrees, stores, locals, env
<1>3. CASE BaseOutdated
  BY <1>3, CollsFrame DEF BaseOutdated, Goto, BaseAgrees, BaseReusable,
     stores, locals, env
<1>4. CASE BaseReused
  BY <1>4, CollsFrame DEF BaseReused, Goto, BaseReusable, BaseAgrees, stores,
     locals, env
<1>5. CASE NothingToDo
  BY <1>5, CollsFrame DEF NothingToDo, Goto, stores, locals, env
<1>6. CASE Prepare
  BY <1>6, CollsFrame DEF Prepare, Goto, stores, locals, env
<1>7. CASE Abandon
  BY <1>7, CollsFrame DEF Abandon, Fail, Goto, stores, locals, env
<1>8. CASE Reserve
  BY <1>8, CollsFrame DEF Reserve, Goto, Reserved, locals, stores, env
<1>9. CASE OpenExisting
  BY <1>9, CollsFrame DEF OpenExisting, Goto, stores, locals, env
<1>10. CASE OpenInvalid
  BY <1>10, CollsFrame DEF OpenInvalid, Goto, stores, locals, env
<1>11. CASE OpenFails
  BY <1>11, CollsFrame DEF OpenFails, Fail, Goto, stores, locals, env
<1>12. ASSUME NEW g \in Gens, CreateFirst(g) PROVE InvAgree' /\ InvOpenable'
  BY <1>12, CollsFrame DEF CreateFirst, Goto, Fresh, Uncommitted, Reserved,
     FirstUse, Create, EmptyCollection, env, stores, locals
<1>13. CASE PointFirst
  BY <1>13, CollsFrame, ConstantsAssumption DEF PointFirst, Goto, Knowledge, InvFirst
<1>14. CASE PointFirstFails
  <2>1. row.gen = NoGen /\ row' = row /\ pointer' = NoGen /\ Live = {old} /\ Delete({old}, 1)
    BY <1>14 DEF PointFirstFails, Goto, locals, Knowledge, InvFirst
  <2>2. ASSUME broken' = {} PROVE Live' = {}
    <3>0. faults \in Nat
      BY ConstantsAssumption
    <3>1. ~(faults' > faults + 1)
      BY <1>14, <2>2 DEF PointFirstFails, Damage
    <3>2. colls' = Without({old})
      BY <2>1, <3>0, <3>1 DEF Delete, Suffer
    <3>3. QED
      BY <2>1, <3>2 DEF Without, Live, NoCollection
  <2>3. QED
    BY <2>1, <2>2
<1>15. ASSUME NEW g \in Gens, StageCreate(g) PROVE InvAgree' /\ InvOpenable'
  <2>1. /\ pc = "stage" /\ pointer' = pointer /\ row' = row /\ broken' = broken
        /\ IsLive(pointer) /\ pointer # g
    BY <1>15 DEF StageCreate, Goto, Fresh, Knowledge, InvOpen
  <2>2. PICK S : pointer \notin S /\ colls' = [Without(S) EXCEPT ![g] = EmptyCollection]
    BY <1>15 DEF StageCreate
  <2>3. colls'[pointer] = colls[pointer]
    BY <2>1, <2>2 DEF Without
  <2>4. QED
    BY <2>1, <2>3, ConstantsAssumption DEF Knowledge, InvChecked, Checked
<1>16. CASE StageFails
  BY <1>16, CollsFrame DEF StageFails, Fail, Goto, AfterFailure, stores,
     locals, env
<1>17. CASE StageFill
  <2>1. /\ pc = "fill" /\ pointer' = pointer /\ row' = row /\ broken' = broken
        /\ IsLive(pointer) /\ pointer # staged /\ colls'[pointer] = colls[pointer]
    BY <1>17 DEF StageFill, Goto, locals, Knowledge, InvOpen, InvStaging
  <2>2. QED
    BY <2>1, ConstantsAssumption DEF Knowledge, InvChecked, Checked
<1>18. CASE StageFillFails
  <2>1. /\ pc = "fill" /\ pointer' = pointer /\ row' = row /\ broken' = broken
        /\ IsLive(pointer) /\ pointer # staged /\ Delete({staged}, 1)
    BY <1>18 DEF StageFillFails, Goto, Knowledge, InvOpen, InvStaging
  <2>2. colls'[pointer] = colls[pointer]
    BY <2>1, DeleteKeeps
  <2>3. QED
    BY <2>1, <2>2, ConstantsAssumption DEF Knowledge, InvChecked, Checked
<1>19. CASE RecheckSame
  BY <1>19, CollsFrame DEF RecheckSame, Goto, stores, locals, env
<1>20. CASE RecheckChanged
  BY <1>20, CollsFrame DEF RecheckChanged, Goto, stores, locals, env
<1>21. CASE RecheckFails
  BY <1>21, CollsFrame DEF RecheckFails, Fail, Goto, stores, locals, env
<1>22. CASE Discard
  BY <1>22, DeleteEffect, DeleteKeeps DEF Discard, Goto, AfterFailure, env,
     stores, locals
<1>23. CASE Begin
  BY <1>23, CollsFrame DEF Begin, Goto, stores, locals, env
<1>24. CASE BeginFails
  BY <1>24, CollsFrame DEF BeginFails, Fail, Goto, stores, locals, env
<1>25. CASE Switch
  BY <1>25, CollsFrame, ConstantsAssumption DEF Switch, Goto, Knowledge, InvStaging
<1>26. CASE SwitchFails
  BY <1>26, CollsFrame, ConstantsAssumption DEF SwitchFails, Fail, Goto, locals, Knowledge,
     InvStaging
<1>27. CASE Commit
  BY <1>27, CollsFrame, ConstantsAssumption DEF Commit, Goto, locals, Knowledge, InvSwitched,
     InvFilled
<1>28. CASE CommitFails
  BY <1>28, CollsFrame DEF CommitFails, Fail, Goto, stores, locals, env
<1>29. CASE Reread
  BY <1>29, CollsFrame DEF Reread, Goto, stores, locals, env
<1>30. CASE RereadFails
  BY <1>30, CollsFrame DEF RereadFails, Fail, Goto, stores, locals, env
<1>31. CASE Restore
  BY <1>31, CollsFrame, ConstantsAssumption DEF Restore, Goto, Damage, Knowledge, InvRollback
<1>32. CASE RestoreFails
  BY <1>32, CollsFrame, ConstantsAssumption DEF RestoreFails, Fail, Goto, Damage, stores,
     locals, Knowledge,
     InvRollback
<1>33. CASE Drop
  <2>1. /\ pc = "drop" /\ pointer' = pointer /\ row' = row /\ broken \subseteq broken'
        /\ IsLive(old) /\ staged # old /\ Delete({staged}, 0)
        /\ row.gen \in {NoGen, old, staged}
        /\ broken = {} => pointer = old /\ row.gen # staged
    BY <1>33 DEF Drop, Goto, Damage, Knowledge, InvDrop
  <2>2. colls'[old] = colls[old]
    BY <2>1, DeleteKeeps
  <2>3. QED
    BY <2>1, <2>2, ConstantsAssumption
<1>34. CASE Finalize
  BY <1>34, DeleteEffect, DeleteKeeps DEF Finalize, Goto, locals, stores, env
<1>35. CASE Verify
  BY <1>35, CollsFrame DEF Verify, Goto, stores, locals, env
<1>36. CASE FinalizeFails
  BY <1>36, CollsFrame DEF FinalizeFails, Fail, Goto, AfterFailure, stores,
     locals, env
<1>37. CASE KeepProject
  BY <1>37, CollsFrame DEF KeepProject, Goto, Uncommitted, Reserved, FirstUse,
     stores, locals, env
<1>38. CASE CleanupFails
  BY <1>38, CollsFrame DEF CleanupFails, Goto, Uncommitted, Reserved, stores,
     locals, env
<1>39. CASE DiscardEmpty
  BY <1>39, DeleteEffect, DeleteKeeps DEF DiscardEmpty, Goto, Damage,
     Uncommitted, Reserved, locals, stores, env
<1>40. CASE Unlink
  BY <1>40, CollsFrame DEF Unlink, Goto, Knowledge, InvFirst
<1>41. CASE UnlinkFails
  BY <1>41, CollsFrame DEF UnlinkFails, Fail, Goto, Damage, stores, locals,
     env
<1>42. CASE Forget
  BY <1>42, CollsFrame DEF Forget, Goto, NoRow, Reserved, locals, stores, env
<1>43. CASE ForgetFails
  BY <1>43, CollsFrame DEF ForgetFails, Fail, Goto, stores, locals, env
<1>44. CASE End
  BY <1>44, CollsFrame DEF End, Goto, IdleJob, NoRow, Reserved, stores,
     locals, env
<1>45. QED
  BY <1>1, <1>2, <1>3, <1>4, <1>5, <1>6, <1>7, <1>8, <1>9, <1>10, <1>11,
     <1>12, <1>13, <1>14, <1>15, <1>16, <1>17, <1>18, <1>19, <1>20, <1>21,
     <1>22, <1>23, <1>24, <1>25, <1>26, <1>27, <1>28, <1>29, <1>30, <1>31,
     <1>32, <1>33, <1>34, <1>35, <1>36, <1>37, <1>38, <1>39, <1>40, <1>41,
     <1>42, <1>43, <1>44 DEF Work, WorkerPrepares, WorkerStages,
     WorkerActivates, WorkerCleans

(* The committed index is complete.                                         *)
LEMMA StepCompletes ==
  ASSUME IInv, Work
  PROVE  CommittedIndexComplete'
<1> USE DEF IInv
<1>1. CASE Quiet
  BY <1>1, CommittedFrame DEF Quiet, stores
<1>2. CASE Reserve
  <2>1. CASE row.exists
    BY <1>2, <2>1, CommittedFrame DEF Reserve, locals
  <2>2. CASE ~row.exists
    BY <1>2, <2>2 DEF Reserve, Reserved, CommittedIndexComplete
  <2>3. QED
    BY <2>1, <2>2
<1>3. ASSUME NEW g \in Gens, CreateFirst(g) PROVE CommittedIndexComplete'
  BY <1>3, CommittedFrame DEF CreateFirst, Goto, Fresh, Uncommitted, Reserved,
     FirstUse, Create, EmptyCollection, env, stores, locals
<1>4. CASE PointFirst
  BY <1>4, CommittedFrame DEF PointFirst, Goto, env, stores, locals
<1>5. CASE PointFirstFails
  <2>1. /\ row' = row /\ broken \subseteq broken' /\ Delete({old}, 1)
        /\ row.gen = NoGen
    BY <1>5 DEF PointFirstFails, Goto, Damage, locals, Knowledge, InvFirst
  <2>2. row.gen # NoGen => colls'[row.gen] = colls[row.gen]
    BY <2>1, DeleteKeeps, ConstantsAssumption DEF IsLive, InvDrop
  <2>3. QED
    BY <2>1, <2>2, CommittedFrame
<1>6. ASSUME NEW g \in Gens, StageCreate(g) PROVE CommittedIndexComplete'
  BY <1>6, StagingKeepsCommitted, CommittedFrame DEF WorkerStages
<1>7. CASE StageFill
  BY <1>7, StagingKeepsCommitted, CommittedFrame DEF WorkerStages
<1>8. CASE StageFillFails
  BY <1>8, StagingKeepsCommitted, CommittedFrame DEF WorkerStages
<1>9. CASE Discard
  BY <1>9, StagingKeepsCommitted, CommittedFrame DEF WorkerStages
<1>10. CASE Begin
  BY <1>10, CommittedFrame DEF Begin, Goto, stores, locals, env
<1>11. CASE Switch
  BY <1>11, CommittedFrame DEF Switch, Goto, env, stores, locals
<1>12. CASE SwitchFails
  BY <1>12, CommittedFrame DEF SwitchFails, Fail, Goto, locals, stores, env
<1>13. CASE Commit
  BY <1>13, CommitServes DEF Served, CommittedIndexComplete
<1>14. CASE Restore
  BY <1>14, CommittedFrame DEF Restore, Goto, Damage, env, stores, locals
<1>15. CASE Drop
  <2>1. CASE row.gen = staged
    BY <1>15, <2>1 DEF Drop, Damage, CommittedIndexComplete
  <2>2. CASE row.gen # staged
    <3>1. /\ row' = row /\ broken \subseteq broken' /\ Delete({staged}, 0)
          /\ row.gen # NoGen => row.gen \in Gens \ {staged}
      BY <1>15, <2>2 DEF Drop, Goto, Damage, Knowledge, InvDrop, IsLive
    <3>2. row.gen # NoGen => colls'[row.gen] = colls[row.gen]
      BY <3>1, DeleteKeeps
    <3>3. QED
      BY <3>1, <3>2, CommittedFrame
  <2>3. QED
    BY <2>1, <2>2
<1>16. CASE Finalize
  <2>1. /\ row' = row /\ broken \subseteq broken' /\ Delete(Live \ {pointer}, 0)
        /\ row.gen # NoGen => row.gen \in Gens \ (Live \ {pointer})
    BY <1>16 DEF Finalize, Goto, locals, Knowledge, InvFilled, InvCommitted, IsLive, Live
  <2>2. row.gen # NoGen => colls'[row.gen] = colls[row.gen]
    BY <2>1, DeleteKeeps, ConstantsAssumption DEF IsLive, InvDrop
  <2>3. QED
    BY <2>1, <2>2, CommittedFrame
<1>17. CASE DiscardEmpty
  BY <1>17, CommittedFrame DEF DiscardEmpty, Goto, Damage, Uncommitted,
     Reserved, locals, stores, env
<1>18. CASE Unlink
  BY <1>18, CommittedFrame DEF Unlink, Goto, env, stores, locals
<1>19. CASE Forget
  BY <1>19 DEF Forget, NoRow, CommittedIndexComplete
<1>20. CASE End
  BY <1>20, CommittedFrame DEF End, Goto, IdleJob, NoRow, Reserved, stores,
     locals, env
<1>21. QED
  BY <1>1, <1>2, <1>3, <1>4, <1>5, <1>6, <1>7, <1>8, <1>9, <1>10, <1>11,
     <1>12, <1>13, <1>14, <1>15, <1>16, <1>17, <1>18, <1>19, <1>20,
     WriteOrQuiet DEF Writes

(* One model per collection.                                                *)
LEMMA StepMixesNoModels ==
  ASSUME IInv, Work
  PROVE  OneModelPerCollection'
<1> USE DEF IInv
<1>1. CASE Quiet
  BY <1>1, CollsFrame DEF Quiet, stores
<1>2. CASE Reserve
  BY <1>2, CollsFrame DEF Reserve, stores
<1>3. ASSUME NEW g \in Gens, CreateFirst(g) PROVE OneModelPerCollection'
  BY <1>3 DEF CreateFirst, Create, EmptyCollection, OneModelPerCollection, TypeOK
<1>4. CASE PointFirst
  BY <1>4, CollsFrame DEF PointFirst, stores
<1>5. CASE PointFirstFails
  BY <1>5, DeleteKeeps DEF PointFirstFails
<1>6. ASSUME NEW g \in Gens, StageCreate(g) PROVE OneModelPerCollection'
  <2>1. PICK S : colls' = [Without(S) EXCEPT ![g] = EmptyCollection]
    BY <1>6 DEF StageCreate
  <2>2. \A h \in Gens : colls'[h] \in {EmptyCollection, NoCollection, colls[h]}
    BY <2>1 DEF Without
  <2>3. QED
    BY <2>2 DEF OneModelPerCollection, EmptyCollection, NoCollection
<1>7. CASE StageFill
  <2>1. /\ \A v \in Candidate : v[2] = job.model
        /\ colls' = [colls EXCEPT ![staged] =
                       [live |-> TRUE, vectors |-> Candidate, model |-> job.model]]
    BY <1>7, CandidateVectors DEF StageFill, Goto
  <2>2. QED
    BY <2>1 DEF OneModelPerCollection, TypeOK
<1>8. CASE StageFillFails
  BY <1>8, DeleteKeeps DEF StageFillFails
<1>9. CASE Discard
  BY <1>9, DeleteKeeps DEF Discard
<1>10. CASE Begin
  BY <1>10, CollsFrame DEF Begin, stores
<1>11. CASE Switch
  BY <1>11, CollsFrame DEF Switch, stores
<1>12. CASE SwitchFails
  BY <1>12, CollsFrame DEF SwitchFails, stores
<1>13. CASE Commit
  BY <1>13, CollsFrame DEF Commit, stores
<1>14. CASE Restore
  BY <1>14, CollsFrame DEF Restore, stores
<1>15. CASE Drop
  BY <1>15, DeleteKeeps DEF Drop
<1>16. CASE Finalize
  BY <1>16, DeleteKeeps DEF Finalize
<1>17. CASE DiscardEmpty
  BY <1>17, DeleteKeeps DEF DiscardEmpty
<1>18. CASE Unlink
  BY <1>18, CollsFrame DEF Unlink, stores
<1>19. CASE Forget
  BY <1>19, CollsFrame DEF Forget, stores
<1>20. CASE End
  BY <1>20, CollsFrame DEF End, stores
<1>21. QED
  BY <1>1, <1>2, <1>3, <1>4, <1>5, <1>6, <1>7, <1>8, <1>9, <1>10, <1>11,
     <1>12, <1>13, <1>14, <1>15, <1>16, <1>17, <1>18, <1>19, <1>20,
     WriteOrQuiet DEF Writes

(* Every step of the worker keeps the invariant.                            *)
LEMMA StepKeepsIInv ==
  ASSUME IInv, Work
  PROVE  IInv'
<1>1. TypeOK'
  BY StepControlTypes, StepDataTypes DEF ControlTypes, DataTypes, TypeOK
<1>2. QED
  BY <1>1, StepControl, StepKnows, StepAgrees, StepCompletes, StepMixesNoModels DEF IInv

(* Asking for a run, losing the process, editing the repository.            *)
LEMMA StartKeepsIInv ==
  ASSUME IInv, NEW m \in Models, StartIndex(m)
  PROVE  IInv'
<1> USE DEF IInv, TypeOK, StartIndex, Goto, stores, env
<1>1. repo \subseteq Versions
  BY ConstantsAssumption
<1>2. TypeOK'
  BY <1>1 DEF Steps, PreActivation, Jobs, Rows
<1>3. InvGuard' /\ InvJob' /\ InvRow' /\ InvAgree'
  BY DEF InvGuard, InvJob, InvRow, InvAgree, PreActivation, Activation
<1>4. Knowledge'
  BY DEF Knowledge, InvChecked, InvReuse, InvOpen, InvStaging, InvFilled, InvSwitched,
     InvCommitted, InvRollback, InvDrop, InvFirst, Checked
<1>5. InvOpenable'
  BY CollsFrame DEF InvOpenable, Openable, IsLive
<1>6. CommittedIndexComplete' /\ OneModelPerCollection'
  BY CollsFrame, CommittedFrame
<1>7. QED
  BY <1>2, <1>3, <1>4, <1>5, <1>6

(* A crash keeps what the stores say, and records a pointer left switched.  *)
LEMMA CrashKeepsIInv ==
  ASSUME IInv, Crash
  PROVE  IInv'
<1>0. crashes \in 0..MaxCrashes /\ crashes < MaxCrashes /\ crashes' = crashes + 1
  BY DEF IInv, TypeOK, Crash
<1>1. crashes' \in 0..MaxCrashes
  BY <1>0, ConstantsAssumption
<1>2. InvAgree'
  <2>1. SUFFICES ASSUME broken' = {}, row.gen # NoGen PROVE pointer = row.gen
    BY DEF InvAgree, Crash, stores
  <2>2. ~Switched /\ broken = {}
    BY <2>1 DEF Crash
  <2>3. CASE pc \notin {"commit", "rollback"}
    BY <2>1, <2>2, <2>3 DEF IInv, InvAgree
  <2>4. CASE pc = "commit"
    BY <2>1, <2>2, <2>4 DEF IInv, Switched, Knowledge, InvSwitched,
       InvFilled, TypeOK
  <2>5. CASE pc = "rollback"
    <3>1. /\ pointer \in {old, staged} /\ row.gen \in {old, staged}
          /\ row.gen = staged => pointer = staged
      BY <2>1, <2>5 DEF IInv, Knowledge, InvRollback
    <3>2. pointer = staged => row.gen = staged
      BY <2>1, <2>2, <2>5 DEF Switched
    <3>3. QED
      BY <3>1, <3>2
  <2>6. QED
    BY <2>3, <2>4, <2>5
<1> USE DEF IInv, TypeOK, Crash, stores
<1>3. broken' \in SUBSET Causes
  BY DEF Causes
<1>4. TypeOK'
  BY <1>1, <1>3 DEF Steps, PreActivation, Jobs, Rows, IdleJob, NoRow
<1>5. InvGuard' /\ InvJob' /\ InvRow'
  BY DEF InvGuard, InvJob, InvRow, PreActivation, Activation
<1>6. Knowledge'
  BY DEF Knowledge, InvChecked, InvReuse, InvOpen, InvStaging, InvFilled, InvSwitched,
     InvCommitted, InvRollback, InvDrop, InvFirst, Checked
<1>7. InvOpenable'
  BY CollsFrame DEF InvOpenable, Openable, IsLive
<1>8. CommittedIndexComplete' /\ OneModelPerCollection'
  BY CollsFrame, CommittedFrame
<1>9. QED
  BY <1>2, <1>4, <1>5, <1>6, <1>7, <1>8

(* An edit touches neither store.                                           *)
LEMMA EditKeepsIInv ==
  ASSUME IInv, Edit
  PROVE  IInv'
<1> USE DEF IInv, TypeOK, Edit, stores, locals
<1>1. edits' \in 0..MaxEdits
  BY ConstantsAssumption
<1>2. TypeOK'
  BY <1>1
<1>3. InvGuard' /\ InvJob' /\ InvRow' /\ InvAgree'
  BY DEF InvGuard, InvJob, InvRow, InvAgree
<1>4. Knowledge'
  BY CollsFrame DEF Knowledge, InvChecked, InvReuse, InvOpen, InvStaging, InvFilled,
     InvSwitched, InvCommitted, InvRollback, InvDrop, InvFirst, IsLive, Ids
<1>5. InvOpenable'
  BY CollsFrame DEF InvOpenable, Openable, IsLive
<1>6. CommittedIndexComplete' /\ OneModelPerCollection'
  BY CollsFrame, CommittedFrame
<1>7. QED
  BY <1>2, <1>3, <1>4, <1>5, <1>6

(* The invariant holds before the first run,                                *)
LEMMA IInvInit == Init => IInv
<1> SUFFICES ASSUME Init PROVE IInv
  OBVIOUS
<1> USE ConstantsAssumption DEF Init
<1>1. TypeOK
  <2>1. NoRow \in Rows /\ IdleJob \in Jobs /\ NoCollection \in Collections
    BY DEF Rows, Jobs, NoRow, IdleJob, Collections, NoCollection
  <2>2. "idle" \in Steps
    BY DEF Steps, PreActivation
  <2>3. faults \in 0..MaxFaults /\ crashes \in 0..MaxCrashes /\ edits \in 0..MaxEdits
    OBVIOUS
  <2>4. QED
    BY <2>1, <2>2, <2>3 DEF TypeOK
<1>2. InvGuard /\ InvJob /\ InvRow /\ InvAgree
  BY DEF InvGuard, InvJob, InvRow, InvAgree, PreActivation, Activation, NoRow
<1>3. Knowledge
  BY DEF Knowledge, InvChecked, InvReuse, InvOpen, InvStaging, InvFilled, InvSwitched,
     InvCommitted, InvRollback, InvDrop, InvFirst, Checked
<1>4. InvOpenable /\ CommittedIndexComplete /\ OneModelPerCollection
  BY DEF InvOpenable, Openable, Live, CommittedIndexComplete, OneModelPerCollection, NoRow,
     NoCollection
<1>5. QED
  BY <1>1, <1>2, <1>3, <1>4 DEF IInv

(* when nothing happens,                                                    *)
LEMMA StutterKeepsIInv ==
  ASSUME IInv, UNCHANGED vars
  PROVE  IInv'
<1> USE DEF vars, stores, locals, env
<1>1. TypeOK' /\ InvGuard' /\ InvJob' /\ InvRow' /\ InvAgree'
  BY DEF IInv, TypeOK, InvGuard, InvJob, InvRow, InvAgree
<1>2. Knowledge'
  BY CollsFrame DEF IInv, TypeOK, Knowledge, InvChecked, InvReuse, InvOpen, InvStaging, InvFilled,
     InvSwitched, InvCommitted, InvRollback, InvDrop, InvFirst, IsLive, Ids
<1>3. InvOpenable' /\ CommittedIndexComplete' /\ OneModelPerCollection'
  BY CollsFrame, CommittedFrame DEF IInv, InvOpenable, Openable, IsLive
<1>4. QED
  BY <1>1, <1>2, <1>3 DEF IInv

(* and after any step.                                                      *)
LEMMA NextKeepsIInv == IInv /\ [Next]_vars => IInv'
<1> SUFFICES ASSUME IInv, [Next]_vars PROVE IInv'
  OBVIOUS
<1>1. ASSUME NEW m \in Models, StartIndex(m) PROVE IInv'
  BY <1>1, StartKeepsIInv
<1>2. CASE Work
  BY <1>2, StepKeepsIInv
<1>3. CASE Crash
  BY <1>3, CrashKeepsIInv
<1>4. CASE Edit
  BY <1>4, EditKeepsIInv
<1>5. CASE UNCHANGED vars
  BY <1>5, StutterKeepsIInv
<1>6. QED
  BY <1>1, <1>2, <1>3, <1>4, <1>5 DEF Next

-----------------------------------------------------------------------------
(* The theorems                                                             *)

(* The strengthened invariant holds in every reachable state.               *)
THEOREM IInvAlways == Spec => []IInv
<1>1. Init => IInv
  BY IInvInit
<1>2. IInv /\ [Next]_vars => IInv'
  BY NextKeepsIInv
<1>3. QED
  BY <1>1, <1>2, PTL DEF Spec

(* Type correctness of the worker, the stores and the counters.             *)
THEOREM TypeCorrect == Spec => []TypeOK
<1>1. IInv => TypeOK
  BY DEF IInv
<1>2. QED
  BY <1>1, IInvAlways, PTL

(* The committed generation is complete at every instant, whatever step     *)
(* fails or is interrupted, short of the read after the commit.             *)
THEOREM CommittedComplete == Spec => []CommittedIndexComplete
<1>1. IInv => CommittedIndexComplete
  BY DEF IInv
<1>2. QED
  BY <1>1, IInvAlways, PTL

(* Outside the activation guard the pointer names the committed generation. *)
THEOREM StoresAgree == Spec => []StoresAgreeOutsideGuard
<1>1. IInv => StoresAgreeOutsideGuard
  BY DEF IInv, InvGuard, InvAgree, Activation, StoresAgreeOutsideGuard
<1>2. QED
  BY <1>1, IInvAlways, PTL

(* A failed or interrupted run leaves stores the next run can open.         *)
THEOREM CanBeIndexed == Spec => []NeverWedged
<1>1. IInv => NeverWedged
  BY DEF IInv, InvOpenable, NeverWedged
<1>2. QED
  BY <1>1, IInvAlways, PTL

(* Vectors copied from the active collection are of the model of the new.   *)
THEOREM OneModel == Spec => []OneModelPerCollection
<1>1. IInv => OneModelPerCollection
  BY DEF IInv
<1>2. QED
  BY <1>1, IInvAlways, PTL

(* A run that failed leaves the index it found, or the one it committed.    *)
THEOREM FailureKeepsIndex == Spec => []FailedRunKeepsIndex
<1>1. ASSUME IInv PROVE FailedRunKeepsIndex
  <2>1. SUFFICES ASSUME pc = "end", job.found.gen # NoGen, broken = {}
                 PROVE  Served /\ (row = job.found \/ row.chunks = job.scan)
    BY DEF FailedRunKeepsIndex
  <2>2. row.gen # NoGen /\ (row = job.found \/ row.chunks = job.scan)
    BY <1>1, <2>1 DEF IInv, InvJob
  <2>3. pointer = row.gen
    BY <1>1, <2>1, <2>2 DEF IInv, InvAgree
  <2>4. Complete(row.gen)
    BY <1>1, <2>1, <2>2 DEF IInv, CommittedIndexComplete
  <2>5. QED
    BY <2>2, <2>3, <2>4 DEF Served
<1>2. QED
  BY <1>1, IInvAlways, PTL

-----------------------------------------------------------------------------
(* Collections that nobody will use                                         *)

(* Between its creation and the end of finalize_staged or discard_staged a  *)
(* candidate is allowed beside the active collection.  Leaving these steps  *)
(* without deleting one of the two takes a fault or a crash.                *)
Pending == {"fill", "recheck", "begin", "discard", "switch", "commit", "reread", "finalize"}
Allowed == IF pc \in Pending THEN 2 ELSE 1

LeaksPaid == IsFiniteSet(Live) /\ Cardinality(Live) <= Allowed + faults + crashes

(* The ways in which a step may change the collections.                     *)
KeepsCollections ==
  /\ Live' \subseteq Live
  /\ pc' \in Pending => pc \in Pending
  /\ \/ pc \in Pending => pc' \in Pending
     \/ faults' + crashes' >= faults + crashes + 1

DropsCandidate == staged \in Live /\ Live' \subseteq Live \ {staged} /\ pc' \notin Pending

LeavesOne == \E g \in Gens : Live' \subseteq {g}

AddsCandidate ==
  /\ pc \notin Pending /\ pc' \in Pending
  /\ \E g \in Gens : \/ Live' \subseteq {pointer, g}
                     \/ Live' \subseteq Live \cup {g} /\ faults' >= faults + 1

(* Deleting S leaves nothing of S, or costs one fault more than it reports. *)
LEMMA DeleteSubset ==
  ASSUME TypeOK, NEW S, NEW n \in {0, 1}, Delete(S, n)
  PROVE  /\ Live' \subseteq Live /\ faults' >= faults + n
         /\ Live' \subseteq Live \ S \/ faults' >= faults + n + 1
<1>1. Live' \subseteq Live
  BY DeleteKeeps
<1>2. faults \in Nat
  BY ConstantsAssumption DEF TypeOK
<1>3. CASE Suffer(n) /\ colls' = Without(S)
  <2>1. Live' \subseteq Live \ S
    BY <1>3 DEF Without, Live, NoCollection
  <2>2. QED
    BY <1>1, <1>2, <1>3, <2>1 DEF Suffer
<1>4. CASE Suffer(n + 1)
  BY <1>1, <1>2, <1>4 DEF Suffer
<1>5. QED
  BY <1>3, <1>4 DEF Delete

(* A step of the worker suffers some number of faults, and no crash.        *)
LEMMA WorkSuffers ==
  ASSUME Work
  PROVE  crashes' = crashes /\ (faults' = faults \/ \E n \in {0, 1, 2} : Suffer(n))
<1>1. ASSUME NEW S, Delete(S, 0) \/ Delete(S, 1) PROVE \E n \in {0, 1, 2} : Suffer(n)
  BY <1>1 DEF Delete
<1> USE DEF env, Fail
<1>2. CASE WorkerPrepares
  BY <1>1, <1>2 DEF WorkerPrepares, BaseAbsent, BaseInvalid, BaseOutdated,
     BaseReused, NothingToDo, Prepare, Abandon, Reserve, OpenExisting, OpenInvalid,
     OpenFails, CreateFirst, PointFirst, PointFirstFails
<1>3. CASE WorkerStages
  BY <1>1, <1>3 DEF WorkerStages, StageCreate, StageFails, StageFill,
     StageFillFails, RecheckSame, RecheckChanged, RecheckFails, Discard
<1>4. CASE WorkerActivates
  BY <1>1, <1>4 DEF WorkerActivates, Begin, BeginFails, Switch, SwitchFails,
     Commit, CommitFails, Reread, RereadFails, Restore, RestoreFails, Drop, Finalize,
     Verify, FinalizeFails
<1>5. CASE WorkerCleans
  BY <1>1, <1>5 DEF WorkerCleans, KeepProject, CleanupFails, DiscardEmpty,
     Unlink, UnlinkFails, Forget, ForgetFails, End
<1>6. QED
  BY <1>2, <1>3, <1>4, <1>5 DEF Work

(* Faults and crashes are never taken back.                                 *)
LEMMA FaultsGrow ==
  ASSUME IInv, [Next]_vars
  PROVE  faults' >= faults /\ crashes' >= crashes
<1>1. faults \in Nat /\ crashes \in Nat
  BY ConstantsAssumption DEF IInv, TypeOK
<1>2. CASE Work
  BY <1>1, <1>2, WorkSuffers DEF Suffer
<1>3. CASE UNCHANGED vars \/ Crash \/ Edit
  <2>1. faults' = faults /\ (crashes' = crashes \/ crashes' = crashes + 1)
    BY <1>3 DEF vars, env, Crash, Edit
  <2>2. QED
    BY <1>1, <2>1
<1>4. ASSUME NEW m \in Models, StartIndex(m) PROVE faults' >= faults /\ crashes' >= crashes
  BY <1>1, <1>4 DEF env, StartIndex
<1>5. QED
  BY <1>2, <1>3, <1>4 DEF Next

(* One fault more is one fault or crash more.                               *)
LEMMA SpentMore ==
  ASSUME NEW f \in Nat, NEW c \in Nat, NEW n \in Nat, n >= f + 1
  PROVE  n + c >= f + c + 1
  OBVIOUS

(* Every step changes the collections in one of the four ways.              *)
LEMMA StepLeaves ==
  ASSUME IInv, [Next]_vars
  PROVE  KeepsCollections \/ DropsCandidate \/ LeavesOne \/ AddsCandidate
<1>1. faults \in Nat /\ crashes \in Nat /\ faults' \in Nat /\ crashes' \in Nat
  BY NextKeepsIInv, ConstantsAssumption DEF IInv, TypeOK
<1>2. colls' = colls => Live' = Live
  BY CollsFrame
<1> USE <1>1, <1>2 DEF Goto, Pending
<1>3. CASE UNCHANGED vars \/ Edit \/ \E m \in Models : StartIndex(m)
  BY <1>3 DEF vars, stores, Edit, StartIndex, KeepsCollections
<1>4. CASE Crash
  <2>1. crashes' = crashes + 1 /\ faults' = faults /\ Live' = Live /\ pc' = "idle"
    BY <1>4 DEF Crash, stores
  <2>2. QED
    BY <2>1 DEF KeepsCollections
<1>0. Work => crashes' = crashes
  BY WorkSuffers
<1> DEFINE Pays == faults' + crashes' >= faults + crashes + 1
<1>f. ASSUME crashes' = crashes, Suffer(1) \/ faults' >= faults + 1 PROVE Pays
  <2>1. faults' >= faults + 1
    BY <1>f DEF Suffer
  <2>2. faults' + crashes >= faults + crashes + 1
    BY <2>1, SpentMore
  <2>3. QED
    BY <1>f, <2>2
<1>d. ASSUME crashes' = crashes, NEW S, NEW n \in {0, 1}, Delete(S, n)
      PROVE  /\ Live' \subseteq Live
             /\ n = 1 => Pays
             /\ Live' \subseteq Live \ S \/ Pays
  <2>1. /\ Live' \subseteq Live /\ faults' >= faults + n
        /\ Live' \subseteq Live \ S \/ faults' >= faults + n + 1
    BY <1>d, DeleteSubset DEF IInv
  <2>2. n = 1 => faults' >= faults + 1
    BY <2>1
  <2>3. Live' \subseteq Live \ S \/ faults' >= faults + 1
    BY <2>1, <1>d
  <2>4. QED
    BY <1>d, <1>f, <2>1, <2>2, <2>3
<1> HIDE DEF Pays
<1>5. CASE WorkerPrepares
  <2>1. ASSUME NEW g \in Gens, CreateFirst(g) PROVE LeavesOne
    BY <2>1 DEF CreateFirst, FirstUse, Create, EmptyCollection, Live, LeavesOne, IInv, TypeOK
  <2>2. CASE PointFirstFails
    BY <1>0, <1>5, <1>d, <2>2 DEF PointFirstFails, KeepsCollections, Work
  <2>3. CASE WorkerPrepares /\ ~PointFirstFails /\ ~\E g \in Gens : CreateFirst(g)
    BY <2>3 DEF WorkerPrepares, BaseAbsent, BaseInvalid, BaseOutdated, BaseReused,
       NothingToDo, Prepare, Abandon, Reserve, OpenExisting, OpenInvalid, OpenFails,
       PointFirst, Fail, stores, KeepsCollections
  <2>4. QED
    BY <1>5, <2>1, <2>2, <2>3
<1>6. CASE WorkerStages
  <2>1. ASSUME NEW g \in Gens, StageCreate(g) PROVE AddsCandidate
    <3>1. CASE colls' = [Without(Live \ {pointer}) EXCEPT ![g] = EmptyCollection]
      <4>1. Live' \subseteq {pointer, g}
        BY <3>1 DEF Live, Without, NoCollection
      <4>2. QED
        BY <2>1, <4>1 DEF StageCreate, AddsCandidate
    <3>2. ASSUME Suffer(1), NEW kept \in SUBSET Live,
                 colls' = [Without(Live \ ({pointer} \cup kept)) EXCEPT ![g] = EmptyCollection]
          PROVE  AddsCandidate
      <4>1. Live' \subseteq Live \cup {g}
        BY <3>2 DEF Live, Without, NoCollection
      <4>2. QED
        BY <2>1, <3>2, <4>1 DEF StageCreate, Suffer, AddsCandidate
    <3>3. QED
      BY <2>1, <3>1, <3>2 DEF StageCreate
  <2>2. CASE StageFill
    <3>1. staged \in Live
      BY <2>2 DEF StageFill, IInv, Knowledge, InvStaging, IsLive, Live
    <3>2. Live' \subseteq Live
      BY <2>2, <3>1 DEF StageFill, Live
    <3>3. QED
      BY <2>2, <3>2 DEF StageFill, KeepsCollections
  <2>3. CASE StageFillFails
    BY <1>0, <1>6, <1>d, <2>3 DEF StageFillFails, KeepsCollections, AfterFailure, Pays, Work
  <2>4. CASE Discard
    <3>1. staged \in Live
      BY <2>4 DEF Discard, IInv, Knowledge, InvStaging, IsLive, Live
    <3>2. QED
      BY <1>0, <1>6, <1>d, <2>4, <3>1 DEF Discard, KeepsCollections, DropsCandidate,
         AfterFailure, Pays, Work
  <2>5. CASE StageFails \/ RecheckSame \/ RecheckChanged \/ RecheckFails
    BY <2>5 DEF StageFails, RecheckSame, RecheckChanged, RecheckFails, Fail, AfterFailure,
       stores, KeepsCollections
  <2>6. QED
    BY <1>6, <2>1, <2>2, <2>3, <2>4, <2>5 DEF WorkerStages
<1>7. CASE WorkerActivates
  <2>1. CASE Drop
    BY <1>0, <1>7, <1>d, <2>1 DEF Drop, KeepsCollections, AfterFailure, Work
  <2>2. CASE Finalize
    <3>1. Live' \subseteq Live \ (Live \ {pointer}) \/ (Live' \subseteq Live /\ Pays)
      BY <1>0, <1>7, <1>d, <2>2 DEF Finalize, Work
    <3>2. CASE Live' \subseteq Live \ (Live \ {pointer})
      BY <3>2, <2>2 DEF LeavesOne, Finalize, IInv, Knowledge, InvCommitted, InvFilled, IsLive
    <3>3. CASE Live' \subseteq Live /\ Pays
      BY <2>2, <3>3 DEF Finalize, KeepsCollections, Pays
    <3>4. QED
      BY <3>1, <3>2, <3>3
  <2>3. CASE WorkerActivates /\ ~Drop /\ ~Finalize
    <3>1. /\ colls' = colls
          /\ pc' \in Pending => pc \in Pending
          /\ pc \in Pending => pc' \in Pending \/ Suffer(1)
      BY <2>3 DEF WorkerActivates, Begin, BeginFails, Switch, SwitchFails, Commit,
         CommitFails, Reread, RereadFails, Restore, RestoreFails, Verify, FinalizeFails,
         Fail, AfterFailure, stores
    <3>2. QED
      BY <1>0, <1>7, <1>f, <3>1 DEF Work, KeepsCollections, Pays
  <2>4. QED
    BY <1>7, <2>1, <2>2, <2>3
<1>8. CASE WorkerCleans
  <2>1. CASE DiscardEmpty
    BY <1>0, <1>8, <1>d, <2>1 DEF DiscardEmpty, KeepsCollections, Work
  <2>2. CASE WorkerCleans /\ ~DiscardEmpty
    BY <2>2 DEF WorkerCleans, KeepProject, CleanupFails, Unlink, UnlinkFails, Forget,
       ForgetFails, End, Fail, stores, KeepsCollections
  <2>3. QED
    BY <1>8, <2>1, <2>2
<1>9. QED
  BY <1>3, <1>4, <1>5, <1>6, <1>7, <1>8 DEF Next, Work

(* One collection less allowed, one fault or crash more.                    *)
LEMMA OnePaid ==
  ASSUME NEW k \in Nat, NEW l \in Nat, NEW f \in Nat, NEW c \in Nat, NEW n \in Nat,
         NEW d \in Nat, k <= l, l <= 2 + f + c, n + d >= f + c + 1
  PROVE  k <= 1 + n + d
  OBVIOUS

(* Whichever way it is, the bound holds again.                              *)
LEMMA LeaksPaidNext == IInv /\ LeaksPaid /\ [Next]_vars => LeaksPaid'
<1> SUFFICES ASSUME IInv, LeaksPaid, [Next]_vars PROVE LeaksPaid'
  OBVIOUS
<1>1. /\ faults \in Nat /\ crashes \in Nat /\ faults' \in Nat /\ crashes' \in Nat
      /\ faults' >= faults /\ crashes' >= crashes
  BY NextKeepsIInv, FaultsGrow, ConstantsAssumption DEF IInv, TypeOK
<1>2. IsFiniteSet(Live) /\ Cardinality(Live) \in Nat
  BY FS_CardinalityType DEF LeaksPaid
<1>3. ASSUME NEW S, IsFiniteSet(S), Live' \subseteq S
      PROVE  /\ IsFiniteSet(Live') /\ Cardinality(Live') \in Nat
             /\ Cardinality(S) \in Nat /\ Cardinality(Live') <= Cardinality(S)
  BY <1>3, FS_Subset, FS_CardinalityType
<1> USE <1>1, <1>2 DEF LeaksPaid, Allowed
<1>4. CASE KeepsCollections
  <2>1. IsFiniteSet(Live') /\ Cardinality(Live') \in Nat /\ Cardinality(Live') <= Cardinality(Live)
    BY <1>3, <1>4 DEF KeepsCollections
  <2>2. CASE pc \in Pending <=> pc' \in Pending
    <3>1. Allowed' = Allowed /\ Allowed \in Nat
      BY <2>2
    <3> HIDE DEF Allowed
    <3>2. QED
      BY <2>1, <3>1
  <2>3. CASE pc \in Pending /\ pc' \notin Pending
    <3>1. Allowed' = 1 /\ Allowed = 2 /\ faults' + crashes' >= faults + crashes + 1
      BY <1>4, <2>3 DEF KeepsCollections
    <3> HIDE DEF Allowed
    <3>2. Cardinality(Live) <= 2 + faults + crashes
      BY <3>1
    <3>3. Cardinality(Live') <= 1 + faults' + crashes'
      BY <2>1, <3>1, <3>2, OnePaid
    <3>4. QED
      BY <2>1, <3>1, <3>3
  <2>4. QED
    BY <1>4, <2>2, <2>3 DEF KeepsCollections
<1>5. CASE DropsCandidate
  <2>1. IsFiniteSet(Live \ {staged}) /\ Cardinality(Live \ {staged}) = Cardinality(Live) - 1
    BY <1>5, FS_RemoveElement DEF DropsCandidate
  <2>2. QED
    BY <1>3, <1>5, <2>1 DEF DropsCandidate
<1>6. CASE LeavesOne
  <2>1. PICK g \in Gens : Live' \subseteq {g}
    BY <1>6 DEF LeavesOne
  <2>2. IsFiniteSet({g}) /\ Cardinality({g}) = 1
    BY FS_Singleton
  <2>3. QED
    BY <1>3, <2>1, <2>2
<1>7. CASE AddsCandidate
  <2>1. PICK g \in Gens : \/ Live' \subseteq {pointer, g}
                          \/ Live' \subseteq Live \cup {g} /\ faults' >= faults + 1
    BY <1>7 DEF AddsCandidate
  <2>2. CASE Live' \subseteq {pointer, g}
    <3>1. IsFiniteSet({pointer, g}) /\ Cardinality({pointer, g}) <= 2
      <4>1. IsFiniteSet({pointer}) /\ Cardinality({pointer}) = 1
        BY FS_Singleton
      <4>2. {pointer, g} = {pointer} \cup {g}
        OBVIOUS
      <4>3. QED
        BY <4>1, <4>2, FS_AddElement
    <3>2. QED
      BY <1>3, <1>7, <2>2, <3>1 DEF AddsCandidate
  <2>3. CASE Live' \subseteq Live \cup {g} /\ faults' >= faults + 1
    <3>1. IsFiniteSet(Live \cup {g}) /\ Cardinality(Live \cup {g}) <= Cardinality(Live) + 1
      <4>1. /\ IsFiniteSet(Live \cup {g})
            /\ \/ Cardinality(Live \cup {g}) = Cardinality(Live)
               \/ Cardinality(Live \cup {g}) = Cardinality(Live) + 1
        BY <1>2, FS_AddElement, Zenon
      <4>2. QED
        BY <1>2, <4>1
    <3>2. QED
      BY <1>3, <1>7, <2>3, <3>1 DEF AddsCandidate
  <2>4. QED
    BY <2>1, <2>2, <2>3
<1>8. QED
  BY <1>4, <1>5, <1>6, <1>7, StepLeaves

(* Between runs there is one collection, and at most one more for each      *)
(* deletion Chroma refused, failure or crash.                               *)
THEOREM LeaksBounded == Spec => []LeaksAreFaults
<1>1. ASSUME Init PROVE LeaksPaid
  <2>1. Live = {} /\ faults = 0 /\ crashes = 0
    BY <1>1 DEF Init, Live, NoCollection
  <2>2. IsFiniteSet(Live) /\ Cardinality(Live) = 0
    BY <2>1, FS_EmptySet
  <2>3. QED
    BY <2>1, <2>2 DEF LeaksPaid, Allowed
<1>2. LeaksPaid => LeaksAreFaults
  BY DEF LeaksPaid, LeaksAreFaults, Allowed, Pending
<1>3. QED
  BY <1>1, <1>2, LeaksPaidNext, IInvAlways, PTL DEF Spec

-----------------------------------------------------------------------------
(* IndexActivation implements AtomicIndex                                   *)

Committed == IF row.gen = NoGen THEN NoRow ELSE row
Torn      == row.gen # NoGen /\ ~Served
View      == [Promise!Next]_<<Committed, Torn, guard>>

(* A step that leaves the row, the pointer and the committed collection     *)
(* alone changes nothing a reader sees; nor does one without a commit.      *)
LEMMA ViewFrame ==
  ASSUME row' = row, pointer' = pointer, row.gen # NoGen => colls'[row.gen] = colls[row.gen]
  PROVE  UNCHANGED <<Committed, Torn>>
<1>1. Committed' = Committed
  BY DEF Committed
<1>2. row.gen # NoGen => Complete(row.gen)' = Complete(row.gen)
  BY DEF Complete, IsLive, Ids
<1>3. Torn' = Torn
  BY <1>2 DEF Torn, Served
<1>4. QED
  BY <1>1, <1>3

(* Before the first commit there is nothing to see.                         *)
LEMMA NoIndexFrame ==
  ASSUME row.gen = NoGen, row'.gen = NoGen
  PROVE  UNCHANGED <<Committed, Torn>>
  BY DEF Committed, Torn

(* Under the guard the stores may disagree.                                 *)
LEMMA GuardedStep ==
  ASSUME guard, guard', row' = row
  PROVE  View
  BY DEF View, Promise!Next, Promise!Disturb, Committed, Torn

(* Every step of the worker is a step of AtomicIndex, or none.              *)
LEMMA StepIsAtomic ==
  ASSUME IInv, Work
  PROVE  View
<1> USE DEF IInv, TypeOK
<1>1. CASE Quiet
  BY <1>1, ViewFrame DEF Quiet, stores, View
<1>2. CASE Reserve
  BY <1>2, NoIndexFrame, ViewFrame DEF Reserve, Reserved, InvRow, locals, View
<1>3. ASSUME NEW g \in Gens, CreateFirst(g) PROVE View
  <2>1. row.gen = NoGen
    BY <1>3, ConstantsAssumption DEF CreateFirst, Goto, FirstUse, Uncommitted, Reserved,
       Knowledge,
       InvChecked, Checked, IsLive
  <2>2. QED
    BY <1>3, <2>1, NoIndexFrame DEF CreateFirst, View
<1>4. CASE PointFirst
  BY <1>4, NoIndexFrame DEF PointFirst, Goto, FirstUse, Uncommitted, Reserved, NoRow,
     Knowledge, InvFirst,
     locals, View
<1>5. CASE PointFirstFails
  BY <1>5, NoIndexFrame DEF PointFirstFails, Goto, FirstUse, Uncommitted, Reserved, NoRow,
     Knowledge, InvFirst,
     locals, View
<1>6. ASSUME NEW g \in Gens, StageCreate(g) PROVE View
  BY <1>6, StagingKeepsCommitted, ViewFrame DEF WorkerStages, View
<1>7. CASE StageFill
  BY <1>7, StagingKeepsCommitted, ViewFrame DEF WorkerStages, View
<1>8. CASE StageFillFails
  BY <1>8, StagingKeepsCommitted, ViewFrame DEF WorkerStages, View
<1>9. CASE Discard
  BY <1>9, StagingKeepsCommitted, ViewFrame DEF WorkerStages, View
<1>10. CASE Begin
  <2>1. ~guard /\ guard' /\ UNCHANGED <<Committed, Torn>>
    BY <1>10, ViewFrame DEF Begin, Goto, stores, InvGuard, PreActivation
  <2>2. QED
    BY <2>1 DEF View, Promise!Next, Promise!Raise, Committed, Torn
<1>11. CASE Switch
  BY <1>11, GuardedStep DEF Switch, Goto, Fail, stores, locals, InvGuard, Activation, View
<1>12. CASE SwitchFails
  BY <1>12, GuardedStep DEF SwitchFails, Goto, Fail, stores, locals, InvGuard, Activation, View
<1>13. CASE Commit
  <2>1. Served' /\ row'.gen # NoGen
    BY <1>13, CommitServes, ConstantsAssumption DEF Commit, IsLive, Goto, InvFilled, Knowledge
  <2>2. Committed' \in [exists : {TRUE}, gen : Gens, chunks : SUBSET Versions]
    <3>1. staged \in Gens /\ job.scan \subseteq Versions
      BY <1>13 DEF Commit, IsLive, Goto, InvFilled, Knowledge, Jobs
    <3>2. QED
      BY <1>13, <2>1, <3>1 DEF Commit, Committed
  <2>3. guard /\ guard'
    BY <1>13 DEF Commit, Goto, InvGuard, Activation
  <2>4. QED
    BY <2>1, <2>2, <2>3 DEF View, Promise!Next, Promise!Publish, Committed, Torn
<1>14. CASE Restore
  BY <1>14, GuardedStep DEF Restore, Goto, Fail, stores, locals, InvGuard, Activation, View
<1>15. CASE Drop
  BY <1>15, GuardedStep DEF Drop, Goto, Fail, stores, locals, InvGuard, Activation, View
<1>16. CASE Finalize
  BY <1>16, GuardedStep DEF Finalize, Goto, Fail, stores, locals, InvGuard, Activation, View
<1>17. CASE DiscardEmpty
  BY <1>17, NoIndexFrame DEF DiscardEmpty, Goto, FirstUse, Uncommitted, Reserved, NoRow,
     Knowledge, InvFirst,
     locals, View
<1>18. CASE Unlink
  BY <1>18, NoIndexFrame DEF Unlink, Goto, FirstUse, Uncommitted, Reserved, NoRow, Knowledge,
     InvFirst,
     locals, View
<1>19. CASE Forget
  BY <1>19, NoIndexFrame DEF Forget, Goto, FirstUse, Uncommitted, Reserved, NoRow, Knowledge,
     InvFirst,
     locals, View
<1>20. CASE End
  <2>1. guard' = FALSE /\ UNCHANGED <<Committed, Torn>>
    BY <1>20, ViewFrame DEF End, stores
  <2>2. CASE guard = TRUE
    BY <2>1, <2>2 DEF View, Promise!Next, Promise!Lower, Committed, Torn
  <2>3. CASE guard = FALSE
    BY <2>1, <2>3 DEF View
  <2>4. QED
    BY <2>2, <2>3
<1>21. QED
  BY <1>1, <1>2, <1>3, <1>4, <1>5, <1>6, <1>7, <1>8, <1>9, <1>10, <1>11,
     <1>12, <1>13, <1>14, <1>15, <1>16, <1>17, <1>18, <1>19, <1>20,
     WriteOrQuiet DEF Writes

(* So is every step of the system.                                          *)
LEMMA NextIsAtomic ==
  ASSUME IInv, [Next]_vars
  PROVE  View
<1>1. ASSUME NEW m \in Models, StartIndex(m) PROVE View
  BY <1>1, ViewFrame DEF StartIndex, stores, View
<1>2. CASE Work
  BY <1>2, StepIsAtomic
<1>3. CASE Crash
  <2>1. guard' = FALSE /\ UNCHANGED <<Committed, Torn>>
    BY <1>3, ViewFrame DEF Crash, stores
  <2>2. CASE guard = TRUE
    BY <2>1, <2>2 DEF View, Promise!Next, Promise!Lower, Committed, Torn
  <2>3. CASE guard = FALSE
    BY <2>1, <2>3 DEF View
  <2>4. QED
    BY <2>2, <2>3 DEF IInv, TypeOK
<1>4. CASE Edit
  BY <1>4, ViewFrame DEF Edit, stores, View
<1>5. CASE UNCHANGED vars
  BY <1>5, ViewFrame DEF vars, stores, View
<1>6. QED
  BY <1>1, <1>2, <1>3, <1>4, <1>5 DEF Next

(* The two stores together keep the promise of AtomicIndex: the index a     *)
(* reader sees changes only under the activation guard and as a whole.      *)
THEOREM ActivationIsAtomic == Spec => ServedIndexIsAtomic
<1>1. Init => Promise!Init
  BY DEF Init, Promise!Init, NoRow
<1>2. IInv /\ [Next]_vars => [Promise!Next]_(Promise!vars)
  BY NextIsAtomic DEF View, Promise!vars, Committed, Torn
<1>3. QED
  BY <1>1, <1>2, IInvAlways, PTL DEF Spec, ServedIndexIsAtomic, Promise!Spec

-----------------------------------------------------------------------------
(* A run ends                                                               *)

(* The steps left to a run, at most.  A clean-up that has not opened the    *)
(* index may have to create it in order to see that it is empty.            *)
StepsLeft ==
  CASE pc = "base"     -> 20
    [] pc = "prepare"  -> 19
    [] pc = "reserve"  -> 18
    [] pc = "open"     -> 17
    [] pc = "point"    -> 16
    [] pc = "stage"    -> 15
    [] pc = "fill"     -> 14
    [] pc = "recheck"  -> 13
    [] pc = "begin"    -> 12
    [] pc = "switch"   -> 11
    [] pc = "commit"   -> 10
    [] pc = "reread"   -> 9
    [] pc \in {"finalize", "rollback"}        -> 8
    [] pc \in {"verify", "drop", "discard"}   -> 7
    [] pc = "cleanup"  -> IF handle = NoGen THEN 6 ELSE 4
    [] pc = "repoint"  -> 5
    [] pc = "unlink"   -> 3
    [] pc = "forget"   -> 2
    [] pc = "end"      -> 1
    [] OTHER           -> 0

(* Each step of a run takes one of them, or more.                           *)
Shortens ==
  /\ StepsLeft \in 0..20
  /\ Work => StepsLeft' < StepsLeft
  /\ Edit => StepsLeft' = StepsLeft

(* Each step of a run leads to one that is nearer the end.                  *)
LEMMA WorkShortens ==
  ASSUME IInv, Work
  PROVE  StepsLeft' < StepsLeft
<1>1. CASE WorkerPrepares
  <2>1. ASSUME NEW g \in Gens, CreateFirst(g)
        PROVE  StepsLeft' < StepsLeft
    BY <2>1 DEF CreateFirst, Goto, FirstUse, StepsLeft
  <2>2. CASE PointFirst
    <3>1. pc = "repoint" => old # NoGen
      BY ConstantsAssumption DEF IInv, Knowledge, InvFirst, IsLive
    <3>. QED BY <2>2, <3>1 DEF PointFirst, Goto, StepsLeft
  <2>3. CASE PointFirstFails \/ OpenExisting \/ OpenInvalid \/ OpenFails \/ Reserve
    <3>1. \/ pc \in {"point", "open"} /\ pc' \in {"cleanup", "stage"}
          \/ pc = "repoint" /\ pc' = "end"
          \/ pc = "reserve" /\ pc' = "open"
      BY <2>3 DEF PointFirstFails, OpenExisting, OpenInvalid, OpenFails, Reserve, Fail, Goto
    <3>. QED BY <3>1 DEF StepsLeft
  <2>4. CASE BaseAbsent \/ BaseInvalid \/ BaseOutdated \/ BaseReused
    BY <2>4 DEF BaseAbsent, BaseInvalid, BaseOutdated, BaseReused, Goto, StepsLeft
  <2>5. CASE NothingToDo \/ Prepare \/ Abandon
    BY <2>5 DEF NothingToDo, Prepare, Abandon, Fail, Goto, StepsLeft
  <2>. QED BY <1>1, <2>1, <2>2, <2>3, <2>4, <2>5 DEF WorkerPrepares
<1>2. CASE WorkerStages
  <2>1. ASSUME NEW g \in Gens, StageCreate(g)
        PROVE  StepsLeft' < StepsLeft
    BY <2>1 DEF StageCreate, Goto, StepsLeft
  <2>2. CASE StageFails \/ StageFill \/ StageFillFails \/ Discard
    BY <2>2 DEF StageFails, StageFill, StageFillFails, Discard, AfterFailure, Fail, Goto, StepsLeft
  <2>3. CASE RecheckSame \/ RecheckChanged \/ RecheckFails
    BY <2>3 DEF RecheckSame, RecheckChanged, RecheckFails, Fail, Goto, StepsLeft
  <2>. QED BY <1>2, <2>1, <2>2, <2>3 DEF WorkerStages
<1>3. CASE WorkerActivates
  <2>1. CASE Begin \/ BeginFails \/ Switch \/ SwitchFails \/ Commit \/ CommitFails
    BY <2>1 DEF Begin, BeginFails, Switch, SwitchFails, Commit, CommitFails, Fail, Goto, StepsLeft
  <2>2. CASE Reread \/ RereadFails \/ Restore \/ RestoreFails \/ Finalize \/ Verify
    <3>1. \/ pc = "reread" /\ pc' \in {"finalize", "rollback"}
          \/ pc = "rollback" /\ pc' = "drop"
          \/ pc = "finalize" /\ pc' = "verify"
          \/ pc = "verify" /\ pc' = "end"
      BY <2>2 DEF Reread, RereadFails, Restore, RestoreFails, Finalize, Verify, Fail, Goto
    <3>. QED BY <3>1 DEF StepsLeft
  <2>3. CASE Drop \/ FinalizeFails
    <3>1. pc \in {"drop", "finalize", "verify"} /\ pc' \in {"cleanup", "end"}
      BY <2>3 DEF Drop, FinalizeFails, AfterFailure, Fail, Goto
    <3>. QED BY <3>1 DEF StepsLeft
  <2>. QED BY <1>3, <2>1, <2>2, <2>3 DEF WorkerActivates
<1>4. CASE WorkerCleans
  <2>1. \/ pc = "cleanup" /\ pc' \in {"unlink", "end"}
        \/ pc = "unlink" /\ pc' \in {"forget", "end"}
        \/ pc = "forget" /\ pc' = "end"
        \/ pc = "end" /\ pc' = "idle"
    BY <1>4 DEF WorkerCleans, KeepProject, CleanupFails, DiscardEmpty, Unlink, UnlinkFails,
       Forget, ForgetFails, End, Fail, Goto
  <2>. QED BY <2>1 DEF StepsLeft
<1>. QED BY <1>1, <1>2, <1>3, <1>4 DEF Work

(* A run takes at most twenty steps, whatever fails and however its         *)
(* compensations and its clean-up follow one another.                       *)
THEOREM RunsAreShort == Spec => [][Shortens]_vars
<1>1. ASSUME IInv, [Next]_vars PROVE [Shortens]_vars
  <2>1. StepsLeft \in 0..20
    BY DEF StepsLeft
  <2>2. Edit => StepsLeft' = StepsLeft
    BY DEF Edit, locals, StepsLeft
  <2>. QED BY <1>1, <2>1, <2>2, WorkShortens DEF Shortens
<1>. QED BY <1>1, IInvAlways, PTL DEF Spec

-----------------------------------------------------------------------------
(* A run that nothing disturbs succeeds, and success is what it says        *)

(* A run that ends well serves the repository it scanned, complete, whether *)
(* it committed it or found it indexed.                                     *)
SuccessIsServed ==
  pc = "end" /\ result \in {"indexed", "unchanged"} => Served /\ row.chunks = job.scan

(* A run is refused for its stores only after a compensation was defeated.  *)
RefusedIsBroken == result = "invalid" => broken # {}

Unfailed == {"running", "indexed", "unchanged"}

(* No step fails by itself: without a fault, a recheck that finds an edit   *)
(* or a defeated compensation, a run that has not failed goes on.           *)
Undisturbed ==
  /\ broken = {}
  /\ faults' = faults
  /\ pc = "recheck" => repo = job.scan
GoesWell    == Work /\ Undisturbed /\ result \in Unfailed => result' \in Unfailed

(* The base check finds the stores agreeing, and the index opens.           *)
LEMMA NeverRefused ==
  ASSUME IInv, broken = {}
  PROVE  ~BaseInvalid /\ ~OpenInvalid
<1>1. ~BaseInvalid
  <2>1. SUFFICES ASSUME pc = "base", row.gen # NoGen, ~BaseAgrees PROVE FALSE
    BY DEF BaseInvalid, Goto
  <2>2. pointer = row.gen
    BY <2>1 DEF IInv, InvAgree
  <2>3. IsLive(row.gen) /\ colls[row.gen].model # NoModel
    BY <2>1 DEF IInv, CommittedIndexComplete, Complete
  <2>. QED BY <2>1, <2>2, <2>3 DEF BaseAgrees
<1>2. ~OpenInvalid
  BY DEF OpenInvalid, Goto, IInv, InvOpenable
<1>. QED BY <1>1, <1>2

(* How a run ends is decided by its refusals, its faults, the recheck, the   *)
(* plan and the final check.                                                *)
LEMMA ResultOf ==
  ASSUME IInv, Work
  PROVE  \/ result' = result
         \/ result' = "invalid" /\ (BaseInvalid \/ OpenInvalid)
         \/ result' = "failed" /\ ((pc = "recheck" /\ repo # job.scan) \/ faults' # faults)
         \/ result' = "unchanged" /\ NothingToDo
         \/ result' = "indexed" /\ Verify
<1>0. faults \in Nat
  BY ConstantsAssumption DEF IInv, TypeOK
<1>1. \A from, to : Fail(from, to) => result' = "failed" /\ faults' # faults
  BY <1>0 DEF Fail, Suffer
<1>2. \A S : Delete(S, 1) => faults' # faults
  BY <1>0 DEF Delete, Suffer
<1>3. CASE WorkerPrepares
  <2>1. CASE PointFirstFails
    BY <1>2, <2>1 DEF PointFirstFails
  <2>2. CASE Abandon \/ OpenFails
    BY <1>1, <2>2 DEF Abandon, OpenFails
  <2>. QED BY <1>3, <2>1, <2>2 DEF WorkerPrepares, BaseAbsent, BaseInvalid, BaseOutdated, BaseReused,
         NothingToDo, Prepare, Reserve, OpenExisting, OpenInvalid, CreateFirst, PointFirst
<1>4. CASE WorkerStages
  <2>1. CASE StageFillFails
    BY <1>2, <2>1 DEF StageFillFails
  <2>2. CASE StageFails \/ RecheckFails
    BY <1>1, <2>2 DEF StageFails, RecheckFails
  <2>3. CASE RecheckChanged
    BY <2>3 DEF RecheckChanged, Goto
  <2>. QED BY <1>4, <2>1, <2>2, <2>3 DEF WorkerStages, StageCreate, StageFill, RecheckSame, Discard
<1>5. CASE WorkerActivates
  <2>1. CASE BeginFails \/ SwitchFails \/ CommitFails \/ RereadFails \/ RestoreFails \/ FinalizeFails
    BY <1>1, <2>1 DEF BeginFails, SwitchFails, CommitFails, RereadFails, RestoreFails, FinalizeFails
  <2>. QED BY <1>5, <2>1 DEF WorkerActivates, Begin, Switch, Commit, Reread, Restore, Drop, Finalize,
         Verify, locals
<1>6. CASE WorkerCleans
  <2>1. CASE UnlinkFails \/ ForgetFails
    BY <1>1, <2>1 DEF UnlinkFails, ForgetFails
  <2>. QED BY <1>6, <2>1 DEF WorkerCleans, KeepProject, CleanupFails, DiscardEmpty, Unlink, Forget, End
<1>. QED BY <1>3, <1>4, <1>5, <1>6 DEF Work

(* Nothing is mended.                                                       *)
LEMMA BrokenStays ==
  ASSUME [Next]_vars
  PROVE  broken \subseteq broken'
<1>1. CASE Work
  BY <1>1 DEF Work, WorkerPrepares, WorkerStages, WorkerActivates, WorkerCleans, Damage,
     BaseAbsent, BaseInvalid, BaseOutdated, BaseReused, NothingToDo, Prepare, Abandon, Reserve,
     OpenExisting, OpenInvalid, OpenFails, CreateFirst, PointFirst, PointFirstFails,
     StageCreate, StageFails, StageFill, StageFillFails, RecheckSame, RecheckChanged, RecheckFails,
     Discard, Begin, BeginFails, Switch, SwitchFails, Commit, CommitFails, Reread, RereadFails,
     Restore, RestoreFails, Drop, Finalize, Verify, FinalizeFails, KeepProject, CleanupFails,
     DiscardEmpty, Unlink, UnlinkFails, Forget, ForgetFails, End
<1>2. CASE Crash
  BY <1>2 DEF Crash
<1>. QED BY <1>1, <1>2 DEF Next, StartIndex, Edit, vars

(* Nothing has succeeded before the end of the run.                         *)
SuccessEnds == pc \notin {"idle", "end"} => result \notin {"indexed", "unchanged"}

(* What the plan or the final check compared is what is served.             *)
LEMMA SuccessStep ==
  ASSUME IInv, SuccessEnds, SuccessIsServed, [Next]_vars
  PROVE  SuccessEnds' /\ SuccessIsServed'
<1>0. Work => pc \notin {"idle"} /\ ~(pc = "end" /\ pc' = "end") /\ (pc = "end" => pc' = "idle")
  <2>1. StepsLeft' \in 0..20
    BY DEF StepsLeft
  <2>2. Work => StepsLeft' < StepsLeft
    BY WorkShortens
  <2>3. CASE pc = "idle"
    BY <2>1, <2>2, <2>3 DEF StepsLeft
  <2>4. CASE pc = "end"
    <3>1. StepsLeft = 1
      BY <2>4 DEF StepsLeft
    <3>2. Work => StepsLeft' = 0
      BY <2>1, <2>2, <3>1
    <3>3. pc' \in Steps
      BY NextKeepsIInv DEF IInv, TypeOK
    <3>. QED BY <2>4, <3>2, <3>3 DEF StepsLeft, Steps, PreActivation, Activation
  <2>. QED BY <2>3, <2>4
<1>1. CASE NothingToDo
  <2>1. /\ pc = "prepare" /\ mode = "incremental" /\ job.scan = row.chunks
        /\ UNCHANGED <<row, colls, pointer, job>>
    BY <1>1 DEF NothingToDo, Goto, stores, locals
  <2>2. row.gen # NoGen /\ pointer = row.gen /\ IsLive(pointer)
    BY <2>1 DEF IInv, Knowledge, InvReuse, InvChecked, Checked
  <2>3. Ids(pointer) = row.chunks /\ colls[pointer].model # NoModel
    BY <2>1, ConstantsAssumption DEF IInv, Knowledge, InvReuse, InvJob
  <2>4. Served
    BY <2>2, <2>3 DEF Served, Complete
  <2>5. pc' = "end"
    BY <1>1 DEF NothingToDo, Goto
  <2>. QED BY <2>1, <2>4, <2>5 DEF SuccessEnds, SuccessIsServed, Served, Complete, IsLive, Ids
<1>2. CASE Verify
  <2>1. pc = "verify" /\ UNCHANGED <<row, colls, pointer, job>>
    BY <1>2 DEF Verify, Goto, stores, locals
  <2>2. row.gen = staged /\ pointer = staged /\ row.chunks = job.scan
    BY <2>1 DEF IInv, Knowledge, InvCommitted
  <2>3. IsLive(staged) /\ Ids(staged) = job.scan /\ colls[staged].model # NoModel
    BY <2>1 DEF IInv, Knowledge, InvFilled
  <2>4. staged # NoGen
    BY <2>3, ConstantsAssumption DEF IsLive
  <2>5. Served
    BY <2>2, <2>3, <2>4 DEF Served, Complete
  <2>6. pc' = "end"
    BY <1>2 DEF Verify, Goto
  <2>. QED BY <2>1, <2>2, <2>5, <2>6 DEF SuccessEnds, SuccessIsServed, Served, Complete, IsLive, Ids
<1>3. CASE result' \notin {"indexed", "unchanged"}
  BY <1>3 DEF SuccessEnds, SuccessIsServed
<1>4. CASE UNCHANGED <<pc, result, row, colls, pointer, job>>
  BY <1>4 DEF SuccessEnds, SuccessIsServed, Served, Complete, IsLive, Ids
<1>5. CASE Work /\ ~NothingToDo /\ ~Verify
  <2>1. result' = result \/ result' \in {"invalid", "failed"}
    BY <1>5, ResultOf
  <2>2. CASE result' \in {"invalid", "failed"}
    BY <1>3, <2>2
  <2>3. CASE result' = result /\ pc # "end"
    BY <1>0, <1>3, <1>5, <2>3 DEF SuccessEnds
  <2>4. CASE pc = "end"
    BY <1>0, <1>5, <2>4 DEF SuccessEnds, SuccessIsServed
  <2>. QED BY <2>1, <2>2, <2>3, <2>4
<1>6. ASSUME NEW m \in Models, StartIndex(m) PROVE result' \notin {"indexed", "unchanged"}
  BY <1>6 DEF StartIndex
<1>7. Crash => result' = "crashed"
  BY DEF Crash
<1>8. Edit \/ UNCHANGED vars => UNCHANGED <<pc, result, row, colls, pointer, job>>
  BY DEF Edit, vars, stores, locals
<1>. QED BY <1>1, <1>2, <1>3, <1>4, <1>5, <1>6, <1>7, <1>8 DEF Next

(* A run that reports success serves exactly the repository it scanned.     *)
THEOREM SuccessServes == Spec => []SuccessIsServed
<1>1. Init => SuccessEnds /\ SuccessIsServed
  BY DEF Init, SuccessEnds, SuccessIsServed
<1>2. IInv /\ SuccessEnds /\ SuccessIsServed /\ [Next]_vars => (SuccessEnds /\ SuccessIsServed)'
  BY SuccessStep
<1>. QED BY <1>1, <1>2, IInvAlways, PTL DEF Spec

(* As long as every compensation worked no run is refused for its stores.   *)
THEOREM RefusalsAreBroken == Spec => []RefusedIsBroken
<1>1. Init => RefusedIsBroken
  BY DEF Init, RefusedIsBroken
<1>2. ASSUME IInv, RefusedIsBroken, [Next]_vars PROVE RefusedIsBroken'
  <2>1. broken \subseteq broken'
    BY <1>2, BrokenStays
  <2>2. CASE Work
    BY <1>2, <2>1, <2>2, ResultOf, NeverRefused DEF RefusedIsBroken
  <2>3. ASSUME NEW m \in Models, StartIndex(m) PROVE result' # "invalid"
    BY <2>3 DEF StartIndex
  <2>4. Crash => result' = "crashed"
    BY DEF Crash
  <2>5. Edit \/ UNCHANGED vars => result' = result
    BY DEF Edit, vars
  <2>. QED BY <1>2, <2>1, <2>2, <2>3, <2>4, <2>5 DEF Next, RefusedIsBroken
<1>. QED BY <1>1, <1>2, IInvAlways, PTL DEF Spec

(* Without a fault, an edit or a defeated compensation no step of a run     *)
(* makes it fail.  With RunsAreShort and SuccessServes: an undisturbed run  *)
(* of a repository ends, within twenty steps, with its index up to date.    *)
THEOREM UndisturbedGoesWell == Spec => [][GoesWell]_vars
<1>1. ASSUME IInv, [Next]_vars PROVE [GoesWell]_vars
  BY <1>1, ResultOf, NeverRefused DEF GoesWell, Undisturbed, Unfailed
<1>. QED BY <1>1, IInvAlways, PTL DEF Spec
=============================================================================

--------------------------- MODULE ReadsProofs ---------------------------
(***************************************************************************)
(* Proofs about Reads, for any repository contents, models, generations and *)
(* bounds.  The indexing side keeps IInv; RInv adds what a request knows at *)
(* each of its steps about the row, the pointer and the collection it uses. *)
(***************************************************************************)
EXTENDS Reads, IndexActivationProofs

Waiting == {"idle", "guard", "row"}
Opening == {"point", "get", "match", "point again", "get again", "list", "query", "hydrate"}
Matched == {"point again", "get again", "query", "hydrate", "cite guard"}

Searching == req.kind \in Semantic

(* A candidate whose pointer is switched and whose commit has not failed.   *)
Switching(g) == pc = "commit" /\ g = staged

InvKind ==
  /\ req.model = NoModel <=> ~Searching
  /\ rpc \in {"files", "symbols", "chunks", "list"} => req.kind = "detail"
  /\ rpc \in {"query", "hydrate"} => Searching
  /\ rpc \in Opening => req.kind # "lexical"
  /\ rpc = "scan" => req.kind \in {"lexical", "hybrid"}
  /\ rpc \notin {"hydrate", "answered"} => pending = {}

(* Commits are not undone, and a committed project has a pointer.           *)
InvGenerations ==
  /\ row.gen # NoGen => pointer # NoGen
  /\ req.gen # NoGen => row.gen # NoGen
  /\ rpc \in Waiting => req.gen = NoGen
  /\ rpc \in Opening \/ (Searching /\ rpc \in {"scan", "cite guard", "cite"}) => req.gen # NoGen

(* A generation that is being staged is not the one a request has read.     *)
InvFreshStaging ==
  /\ pc = "fill" => colls[staged].model = NoModel
  /\ req.gen # NoGen /\ pc \in {"fill", "recheck", "begin", "switch", "commit"}
       => staged # req.gen

InvUntroubled ==
  /\ req.faults <= faults
  /\ rpc \notin {"idle", "guard", "answered"} /\ faults = req.faults
       => pc \notin {"rollback", "drop"}

InvServed ==
  /\ rpc # "idle" => row.gen \in served
  /\ req.gen # NoGen => req.gen \in served
  /\ Searching /\ faults = req.faults =>
       /\ rpc \in Matched \cup {"scan"} => pointer \in served \/ Switching(pointer)
       /\ rpc = "get again" => aimed \in served \/ Switching(aimed)
       /\ rpc \in {"query", "hydrate", "cite guard"} => opened \in served \/ Switching(opened)
       /\ rpc = "cite" => opened \in served

InvCounts ==
  /\ broken = {} /\ req.gen # NoGen /\ row.gen # req.gen => pointer # req.gen
  /\ req.kind = "detail" /\ req.gen # NoGen /\ row.gen = req.gen =>
       /\ rpc \in {"symbols", "chunks"} => seen = {row.chunks}
       /\ rpc \in {"point", "get", "match"} => seen = {hits}
       /\ rpc \in {"point", "get", "match"} => hits = row.chunks
  /\ req.kind = "detail" /\ broken = {} /\ rpc \in {"point again", "get again", "list"}
       => seen = {hits}

InvOverlap ==
  /\ rpc # "idle" /\ guard => overlap
  /\ rpc # "idle" /\ ~overlap /\ broken = {} /\ req.gen # NoGen =>
       /\ row.gen = req.gen
       /\ rpc \in {"get", "get again"} => aimed = req.gen

(* A reply is the end of its request.                                       *)
InvAnswer == answer # "none" => rpc = "answered"

RInv ==
  /\ IInv
  /\ ReadTypeOK /\ InvAnswer /\ InvKind /\ InvGenerations /\ InvFreshStaging /\ InvUntroubled
  /\ InvServed /\ InvCounts /\ InvOverlap
  /\ QueryInOwnModel /\ SearchedIndexWasServed /\ DetailIsOfOneIndex /\ InvalidNeedsActivation

-----------------------------------------------------------------------------
(* What one step of the indexing side can do to what a request relies on.   *)

Staging == {"fill", "recheck", "begin", "switch", "commit"}

RowEffect ==
  row.gen # NoGen => row' = row \/ (pc = "commit" /\ pc' = "reread" /\ row'.gen = staged)

PointerEffect ==
  row.gen # NoGen =>
    \/ pointer' = pointer
    \/ /\ pc = "switch" /\ pointer' = staged
       /\ (pc' = "commit" /\ staged' = staged) \/ faults < faults'
    \/ pc = "rollback" /\ pointer' = old /\ (row.gen = staged => broken' # {})

StepEffect ==
  /\ pc' \in {"rollback", "drop"} => pc \in {"rollback", "drop"} \/ faults < faults'
  /\ pc = "commit" => \/ pc' = "commit" /\ staged' = staged
                      \/ pc' = "reread" /\ row'.gen = staged
                      \/ faults < faults'
  /\ pc' \in Staging => \/ pc \in Staging /\ staged' = staged
                        \/ pc' = "fill" /\ staged' \in Gens
                           /\ ~colls[staged'].live /\ colls'[staged'].live
  /\ pc' = "fill" => \/ pc = "fill" /\ staged' = staged /\ colls' = colls
                     \/ staged' \in Gens /\ colls'[staged'] = EmptyCollection

CountersGrow == faults <= faults' /\ broken \subseteq broken'

Effects == RowEffect /\ PointerEffect /\ StepEffect /\ CountersGrow

(* Deleting suffers the faults counted before, or one more.                 *)
LEMMA DeleteSuffers ==
  ASSUME faults \in Nat, NEW S, NEW n \in {0, 1}, Delete(S, n)
  PROVE  faults <= faults'
  BY DEF Delete, Suffer

(* Preparing, reserving and opening write nothing of a committed project.   *)
LEMMA PrepareEffects ==
  ASSUME IInv, WorkerPrepares
  PROVE  Effects
<1> USE DEF Effects, RowEffect, PointerEffect, StepEffect, CountersGrow, Staging, Goto
<1>0. faults \in Nat /\ (row.gen # NoGen => row.exists)
  BY ConstantsAssumption DEF IInv, TypeOK, InvRow
<1>1. CASE BaseAbsent \/ BaseInvalid \/ BaseOutdated \/ BaseReused \/ NothingToDo \/ Prepare
  BY <1>0, <1>1 DEF BaseAbsent, BaseInvalid, BaseOutdated, BaseReused, NothingToDo, Prepare,
     stores, locals
<1>2. CASE Abandon \/ OpenExisting \/ OpenInvalid \/ OpenFails
  BY <1>0, <1>2 DEF Abandon, OpenExisting, OpenInvalid, OpenFails, Fail, Suffer, stores, locals
<1>3. CASE Reserve
  BY <1>0, <1>3 DEF Reserve, locals
<1>4. ASSUME NEW g \in Gens, CreateFirst(g) PROVE Effects
  BY <1>0, <1>4 DEF CreateFirst
<1>5. CASE PointFirst
  <2>1. row.gen = NoGen
    BY <1>5 DEF PointFirst, IInv, Knowledge, InvFirst
  <2>2. QED
    BY <1>0, <1>5, <2>1 DEF PointFirst
<1>6. CASE PointFirstFails
  <2>1. broken \subseteq broken'
    BY <1>6 DEF PointFirstFails, Damage
  <2>2. Delete({old}, 1)
    BY <1>6 DEF PointFirstFails, Damage
  <2>3. faults <= faults'
    BY <1>0, <2>2, DeleteSuffers
  <2>4. RowEffect /\ PointerEffect /\ StepEffect
    BY <1>0, <1>6, <2>1 DEF PointFirstFails, Damage, Delete, Suffer, locals
  <2>5. QED
    BY <2>1, <2>3, <2>4
<1>7. QED
  BY <1>1, <1>2, <1>3, <1>4, <1>5, <1>6 DEF WorkerPrepares

(* Staging creates a generation that did not exist before.                  *)
LEMMA StageEffects ==
  ASSUME IInv, WorkerStages
  PROVE  Effects
<1> USE DEF Effects, RowEffect, PointerEffect, StepEffect, CountersGrow, Staging, Goto
<1>0. faults \in Nat /\ colls \in [Gens -> Collections]
  BY ConstantsAssumption DEF IInv, TypeOK
<1>1. ASSUME NEW g \in Gens, StageCreate(g) PROVE Effects
  <2>1. PICK S : colls' = [Without(S) EXCEPT ![g] = EmptyCollection]
    BY <1>1 DEF StageCreate
  <2>2. colls'[g] = EmptyCollection /\ ~colls[g].live /\ EmptyCollection.live
    BY <1>1, <2>1 DEF StageCreate, Fresh, Live, Without, EmptyCollection
  <2>3. QED
    BY <1>0, <1>1, <2>2 DEF StageCreate, Suffer
<1>2. CASE StageFails \/ RecheckSame \/ RecheckChanged \/ RecheckFails
  BY <1>0, <1>2 DEF StageFails, RecheckSame, RecheckChanged, RecheckFails, Fail, Suffer,
     AfterFailure, stores, locals
<1>3. CASE StageFill
  BY <1>0, <1>3 DEF StageFill, locals
<1>4. CASE StageFillFails \/ Discard
  BY <1>0, <1>4 DEF StageFillFails, Discard, Delete, Suffer, AfterFailure
<1>5. QED
  BY <1>1, <1>2, <1>3, <1>4 DEF WorkerStages

(* Activation: the commit is the only step that replaces a row, the switch  *)
(* and its restoration the only ones that move the pointer.                 *)
LEMMA ActivateEffects ==
  ASSUME IInv, WorkerActivates
  PROVE  Effects
<1> USE DEF Effects, RowEffect, PointerEffect, StepEffect, CountersGrow, Staging, Goto
<1>0. faults \in Nat
  BY ConstantsAssumption DEF IInv, TypeOK
<1>1. CASE Begin \/ BeginFails \/ Switch
  BY <1>0, <1>1 DEF Begin, BeginFails, Switch, Fail, Suffer, stores, locals
<1>2. CASE SwitchFails \/ Commit \/ CommitFails
  BY <1>0, <1>2 DEF SwitchFails, Commit, CommitFails, Fail, Suffer, stores, locals
<1>3. CASE Reread \/ RereadFails
  BY <1>0, <1>3 DEF Reread, RereadFails, Fail, Suffer, stores, locals
<1>4. CASE RestoreFails
  <2>1. broken \subseteq broken'
    BY <1>4 DEF RestoreFails, Damage
  <2>2. faults' = faults + 1
    BY <1>4 DEF RestoreFails, Fail, Suffer, Damage
  <2>3. faults <= faults'
    BY <1>0, <2>2
  <2>4. RowEffect /\ PointerEffect /\ StepEffect
    BY <1>0, <1>4, <2>1 DEF RestoreFails, Damage, Fail, Suffer, stores,
       locals
  <2>5. QED
    BY <2>1, <2>3, <2>4
<1>5. CASE Restore
  <2>1. broken \subseteq broken'
    BY <1>5 DEF Restore, Damage
  <2>2. faults' = faults
    BY <1>5 DEF Restore, Damage
  <2>3. faults <= faults'
    BY <1>0, <2>2
  <2>4. RowEffect /\ PointerEffect /\ StepEffect
    BY <1>0, <1>5, <2>1 DEF Restore, Damage
  <2>5. QED
    BY <2>1, <2>3, <2>4
<1>6. CASE Drop \/ Finalize
  <2>1. broken \subseteq broken'
    BY <1>6 DEF Drop, Finalize, Damage
  <2>2. \E S : Delete(S, 0)
    BY <1>6 DEF Drop, Finalize, Damage
  <2>3. faults <= faults'
    BY <1>0, <2>2, DeleteSuffers
  <2>4. RowEffect /\ PointerEffect /\ StepEffect
    BY <1>0, <1>6, <2>1 DEF Drop, Finalize, Damage, Delete, Suffer,
       AfterFailure, locals
  <2>5. QED
    BY <2>1, <2>3, <2>4
<1>7. CASE Verify \/ FinalizeFails
  BY <1>0, <1>7 DEF Verify, FinalizeFails, Fail, Suffer, AfterFailure, stores, locals
<1>8. QED
  BY <1>1, <1>2, <1>3, <1>4, <1>5, <1>6, <1>7 DEF WorkerActivates

(* The cleanup of a failed run touches uncommitted projects only.           *)
LEMMA CleanEffects ==
  ASSUME IInv, WorkerCleans
  PROVE  Effects
<1> USE DEF Effects, RowEffect, PointerEffect, StepEffect, CountersGrow, Staging, Goto
<1>0. faults \in Nat /\ (pc \in {"unlink", "forget"} => row.gen = NoGen)
  BY ConstantsAssumption DEF IInv, TypeOK, Knowledge, InvFirst
<1>1. CASE KeepProject \/ CleanupFails \/ UnlinkFails \/ ForgetFails
  <2>1. broken \subseteq broken'
    BY <1>1 DEF KeepProject, CleanupFails, UnlinkFails, ForgetFails, Damage
  <2>2. faults' = faults \/ faults' = faults + 1
    BY <1>1 DEF KeepProject, CleanupFails, UnlinkFails, ForgetFails, Fail, Suffer, Damage
  <2>3. faults <= faults'
    BY <1>0, <2>2
  <2>4. RowEffect /\ PointerEffect /\ StepEffect
    BY <1>0, <1>1, <2>1 DEF KeepProject, CleanupFails, UnlinkFails,
       ForgetFails, Damage, Fail, Suffer, stores, locals
  <2>5. QED
    BY <2>1, <2>3, <2>4
<1>2. CASE DiscardEmpty \/ Unlink \/ Forget \/ End
  <2>1. broken \subseteq broken'
    BY <1>2 DEF DiscardEmpty, Unlink, Forget, End, Damage
  <2>2. faults' = faults \/ \E S : Delete(S, 0)
    BY <1>2 DEF DiscardEmpty, Unlink, Forget, End, Damage
  <2>3. faults <= faults'
    BY <1>0, <2>2, DeleteSuffers
  <2>4. RowEffect /\ PointerEffect /\ StepEffect
    BY <1>0, <1>2, <2>1 DEF DiscardEmpty, Unlink, Forget, End, Damage,
       Delete, Suffer, stores, locals
  <2>5. QED
    BY <2>1, <2>3, <2>4
<1>3. QED
  BY <1>1, <1>2 DEF WorkerCleans

(* Any step of the indexing side, seen from a request.                      *)
LEMMA StoreEffects ==
  ASSUME IInv, StoreStep
  PROVE  IInv' /\ Effects
<1>1. CASE Work
  BY <1>1, StepKeepsIInv, PrepareEffects, StageEffects, ActivateEffects, CleanEffects DEF Work
<1>2. ASSUME NEW m \in Models, StartIndex(m) PROVE IInv' /\ Effects
  <2>1. Effects
    BY <1>2, ConstantsAssumption DEF IInv, TypeOK, StartIndex, Goto, stores, Effects, RowEffect,
       PointerEffect, StepEffect, CountersGrow, Staging
  <2>2. QED
    BY <1>2, <2>1, StartKeepsIInv
<1>3. CASE Edit
  <2>1. Effects
    BY <1>3, ConstantsAssumption DEF IInv, TypeOK, Edit, stores, locals, Effects, RowEffect,
       PointerEffect, StepEffect, CountersGrow, Staging
  <2>2. QED
    BY <1>3, <2>1, EditKeepsIInv
<1>4. QED
  BY <1>1, <1>2, <1>3 DEF StoreStep

(* A collection that lives on is left as it is, except while it is filled.  *)
LEMMA LivesOn ==
  ASSUME IInv, StoreStep, NEW g \in Gens, colls[g].live, colls'[g].live
  PROVE  colls'[g] = colls[g] \/ (pc = "fill" /\ g = staged)
<1> USE DEF Goto
<1>0. TypeOK /\ ~NoCollection.live
  BY DEF IInv, NoCollection
<1>1. CASE Quiet \/ Edit \/ \E m \in Models : StartIndex(m)
  BY <1>1 DEF Quiet, Edit, StartIndex, stores
<1>2. CASE Writes
  <2>1. CASE Reserve \/ PointFirst \/ Begin \/ Switch \/ SwitchFails \/ Commit \/ Restore
    BY <2>1 DEF Reserve, PointFirst, Begin, Switch, SwitchFails, Commit, Restore, Damage, stores
  <2>2. CASE Unlink \/ Forget \/ End
    BY <2>2 DEF Unlink, Forget, End, stores
  <2>3. ASSUME NEW h \in Gens, CreateFirst(h) \/ StageCreate(h)
        PROVE  colls'[g] = colls[g]
    <3>1. h # g
      BY <2>3 DEF CreateFirst, StageCreate, Fresh, Live
    <3>2. CASE CreateFirst(h)
      BY <3>1, <3>2 DEF CreateFirst, Create
    <3>3. CASE StageCreate(h)
      <4>1. PICK S : colls' = [Without(S) EXCEPT ![h] = EmptyCollection]
        BY <3>3 DEF StageCreate
      <4>2. QED
        BY <1>0, <3>1, <4>1 DEF Without
    <3>4. QED
      BY <2>3, <3>2, <3>3
  <2>4. CASE StageFill
    BY <2>4 DEF StageFill
  <2>5. CASE PointFirstFails \/ StageFillFails \/ Discard \/ Drop \/ Finalize \/ DiscardEmpty
    <3>1. \E S : Delete(S, 0) \/ Delete(S, 1)
      BY <2>5 DEF PointFirstFails, StageFillFails, Discard, Drop, Finalize, DiscardEmpty, Damage
    <3>2. QED
      BY <1>0, <3>1, DeleteEffect
  <2>6. QED
    BY <1>2, <2>1, <2>2, <2>3, <2>4, <2>5 DEF Writes
<1>3. QED
  BY <1>1, <1>2, WriteOrQuiet DEF StoreStep

-----------------------------------------------------------------------------
(* The indexing side keeps what a request knows.                            *)

(* Types, the generation read, and that no fault came unnoticed.            *)
LEMMA StoreKeepsGenerations ==
  ASSUME RInv, StoreStep
  PROVE  /\ ReadTypeOK' /\ InvAnswer' /\ InvKind' /\ InvGenerations'
         /\ InvFreshStaging' /\ InvUntroubled'
<1> USE DEF StoreStep, held, history
<1>1. IInv /\ IInv' /\ Effects
  BY StoreEffects DEF RInv
<1>2. ReadTypeOK'
  <2>1. row'.gen \in Gens \cup {NoGen} /\ guard' \in BOOLEAN
    BY <1>1 DEF IInv, TypeOK, Rows
  <2>2. QED
    BY <2>1 DEF RInv, ReadTypeOK
<1>3. InvAnswer' /\ InvKind'
  BY DEF RInv, InvAnswer, InvKind, Searching
<1>4. /\ pc \in {"switch", "commit"} => staged \in Gens
      /\ pc = "rollback" => old \in Gens
  BY <1>1 DEF IInv, Knowledge, InvFilled, InvRollback, IsLive
<1>5. InvGenerations'
  <2>1. row'.gen # NoGen => pointer' # NoGen
    <3>1. CASE row.gen # NoGen
      BY <1>1, <1>4, <3>1, ConstantsAssumption DEF Effects, PointerEffect, RInv, InvGenerations
    <3>2. CASE row.gen = NoGen
      <4>1. CASE row' = row
        BY <3>2, <4>1
      <4>2. CASE Commit
        BY <1>1, <1>4, <4>2, ConstantsAssumption DEF Commit, Goto, IInv, Knowledge, InvSwitched,
           InvFilled, IsLive
      <4>3. row' = row \/ Commit \/ row'.gen = NoGen
        <5>1. CASE Quiet \/ Edit \/ \E m \in Models : StartIndex(m)
          BY <5>1 DEF Quiet, Edit, StartIndex, stores
        <5>2. CASE Reserve \/ Forget
          BY <5>2 DEF Reserve, Reserved, Forget, NoRow
        <5>3. ASSUME \/ (\E g \in Gens : CreateFirst(g)) \/ PointFirst \/ PointFirstFails
                     \/ (\E g \in Gens : StageCreate(g)) \/ StageFill
                     \/ StageFillFails \/ Discard
              PROVE  row' = row
          BY <5>3 DEF CreateFirst, PointFirst, PointFirstFails, StageCreate, StageFill,
             StageFillFails, Discard, Damage
        <5>4. ASSUME \/ Begin \/ Switch \/ SwitchFails \/ Restore \/ Drop \/ Finalize
                     \/ DiscardEmpty \/ Unlink \/ End
              PROVE  row' = row
          BY <5>4 DEF Begin, Switch, SwitchFails, Restore, Drop, Finalize, DiscardEmpty, Unlink,
             End, Damage, stores
        <5>5. QED
          BY <5>1, <5>2, <5>3, <5>4, WriteOrQuiet DEF Writes
      <4>4. QED
        BY <4>1, <4>2, <4>3
    <3>3. QED
      BY <3>1, <3>2
  <2>2. row.gen # NoGen => row'.gen # NoGen
    BY <1>1, <1>4, ConstantsAssumption DEF Effects, RowEffect
  <2>3. QED
    BY <2>1, <2>2 DEF RInv, InvGenerations, Searching
<1>6. InvFreshStaging'
  <2>1. pc' = "fill" => colls'[staged'].model = NoModel
    BY <1>1 DEF RInv, InvFreshStaging, Effects, StepEffect, EmptyCollection
  <2>2. ASSUME req.gen # NoGen, pc' \in Staging PROVE staged' # req.gen
    <3>1. req.gen \in Gens /\ req.gen \in Remembered
      BY <2>2 DEF RInv, ReadTypeOK, Requests, Remembered
    <3>2. CASE pc \in Staging /\ staged' = staged
      BY <2>2, <3>2 DEF RInv, InvFreshStaging, Staging
    <3>3. CASE ~colls[staged'].live /\ colls'[staged'].live
      BY <3>1, <3>3
    <3>4. QED
      BY <1>1, <2>2, <3>2, <3>3 DEF Effects, StepEffect
  <2>3. QED
    BY <2>1, <2>2 DEF InvFreshStaging, Staging
<1>7. InvUntroubled'
  <2>1. faults \in Nat /\ faults' \in Nat /\ req.faults \in Nat /\ faults <= faults'
    BY <1>1, ConstantsAssumption DEF IInv, TypeOK, RInv, ReadTypeOK, Requests, Effects,
       CountersGrow
  <2>2. req.faults <= faults'
    BY <2>1 DEF RInv, InvUntroubled
  <2>3. ASSUME rpc \notin {"idle", "guard", "answered"}, faults' = req.faults
        PROVE  pc' \notin {"rollback", "drop"}
    <3>1. faults = req.faults /\ ~(faults < faults')
      BY <2>1, <2>3 DEF RInv, InvUntroubled
    <3>2. pc \notin {"rollback", "drop"}
      BY <2>3, <3>1 DEF RInv, InvUntroubled
    <3>3. QED
      BY <1>1, <3>1, <3>2 DEF Effects, StepEffect
  <2>4. QED
    BY <2>2, <2>3 DEF InvUntroubled
<1>8. QED
  BY <1>2, <1>3, <1>5, <1>6, <1>7

(* What a request is about to search is committed, or gets committed.       *)
LEMMA StoreKeepsServed ==
  ASSUME RInv, StoreStep
  PROVE  InvServed' /\ SearchedIndexWasServed'
<1> USE DEF StoreStep, held, history
<1>1. IInv /\ IInv' /\ Effects
  BY StoreEffects DEF RInv
<1>2. ReadTypeOK /\ InvKind /\ InvGenerations /\ InvUntroubled /\ InvServed
  BY DEF RInv
<1>3. served \subseteq served' /\ (rpc # "idle" => row'.gen \in served')
  OBVIOUS
<1>4. Searching' = Searching /\ rpc' = rpc /\ req' = req /\ aimed' = aimed /\ opened' = opened
  BY DEF Searching
<1>5. SearchedIndexWasServed'
  BY DEF RInv, InvAnswer, SearchedIndexWasServed
<1>6. ASSUME Searching, faults' = req.faults
      PROVE  faults = req.faults /\ ~(faults < faults')
  BY <1>1, <1>2, <1>6, ConstantsAssumption DEF IInv, TypeOK, InvUntroubled, ReadTypeOK, Requests,
     Effects, CountersGrow
(* What is being committed stays so, or is committed.                       *)
<1>7. ASSUME NEW g, Switching(g), ~(faults < faults'), rpc # "idle"
      PROVE  g \in served' \/ Switching(g)'
  BY <1>1, <1>3, <1>7 DEF Switching, Effects, StepEffect
<1>8. ASSUME Searching, faults' = req.faults, rpc \in Matched \cup {"scan"}
      PROVE  pointer' \in served' \/ Switching(pointer)'
  <2>1. row.gen # NoGen /\ pc \notin {"rollback", "drop"}
    BY <1>2, <1>6, <1>8 DEF InvGenerations, InvUntroubled, Matched, Opening
  <2>2. pointer \in served \/ Switching(pointer)
    BY <1>2, <1>6, <1>8 DEF InvServed
  <2>3. CASE pointer' = pointer
    BY <1>3, <1>6, <1>7, <1>8, <2>2, <2>3 DEF Matched, Switching
  <2>4. CASE pointer' = staged /\ pc' = "commit" /\ staged' = staged
    BY <2>4 DEF Switching
  <2>5. QED
    BY <1>1, <1>6, <1>8, <2>1, <2>3, <2>4 DEF Effects, PointerEffect
<1>9. ASSUME Searching, faults' = req.faults, rpc = "get again"
      PROVE  aimed' \in served' \/ Switching(aimed)'
  BY <1>2, <1>3, <1>4, <1>6, <1>7, <1>9 DEF InvServed, Switching
<1>10. ASSUME Searching, faults' = req.faults, rpc \in {"query", "hydrate", "cite guard"}
       PROVE  opened' \in served' \/ Switching(opened)'
  BY <1>2, <1>3, <1>4, <1>6, <1>7, <1>10 DEF InvServed, Switching
<1>11. ASSUME Searching, faults' = req.faults, rpc = "cite"
       PROVE  opened' \in served'
  BY <1>2, <1>3, <1>4, <1>6, <1>11 DEF InvServed
<1>12. QED
  BY <1>2, <1>3, <1>4, <1>5, <1>8, <1>9, <1>10, <1>11 DEF InvServed

(* A generation once replaced is not pointed to again.                      *)
LEMMA StoreKeepsCounts ==
  ASSUME RInv, StoreStep
  PROVE  InvCounts' /\ DetailIsOfOneIndex'
<1> USE DEF StoreStep, held, history
<1>1. IInv /\ IInv' /\ Effects
  BY StoreEffects DEF RInv
<1>2. ReadTypeOK /\ InvGenerations /\ InvFreshStaging /\ InvCounts
  BY DEF RInv
<1>3. (broken' = {} => broken = {}) /\ rpc' = rpc /\ req' = req /\ seen' = seen /\ hits' = hits
  BY <1>1 DEF Effects, CountersGrow
<1>4. DetailIsOfOneIndex'
  BY DEF RInv, InvAnswer, DetailIsOfOneIndex
<1>5. ASSUME req.gen # NoGen PROVE row.gen # NoGen
  BY <1>2, <1>5 DEF InvGenerations
(* A row that is replaced names a generation the request has not read.      *)
<1>6. ASSUME req.gen # NoGen, row' # row
      PROVE  row'.gen = staged /\ staged # req.gen /\ pc = "commit" /\ pc' = "reread"
  BY <1>1, <1>2, <1>5, <1>6 DEF Effects, RowEffect, InvFreshStaging
<1>7. ASSUME broken' = {}, req.gen # NoGen, row'.gen # req.gen
      PROVE  pointer' # req.gen
  <2>1. CASE row' # row
    <3>1. pointer' = pointer /\ pointer = staged
      BY <1>1, <1>6, <1>7, <2>1, <1>5 DEF Effects, PointerEffect, IInv, Knowledge, InvSwitched
    <3>2. QED
      BY <1>6, <1>7, <2>1, <3>1
  <2>2. CASE row' = row
    <3>1. pointer # req.gen
      BY <1>2, <1>3, <1>7, <2>2 DEF InvCounts
    <3>2. CASE pc = "switch" /\ pointer' = staged
      BY <1>2, <1>7, <3>2 DEF InvFreshStaging
    <3>3. CASE pc = "rollback" /\ pointer' = old /\ (row.gen = staged => broken' # {})
      BY <1>1, <1>5, <1>7, <2>2, <3>3 DEF IInv, Knowledge, InvRollback
    <3>4. QED
      BY <1>1, <1>5, <1>7, <3>1, <3>2, <3>3 DEF Effects, PointerEffect
  <2>3. QED
    BY <2>1, <2>2
<1>8. ASSUME req.gen # NoGen, row'.gen = req.gen
      PROVE  row' = row
  BY <1>6, <1>8
<1>9. QED
  BY <1>2, <1>3, <1>4, <1>7, <1>8 DEF InvCounts

(* Without the guard neither the row nor the collection searched changes.   *)
LEMMA StoreKeepsOverlap ==
  ASSUME RInv, StoreStep
  PROVE  InvOverlap' /\ InvalidNeedsActivation' /\ QueryInOwnModel'
<1> USE DEF StoreStep, held, history
<1>1. IInv /\ IInv' /\ Effects
  BY StoreEffects DEF RInv
<1>2. ReadTypeOK /\ InvKind /\ InvGenerations /\ InvFreshStaging /\ InvOverlap
  BY DEF RInv
<1>3. InvalidNeedsActivation'
  BY DEF RInv, InvAnswer, InvalidNeedsActivation
<1>4. InvOverlap'
  <2>1. SUFFICES ASSUME rpc # "idle", ~overlap', broken' = {}, req.gen # NoGen
                 PROVE  row'.gen = req.gen /\ (rpc \in {"get", "get again"} => aimed = req.gen)
    BY DEF InvOverlap
  <2>2. ~overlap /\ ~guard /\ broken = {}
    BY <1>1, <1>2, <2>1 DEF InvOverlap, Effects, CountersGrow
  <2>3. pc # "commit" /\ row.gen # NoGen
    BY <1>1, <1>2, <2>1, <2>2 DEF IInv, InvGuard, Activation, InvGenerations
  <2>4. row' = row
    BY <1>1, <2>3 DEF Effects, RowEffect
  <2>5. QED
    BY <1>2, <2>1, <2>2, <2>4 DEF InvOverlap
<1>5. QueryInOwnModel'
  <2>1. SUFFICES ASSUME rpc = "query", opened \in Gens, colls'[opened].live
                 PROVE  colls'[opened].model = req.model
    BY DEF QueryInOwnModel, IsLive
  <2>2. colls[opened].live
    BY <2>1 DEF Remembered
  <2>3. colls[opened].model = req.model /\ req.model # NoModel
    BY <1>2, <2>1, <2>2 DEF RInv, QueryInOwnModel, IsLive, InvKind
  <2>4. ~(pc = "fill" /\ opened = staged)
    BY <1>2, <2>3 DEF InvFreshStaging
  <2>5. QED
    BY <1>1, <2>1, <2>2, <2>3, <2>4, LivesOn
<1>6. QED
  BY <1>3, <1>4, <1>5

-----------------------------------------------------------------------------
(* The request keeps what it knows.                                         *)

(* What the indexing side lets a request see.                               *)
LEMMA VisibleTypes ==
  ASSUME RInv
  PROVE  /\ row.gen \in Gens \cup {NoGen} /\ pointer \in Gens \cup {NoGen}
         /\ guard \in BOOLEAN /\ faults \in 0..MaxFaults
         /\ row.chunks \in SUBSET Versions
         /\ {row.chunks} \in SUBSET SUBSET Versions
         /\ seen \cup {row.chunks} \in SUBSET SUBSET Versions
         /\ \A g \in Gens : Ids(g) \in SUBSET Versions
<1>1. row \in Rows /\ colls \in [Gens -> Collections] /\ seen \in SUBSET SUBSET Versions
  BY DEF RInv, IInv, TypeOK, ReadTypeOK
<1>2. row.chunks \in SUBSET Versions
  BY <1>1 DEF Rows
<1>3. {row.chunks} \in SUBSET SUBSET Versions /\ seen \cup {row.chunks} \in SUBSET SUBSET Versions
  BY <1>1, <1>2
<1>4. ASSUME NEW g \in Gens PROVE Ids(g) \in SUBSET Versions
  <2>1. colls[g].vectors \in SUBSET (Versions \X Models)
    BY <1>1 DEF Collections
  <2>2. QED
    BY <2>1 DEF Ids
<1>5. row.gen \in Gens \cup {NoGen} /\ pointer \in Gens \cup {NoGen}
  BY <1>1 DEF Rows, RInv, IInv, TypeOK
<1>6. guard \in BOOLEAN /\ faults \in 0..MaxFaults
  BY DEF RInv, IInv, TypeOK
<1>7. QED
  BY <1>2, <1>3, <1>4, <1>5, <1>6

(* Without the guard nothing is being committed or undone, and a generation *)
(* being staged is not the committed one.                                   *)
LEMMA VisibleStaging ==
  ASSUME IInv
  PROVE  /\ guard \/ pc \notin {"commit", "rollback", "drop"}
         /\ pc \in Staging /\ row.gen # NoGen => staged # row.gen
         /\ faults \in Nat
<1>1. guard \/ pc \notin {"commit", "rollback", "drop"}
  BY DEF IInv, InvGuard, Activation
<1>2. pc \in Staging /\ row.gen # NoGen => staged # row.gen
  BY DEF IInv, Staging, Knowledge, InvChecked, Checked, InvStaging, InvSwitched
<1>3. faults \in Nat
  BY ConstantsAssumption DEF IInv, TypeOK
<1>4. QED
  BY <1>1, <1>2, <1>3

(* Each step of a request, for one group of facts after another.            *)
LEMMA ReaderKeepsTypes ==
  ASSUME RInv, IInv', ReaderStep, UNCHANGED vars, ~Close
  PROVE  ReadTypeOK' /\ InvAnswer' /\ InvKind'
<1> USE DEF vars, stores, locals, env, held, history, RGoto, ReadTypeOK, InvAnswer, InvKind,
   Searching, Requests, RequestSteps, Answers, Kinds, Semantic, Opening
<1>0. /\ ReadTypeOK /\ InvAnswer /\ InvKind /\ NoModel \notin Models
      /\ row.gen \in Gens \cup {NoGen} /\ pointer \in Gens \cup {NoGen}
      /\ guard \in BOOLEAN /\ faults \in 0..MaxFaults
      /\ row.chunks \in SUBSET Versions
      /\ {row.chunks} \in SUBSET SUBSET Versions
      /\ seen \cup {row.chunks} \in SUBSET SUBSET Versions
      /\ \A g \in Gens : Ids(g) \in SUBSET Versions
  BY VisibleTypes, ConstantsAssumption DEF RInv
<1>1. ASSUME NEW kind \in Kinds, NEW m \in Models \cup {NoModel}, Ask(kind, m)
      PROVE  ReadTypeOK' /\ InvAnswer' /\ InvKind'
  BY <1>0, <1>1 DEF Ask
<1>2. CASE Refused
  BY <1>0, <1>2 DEF Refused, Reply
<1>3. CASE Admitted
  BY <1>0, <1>3 DEF Admitted
<1>4. CASE ReadRow
  BY <1>0, <1>4 DEF ReadRow
<1>5. CASE NeverIndexed
  BY <1>0, <1>5 DEF NeverIndexed, Reply
<1>6. CASE RequestFails
  BY <1>0, <1>6 DEF RequestFails
<1>7. CASE CountFiles
  BY <1>0, <1>7 DEF CountFiles
<1>8. CASE CountSymbols
  BY <1>0, <1>8 DEF CountSymbols
<1>9. CASE CountChunks
  BY <1>0, <1>9 DEF CountChunks
<1>10. CASE ReadPointer
  BY <1>0, <1>10 DEF ReadPointer
<1>11. CASE GetCollection
  BY <1>0, <1>11 DEF GetCollection, IsLive
<1>12. CASE CollectionGone
  BY <1>0, <1>12 DEF CollectionGone, Reply
<1>13. CASE GenerationMatches
  BY <1>0, <1>13 DEF GenerationMatches, AfterMatch
<1>14. CASE GenerationDiffers
  BY <1>0, <1>14 DEF GenerationDiffers, Reply
<1>15. CASE GetForListing
  BY <1>0, <1>15 DEF GetForListing, IsLive
<1>16. CASE ListIds
  BY <1>0, <1>16 DEF ListIds, Reply
<1>17. CASE Scan
  BY <1>0, <1>17 DEF Scan
<1>18. CASE GetForQuery
  BY <1>0, <1>18 DEF GetForQuery, IsLive
<1>19. CASE OtherModel
  BY <1>0, <1>19 DEF OtherModel, Reply
<1>20. CASE Query
  BY <1>0, <1>20 DEF Query, IsLive
<1>21. CASE Hydrate
  BY <1>0, <1>21 DEF Hydrate
<1>22. CASE Rank
  BY <1>0, <1>22 DEF Rank
<1>23. CASE CiteAdmitted
  BY <1>0, <1>23 DEF CiteAdmitted
<1>24. CASE CiteRefused
  BY <1>0, <1>24 DEF CiteRefused, Reply
<1>25. CASE Cite
  BY <1>0, <1>25 DEF Cite, Reply
<1>26. QED
  BY <1>1, <1>2, <1>3, <1>4, <1>5, <1>6, <1>7, <1>8, <1>9, <1>10, <1>11, <1>12, <1>13,
     <1>14, <1>15, <1>16, <1>17, <1>18, <1>19, <1>20, <1>21, <1>22, <1>23, <1>24, <1>25 DEF
     ReaderStep, ReaderOpens, ReaderCounts, ReaderSearches

(* The generation read is the committed one, and not one being staged.      *)
LEMMA ReaderKeepsGenerations ==
  ASSUME RInv, IInv', ReaderStep, UNCHANGED vars, ~Close
  PROVE  InvGenerations' /\ InvFreshStaging' /\ InvUntroubled'
<1> USE DEF vars, stores, locals, env, held, history, RGoto, InvGenerations,
   InvFreshStaging, InvUntroubled, Searching, Waiting, Opening
<1>0. /\ ReadTypeOK /\ InvGenerations /\ InvFreshStaging /\ InvUntroubled /\ InvKind
      /\ guard \/ pc \notin {"commit", "rollback", "drop"}
      /\ pc \in Staging /\ row.gen # NoGen => staged # row.gen
      /\ faults \in Nat
  BY VisibleStaging DEF RInv
<1>1. ASSUME NEW kind \in Kinds, NEW m \in Models \cup {NoModel}, Ask(kind, m)
      PROVE  InvGenerations' /\ InvFreshStaging' /\ InvUntroubled'
  BY <1>0, <1>1 DEF Ask
<1>2. CASE Refused
  BY <1>0, <1>2 DEF Refused, Reply
<1>3. CASE Admitted
  BY <1>0, <1>3 DEF Admitted
<1>4. CASE ReadRow
  BY <1>0, <1>4 DEF ReadRow, Semantic, Staging, ReadTypeOK, Requests, Kinds
<1>5. CASE NeverIndexed
  BY <1>0, <1>5 DEF NeverIndexed, Reply
<1>6. CASE RequestFails
  BY <1>0, <1>6 DEF RequestFails
<1>7. CASE CountFiles
  BY <1>0, <1>7 DEF CountFiles
<1>8. CASE CountSymbols
  BY <1>0, <1>8 DEF CountSymbols
<1>9. CASE CountChunks
  BY <1>0, <1>9 DEF CountChunks, InvKind
<1>10. CASE ReadPointer
  BY <1>0, <1>10 DEF ReadPointer
<1>11. CASE GetCollection
  BY <1>0, <1>11 DEF GetCollection
<1>12. CASE CollectionGone
  BY <1>0, <1>12 DEF CollectionGone, Reply
<1>13. CASE GenerationMatches
  BY <1>0, <1>13 DEF GenerationMatches, AfterMatch, InvKind
<1>14. CASE GenerationDiffers
  BY <1>0, <1>14 DEF GenerationDiffers, Reply
<1>15. CASE GetForListing
  BY <1>0, <1>15 DEF GetForListing
<1>16. CASE ListIds
  BY <1>0, <1>16 DEF ListIds, Reply
<1>17. CASE Scan
  BY <1>0, <1>17 DEF Scan, InvKind, Semantic
<1>18. CASE GetForQuery
  BY <1>0, <1>18 DEF GetForQuery
<1>19. CASE OtherModel
  BY <1>0, <1>19 DEF OtherModel, Reply
<1>20. CASE Query
  BY <1>0, <1>20 DEF Query
<1>21. CASE Hydrate
  BY <1>0, <1>21 DEF Hydrate
<1>22. CASE Rank
  BY <1>0, <1>22 DEF Rank
<1>23. CASE CiteAdmitted
  BY <1>0, <1>23 DEF CiteAdmitted
<1>24. CASE CiteRefused
  BY <1>0, <1>24 DEF CiteRefused, Reply
<1>25. CASE Cite
  BY <1>0, <1>25 DEF Cite, Reply
<1>26. QED
  BY <1>1, <1>2, <1>3, <1>4, <1>5, <1>6, <1>7, <1>8, <1>9, <1>10, <1>11, <1>12, <1>13,
     <1>14, <1>15, <1>16, <1>17, <1>18, <1>19, <1>20, <1>21, <1>22, <1>23, <1>24, <1>25 DEF
     ReaderStep, ReaderOpens, ReaderCounts, ReaderSearches

(* The collection searched is followed back to its commit.                  *)
LEMMA ReaderKeepsServed ==
  ASSUME RInv, IInv', ReaderStep, UNCHANGED vars, ~Close
  PROVE  InvServed' /\ SearchedIndexWasServed'
<1> USE DEF vars, stores, locals, env, held, history, RGoto, InvServed, InvAnswer,
   SearchedIndexWasServed, Searching, Matched, Switching
<1>0. /\ InvServed /\ InvAnswer /\ InvKind /\ InvGenerations /\ SearchedIndexWasServed
      /\ guard \/ pc # "commit"
  BY DEF RInv, IInv, InvGuard, Activation
<1>1. ASSUME NEW kind \in Kinds, NEW m \in Models \cup {NoModel}, Ask(kind, m)
      PROVE  InvServed' /\ SearchedIndexWasServed'
  BY <1>0, <1>1 DEF Ask, InvGenerations, Waiting
<1>2. CASE Refused
  BY <1>0, <1>2 DEF Refused, Reply
<1>3. CASE Admitted
  BY <1>0, <1>3 DEF Admitted
<1>4. CASE ReadRow
  BY <1>0, <1>4 DEF ReadRow, Semantic
<1>5. CASE NeverIndexed
  BY <1>0, <1>5 DEF NeverIndexed, Reply
<1>6. CASE RequestFails
  BY <1>0, <1>6 DEF RequestFails
<1>7. CASE CountFiles
  BY <1>0, <1>7 DEF CountFiles
<1>8. CASE CountSymbols
  BY <1>0, <1>8 DEF CountSymbols
<1>9. CASE CountChunks
  BY <1>0, <1>9 DEF CountChunks
<1>10. CASE ReadPointer
  BY <1>0, <1>10 DEF ReadPointer
<1>11. CASE GetCollection
  BY <1>0, <1>11 DEF GetCollection
<1>12. CASE CollectionGone
  BY <1>0, <1>12 DEF CollectionGone, Reply
<1>13. CASE GenerationMatches
  BY <1>0, <1>13 DEF GenerationMatches, AfterMatch, InvGenerations, Opening
<1>14. CASE GenerationDiffers
  BY <1>0, <1>14 DEF GenerationDiffers, Reply
<1>15. CASE GetForListing
  BY <1>0, <1>15 DEF GetForListing, Semantic
<1>16. CASE ListIds
  BY <1>0, <1>16 DEF ListIds, Reply
<1>17. CASE Scan
  BY <1>0, <1>17 DEF Scan, InvKind, Semantic
<1>18. CASE GetForQuery
  BY <1>0, <1>18 DEF GetForQuery
<1>19. CASE OtherModel
  BY <1>0, <1>19 DEF OtherModel, Reply
<1>20. CASE Query
  BY <1>0, <1>20 DEF Query
<1>21. CASE Hydrate
  BY <1>0, <1>21 DEF Hydrate
<1>22. CASE Rank
  BY <1>0, <1>22 DEF Rank
<1>23. CASE CiteAdmitted
  BY <1>0, <1>23 DEF CiteAdmitted
<1>24. CASE CiteRefused
  BY <1>0, <1>24 DEF CiteRefused, Reply
<1>25. CASE Cite
  BY <1>0, <1>25 DEF Cite, Reply
<1>26. QED
  BY <1>1, <1>2, <1>3, <1>4, <1>5, <1>6, <1>7, <1>8, <1>9, <1>10, <1>11, <1>12, <1>13,
     <1>14, <1>15, <1>16, <1>17, <1>18, <1>19, <1>20, <1>21, <1>22, <1>23, <1>24, <1>25 DEF
     ReaderStep, ReaderOpens, ReaderCounts, ReaderSearches

(* The counts are taken from the index whose generation was read.           *)
LEMMA ReaderKeepsCounts ==
  ASSUME RInv, IInv', ReaderStep, UNCHANGED vars, ~Close
  PROVE  InvCounts' /\ DetailIsOfOneIndex'
<1> USE DEF vars, stores, locals, env, held, history, RGoto, InvCounts, InvAnswer, InvKind,
   Searching, DetailIsOfOneIndex
<1>0. InvCounts /\ InvAnswer /\ InvKind /\ InvGenerations /\ DetailIsOfOneIndex
  BY DEF RInv
<1>1. ASSUME NEW kind \in Kinds, NEW m \in Models \cup {NoModel}, Ask(kind, m)
      PROVE  InvCounts' /\ DetailIsOfOneIndex'
  BY <1>0, <1>1 DEF Ask
<1>2. CASE Refused
  BY <1>0, <1>2 DEF Refused, Reply
<1>3. CASE Admitted
  BY <1>0, <1>3 DEF Admitted
<1>4. CASE ReadRow
  BY <1>0, <1>4 DEF ReadRow
<1>5. CASE NeverIndexed
  BY <1>0, <1>5 DEF NeverIndexed, Reply
<1>6. CASE RequestFails
  BY <1>0, <1>6 DEF RequestFails
<1>7. CASE CountFiles
  BY <1>0, <1>7 DEF CountFiles
<1>8. CASE CountSymbols
  BY <1>0, <1>8 DEF CountSymbols
<1>9. CASE CountChunks
  BY <1>0, <1>9 DEF CountChunks, Semantic
<1>10. CASE ReadPointer
  BY <1>0, <1>10 DEF ReadPointer
<1>11. CASE GetCollection
  BY <1>0, <1>11 DEF GetCollection
<1>12. CASE CollectionGone
  BY <1>0, <1>12 DEF CollectionGone, Reply
<1>13. CASE GenerationMatches
  BY <1>0, <1>13 DEF GenerationMatches, AfterMatch, InvGenerations, Opening
<1>14. CASE GenerationDiffers
  BY <1>0, <1>14 DEF GenerationDiffers, Reply
<1>15. CASE GetForListing
  BY <1>0, <1>15 DEF GetForListing
<1>16. CASE ListIds
  BY <1>0, <1>16 DEF ListIds, Reply
<1>17. CASE Scan
  BY <1>0, <1>17 DEF Scan, Semantic
<1>18. CASE GetForQuery
  BY <1>0, <1>18 DEF GetForQuery
<1>19. CASE OtherModel
  BY <1>0, <1>19 DEF OtherModel, Reply
<1>20. CASE Query
  BY <1>0, <1>20 DEF Query, Semantic
<1>21. CASE Hydrate
  BY <1>0, <1>21 DEF Hydrate
<1>22. CASE Rank
  BY <1>0, <1>22 DEF Rank, Semantic
<1>23. CASE CiteAdmitted
  BY <1>0, <1>23 DEF CiteAdmitted
<1>24. CASE CiteRefused
  BY <1>0, <1>24 DEF CiteRefused, Reply
<1>25. CASE Cite
  BY <1>0, <1>25 DEF Cite, Reply
<1>26. QED
  BY <1>1, <1>2, <1>3, <1>4, <1>5, <1>6, <1>7, <1>8, <1>9, <1>10, <1>11, <1>12, <1>13,
     <1>14, <1>15, <1>16, <1>17, <1>18, <1>19, <1>20, <1>21, <1>22, <1>23, <1>24, <1>25 DEF
     ReaderStep, ReaderOpens, ReaderCounts, ReaderSearches

(* Outside an activation the pointer, the row and the request agree.        *)
LEMMA ReaderKeepsOverlap ==
  ASSUME RInv, IInv', ReaderStep, UNCHANGED vars, ~Close
  PROVE  InvOverlap' /\ InvalidNeedsActivation' /\ QueryInOwnModel'
<1> USE DEF vars, stores, locals, env, held, history, RGoto, InvOverlap, InvAnswer,
   InvalidNeedsActivation, QueryInOwnModel, IsLive
<1>0. /\ InvOverlap /\ InvAnswer /\ InvGenerations /\ InvalidNeedsActivation /\ QueryInOwnModel
      /\ broken = {} /\ ~guard /\ row.gen # NoGen => pointer = row.gen /\ IsLive(row.gen)
  BY DEF RInv, IInv, InvGuard, Activation, InvAgree, CommittedIndexComplete, Complete,
     IsLive
<1>1. ASSUME NEW kind \in Kinds, NEW m \in Models \cup {NoModel}, Ask(kind, m)
      PROVE  InvOverlap' /\ InvalidNeedsActivation' /\ QueryInOwnModel'
  BY <1>0, <1>1 DEF Ask
<1>2. CASE Refused
  BY <1>0, <1>2 DEF Refused, Reply
<1>3. CASE Admitted
  BY <1>0, <1>3 DEF Admitted
<1>4. CASE ReadRow
  BY <1>0, <1>4 DEF ReadRow
<1>5. CASE NeverIndexed
  BY <1>0, <1>5 DEF NeverIndexed, Reply, InvGenerations, Waiting
<1>6. CASE RequestFails
  BY <1>0, <1>6 DEF RequestFails
<1>7. CASE CountFiles
  BY <1>0, <1>7 DEF CountFiles
<1>8. CASE CountSymbols
  BY <1>0, <1>8 DEF CountSymbols
<1>9. CASE CountChunks
  BY <1>0, <1>9 DEF CountChunks
<1>10. CASE ReadPointer
  BY <1>0, <1>10 DEF ReadPointer
<1>11. CASE GetCollection
  BY <1>0, <1>11 DEF GetCollection
<1>12. CASE CollectionGone
  <2>1. rpc # "idle" /\ answer' = "invalid" /\ rpc' = "answered" /\ req' = req /\ overlap' = overlap
    BY <1>12 DEF CollectionGone, Reply
  <2>2. ASSUME req.gen # NoGen, broken = {}, ~overlap PROVE FALSE
    <3>1. rpc \in {"get", "get again"} /\ ~IsLive(aimed)
      BY <1>12 DEF CollectionGone, Reply
    <3>2. aimed = req.gen /\ row.gen = req.gen /\ ~guard
      BY <1>0, <2>2, <3>1
    <3>3. QED
      BY <1>0, <2>2, <3>1, <3>2
  <2>3. QED
    BY <1>0, <2>1, <2>2
<1>13. CASE GenerationMatches
  BY <1>0, <1>13 DEF GenerationMatches, AfterMatch
<1>14. CASE GenerationDiffers
  BY <1>0, <1>14 DEF GenerationDiffers, Reply
<1>15. CASE GetForListing
  BY <1>0, <1>15 DEF GetForListing
<1>16. CASE ListIds
  BY <1>0, <1>16 DEF ListIds, Reply
<1>17. CASE Scan
  BY <1>0, <1>17 DEF Scan
<1>18. CASE GetForQuery
  BY <1>0, <1>18 DEF GetForQuery
<1>19. CASE OtherModel
  BY <1>0, <1>19 DEF OtherModel, Reply
<1>20. CASE Query
  BY <1>0, <1>20 DEF Query
<1>21. CASE Hydrate
  BY <1>0, <1>21 DEF Hydrate
<1>22. CASE Rank
  BY <1>0, <1>22 DEF Rank
<1>23. CASE CiteAdmitted
  BY <1>0, <1>23 DEF CiteAdmitted
<1>24. CASE CiteRefused
  BY <1>0, <1>24 DEF CiteRefused, Reply
<1>25. CASE Cite
  BY <1>0, <1>25 DEF Cite, Reply
<1>26. QED
  BY <1>1, <1>2, <1>3, <1>4, <1>5, <1>6, <1>7, <1>8, <1>9, <1>10, <1>11, <1>12, <1>13,
     <1>14, <1>15, <1>16, <1>17, <1>18, <1>19, <1>20, <1>21, <1>22, <1>23, <1>24, <1>25 DEF
     ReaderStep, ReaderOpens, ReaderCounts, ReaderSearches
-----------------------------------------------------------------------------
(* The invariant of indexing and reading together                           *)

(* Nobody reads: what RInv asks of the indexing side alone.                 *)
Unread ==
  /\ IInv /\ Idle
  /\ row.gen # NoGen => pointer # NoGen
  /\ pc = "fill" => colls[staged].model = NoModel

(* Then nothing is known of a request, and nothing has to be.               *)
LEMMA NobodyReads == Unread => RInv
<1> SUFFICES ASSUME Unread PROVE RInv
  OBVIOUS
<1>1. NoModel \notin Models /\ faults \in Nat /\ MaxFaults \in Nat
  BY ConstantsAssumption DEF Unread, IInv, TypeOK
<1>2. ReadTypeOK
  <2>1. IdleRequest \in Requests
    BY <1>1 DEF IdleRequest, Requests, Kinds
  <2>2. QED
    BY <2>1 DEF Unread, Idle, ReadTypeOK, RequestSteps, Answers
<1>3. InvAnswer /\ InvKind /\ InvGenerations /\ InvFreshStaging /\ InvUntroubled
  BY <1>1 DEF Unread, Idle, IdleRequest, InvAnswer, InvKind, Searching, Semantic,
     InvGenerations, Waiting, Opening, InvFreshStaging, InvUntroubled
<1>4. InvServed /\ InvCounts /\ InvOverlap
  BY DEF Unread, Idle, IdleRequest, InvServed, Searching, Semantic, InvCounts, InvOverlap
<1>5. /\ QueryInOwnModel /\ SearchedIndexWasServed
      /\ DetailIsOfOneIndex /\ InvalidNeedsActivation
  BY DEF Unread, Idle, IdleRequest, QueryInOwnModel, SearchedIndexWasServed,
     DetailIsOfOneIndex, InvalidNeedsActivation
<1>6. QED
  BY <1>2, <1>3, <1>4, <1>5 DEF RInv, Unread

(* The same of the next state.                                              *)
LEMMA NobodyReadsNext == Unread' => RInv'
  BY NobodyReads, PTL

(* Indexing and reading keep RInv, step by step.                            *)
LEMMA NextKeepsRInv == RInv /\ [ReadNext]_readVars => RInv'
<1> SUFFICES ASSUME RInv, [ReadNext]_readVars PROVE RInv'
  OBVIOUS
<1>1. IInv /\ InvGenerations /\ InvFreshStaging
  BY DEF RInv
<1>2. CASE StoreStep
  BY <1>1, <1>2, StoreEffects, StoreKeepsGenerations, StoreKeepsServed, StoreKeepsCounts,
     StoreKeepsOverlap DEF RInv
<1>3. ASSUME ReaderStep, UNCHANGED vars, ~Close PROVE RInv'
  <2>1. IInv'
    BY <1>1, <1>3, StutterKeepsIInv
  <2>2. QED
    BY <1>3, <2>1, ReaderKeepsTypes, ReaderKeepsGenerations, ReaderKeepsServed,
       ReaderKeepsCounts, ReaderKeepsOverlap DEF RInv
<1>4. ASSUME Close, UNCHANGED vars PROVE RInv'
  <2>1. IInv' /\ Idle'
    BY <1>1, <1>4, StutterKeepsIInv DEF Close, Forgotten, Idle, IdleRequest
  <2>2. Unread'
    BY <1>1, <1>4, <2>1 DEF Unread, InvGenerations, InvFreshStaging, vars, stores, locals
  <2>3. QED
    BY <2>2, NobodyReadsNext
<1>5. CASE ReadCrash
  <2>1. IInv' /\ Idle'
    BY <1>1, <1>5, CrashKeepsIInv DEF ReadCrash, Forgotten, Idle, IdleRequest
  <2>2. Unread'
    BY <1>1, <1>5, <2>1 DEF Unread, InvGenerations, ReadCrash, Crash, stores
  <2>3. QED
    BY <2>2, NobodyReadsNext
<1>6. CASE UNCHANGED readVars
  <2>1. IInv'
    BY <1>1, <1>6, StutterKeepsIInv DEF readVars
  <2>2. ReadTypeOK' /\ InvAnswer' /\ InvKind' /\ InvGenerations' /\ InvFreshStaging'
    BY <1>6 DEF RInv, readVars, reader, held, history, vars, stores, locals, ReadTypeOK,
       InvAnswer, InvKind, Searching, InvGenerations, InvFreshStaging
  <2>3. InvUntroubled' /\ InvServed'
    BY <1>6 DEF RInv, readVars, reader, held, history, vars, stores, locals, InvUntroubled,
       InvServed, Switching, Searching
  <2>4. InvCounts' /\ InvOverlap'
    BY <1>6 DEF RInv, readVars, reader, held, history, vars, stores, locals, InvCounts,
       InvOverlap
  <2>5. /\ QueryInOwnModel' /\ SearchedIndexWasServed'
        /\ DetailIsOfOneIndex' /\ InvalidNeedsActivation'
    BY <1>6 DEF RInv, readVars, reader, held, history, vars, stores, locals, QueryInOwnModel,
       SearchedIndexWasServed, DetailIsOfOneIndex, InvalidNeedsActivation, IsLive
  <2>6. QED
    BY <2>1, <2>2, <2>3, <2>4, <2>5 DEF RInv
<1>7. QED
  BY <1>2, <1>3, <1>4, <1>5, <1>6 DEF ReadNext

(* Every state of indexing with a reader beside it satisfies RInv.          *)
THEOREM RInvAlways == ReadSpec => []RInv
<1>1. ReadInit => RInv
  <2>1. SUFFICES ASSUME ReadInit PROVE Unread
    BY NobodyReads
  <2>2. IInv /\ Idle
    BY <2>1, IInvInit DEF ReadInit
  <2>3. row.gen = NoGen /\ pc = "idle"
    BY <2>1 DEF ReadInit, Init, NoRow
  <2>4. QED
    BY <2>2, <2>3 DEF Unread
<1>2. RInv /\ [ReadNext]_readVars => RInv'
  BY NextKeepsRInv
<1>3. QED
  BY <1>1, <1>2, PTL DEF ReadSpec

-----------------------------------------------------------------------------
(* What a reader is promised                                                *)

(* The request's variables have their types, at each of its steps and with  *)
(* any interleaving of indexing, crashes and edits.                         *)
THEOREM ReadTypeCorrect == ReadSpec => []ReadTypeOK
<1>1. RInv => ReadTypeOK
  BY DEF RInv
<1>2. QED
  BY <1>1, RInvAlways, PTL

(* initialize() called by a read always finds a pointer: the cleanup of a   *)
(* first run that failed only unlinks the pointer of a project without a    *)
(* generation, and a read of such a project has been refused.               *)
THEOREM ReadersCreateNothing == ReadSpec => []ReadersNeverCreate
<1>1. RInv => ReadersNeverCreate
  BY DEF RInv, InvGenerations, Opening, ReadersNeverCreate
<1>2. QED
  BY <1>1, RInvAlways, PTL

(* The metadata a request compared its embedding identity with is that of   *)
(* the vectors it then queries: a collection that holds vectors is never    *)
(* given other metadata, and one that was dropped is not made again.        *)
THEOREM QueriesOwnModel == ReadSpec => []QueryInOwnModel
<1>1. RInv => QueryInOwnModel
  BY DEF RInv
<1>2. QED
  BY <1>1, RInvAlways, PTL

(* A switched candidate that a search opened has been committed when the    *)
(* guard admits the search to its citations, unless a fault came between.   *)
THEOREM SearchesWhatWasServed == ReadSpec => []SearchedIndexWasServed
<1>1. RInv => SearchedIndexWasServed
  BY DEF RInv
<1>2. QED
  BY <1>1, RInvAlways, PTL

(* The separate SELECTs of project detail are held together by the          *)
(* generation comparison that follows them.                                 *)
THEOREM DetailCountsOneIndex == ReadSpec => []DetailIsOfOneIndex
<1>1. RInv => DetailIsOfOneIndex
  BY DEF RInv
<1>2. QED
  BY <1>1, RInvAlways, PTL

(* Outside an activation the row and the pointer name one live generation,  *)
(* so a request that overlaps none is not told that its index is invalid.   *)
THEOREM InvalidOnlyBesideActivation == ReadSpec => []InvalidNeedsActivation
<1>1. RInv => InvalidNeedsActivation
  BY DEF RInv
<1>2. QED
  BY <1>1, RInvAlways, PTL
=============================================================================

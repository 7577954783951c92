----------------------- MODULE StructuralIndexProofs -----------------------
(***************************************************************************)
(* Proofs about StructuralIndex, for any set of paths and versions and any  *)
(* number of runs and edits.                                                *)
(***************************************************************************)
EXTENDS StructuralIndex, TLAPS

-----------------------------------------------------------------------------
(* The inductive invariant                                                   *)

Late == pc \in {"parse", "chunk", "rescan"}
Done(p) == p \notin todo \cup listed

(* An edit between a file's two hashes shows, unless a second one undoes it. *)
Window(p) ==
  /\ pc \in {"scan", "rescan"} /\ ~Done(p) => seen[p] = None
  /\ pc \in {"scan", "rescan"} => p \notin todo \cap listed
  /\ pc = "scan" /\ Done(p) =>
       (edits[p] = 0 => seen[p] = disk[p]) /\ (edits[p] = 1 => seen[p] # disk[p])
  /\ pc = "scan" /\ ~Done(p) => edits[p] = 0
  /\ Late => (edits[p] = 0 => between[p] = scan[p])
  /\ Late /\ (pc = "rescan" => ~Done(p)) =>
       (edits[p] = 0 => scan[p] = disk[p]) /\ (edits[p] = 1 => scan[p] # disk[p])
  /\ pc = "rescan" /\ Done(p) => (edits[p] = 1 => seen[p] # scan[p])

InvWindow == \A p \in Paths : Window(p)

(* The plan is that of the first scan and of the rows as they are.           *)
InvPlan ==
  Late => /\ deleted = Deleted(scan)
          /\ changed = IF mode = "full" THEN Present(scan) ELSE Changed(scan)

(* What was read of a file that was not edited is of the version hashed.     *)
InvPrepared ==
  /\ pc = "scan" => errors = {}
  /\ pc = "parse" => todo \subseteq changed
  /\ pc = "chunk" => todo \subseteq changed \ errors
  /\ pc = "rescan" => errors = {}
  /\ Late => \A p \in changed \ errors :
       /\ (pc = "parse" => p \notin todo) =>
            parsed[p] \in Python /\ (edits[p] = 0 => parsed[p] = scan[p])
       /\ (pc = "rescan" \/ (pc = "chunk" /\ p \notin todo)) =>
            chunked[p] \in Versions /\ (edits[p] = 0 => chunked[p] = scan[p])

(* What a run knows of a repository nobody edits.                            *)
InvQuiet ==
  quiet =>
    /\ pc # "idle" => \A p \in Paths : edits[p] = 0
    /\ Late => scan = disk
    /\ Late => \A p \in errors : disk[p] \in Bad
    /\ pc \in {"scan", "rescan"} =>
         /\ \A p \in Paths : Done(p) => seen[p] = disk[p]
         /\ \A p \in listed : disk[p] # None

(* A chunk's file has a row, so that deleting the rows of files that have    *)
(* one leaves no chunk behind.                                               *)
InvCascade == \A c \in chunks : files[c.path] # None

(* So has a suspect file.                                                    *)
InvSuspect == \A p \in suspect : files[p] # None

(* The invariant.                                                            *)
IInv ==
  /\ TypeOK /\ InvWindow /\ InvPlan /\ InvPrepared /\ InvQuiet /\ InvCascade /\ InvSuspect
  /\ RowsAreOfTheirHash /\ CleanRunCatchesUp

-----------------------------------------------------------------------------
(* A prepared chunk is of its planned file, and of its version if nobody     *)
(* edited it.                                                                *)
LEMMA NewChunksKnown ==
  ASSUME IInv, pc = "rescan"
  PROVE  /\ NewChunks \subseteq Chunks
         /\ \A c \in NewChunks : c.path \in changed
         /\ \A p \in changed : {c \in NewChunks : c.path = p} = ChunksOf(p)
<1> USE VersionsAssumption DEF IInv, TypeOK, InvPrepared, Late, Python
<1>1. \A p \in changed : ChunksOf(p) \subseteq Chunks /\ \A c \in ChunksOf(p) : c.path = p
  BY DEF ChunksOf, Chunks
<1>. QED  BY <1>1 DEF NewChunks

(* Every step keeps the types; the chunks a run inserts are those prepared   *)
(* without error.                                                            *)
LEMMA StepTypes ==
  ASSUME IInv, [Next]_vars
  PROVE  TypeOK'
<1> USE DEF IInv, TypeOK, Contents, Python, rows, walk, plan, prepared, bounds
<1>1. CASE StartRun
  <2>1. edits' \in [Paths -> 0..2]
    BY <1>1 DEF StartRun
  <2>2. runs' \in Nat
    BY <1>1 DEF StartRun
  <2>. QED  BY <1>1, <2>1, <2>2, VersionsAssumption DEF StartRun, Walk, Nowhere
<1>2. ASSUME NEW p \in Paths, ListFile(p) PROVE TypeOK'
  BY <1>2, VersionsAssumption DEF ListFile, Observed
<1>3. ASSUME NEW p \in Paths, HashFile(p) PROVE TypeOK'
  BY <1>3, VersionsAssumption DEF HashFile, Observed
<1>4. ASSUME NEW p \in Paths, FileVanished(p) PROVE TypeOK'
  BY <1>4, VersionsAssumption DEF FileVanished, FailsWith
<1>5. CASE NoChanges
  BY <1>5, VersionsAssumption DEF NoChanges, Walked
<1>6. CASE PlanIncremental
  BY <1>6, VersionsAssumption DEF PlanIncremental, Planned, Walked, Observed, Present,
     Changed, Deleted
<1>7. CASE PlanFull
  BY <1>7, VersionsAssumption DEF PlanFull, Planned, Walked, Observed, Present, Changed,
     Deleted
<1>8. ASSUME NEW p \in Paths, ParseFile(p) PROVE TypeOK'
  BY <1>8, VersionsAssumption DEF ParseFile, Observed
<1>9. CASE EndParse
  BY <1>9, VersionsAssumption DEF EndParse, Observed
<1>10. ASSUME NEW p \in Paths, ChunkFile(p) PROVE TypeOK'
  BY <1>10, VersionsAssumption DEF ChunkFile, Observed
<1>11. CASE Unprepared
  BY <1>11, VersionsAssumption DEF Unprepared, FailsWith
<1>12. CASE Prepared
  BY <1>12, VersionsAssumption DEF Prepared, Walk, Nowhere, Observed
<1>13. CASE RepositoryChanged
  BY <1>13, VersionsAssumption DEF RepositoryChanged, FailsWith, Walked, SameSnapshot
<1>14. CASE ReplaceIndex
  <2>1. pc = "rescan" /\ changed \subseteq Paths /\ suspect \subseteq Paths
    BY <1>14 DEF ReplaceIndex, Rechecked
  <2>2. chunks' \subseteq Chunks
    BY <1>14, <2>1, NewChunksKnown DEF ReplaceIndex
  <2>3. /\ files' \in [Paths -> Versions \cup {None}]
        /\ symbols' \in [Paths -> (Versions \ Bad) \cup {None}]
    BY <1>14, <2>1 DEF ReplaceIndex
  <2>. QED  BY <1>14, <2>2, <2>3 DEF ReplaceIndex, Rechecked, Commits
<1>15. CASE ApplyIncremental
  <2>1. CASE DeltaChunks # Expected
    BY <1>15, <2>1 DEF ApplyIncremental, FailsWith, Rechecked
  <2>2. CASE DeltaChunks = Expected
    <3>1. pc = "rescan"
      BY <1>15 DEF ApplyIncremental, Rechecked
    <3>2. chunks' \subseteq Chunks
      BY <1>15, <2>2, <3>1, NewChunksKnown DEF ApplyIncremental, DeltaChunks, ChunksOutside
    <3>3. /\ files' \in [Paths -> Versions \cup {None}]
          /\ symbols' \in [Paths -> (Versions \ Bad) \cup {None}]
      BY <1>15, <2>2 DEF ApplyIncremental, Delta
    <3>. QED  BY <1>15, <2>2, <3>2, <3>3 DEF ApplyIncremental, Rechecked, Commits
  <2>. QED  BY <2>1, <2>2
<1>16. CASE Fault
  BY <1>16, VersionsAssumption DEF Fault, FailsWith
<1>17. ASSUME NEW p \in Paths, NEW v \in Versions \cup {None}, Edit(p, v) PROVE TypeOK'
  <2>1. edits' \in [Paths -> 0..2]
    <3>1. \A q \in Paths : edits[q] \in 0..2 /\ (edits[q] < 2 => edits[q] + 1 \in 0..2)
      OBVIOUS
    <3>. QED  BY <1>17, <3>1 DEF Edit
  <2>2. changes' \in Nat
    BY <1>17 DEF Edit
  <2>3. disk' \in [Paths -> Versions \cup {None}]
    BY <1>17 DEF Edit
  <2>. QED  BY <1>17, <2>1, <2>2, <2>3 DEF Edit
<1>18. CASE UNCHANGED vars
  BY <1>18, VersionsAssumption DEF vars
<1>. QED  BY <1>1, <1>2, <1>3, <1>4, <1>5, <1>6, <1>7, <1>8, <1>9, <1>10, <1>11, <1>12,
             <1>13, <1>14, <1>15, <1>16, <1>17, <1>18 DEF Next, Step

(* Only an edit and a hash change what the two hashes of a file can tell.    *)
LEMMA StepWindow ==
  ASSUME IInv, [Next]_vars
  PROVE  InvWindow'
<1> USE DEF IInv, TypeOK, InvWindow, Window, Late, Done, Contents, Python, rows, walk,
            plan, prepared, bounds
<1>1. CASE StartRun
  BY <1>1, VersionsAssumption DEF StartRun, Walk, Nowhere
<1>2. ASSUME NEW p \in Paths, ListFile(p) PROVE InvWindow'
  BY <1>2, VersionsAssumption DEF ListFile, Observed
<1>3. ASSUME NEW p \in Paths, HashFile(p) PROVE InvWindow'
  <2>1. \A q \in Paths : q # p => seen'[q] = seen[q] /\ (Done(q)' <=> Done(q)) /\ (q \in listed' <=> q \in listed)
    BY <1>3 DEF HashFile
  <2>2. seen'[p] = disk[p] /\ Done(p)'
    BY <1>3 DEF HashFile
  <2>3. ~Done(p)
    BY <1>3 DEF HashFile
  <2>4. UNCHANGED <<pc, disk, edits, scan, between, todo>>
    BY <1>3 DEF HashFile, Observed
  <2>5. pc \in {"scan", "rescan"}
    BY <1>3 DEF HashFile
  <2>6. \A q \in Paths : q # p => Window(q)'
    BY <2>1, <2>4
  <2>7. Window(p)'
    BY <2>2, <2>3, <2>4, <2>5, <1>3 DEF HashFile
  <2>. QED  BY <2>6, <2>7
<1>4. ASSUME NEW p \in Paths, FileVanished(p) PROVE InvWindow'
  BY <1>4, VersionsAssumption DEF FileVanished, FailsWith
<1>5. CASE NoChanges
  BY <1>5, VersionsAssumption DEF NoChanges, Walked
<1>6. CASE PlanIncremental
  BY <1>6, VersionsAssumption DEF PlanIncremental, Planned, Walked, Observed, Present,
     Changed, Deleted
<1>7. CASE PlanFull
  BY <1>7, VersionsAssumption DEF PlanFull, Planned, Walked, Observed, Present, Changed,
     Deleted
<1>8. ASSUME NEW p \in Paths, ParseFile(p) PROVE InvWindow'
  BY <1>8, VersionsAssumption DEF ParseFile, Observed
<1>9. CASE EndParse
  BY <1>9, VersionsAssumption DEF EndParse, Observed
<1>10. ASSUME NEW p \in Paths, ChunkFile(p) PROVE InvWindow'
  BY <1>10, VersionsAssumption DEF ChunkFile, Observed
<1>11. CASE Unprepared
  BY <1>11, VersionsAssumption DEF Unprepared, FailsWith
<1>12. CASE Prepared
  BY <1>12, VersionsAssumption DEF Prepared, Walk, Nowhere, Observed
<1>13. CASE RepositoryChanged
  BY <1>13, VersionsAssumption DEF RepositoryChanged, FailsWith, Walked, SameSnapshot
<1>14. CASE ReplaceIndex
  BY <1>14, VersionsAssumption DEF ReplaceIndex, Rechecked, Walked, SameSnapshot, Commits
<1>15. CASE ApplyIncremental
  BY <1>15, VersionsAssumption DEF ApplyIncremental, Rechecked, Walked, SameSnapshot,
     Commits, FailsWith
<1>16. CASE Fault
  BY <1>16, VersionsAssumption DEF Fault, FailsWith
<1>17. ASSUME NEW p \in Paths, NEW v \in Versions \cup {None}, Edit(p, v) PROVE InvWindow'
  <2>1. \A q \in Paths : q # p => disk'[q] = disk[q] /\ edits'[q] = edits[q]
    BY <1>17 DEF Edit
  <2>2. disk'[p] = v /\ v # disk[p]
    BY <1>17 DEF Edit
  <2>3. edits'[p] = IF Exposed(p) /\ edits[p] < 2 THEN edits[p] + 1 ELSE edits[p]
    BY <1>17 DEF Edit
  <2>4. edits[p] \in {0, 1, 2}
    OBVIOUS
  <2>5. UNCHANGED <<pc, todo, listed, seen, scan, between>>
    BY <1>17 DEF Edit
  <2>. QED  BY <2>1, <2>2, <2>3, <2>4, <2>5 DEF Exposed
<1>18. CASE UNCHANGED vars
  BY <1>18, VersionsAssumption DEF vars
<1>. QED  BY <1>1, <1>2, <1>3, <1>4, <1>5, <1>6, <1>7, <1>8, <1>9, <1>10, <1>11, <1>12,
             <1>13, <1>14, <1>15, <1>16, <1>17, <1>18 DEF Next, Step

(* The plan stays the one made from the first scan and the rows, which        *)
(* nobody else writes during the run.                                        *)
LEMMA StepPlan ==
  ASSUME IInv, [Next]_vars
  PROVE  InvPlan'
<1> USE DEF IInv, TypeOK, InvPlan, Late, Present, Changed, Deleted, Contents, Python,
            rows, walk, plan, prepared, bounds
<1>1. CASE StartRun
  BY <1>1, VersionsAssumption DEF StartRun, Walk, Nowhere
<1>2. ASSUME NEW p \in Paths, ListFile(p) PROVE InvPlan'
  BY <1>2, VersionsAssumption DEF ListFile, Observed
<1>3. ASSUME NEW p \in Paths, HashFile(p) PROVE InvPlan'
  BY <1>3, VersionsAssumption DEF HashFile, Observed
<1>4. ASSUME NEW p \in Paths, FileVanished(p) PROVE InvPlan'
  BY <1>4, VersionsAssumption DEF FileVanished, FailsWith
<1>5. CASE NoChanges
  BY <1>5, VersionsAssumption DEF NoChanges, Walked
<1>6. CASE PlanIncremental
  BY <1>6, VersionsAssumption DEF PlanIncremental, Planned, Walked, Observed, Present,
     Changed, Deleted
<1>7. CASE PlanFull
  BY <1>7, VersionsAssumption DEF PlanFull, Planned, Walked, Observed, Present, Changed,
     Deleted
<1>8. ASSUME NEW p \in Paths, ParseFile(p) PROVE InvPlan'
  BY <1>8, VersionsAssumption DEF ParseFile, Observed
<1>9. CASE EndParse
  BY <1>9, VersionsAssumption DEF EndParse, Observed
<1>10. ASSUME NEW p \in Paths, ChunkFile(p) PROVE InvPlan'
  BY <1>10, VersionsAssumption DEF ChunkFile, Observed
<1>11. CASE Unprepared
  BY <1>11, VersionsAssumption DEF Unprepared, FailsWith
<1>12. CASE Prepared
  BY <1>12, VersionsAssumption DEF Prepared, Walk, Nowhere, Observed
<1>13. CASE RepositoryChanged
  BY <1>13, VersionsAssumption DEF RepositoryChanged, FailsWith, Walked, SameSnapshot
<1>14. CASE ReplaceIndex
  BY <1>14, VersionsAssumption DEF ReplaceIndex, Rechecked, Walked, SameSnapshot, Commits
<1>15. CASE ApplyIncremental
  BY <1>15, VersionsAssumption DEF ApplyIncremental, Rechecked, Walked, SameSnapshot,
     Commits, FailsWith
<1>16. CASE Fault
  BY <1>16, VersionsAssumption DEF Fault, FailsWith
<1>17. ASSUME NEW p \in Paths, NEW v \in Versions \cup {None}, Edit(p, v) PROVE InvPlan'
  BY <1>17, VersionsAssumption DEF Edit, Exposed
<1>18. CASE UNCHANGED vars
  BY <1>18, VersionsAssumption DEF vars
<1>. QED  BY <1>1, <1>2, <1>3, <1>4, <1>5, <1>6, <1>7, <1>8, <1>9, <1>10, <1>11, <1>12,
             <1>13, <1>14, <1>15, <1>16, <1>17, <1>18 DEF Next, Step

(* A file read while no edit of it was counted still is as it was hashed.     *)
LEMMA StepPrepared ==
  ASSUME IInv, [Next]_vars
  PROVE  InvPrepared'
<1> USE DEF IInv, TypeOK, InvPrepared, InvWindow, Window, Late, Done, Contents, Python,
            rows, walk, plan, prepared, bounds
<1>1. CASE StartRun
  BY <1>1, VersionsAssumption DEF StartRun, Walk, Nowhere
<1>2. ASSUME NEW p \in Paths, ListFile(p) PROVE InvPrepared'
  BY <1>2, VersionsAssumption DEF ListFile, Observed
<1>3. ASSUME NEW p \in Paths, HashFile(p) PROVE InvPrepared'
  BY <1>3, VersionsAssumption DEF HashFile, Observed
<1>4. ASSUME NEW p \in Paths, FileVanished(p) PROVE InvPrepared'
  BY <1>4, VersionsAssumption DEF FileVanished, FailsWith
<1>5. CASE NoChanges
  BY <1>5, VersionsAssumption DEF NoChanges, Walked
<1>6. CASE PlanIncremental
  BY <1>6, VersionsAssumption DEF PlanIncremental, Planned, Walked, Observed, Present,
     Changed, Deleted
<1>7. CASE PlanFull
  BY <1>7, VersionsAssumption DEF PlanFull, Planned, Walked, Observed, Present, Changed,
     Deleted
<1>8. ASSUME NEW p \in Paths, ParseFile(p) PROVE InvPrepared'
  BY <1>8, VersionsAssumption DEF ParseFile, Observed
<1>9. CASE EndParse
  BY <1>9, VersionsAssumption DEF EndParse, Observed
<1>10. ASSUME NEW p \in Paths, ChunkFile(p) PROVE InvPrepared'
  BY <1>10, VersionsAssumption DEF ChunkFile, Observed
<1>11. CASE Unprepared
  BY <1>11, VersionsAssumption DEF Unprepared, FailsWith
<1>12. CASE Prepared
  BY <1>12, VersionsAssumption DEF Prepared, Walk, Nowhere, Observed
<1>13. CASE RepositoryChanged
  BY <1>13, VersionsAssumption DEF RepositoryChanged, FailsWith, Walked, SameSnapshot
<1>14. CASE ReplaceIndex
  BY <1>14, VersionsAssumption DEF ReplaceIndex, Rechecked, Walked, SameSnapshot, Commits
<1>15. CASE ApplyIncremental
  BY <1>15, VersionsAssumption DEF ApplyIncremental, Rechecked, Walked, SameSnapshot,
     Commits, FailsWith
<1>16. CASE Fault
  BY <1>16, VersionsAssumption DEF Fault, FailsWith
<1>17. ASSUME NEW p \in Paths, NEW v \in Versions \cup {None}, Edit(p, v) PROVE InvPrepared'
  BY <1>17, VersionsAssumption DEF Edit, Exposed
<1>18. CASE UNCHANGED vars
  BY <1>18, VersionsAssumption DEF vars
<1>. QED  BY <1>1, <1>2, <1>3, <1>4, <1>5, <1>6, <1>7, <1>8, <1>9, <1>10, <1>11, <1>12,
             <1>13, <1>14, <1>15, <1>16, <1>17, <1>18 DEF Next, Step

(* Without an edit, every read of a run sees the repository as it is.         *)
LEMMA StepQuiet ==
  ASSUME IInv, [Next]_vars
  PROVE  InvQuiet'
<1> USE DEF IInv, TypeOK, InvQuiet, InvWindow, Window, InvPlan, InvPrepared, Late, Done,
            Present, Changed, Contents, Python, rows, walk, plan, prepared, bounds
<1>1. CASE StartRun
  BY <1>1, VersionsAssumption DEF StartRun, Walk, Nowhere
<1>2. ASSUME NEW p \in Paths, ListFile(p) PROVE InvQuiet'
  BY <1>2, VersionsAssumption DEF ListFile, Observed
<1>3. ASSUME NEW p \in Paths, HashFile(p) PROVE InvQuiet'
  BY <1>3, VersionsAssumption DEF HashFile, Observed
<1>4. ASSUME NEW p \in Paths, FileVanished(p) PROVE InvQuiet'
  BY <1>4, VersionsAssumption DEF FileVanished, FailsWith
<1>5. CASE NoChanges
  BY <1>5, VersionsAssumption DEF NoChanges, Walked
<1>6. CASE PlanIncremental
  BY <1>6, VersionsAssumption DEF PlanIncremental, Planned, Walked, Observed, Present,
     Changed, Deleted
<1>7. CASE PlanFull
  BY <1>7, VersionsAssumption DEF PlanFull, Planned, Walked, Observed, Present, Changed,
     Deleted
<1>8. ASSUME NEW p \in Paths, ParseFile(p) PROVE InvQuiet'
  BY <1>8, VersionsAssumption DEF ParseFile, Observed
<1>9. CASE EndParse
  BY <1>9, VersionsAssumption DEF EndParse, Observed
<1>10. ASSUME NEW p \in Paths, ChunkFile(p) PROVE InvQuiet'
  BY <1>10, VersionsAssumption DEF ChunkFile, Observed
<1>11. CASE Unprepared
  BY <1>11, VersionsAssumption DEF Unprepared, FailsWith
<1>12. CASE Prepared
  BY <1>12, VersionsAssumption DEF Prepared, Walk, Nowhere, Observed
<1>13. CASE RepositoryChanged
  BY <1>13, VersionsAssumption DEF RepositoryChanged, FailsWith, Walked, SameSnapshot
<1>14. CASE ReplaceIndex
  BY <1>14, VersionsAssumption DEF ReplaceIndex, Rechecked, Walked, SameSnapshot, Commits
<1>15. CASE ApplyIncremental
  BY <1>15, VersionsAssumption DEF ApplyIncremental, Rechecked, Walked, SameSnapshot,
     Commits, FailsWith
<1>16. CASE Fault
  BY <1>16, VersionsAssumption DEF Fault, FailsWith
<1>17. ASSUME NEW p \in Paths, NEW v \in Versions \cup {None}, Edit(p, v) PROVE InvQuiet'
  BY <1>17, VersionsAssumption DEF Edit, Exposed
<1>18. CASE UNCHANGED vars
  BY <1>18, VersionsAssumption DEF vars
<1>. QED  BY <1>1, <1>2, <1>3, <1>4, <1>5, <1>6, <1>7, <1>8, <1>9, <1>10, <1>11, <1>12,
             <1>13, <1>14, <1>15, <1>16, <1>17, <1>18 DEF Next, Step

(* Chunks are inserted for files that have a row and go when the row goes.    *)
LEMMA StepCascade ==
  ASSUME IInv, [Next]_vars
  PROVE  InvCascade'
<1> USE DEF IInv, TypeOK, InvCascade, InvPlan, InvPrepared, Late, Present, Changed,
            Deleted, Contents, Python, rows, walk, plan, prepared, bounds
<1>1. CASE StartRun
  BY <1>1, VersionsAssumption DEF StartRun, Walk, Nowhere
<1>2. ASSUME NEW p \in Paths, ListFile(p) PROVE InvCascade'
  BY <1>2, VersionsAssumption DEF ListFile, Observed
<1>3. ASSUME NEW p \in Paths, HashFile(p) PROVE InvCascade'
  BY <1>3, VersionsAssumption DEF HashFile, Observed
<1>4. ASSUME NEW p \in Paths, FileVanished(p) PROVE InvCascade'
  BY <1>4, VersionsAssumption DEF FileVanished, FailsWith
<1>5. CASE NoChanges
  BY <1>5, VersionsAssumption DEF NoChanges, Walked
<1>6. CASE PlanIncremental
  BY <1>6, VersionsAssumption DEF PlanIncremental, Planned, Walked, Observed, Present,
     Changed, Deleted
<1>7. CASE PlanFull
  BY <1>7, VersionsAssumption DEF PlanFull, Planned, Walked, Observed, Present, Changed,
     Deleted
<1>8. ASSUME NEW p \in Paths, ParseFile(p) PROVE InvCascade'
  BY <1>8, VersionsAssumption DEF ParseFile, Observed
<1>9. CASE EndParse
  BY <1>9, VersionsAssumption DEF EndParse, Observed
<1>10. ASSUME NEW p \in Paths, ChunkFile(p) PROVE InvCascade'
  BY <1>10, VersionsAssumption DEF ChunkFile, Observed
<1>11. CASE Unprepared
  BY <1>11, VersionsAssumption DEF Unprepared, FailsWith
<1>12. CASE Prepared
  BY <1>12, VersionsAssumption DEF Prepared, Walk, Nowhere, Observed
<1>13. CASE RepositoryChanged
  BY <1>13, VersionsAssumption DEF RepositoryChanged, FailsWith, Walked, SameSnapshot
<1>14. CASE ReplaceIndex
  <2>1. pc = "rescan" /\ mode = "full"
    BY <1>14 DEF ReplaceIndex, Rechecked
  <2>2. \A c \in NewChunks : c.path \in changed /\ scan[c.path] # None
    BY <2>1, NewChunksKnown
  <2>3. \A c \in NewChunks : c.path \in Paths
    BY <2>1, NewChunksKnown DEF Chunks
  <2>. QED  BY <1>14, <2>2, <2>3 DEF ReplaceIndex
<1>15. CASE ApplyIncremental
  <2>1. pc = "rescan" /\ mode = "incremental"
    BY <1>15 DEF ApplyIncremental, Rechecked
  <2>2. CASE DeltaChunks # Expected
    BY <1>15, <2>2 DEF ApplyIncremental, FailsWith, Rechecked
  <2>3. CASE DeltaChunks = Expected
    <3>1. \A c \in NewChunks : c.path \in changed /\ scan[c.path] # None
      BY <2>1, NewChunksKnown
    <3>2. \A c \in NewChunks \cup chunks : c.path \in Paths
      BY <2>1, NewChunksKnown DEF Chunks
    <3>3. \A c \in chunks' : c \in NewChunks \/ (c \in chunks /\ c.path \notin deleted)
      BY <1>15, <2>3 DEF ApplyIncremental, DeltaChunks, ChunksOutside
    <3>4. files' = Delta(files, scan)
      BY <1>15, <2>3 DEF ApplyIncremental
    <3>5. \A c \in chunks : files[c.path] # None
      OBVIOUS
    <3>6. ASSUME NEW c \in chunks' PROVE files'[c.path] # None
      <4>1. c.path \in Paths
        BY <3>2, <3>3
      <4>2. CASE c.path \in changed
        <5>1. scan[c.path] # None
          BY <2>1, <4>2
        <5>. QED  BY <3>4, <4>1, <4>2, <5>1 DEF Delta
      <4>3. CASE c.path \notin changed
        BY <3>1, <3>3, <3>4, <3>5, <4>1, <4>3 DEF Delta
      <4>. QED  BY <4>2, <4>3
    <3>. QED  BY <3>6
  <2>. QED  BY <2>2, <2>3
<1>16. CASE Fault
  BY <1>16, VersionsAssumption DEF Fault, FailsWith
<1>17. ASSUME NEW p \in Paths, NEW v \in Versions \cup {None}, Edit(p, v) PROVE InvCascade'
  BY <1>17, VersionsAssumption DEF Edit, Exposed
<1>18. CASE UNCHANGED vars
  BY <1>18, VersionsAssumption DEF vars
<1>. QED  BY <1>1, <1>2, <1>3, <1>4, <1>5, <1>6, <1>7, <1>8, <1>9, <1>10, <1>11, <1>12,
             <1>13, <1>14, <1>15, <1>16, <1>17, <1>18 DEF Next, Step

(* The deletions of an incremental run are exactly what it does not keep, so *)
(* that its comparison of ids never fails.                                   *)
LEMMA DeltaIsExpected ==
  ASSUME IInv, pc = "rescan", mode = "incremental"
  PROVE  DeltaChunks = Expected
<1>1. \A c \in chunks : c.path \in Paths /\ files[c.path] # None
  BY DEF IInv, InvCascade, TypeOK, Chunks
<1>. QED  BY <1>1 DEF DeltaChunks, Expected, ChunksOutside

(* When a recheck passes, a file edited less than twice was not edited.      *)
LEMMA RecheckShows ==
  ASSUME IInv, pc = "rescan", Walked, SameSnapshot
  PROVE  /\ \A p \in Paths : edits[p] # 2 => edits[p] = 0 /\ between[p] = scan[p]
         /\ \A p \in changed : edits[p] # 2 => parsed[p] = scan[p] /\ chunked[p] = scan[p]
         /\ quiet => scan = disk /\ \A p \in Paths : edits[p] = 0
<1> USE DEF IInv, TypeOK, Late, Done
<1>1. \A p \in Paths : edits[p] # 2 => edits[p] = 0 /\ between[p] = scan[p]
  BY DEF InvWindow, Window, Walked, SameSnapshot
<1>2. \A p \in changed : edits[p] # 2 => parsed[p] = scan[p] /\ chunked[p] = scan[p]
  BY <1>1 DEF InvPrepared
<1>3. quiet => scan = disk /\ \A p \in Paths : edits[p] = 0
  BY DEF InvQuiet
<1>. QED  BY <1>1, <1>2, <1>3

(* Nothing else writes rows.                                                 *)
LEMMA OtherSteps ==
  ASSUME Next, ~ReplaceIndex, ~ApplyIncremental
  PROVE  rows' = rows /\ suspect' = suspect
<1> USE DEF rows
<1>1. ASSUME NEW p \in Paths, ListFile(p) \/ HashFile(p) \/ FileVanished(p) \/ ParseFile(p) \/ ChunkFile(p)
      PROVE  rows' = rows /\ suspect' = suspect
  BY <1>1 DEF ListFile, HashFile, FileVanished, ParseFile, ChunkFile, FailsWith, Observed
<1>2. ASSUME NEW p \in Paths, NEW v \in Versions \cup {None}, Edit(p, v)
      PROVE  rows' = rows /\ suspect' = suspect
  BY <1>2 DEF Edit
<1>3. CASE StartRun \/ NoChanges \/ PlanIncremental \/ PlanFull \/ EndParse \/ Unprepared \/ Prepared
           \/ RepositoryChanged \/ Fault
  BY <1>3 DEF StartRun, NoChanges, PlanIncremental, PlanFull, Planned, EndParse,
     Unprepared, Prepared,
              RepositoryChanged, Fault, FailsWith, Observed
<1>. QED  BY <1>1, <1>2, <1>3 DEF Next, Step

(* The rows of a committed run are those of its first scan.                  *)
LEMMA CommitsScan ==
  ASSUME IInv, ReplaceIndex \/ ApplyIncremental
  PROVE  /\ pc = "rescan" /\ Walked /\ SameSnapshot /\ Commits
         /\ files' = scan
         /\ \A p \in changed : symbols'[p] = parsed[p] /\ {c \in chunks' : c.path = p} = ChunksOf(p)
         /\ \A p \in Paths \ changed :
              \/ scan[p] = None /\ symbols'[p] = None /\ {c \in chunks' : c.path = p} = {}
              \/ mode = "incremental" /\ files[p] = scan[p] /\ symbols'[p] = symbols[p]
                 /\ {c \in chunks' : c.path = p} = RowChunks(p)
<1> USE DEF IInv, TypeOK, Contents, InvPlan, Late, Present, Changed, Deleted
<1>2. CASE ReplaceIndex
  <2>1. pc = "rescan" /\ Walked /\ SameSnapshot /\ Commits /\ mode = "full"
    BY <1>2 DEF ReplaceIndex, Rechecked
  <2>2. changed = {p \in Paths : scan[p] # None}
    BY <2>1
  <2>3. files' = scan
    BY <1>2, <2>2 DEF ReplaceIndex
  <2>4. \A p \in Paths : symbols'[p] = IF p \in changed THEN parsed[p] ELSE None
    BY <1>2 DEF ReplaceIndex
  <2>5. \A p \in changed : {c \in chunks' : c.path = p} = ChunksOf(p)
    BY <1>2, <2>1, NewChunksKnown DEF ReplaceIndex
  <2>6. \A p \in Paths \ changed : {c \in chunks' : c.path = p} = {}
    BY <1>2, <2>1, NewChunksKnown DEF ReplaceIndex
  <2>. QED  BY <2>1, <2>2, <2>3, <2>4, <2>5, <2>6
<1>3. CASE ApplyIncremental
  <2>1. pc = "rescan" /\ Walked /\ SameSnapshot /\ mode = "incremental"
    BY <1>3 DEF ApplyIncremental, Rechecked
  <2>2. /\ files' = Delta(files, scan) /\ symbols' = Delta(symbols, parsed)
        /\ chunks' = DeltaChunks /\ Commits
    BY <1>3, <2>1, DeltaIsExpected DEF ApplyIncremental
  <2>3. /\ changed = {p \in Paths : scan[p] # None /\ files[p] # scan[p]}
        /\ deleted = {p \in Paths : files[p] # None /\ scan[p] = None}
    BY <2>1
  <2>4. files' = scan
    BY <2>2, <2>3 DEF Delta
  <2>5. \A p \in Paths : symbols'[p] = IF p \in changed THEN parsed[p] ELSE IF p \in deleted THEN None ELSE symbols[p]
    BY <2>2 DEF Delta
  <2>6. \A p \in changed : {c \in chunks' : c.path = p} = ChunksOf(p)
    <3>. TAKE p \in changed
    <3>1. \A c \in ChunksOutside(deleted \cup {q \in changed : files[q] # None}) : c.path # p
      BY DEF InvCascade, ChunksOutside
    <3>. QED  BY <2>1, <2>2, <3>1, NewChunksKnown DEF DeltaChunks
  <2>7. \A p \in deleted : {c \in chunks' : c.path = p} = {}
    BY <2>1, <2>2, <2>3, NewChunksKnown DEF DeltaChunks, ChunksOutside
  <2>8. \A p \in Paths \ (changed \cup deleted) : {c \in chunks' : c.path = p} = RowChunks(p)
    <3>. TAKE p \in Paths \ (changed \cup deleted)
    <3>1. \A c \in NewChunks : c.path # p
      BY <2>1, NewChunksKnown
    <3>. QED  BY <2>2, <3>1 DEF DeltaChunks, ChunksOutside, RowChunks
  <2>9. \A p \in Paths \ (changed \cup deleted) : files[p] = scan[p]
    BY <2>3
  <2>10. \A p \in deleted : scan[p] = None
    BY <2>3
  <2>. QED  BY <2>1, <2>2, <2>4, <2>5, <2>6, <2>7, <2>8, <2>9, <2>10
<1>. QED  BY <1>2, <1>3

(* A suspect file has a row.                                                 *)
LEMMA StepSuspect ==
  ASSUME IInv, [Next]_vars
  PROVE  InvSuspect'
<1> USE DEF IInv, InvSuspect
<1>1. CASE (Next /\ ~ReplaceIndex /\ ~ApplyIncremental) \/ UNCHANGED vars
  BY <1>1, OtherSteps DEF vars, rows
<1>2. CASE ReplaceIndex \/ ApplyIncremental
  <2>1. pc = "rescan" /\ Commits /\ files' = scan
    BY <1>2, CommitsScan
  <2>2. /\ \A p \in changed : scan[p] # None
        /\ deleted = {p \in Paths : files[p] # None /\ scan[p] = None}
    BY <2>1 DEF InvPlan, Late, Changed, Deleted, Present, TypeOK, Contents
  <2>. QED  BY <2>1, <2>2 DEF Commits, TypeOK
<1>. QED  BY <1>1, <1>2


(* Rows stay of the version whose hash they have.                            *)
LEMMA StepRows ==
  ASSUME IInv, [Next]_vars
  PROVE  RowsAreOfTheirHash'
<1> USE VersionsAssumption DEF IInv, TypeOK, Contents, Python
<1>1. CASE (Next /\ ~ReplaceIndex /\ ~ApplyIncremental) \/ UNCHANGED vars
  <2>1. rows' = rows /\ suspect' = suspect
    BY <1>1, OtherSteps DEF vars
  <2>. QED  BY <2>1 DEF rows, RowsAreOfTheirHash, RowChunks
<1>2. CASE ReplaceIndex \/ ApplyIncremental
  <2>1. /\ pc = "rescan" /\ Walked /\ SameSnapshot /\ Commits
        /\ files' = scan
        /\ \A p \in changed : symbols'[p] = parsed[p] /\ {c \in chunks' : c.path = p} = ChunksOf(p)
        /\ \A p \in Paths \ changed :
             \/ scan[p] = None /\ symbols'[p] = None /\ {c \in chunks' : c.path = p} = {}
             \/ mode = "incremental" /\ files[p] = scan[p] /\ symbols'[p] = symbols[p]
                /\ {c \in chunks' : c.path = p} = RowChunks(p)
    BY <1>2, CommitsScan
  <2>. SUFFICES ASSUME NEW p \in Paths, p \notin suspect'
                PROVE  /\ symbols'[p] = files'[p]
                       /\ {c \in chunks' : c.path = p} =
                            IF files'[p] \in Blank \cup {None} THEN {}
                            ELSE {[path |-> p, symbols |-> files'[p], lines |-> files'[p]]}
    BY DEF RowsAreOfTheirHash, RowChunks
  <2>2. CASE p \in changed
    <3>1. edits[p] # 2
      BY <2>1, <2>2 DEF Commits
    <3>2. parsed[p] = scan[p] /\ chunked[p] = scan[p]
      BY <2>1, <2>2, <3>1, RecheckShows
    <3>3. parsed[p] \in Python
      BY <2>1, <2>2 DEF InvPrepared, Late
    <3>. QED  BY <2>1, <2>2, <3>2, <3>3 DEF ChunksOf
  <2>3. CASE p \notin changed /\ scan[p] = None /\ symbols'[p] = None /\ {c \in chunks' : c.path = p} = {}
    BY <2>1, <2>3
  <2>4. CASE /\ p \notin changed /\ mode = "incremental" /\ files[p] = scan[p] /\ symbols'[p] = symbols[p]
             /\ {c \in chunks' : c.path = p} = RowChunks(p)
    <3>1. CASE p \in deleted
      <4>1. files[p] # None /\ scan[p] = None
        BY <2>1, <3>1 DEF InvPlan, Late, Deleted, Present
      <4>. QED  BY <2>4, <4>1
    <3>2. CASE p \notin deleted
      <4>1. p \notin suspect
        BY <2>1, <2>4, <3>2 DEF Commits
      <4>. QED  BY <2>1, <2>4, <4>1 DEF RowsAreOfTheirHash
    <3>. QED  BY <3>1, <3>2
  <2>. QED  BY <2>1, <2>2, <2>3, <2>4
<1>. QED  BY <1>1, <1>2

(* A run that nothing disturbs ends as it should; the runs that fail by       *)
(* themselves have seen an edit or a file that is not Python.                *)
LEMMA StepCatchesUp ==
  ASSUME IInv, [Next]_vars
  PROVE  CleanRunCatchesUp'
<1> USE DEF IInv, TypeOK, CleanRunCatchesUp, InvQuiet, InvPrepared, Late, Done, Contents,
            Python, rows, walk, plan, prepared, bounds
<1>1. CASE StartRun
  BY <1>1, VersionsAssumption DEF StartRun, Walk, Nowhere
<1>2. ASSUME NEW p \in Paths, ListFile(p) PROVE CleanRunCatchesUp'
  BY <1>2, VersionsAssumption DEF ListFile, Observed
<1>3. ASSUME NEW p \in Paths, HashFile(p) PROVE CleanRunCatchesUp'
  BY <1>3, VersionsAssumption DEF HashFile, Observed
<1>4. ASSUME NEW p \in Paths, FileVanished(p) PROVE CleanRunCatchesUp'
  <2>1. ~quiet
    BY <1>4 DEF FileVanished
  <2>. QED  BY <1>4, <2>1 DEF FileVanished, FailsWith
<1>5. CASE NoChanges
  <2>1. quiet => seen = disk
    BY <1>5 DEF NoChanges, Walked
  <2>2. files = seen
    BY <1>5 DEF NoChanges, Changed, Deleted, Present
  <2>. QED  BY <1>5, <2>1, <2>2 DEF NoChanges
<1>6. CASE PlanIncremental
  BY <1>6, VersionsAssumption DEF PlanIncremental, Planned, Walked, Observed, Present,
     Changed, Deleted
<1>7. CASE PlanFull
  BY <1>7, VersionsAssumption DEF PlanFull, Planned, Walked, Observed, Present, Changed,
     Deleted
<1>8. ASSUME NEW p \in Paths, ParseFile(p) PROVE CleanRunCatchesUp'
  BY <1>8, VersionsAssumption DEF ParseFile, Observed
<1>9. CASE EndParse
  BY <1>9, VersionsAssumption DEF EndParse, Observed
<1>10. ASSUME NEW p \in Paths, ChunkFile(p) PROVE CleanRunCatchesUp'
  BY <1>10, VersionsAssumption DEF ChunkFile, Observed
<1>11. CASE Unprepared
  BY <1>11, VersionsAssumption DEF Unprepared, FailsWith
<1>12. CASE Prepared
  BY <1>12, VersionsAssumption DEF Prepared, Walk, Nowhere, Observed
<1>13. CASE RepositoryChanged
  <2>1. quiet => seen = disk
    BY <1>13 DEF RepositoryChanged, Walked
  <2>2. ~quiet
    BY <1>13, <2>1 DEF RepositoryChanged, SameSnapshot
  <2>. QED  BY <1>13, <2>2 DEF RepositoryChanged, FailsWith
<1>14. CASE ReplaceIndex
  <2>1. files' = scan /\ Rechecked /\ Commits
    BY <1>14, CommitsScan DEF ReplaceIndex
  <2>2. quiet => scan = disk /\ \A p \in Paths : edits[p] = 0
    BY <2>1, RecheckShows DEF Rechecked
  <2>3. quiet => suspect' = {}
    <3>1. \A p \in suspect : p \in changed \cup deleted
      BY <1>14 DEF InvSuspect, InvPlan, ReplaceIndex, Rechecked, Present, Deleted
    <3>. QED  BY <2>1, <2>2, <3>1 DEF Commits
  <2>. QED  BY <2>1, <2>2, <2>3 DEF Commits
<1>15. CASE ApplyIncremental
  <2>1. files' = scan /\ Rechecked /\ Commits /\ mode = "incremental"
    BY <1>15, CommitsScan DEF ApplyIncremental, Rechecked
  <2>2. quiet => scan = disk
    BY <2>1, RecheckShows DEF Rechecked
  <2>. QED  BY <2>1, <2>2 DEF Commits
<1>16. CASE Fault
  BY <1>16, VersionsAssumption DEF Fault, FailsWith
<1>17. ASSUME NEW p \in Paths, NEW v \in Versions \cup {None}, Edit(p, v) PROVE CleanRunCatchesUp'
  BY <1>17, VersionsAssumption DEF Edit, Exposed
<1>18. CASE UNCHANGED vars
  BY <1>18, VersionsAssumption DEF vars
<1>. QED  BY <1>1, <1>2, <1>3, <1>4, <1>5, <1>6, <1>7, <1>8, <1>9, <1>10, <1>11, <1>12,
             <1>13, <1>14, <1>15, <1>16, <1>17, <1>18 DEF Next, Step

(* Initially nothing is indexed.                                             *)
LEMMA InitInv == Init => IInv
<1> USE VersionsAssumption DEF Init, Nowhere
<1>. SUFFICES ASSUME Init PROVE IInv
  OBVIOUS
<1>1. TypeOK
  <2>1. edits \in [Paths -> 0..2]
    OBVIOUS
  <2>2. runs \in Nat /\ changes \in Nat
    OBVIOUS
  <2>3. symbols \in [Paths -> Python \cup {None}] /\ parsed \in [Paths -> Python \cup {None}]
    OBVIOUS
  <2>. QED  BY <2>1, <2>2, <2>3 DEF TypeOK, Contents
<1>2. InvWindow /\ InvPlan /\ InvPrepared /\ InvQuiet /\ InvCascade /\ InvSuspect
  BY DEF InvWindow, Window, Late, InvPlan, InvPrepared, InvQuiet, InvCascade, InvSuspect
<1>3. RowsAreOfTheirHash /\ CleanRunCatchesUp
  BY DEF RowsAreOfTheirHash, RowChunks, CleanRunCatchesUp
<1>. QED  BY <1>1, <1>2, <1>3 DEF IInv

(* Each part is kept by every step.                                          *)
LEMMA StepInv == IInv /\ [Next]_vars => IInv'
BY StepTypes, StepWindow, StepPlan, StepPrepared, StepQuiet, StepCascade, StepSuspect,
   StepRows, StepCatchesUp DEF IInv

(* The invariant holds throughout.                                           *)
THEOREM Invariance == Spec => []IInv
BY InitInv, StepInv, PTL DEF Spec

(* The variables have their types.                                           *)
THEOREM TypeCorrect == Spec => []TypeOK
BY Invariance, PTL DEF IInv

(* File, symbol and chunk rows are of one version, however edits fell between *)
(* the scanner's, the parser's and the chunker's reads, unless two edits of   *)
(* the file did.                                                             *)
THEOREM RowsMatchHashes == Spec => []RowsAreOfTheirHash
BY Invariance, PTL DEF IInv

(* A run that is neither edited under nor fails ends with the repository's    *)
(* rows, whether full, incremental or without changes.                       *)
THEOREM CleanRunsCatchUp == Spec => []CleanRunCatchesUp
BY Invariance, PTL DEF IInv

(* What is committed is the repository at the end of the first scan.         *)
THEOREM CommitsASnapshot == Spec => IndexedSnapshotExisted
<1>1. IInv /\ [Next]_vars => [rows' # rows => \A p \in Paths : edits[p] < 2 => files'[p] = between[p]]_vars
  <2>. SUFFICES ASSUME IInv, Next, rows' # rows, NEW p \in Paths, edits[p] < 2
                PROVE  files'[p] = between[p]
    BY DEF vars, rows
  <2>1. ReplaceIndex \/ ApplyIncremental
    BY OtherSteps
  <2>2. pc = "rescan" /\ Walked /\ SameSnapshot /\ files' = scan
    BY <2>1, CommitsScan
  <2>3. edits[p] # 2
    OBVIOUS
  <2>. QED  BY <2>2, <2>3, RecheckShows
<1>. QED  BY <1>1, Invariance, PTL DEF Spec, IndexedSnapshotExisted
=============================================================================

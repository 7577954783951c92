-------------------------- MODULE NavigationProofs --------------------------
(***************************************************************************)
(* Proofs about Navigation, for any finite projects and files, any versions *)
(* and functions in them, and any bounds.                                   *)
(***************************************************************************)
EXTENDS NavigationRows

-----------------------------------------------------------------------------
(* The inductive invariant                                                  *)

(* The runs of the owner since an item was listed kept its file.             *)
Kept(item) ==
  \A e \in Since(item.owner, item.at, Len(runs)) : item.path \notin e.removed

(* ... and its content.                                                     *)
Untouched(item) ==
  \A e \in Since(item.owner, item.at, Len(runs)) :
    item.path \notin e.removed \cup e.changed

(* What an item that is held somewhere still says of the tables.             *)
HeldFile(item) ==
  /\ item.at \in 0 .. Len(runs)
  /\ Kept(item) => /\ item.file \in Ids(files, item.owner)
                   /\ files[item.file].path = item.path
  /\ Untouched(item) => files[item.file].ver = item.ver

HeldSymbol(item) ==
  /\ HeldFile(item)
  /\ Untouched(item) =>
       /\ item.symbol \in DOMAIN symbols
       /\ symbols[item.symbol] = [file |-> item.file, name |-> item.name, ver |-> item.ver]

ListsHeld(lists) ==
  /\ \A item \in lists.files : HeldFile(item)
  /\ \A item \in lists.symbols : HeldSymbol(item)

(* OpensWhatWasClicked of one request or panel.                              *)
OpensIt(r) ==
  /\ r.what.at \in Nat /\ r.got.at \in 0 .. Len(runs)
  /\ r.what.owner = r.project =>
       LET since == Since(r.project, r.what.at, r.got.at)
           kept  == \A e \in since : r.what.path \notin e.removed
       IN  /\ kept => r.got.path = r.what.path
           /\ kept /\ (\A e \in since : r.what.path \notin e.changed) =>
                r.got.ver = r.what.ver

(* DocumentsItsEvidence of one request or panel.                             *)
Evidenced(r) ==
  LET c == r.got.chunk
      Steady(path, from) ==
        \A e \in Since(r.project, from, c.at) : path \notin e.removed \cup e.changed
  IN  /\ r.what.at \in Nat /\ r.got.from \in Nat /\ c.at \in 0 .. Len(runs)
      /\ r.got.name = c.name
      /\ Steady(c.path, r.got.from) => r.got.hash = c.ver
      /\ r.what.owner = r.project /\ Steady(r.what.path, r.what.at) =>
           <<c.path, c.name, c.ver>> = <<r.what.path, r.what.name, r.what.ver>>

(* The files that a resolution read are those of the table, as long as no    *)
(* run touched them since.                                                  *)
KnownFiles(r) ==
  /\ {"known", "from"} \subseteq DOMAIN r.got /\ r.got.from \in 0 .. Len(runs)
  /\ \A i \in DOMAIN r.got.known \cap Ids(files, r.project) :
       (\A e \in Since(r.project, r.got.from, Len(runs)) :
          files[i].path \notin e.removed \cup e.changed)
       => r.got.known[i] = files[i]

RequestHeld(r) ==
  /\ r.kind = "open" =>
       /\ HeldFile(r.what) /\ r.pc \in {"start", "bytes", "reply"}
       /\ r.pc \in {"bytes", "reply"} => OpensIt(r)
  /\ r.kind = "ask" =>
       /\ r.pc \in {"start", "files", "reply"}
       /\ r.pc \in {"files", "reply"} => HeldFile(r.got.cited)
  /\ r.kind = "document" =>
       /\ HeldSymbol(r.what) /\ r.pc \in {"start", "symbols", "hydrate", "files", "reply"}
       /\ r.pc = "symbols" => KnownFiles(r)
       /\ r.pc \in {"hydrate", "files", "reply"} => Evidenced(r)
       /\ r.pc \in {"files", "reply"} => HeldFile(r.got.cited)

AnswerHeld(kind, e) ==
  /\ kind = "open" => OpensIt(e)
  /\ kind = "document" => Evidenced(e)
  /\ kind \in {"ask", "document"} => HeldFile(e.got.cited)

(* All that the tab and the requests hold.                                  *)
ViewHeld     == \A lists \in {view} \ {Nothing} : ListsHeld(lists)
FieldHeld    == \A item \in {identifier} \ {Nothing} : HeldSymbol(item)
LoadsHeld    == \A l \in loads : l.lists # Nothing => ListsHeld(l.lists)
RequestsHeld == \A r \in requests : RequestHeld(r)
PanelsHeld   == \A k \in Kinds : \A e \in {panel[k]} \ {Nothing} : AnswerHeld(k, e)

Held == ViewHeld /\ FieldHeld /\ LoadsHeld /\ RequestsHeld /\ PanelsHeld

(* The tables, and the runs that made them.                                  *)
Runs == [project : Projects, removed : SUBSET Paths, changed : SUBSET Paths]

StoreOK ==
  /\ tree \in [Projects -> Contents]
  /\ FileTable(files) /\ SymbolTable(symbols, files)
  /\ runs \in Seq(Runs)

(* The tab, the rest of TypeOK and more.                                     *)
TabOK ==
  /\ switchable \in BOOLEAN /\ raced \in BOOLEAN
  /\ busy \subseteq {"ask", "document"}
  /\ wanted \in Projects \cup {Nothing}
  /\ refreshes \subseteq Projects
  /\ \A l \in loads : /\ DOMAIN l = {"n", "project", "chosen", "lists"}
                      /\ l.project \in Projects /\ l.chosen \in BOOLEAN
  /\ \A r \in requests :
       /\ DOMAIN r = {"n", "kind", "project", "what", "crossed", "pc", "got"}
       /\ r.kind \in Kinds /\ r.crossed \in BOOLEAN
  /\ DOMAIN panel = Kinds

(* The project that is shown is that of what is not crossed and, unless      *)
(* loads met, of the only load.                                             *)
Together ==
  /\ \A l \in loads : l.lists # Nothing => l.lists.project = l.project
  /\ \A r \in requests : ~r.crossed =>
       loads = {} /\ view # Nothing /\ view.project = r.project
  /\ \A k \in Kinds : panel[k] # Nothing /\ ~panel[k].crossed =>
       loads = {} /\ view # Nothing /\ view.project = panel[k].project
  /\ ~raced =>
       /\ loads = {} => view = Nothing \/ view.project = wanted
       /\ \A l \in loads : /\ loads = {l} /\ l.project = wanted
                           /\ l.chosen => ~switchable
-----------------------------------------------------------------------------
(* Types                                                                    *)

(* What a run does to the tables.                                            *)
Replaces(e) ==
  /\ runs' = Append(runs, e) /\ e \in Runs
  /\ FilesKept(files, files', e.project, e.removed, e.changed)
  /\ \A s \in DOMAIN symbols :
       LET f == files[symbols[s].file]
       IN  f.project # e.project \/ f.path \notin e.removed \cup e.changed =>
             s \in DOMAIN symbols' /\ symbols'[s] = symbols[s]

(* A full or incremental run does that, and leaves tables of the same form.  *)
LEMMA RunReplaces ==
  ASSUME StoreOK, NEW p \in Projects, NEW full \in BOOLEAN, NEW mine \in BOOLEAN,
         Reindex(p, full, mine)
  PROVE  StoreOK' /\ \E e \in Runs : Replaces(e)
<1> DEFINE present == {x \in Paths : tree[p][x] # Absent}
           removed == IF full THEN PathsOf(files, p) ELSE PathsOf(files, p) \ present
           changed == IF full THEN present
                      ELSE {x \in present : Recorded(files, p, x) # tree[p][x]}
           kept == KeptSymbols(p, removed, changed)
           e == [project |-> p, removed |-> removed, changed |-> changed]
<1>1. /\ files' = FileRows(files, p, tree[p], removed, changed)
      /\ symbols' = SymbolRows(files', p, changed, kept)
      /\ runs' = Append(runs, e)
      /\ tree' = tree
  BY Zenon DEF Reindex, repository
<1>2. tree[p] \in Contents
  BY DEF StoreOK
<1>3. removed \in SUBSET Paths /\ changed \in SUBSET Paths /\ \A x \in changed : tree[p][x] # Absent
  <2>1. PathsOf(files, p) \in SUBSET Paths
    BY DEF StoreOK, FileTable, PathsOf, Ids
  <2>. QED BY <2>1
<1>4. kept \in SUBSET DOMAIN symbols
  BY DEF KeptSymbols
<1>5. \A s \in DOMAIN symbols :
        s \in kept <=> LET f == files[symbols[s].file]
                       IN  f.project # p \/ f.path \notin removed \cup changed
  BY DEF KeptSymbols
<1>. HIDE DEF removed, changed, kept
<1>6. /\ FileTable(files')
      /\ FilesKept(files, files', p, removed, changed)
      /\ changed \subseteq PathsOf(files', p)
  BY <1>1, <1>2, <1>3, FileRowsOfRun DEF StoreOK
<1>7. \A s \in kept : symbols[s].file \in DOMAIN files' /\ files'[symbols[s].file] = files[symbols[s].file]
  <2>1. SUFFICES ASSUME NEW s \in kept
                 PROVE  /\ symbols[s].file \in DOMAIN files'
                        /\ files'[symbols[s].file] = files[symbols[s].file]
    OBVIOUS
  <2>2. symbols[s].file \in DOMAIN files
    BY <1>4 DEF StoreOK, SymbolTable
  <2>3. \/ files[symbols[s].file].project # p
        \/ files[symbols[s].file].path \notin removed \cup changed
    BY <1>4, <1>5
  <2>. QED BY <1>6, <2>2, <2>3 DEF FilesKept
<1>8. /\ SymbolTable(symbols', files')
      /\ SymbolsKept(symbols, symbols', kept)
  <2>1. \A s \in kept : /\ symbols[s].file \in DOMAIN files'
                       /\ files'[symbols[s].file].ver = files[symbols[s].file].ver
    BY <1>7
  <2>. QED BY <1>1, <1>3, <1>4, <1>6, <2>1, SymbolRowsOfRun DEF StoreOK
<1>9. e \in Runs
  BY <1>3 DEF Runs
<1>10. StoreOK'
  <2>1. runs' \in Seq(Runs)
    BY <1>1, <1>9 DEF StoreOK
  <2>. QED BY <1>1, <1>6, <1>8, <2>1 DEF StoreOK
<1>11. e.project = p /\ e.removed = removed /\ e.changed = changed
  OBVIOUS
<1>. HIDE DEF e
<1>12. Replaces(e)
  BY <1>1, <1>5, <1>6, <1>8, <1>9, <1>11 DEF Replaces, SymbolsKept
<1>. QED BY <1>9, <1>10, <1>12

-----------------------------------------------------------------------------
(* What is held survives every change of the tables                         *)

(* Either a run commits, or the tables stay as they are.                     *)
Changes == UNCHANGED store \/ \E e \in Runs : Replaces(e)

(* A moment of the past keeps its runs, and a run adds itself to those of    *)
(* its project.                                                             *)
LEMMA RunAppended ==
  ASSUME runs \in Seq(Runs), NEW e \in Runs, runs' = Append(runs, e)
  PROVE  /\ Len(runs) \in Nat /\ Len(runs)' = Len(runs) + 1
         /\ \A p, from, to : from \in Nat /\ to \in 0 .. Len(runs) =>
              Since(p, from, to)' = Since(p, from, to)
         /\ \A p, from : from \in 0 .. Len(runs) =>
              Since(p, from, Len(runs))' =
                Since(p, from, Len(runs)) \cup (IF e.project = p THEN {e} ELSE {})
<1>1. /\ Len(runs) \in Nat /\ Len(runs') = Len(runs) + 1
      /\ \A k \in 1 .. Len(runs) : runs'[k] = runs[k]
      /\ runs'[Len(runs) + 1] = e
  OBVIOUS
<1>2. ASSUME NEW p, NEW from \in Nat, NEW to \in 0 .. Len(runs)
      PROVE  Since(p, from, to)' = Since(p, from, to)
  <2>1. \A k \in from + 1 .. to : runs'[k] = runs[k]
    BY <1>1
  <2>. QED BY <2>1 DEF Since
<1>3. ASSUME NEW p, NEW from \in 0 .. Len(runs)
      PROVE  Since(p, from, Len(runs))' =
               Since(p, from, Len(runs)) \cup (IF e.project = p THEN {e} ELSE {})
  <2>1. \A k \in from + 1 .. Len(runs) : runs'[k] = runs[k]
    BY <1>1
  <2>2. from + 1 .. Len(runs)' = (from + 1 .. Len(runs)) \cup {Len(runs) + 1}
    BY <1>1
  <2>. QED BY <1>1, <2>1, <2>2 DEF Since
<1>. QED BY <1>1, <1>2, <1>3

(* The promises of an item say less after a run of its owner.                *)
LEMMA ItemStillHeld ==
  ASSUME StoreOK, Changes, NEW item
  PROVE  (HeldFile(item) => HeldFile(item)') /\ (HeldSymbol(item) => HeldSymbol(item)')
<1>1. CASE UNCHANGED store
  BY <1>1 DEF store, HeldFile, HeldSymbol, Kept, Untouched, Since, Ids
<1>2. ASSUME NEW e \in Runs, Replaces(e), HeldFile(item)
      PROVE  /\ HeldFile(item)'
             /\ Untouched(item)' => Untouched(item)
             /\ Untouched(item)' /\ e.project = item.owner => item.path \notin e.removed \cup e.changed
  <2>1. /\ Len(runs) \in Nat /\ Len(runs)' = Len(runs) + 1
        /\ Since(item.owner, item.at, Len(runs))' =
             Since(item.owner, item.at, Len(runs)) \cup (IF e.project = item.owner THEN {e} ELSE {})
    BY <1>2, RunAppended DEF StoreOK, Replaces, HeldFile
  <2>2. Untouched(item)' => Untouched(item)
    BY <2>1 DEF Untouched
  <2>3. Kept(item)' => Kept(item)
    BY <2>1 DEF Kept
  <2>4. Untouched(item)' /\ e.project = item.owner => item.path \notin e.removed \cup e.changed
    BY <2>1 DEF Untouched
  <2>5. Kept(item)' /\ e.project = item.owner => item.path \notin e.removed
    BY <2>1 DEF Kept
  <2>6. item.at \in 0 .. Len(runs)'
    BY <1>2, <2>1 DEF HeldFile
  <2>7. Untouched(item)' => Kept(item)'
    BY DEF Untouched, Kept
  <2>8. ASSUME Kept(item)'
        PROVE  /\ item.file \in DOMAIN files /\ files[item.file].project = item.owner
               /\ files[item.file].path = item.path
               /\ item.file \in DOMAIN files' /\ files'[item.file].project = item.owner
               /\ files'[item.file].path = item.path
    <3>1. /\ item.file \in DOMAIN files /\ files[item.file].project = item.owner
          /\ files[item.file].path = item.path
      BY <1>2, <2>3, <2>8 DEF HeldFile, Ids
    <3>. QED BY <1>2, <2>5, <2>8, <3>1 DEF Replaces, FilesKept
  <2>9. ASSUME Untouched(item)'
        PROVE  files'[item.file].ver = item.ver
    <3>1. files[item.file].ver = item.ver
      BY <1>2, <2>2, <2>9 DEF HeldFile
    <3>2. files'[item.file] = files[item.file]
      BY <1>2, <2>4, <2>7, <2>8, <2>9 DEF Replaces, FilesKept
    <3>. QED BY <3>1, <3>2
  <2>10. HeldFile(item)'
    BY <2>6, <2>8, <2>9 DEF HeldFile, Ids
  <2>. QED BY <2>2, <2>4, <2>10
<1>3. ASSUME NEW e \in Runs, Replaces(e), HeldSymbol(item)
      PROVE  HeldSymbol(item)'
  <2>0. HeldFile(item)
    BY <1>3, Zenon DEF HeldSymbol
  <2>1. HeldFile(item) /\ HeldFile(item)'
    BY <1>2, <1>3, <2>0
  <2>2. ASSUME Untouched(item)'
        PROVE  /\ item.symbol \in DOMAIN symbols'
               /\ symbols'[item.symbol] = [file |-> item.file, name |-> item.name, ver |-> item.ver]
    <3>1. Untouched(item) /\ (e.project = item.owner => item.path \notin e.removed \cup e.changed)
      BY <1>2, <1>3, <2>1, <2>2
    <3>2. /\ item.symbol \in DOMAIN symbols
          /\ symbols[item.symbol] = [file |-> item.file, name |-> item.name, ver |-> item.ver]
      BY <1>3, <3>1 DEF HeldSymbol
    <3>3. Kept(item)
      BY <3>1 DEF Untouched, Kept
    <3>4. symbols[item.symbol].file = item.file /\ files[item.file].project = item.owner
          /\ files[item.file].path = item.path
      BY <2>1, <3>2, <3>3 DEF HeldFile, Ids
    <3>5. symbols'[item.symbol] = symbols[item.symbol] /\ item.symbol \in DOMAIN symbols'
      BY <1>3, <3>1, <3>2, <3>4 DEF Replaces
    <3>. QED BY <3>2, <3>5
  <2>. QED BY <2>1, <2>2, Zenon DEF HeldSymbol
<1>. QED BY <1>1, <1>2, <1>3 DEF Changes

(* So do those of lists, and what an answer shows stays true of the runs     *)
(* before it.                                                               *)
LEMMA AnswerStillHeld ==
  ASSUME StoreOK, Changes, NEW r
  PROVE  /\ ListsHeld(r) => ListsHeld(r)'
         /\ OpensIt(r) => OpensIt(r)'
         /\ Evidenced(r) => Evidenced(r)'
<1>1. ListsHeld(r) => ListsHeld(r)'
  BY ItemStillHeld DEF ListsHeld
<1>2. CASE UNCHANGED store
  <2>1. runs' = runs
    BY <1>2 DEF store
  <2>. QED BY <1>1, <2>1 DEF OpensIt, Evidenced, Since
<1>3. ASSUME NEW e \in Runs, Replaces(e)
      PROVE  (OpensIt(r) => OpensIt(r)') /\ (Evidenced(r) => Evidenced(r)')
  <2>1. /\ Len(runs) \in Nat /\ Len(runs)' = Len(runs) + 1
        /\ \A p, from, to : from \in Nat /\ to \in 0 .. Len(runs) =>
             Since(p, from, to)' = Since(p, from, to)
    BY <1>3, RunAppended DEF StoreOK, Replaces
  <2>2. OpensIt(r) => OpensIt(r)'
    <3>1. SUFFICES ASSUME OpensIt(r) PROVE OpensIt(r)'
      OBVIOUS
    <3>2. r.what.at \in Nat /\ r.got.at \in 0 .. Len(runs) /\ r.got.at \in 0 .. Len(runs)'
      BY <2>1, <3>1 DEF OpensIt
    <3>3. Since(r.project, r.what.at, r.got.at)' = Since(r.project, r.what.at, r.got.at)
      BY <2>1, <3>2
    <3>. QED BY <3>1, <3>2, <3>3 DEF OpensIt
  <2>3. Evidenced(r) => Evidenced(r)'
    <3>1. SUFFICES ASSUME Evidenced(r) PROVE Evidenced(r)'
      OBVIOUS
    <3>2. /\ r.what.at \in Nat /\ r.got.from \in Nat
          /\ r.got.chunk.at \in 0 .. Len(runs) /\ r.got.chunk.at \in 0 .. Len(runs)'
      BY <2>1, <3>1 DEF Evidenced
    <3>3. \A from \in Nat :
            Since(r.project, from, r.got.chunk.at)' = Since(r.project, from, r.got.chunk.at)
      BY <2>1, <3>2
    <3>. QED BY <3>1, <3>2, <3>3 DEF Evidenced
  <2>. QED BY <2>2, <2>3
<1>. QED BY <1>1, <1>2, <1>3 DEF Changes

(* The files a resolution read are compared with the table of now.           *)
LEMMA KnownStillHeld ==
  ASSUME StoreOK, Changes, NEW r, KnownFiles(r)
  PROVE  KnownFiles(r)'
<1>1. CASE UNCHANGED store
  BY <1>1 DEF store, KnownFiles, Since, Ids
<1>2. ASSUME NEW e \in Runs, Replaces(e)
      PROVE  KnownFiles(r)'
  <2>1. /\ Len(runs) \in Nat /\ Len(runs)' = Len(runs) + 1
        /\ Since(r.project, r.got.from, Len(runs))' =
             Since(r.project, r.got.from, Len(runs)) \cup (IF e.project = r.project THEN {e} ELSE {})
    BY <1>2, RunAppended DEF StoreOK, Replaces, KnownFiles
  <2>2. {"known", "from"} \subseteq DOMAIN r.got /\ r.got.from \in 0 .. Len(runs)'
    BY <2>1 DEF KnownFiles
  <2>3. ASSUME NEW i \in DOMAIN r.got.known \cap Ids(files', r.project),
               \A d \in Since(r.project, r.got.from, Len(runs))' :
                 files'[i].path \notin d.removed \cup d.changed
        PROVE  r.got.known[i] = files'[i]
    <3>1. i \in DOMAIN files' /\ files'[i].project = r.project
      BY DEF Ids
    <3>2. e.project = r.project => files'[i].path \notin e.changed
      BY <2>1, <2>3
    <3>3. i \in DOMAIN files /\ files'[i] = files[i]
      BY <1>2, <3>1, <3>2 DEF Replaces, FilesKept
    <3>4. \A d \in Since(r.project, r.got.from, Len(runs)) :
            files[i].path \notin d.removed \cup d.changed
      BY <2>1, <2>3, <3>3
    <3>5. i \in DOMAIN r.got.known \cap Ids(files, r.project)
      BY <2>3, <3>1, <3>3 DEF Ids
    <3>6. r.got.known[i] = files[i]
      BY <3>4, <3>5 DEF KnownFiles
    <3>. QED BY <3>3, <3>6
  <2>. QED BY <2>2, <2>3 DEF KnownFiles
<1>. QED BY <1>1, <1>2 DEF Changes

(* All that a request holds is kept, whatever it crosses.                    *)
LEMMA RequestStillHeld ==
  ASSUME StoreOK, Changes, NEW r, RequestHeld(r), NEW q,
         q.kind = r.kind, q.pc = r.pc, q.project = r.project, q.what = r.what, q.got = r.got
  PROVE  RequestHeld(q)'
<1>1. /\ HeldFile(r.what) => HeldFile(r.what)'
      /\ HeldSymbol(r.what) => HeldSymbol(r.what)'
      /\ HeldFile(r.got.cited) => HeldFile(r.got.cited)'
  BY ItemStillHeld
<1>2. (OpensIt(r) => OpensIt(r)') /\ (Evidenced(r) => Evidenced(r)')
  BY AnswerStillHeld
<1>3. KnownFiles(r) => KnownFiles(r)'
  BY KnownStillHeld
<1>4. RequestHeld(r)'
  BY <1>1, <1>2, <1>3, Zenon DEF RequestHeld
<1>5. /\ OpensIt(q)' <=> OpensIt(r)'
      /\ Evidenced(q)' <=> Evidenced(r)'
      /\ KnownFiles(q)' <=> KnownFiles(r)'
  BY DEF OpensIt, Evidenced, KnownFiles
<1>. QED BY <1>4, <1>5, Zenon DEF RequestHeld

-----------------------------------------------------------------------------
(* Every step keeps the tables typed and changes them as above               *)

(* A step of anyone is an indexing run, or leaves the rows as they are.      *)
LEMMA StepChanges ==
  ASSUME StoreOK, [Next]_vars
  PROVE  StoreOK' /\ Changes
<1>1. ASSUME NEW p \in Edited, NEW x \in Paths, NEW v \in Versions \cup {Absent}, Edit(p, x, v)
      PROVE  StoreOK' /\ Changes
  <2>1. files' = files /\ symbols' = symbols /\ runs' = runs /\ tree' = [tree EXCEPT ![p][x] = v]
    BY <1>1 DEF Edit, store
  <2>2. p \in Projects /\ tree[p] \in Contents
    BY NavigationAssumption DEF StoreOK
  <2>3. [tree[p] EXCEPT ![x] = v] \in Contents
    BY <2>2 DEF Contents
  <2>4. tree' \in [Projects -> Contents]
    BY <2>1, <2>2, <2>3 DEF StoreOK
  <2>. QED BY <2>1, <2>4 DEF StoreOK, Changes, store
<1>2. ASSUME NEW p \in Projects, NEW full \in BOOLEAN, NEW mine \in BOOLEAN, Reindex(p, full, mine)
      PROVE  StoreOK' /\ Changes
  BY <1>2, RunReplaces DEF Changes
<1>3. CASE UNCHANGED <<repository, store>>
  BY <1>3 DEF repository, store, StoreOK, Changes
<1>4. ASSUME NEW p \in Projects, Refresh(p) \/ Choose(p)
      PROVE  UNCHANGED <<repository, store>>
  BY <1>4 DEF Refresh, Choose, LoadProject
<1>5. ASSUME NEW l \in loads, Load(l)
      PROVE  UNCHANGED <<repository, store>>
  BY <1>5 DEF Load, LoadLists, LoadEnds, LoadFails, LoadSettles
<1>6. ASSUME NEW item, OpenSource(item) \/ DocumentSymbol(item)
      PROVE  UNCHANGED <<repository, store>>
  BY <1>6 DEF OpenSource, DocumentSymbol, Issue
<1>7. ASSUME Ask \/ NewQuestion
      PROVE  UNCHANGED <<repository, store>>
  BY <1>7 DEF Ask, NewQuestion, Issue
<1>8. ASSUME NEW r \in requests, Serve(r)
      PROVE  UNCHANGED <<repository, store>>
  BY <1>8 DEF Serve, OpenRow, OpenBytes, ResolveFiles, ResolveSymbols, ResolveChunks, DocumentChecked,
       HydrateAnswer, HydrateDocumentation, HydrateFiles, Reply, RequestFails, Step, Arrive
<1>9. CASE UNCHANGED vars
  BY <1>3, <1>9 DEF vars
<1>. QED BY <1>1, <1>2, <1>3, <1>4, <1>5, <1>6, <1>7, <1>8, <1>9, Zenon DEF Next

(* What the server does with a request: it goes on, or is answered.          *)
LEMMA ServeSteps ==
  ASSUME NEW r \in requests, Serve(r)
  PROVE  \/ \E pc, got : Step(r, pc, got)
         \/ \E shown : DOMAIN shown = DOMAIN panel /\ Arrive(r, shown)
BY DEF Serve, OpenRow, OpenBytes, ResolveFiles, ResolveSymbols, ResolveChunks, DocumentChecked,
     HydrateAnswer, HydrateDocumentation, HydrateFiles, Reply, RequestFails

(* The tab keeps its form.                                                   *)
LEMMA StepKeepsTab ==
  ASSUME TabOK, [Next]_vars
  PROVE  TabOK'
<1>1. CASE UNCHANGED <<switching, workspace>>
  BY <1>1 DEF switching, workspace, TabOK
<1>2. ASSUME NEW p \in Edited, NEW x \in Paths, NEW v \in Versions \cup {Absent}, Edit(p, x, v)
      PROVE  TabOK'
  BY <1>1, <1>2 DEF Edit
<1>3. ASSUME NEW p \in Projects, NEW full \in BOOLEAN, NEW mine \in BOOLEAN, Reindex(p, full, mine)
      PROVE  TabOK'
  BY <1>3 DEF Reindex, TabOK, workspace
<1>4. ASSUME NEW p \in Projects, NEW chosen \in BOOLEAN, LoadProject(p, chosen),
             switchable' \in BOOLEAN, refreshes' \subseteq Projects
      PROVE  TabOK'
  <2>1. \A l \in loads' : /\ DOMAIN l = {"n", "project", "chosen", "lists"}
                          /\ l.project \in Projects /\ l.chosen \in BOOLEAN
    BY <1>4 DEF LoadProject, TabOK
  <2>2. \A r \in requests' :
          /\ DOMAIN r = {"n", "kind", "project", "what", "crossed", "pc", "got"}
          /\ r.kind \in Kinds /\ r.crossed \in BOOLEAN
    BY <1>4 DEF LoadProject, ResetWorkspace, TabOK
  <2>3. DOMAIN panel' = Kinds /\ busy' = {} /\ wanted' = p /\ raced' \in BOOLEAN
    BY <1>4 DEF LoadProject, ResetWorkspace, TabOK
  <2>. QED BY <1>4, <2>1, <2>2, <2>3 DEF TabOK
<1>5. ASSUME NEW p \in Projects, Refresh(p) \/ Choose(p)
      PROVE  TabOK'
  <2>1. CASE Refresh(p)
    <3>1. LoadProject(p, FALSE) /\ switchable' = switchable /\ refreshes' = refreshes \ {p}
      BY <2>1 DEF Refresh
    <3>. QED BY <1>4, <3>1 DEF TabOK
  <2>2. CASE Choose(p)
    <3>1. LoadProject(p, TRUE) /\ switchable' = FALSE /\ refreshes' = refreshes
      BY <2>2 DEF Choose
    <3>. QED BY <1>4, <3>1 DEF TabOK
  <2>. QED BY <1>5, <2>1, <2>2
<1>6. ASSUME NEW l \in loads, LoadLists(l)
      PROVE  TabOK'
  BY <1>6 DEF LoadLists, TabOK, workspace
<1>7. ASSUME NEW l \in loads, LoadEnds(l) \/ LoadFails(l)
      PROVE  TabOK'
  BY <1>7 DEF LoadEnds, LoadFails, LoadSettles, TabOK
<1>8. ASSUME NEW kind \in Kinds, NEW what, Issue(kind, what), busy' \subseteq {"ask", "document"}
      PROVE  TabOK'
  <2>1. \A r \in requests' :
          /\ DOMAIN r = {"n", "kind", "project", "what", "crossed", "pc", "got"}
          /\ r.kind \in Kinds /\ r.crossed \in BOOLEAN
    <3>1. (loads # {}) \in BOOLEAN
      OBVIOUS
    <3>2. PICK c \in BOOLEAN :
            requests' = requests \cup
              {[n |-> calls, kind |-> kind, project |-> view.project, what |-> what,
                crossed |-> c, pc |-> "start", got |-> Nothing]}
      BY <1>8, <3>1, Zenon DEF Issue
    <3>. QED BY <3>2 DEF TabOK
  <2>2. panel' = [panel EXCEPT ![kind] = Nothing] /\ UNCHANGED switching
    BY <1>8, Zenon DEF Issue
  <2>3. DOMAIN panel' = Kinds
    BY <2>2 DEF TabOK
  <2>. QED BY <1>8, <2>1, <2>2, <2>3 DEF TabOK, switching
<1>9. ASSUME NEW item, OpenSource(item) \/ DocumentSymbol(item)
      PROVE  TabOK'
  BY <1>8, <1>9 DEF OpenSource, DocumentSymbol, TabOK, Kinds
<1>10. CASE Ask
  BY <1>8, <1>10 DEF Ask, TabOK, Kinds
<1>11. CASE NewQuestion
  BY <1>11 DEF NewQuestion, TabOK, switching
<1>12. ASSUME NEW r \in requests, NEW pc, NEW got, Step(r, pc, got)
       PROVE  TabOK'
  BY <1>12 DEF Step, TabOK, switching
<1>13. ASSUME NEW r \in requests, NEW shown, DOMAIN shown = DOMAIN panel, Arrive(r, shown)
       PROVE  TabOK'
  BY <1>13 DEF Arrive, TabOK, switching
<1>14. ASSUME NEW r \in requests, Serve(r)
       PROVE  TabOK'
  BY <1>12, <1>13, <1>14, ServeSteps, Zenon
<1>15. ASSUME NEW l \in loads, Load(l)
       PROVE  TabOK'
  BY <1>6, <1>7, <1>15, Zenon DEF Load
<1>16. CASE UNCHANGED vars
  BY <1>1, <1>16 DEF vars
<1>. QED BY <1>2, <1>3, <1>5, <1>9, <1>10, <1>11, <1>14, <1>15, <1>16, Zenon DEF Next

(* Initially and after every step the rows point at each other.              *)
LEMMA Typed == Spec => [](StoreOK /\ TabOK)
<1>1. Init => StoreOK /\ TabOK
  <2>1. SUFFICES ASSUME Init PROVE StoreOK /\ TabOK
    OBVIOUS
  <2>2. FileTable(files) /\ SymbolTable(symbols, files) /\ refreshes \subseteq Projects
    BY <2>1, FirstTables
  <2>3. tree \in [Projects -> Contents] /\ runs = << >>
    BY <2>1, NavigationAssumption DEF Init
  <2>4. StoreOK
    BY <2>2, <2>3 DEF StoreOK
  <2>5. /\ loads = {} /\ switchable = FALSE /\ wanted = Nothing /\ raced = FALSE
        /\ panel = [k \in Kinds |-> Nothing] /\ busy = {} /\ requests = {}
    BY <2>1 DEF Init
  <2>6. TabOK
    BY <2>2, <2>5 DEF TabOK
  <2>. QED BY <2>4, <2>6
<1>2. StoreOK /\ TabOK /\ [Next]_vars => (StoreOK /\ TabOK)'
  BY StepChanges, StepKeepsTab
<1>. QED BY <1>1, <1>2, PTL DEF Spec

(* Rows point at each other, however runs and requests interleave: a symbol  *)
(* belongs to a file that is there and was parsed from the content that the  *)
(* file is recorded with, and no project has two rows of a path.             *)
THEOREM TypeCorrect == Spec => []TypeOK
<1>1. StoreOK /\ TabOK => TypeOK
  BY DEF StoreOK, TabOK, TypeOK, FileTable, SymbolTable
<1>. QED BY <1>1, Typed, PTL

-----------------------------------------------------------------------------
(* What is on display belongs together                                       *)

(* No step shows one project's rows with another's answers.                 *)
LEMMA StepKeepsTogether ==
  ASSUME TabOK, Together, [Next]_vars
  PROVE  Together'
<1>1. CASE UNCHANGED <<view, loads, switchable, wanted, raced, panel, requests>>
  BY <1>1 DEF Together
<1>2. ASSUME NEW p \in Edited, NEW x \in Paths, NEW v \in Versions \cup {Absent}, Edit(p, x, v)
      PROVE  Together'
  BY <1>1, <1>2 DEF Edit, switching, workspace
<1>3. ASSUME NEW p \in Projects, NEW full \in BOOLEAN, NEW mine \in BOOLEAN, Reindex(p, full, mine)
      PROVE  Together'
  BY <1>1, <1>3 DEF Reindex, workspace
<1>4. ASSUME NEW p \in Projects, NEW chosen \in BOOLEAN, LoadProject(p, chosen),
             chosen => switchable /\ ~switchable', ~chosen => switchable' = switchable
      PROVE  Together'
  <2>1. PICK l : /\ l.project = p /\ l.chosen = chosen /\ l.lists = Nothing
                 /\ loads' = loads \cup {l}
    BY <1>4 DEF LoadProject
  <2>2. /\ view' = view /\ wanted' = p /\ panel' = [k \in Kinds |-> Nothing]
        /\ requests' = {[r EXCEPT !.crossed = TRUE] : r \in requests}
        /\ raced' = (loads # {} /\ (raced \/ ~chosen \/ \E k \in loads : ~k.chosen))
    BY <1>4, Zenon DEF LoadProject, ResetWorkspace
  <2>3. \A r \in requests' : r.crossed
    BY <2>2 DEF TabOK
  <2>4. \A k \in Kinds : panel'[k] = Nothing
    BY <2>2
  <2>5. ASSUME ~raced'
        PROVE  loads = {}
    <3>1. SUFFICES ASSUME loads # {} PROVE FALSE
      OBVIOUS
    <3>2. ~raced /\ chosen /\ \A k \in loads : k.chosen
      BY <2>2, <2>5, <3>1 DEF TabOK
    <3>. QED BY <1>4, <3>1, <3>2 DEF Together
  <2>6. ~raced' => \A k \in loads' : loads' = {k} /\ k.project = wanted' /\ (k.chosen => ~switchable')
    BY <1>4, <2>1, <2>2, <2>5
  <2>7. \A k \in loads' : k.lists # Nothing => k.lists.project = k.project
    BY <2>1 DEF Together
  <2>. QED BY <2>1, <2>3, <2>4, <2>6, <2>7 DEF Together
<1>5. ASSUME NEW p \in Projects, Refresh(p)
      PROVE  Together'
  BY <1>4, <1>5 DEF Refresh
<1>6. ASSUME NEW p \in Projects, Choose(p)
      PROVE  Together'
  BY <1>4, <1>6 DEF Choose
<1>7. ASSUME NEW l \in loads, LoadLists(l)
      PROVE  Together'
  <2>1. PICK m : /\ m.project = l.project /\ m.chosen = l.chosen
                 /\ m.lists.project = l.project
                 /\ loads' = (loads \ {l}) \cup {m}
    BY <1>7 DEF LoadLists, TabOK
  <2>2. UNCHANGED <<view, switchable, wanted, raced, panel, requests>>
    BY <1>7 DEF LoadLists, workspace
  <2>. QED BY <2>1, <2>2 DEF Together
<1>8. ASSUME NEW l \in loads, NEW shown, LoadSettles(l, shown),
             shown = Nothing \/ (l.lists # Nothing /\ shown = l.lists)
      PROVE  Together'
  <2>1. /\ view' = shown /\ loads' = loads \ {l} /\ switchable' = TRUE
        /\ UNCHANGED <<wanted, raced, panel, requests>>
    BY <1>8 DEF LoadSettles
  <2>2. (\A r \in requests : r.crossed) /\ \A k \in Kinds : panel[k] = Nothing \/ panel[k].crossed
    BY DEF Together
  <2>3. shown = Nothing \/ shown.project = l.project
    BY <1>8 DEF Together
  <2>4. ~raced => loads' = {} /\ l.project = wanted
    BY <2>1 DEF Together
  <2>. QED BY <2>1, <2>2, <2>3, <2>4 DEF Together
<1>9. ASSUME NEW l \in loads, Load(l)
      PROVE  Together'
  BY <1>7, <1>8, <1>9 DEF Load, LoadEnds, LoadFails
<1>10. ASSUME NEW kind \in Kinds, NEW what, Issue(kind, what)
       PROVE  Together'
  <2>1. PICK r : /\ r.project = view.project /\ r.crossed = (loads # {})
                 /\ requests' = requests \cup {r}
    BY <1>10 DEF Issue
  <2>2. /\ view # Nothing /\ panel' = [panel EXCEPT ![kind] = Nothing]
        /\ UNCHANGED <<view, loads, switchable, wanted, raced>>
    BY <1>10 DEF Issue, switching
  <2>3. \A k \in Kinds : panel'[k] = panel[k] \/ panel'[k] = Nothing
    BY <2>2 DEF TabOK
  <2>. QED BY <2>1, <2>2, <2>3 DEF Together
<1>11. ASSUME NEW item, OpenSource(item) \/ DocumentSymbol(item)
       PROVE  Together'
  BY <1>10, <1>11 DEF OpenSource, DocumentSymbol, Kinds
<1>12. CASE Ask
  BY <1>10, <1>12 DEF Ask, Kinds
<1>13. CASE NewQuestion
  <2>1. /\ panel' = [panel EXCEPT !["ask"] = Nothing] /\ requests' = requests
        /\ UNCHANGED <<view, loads, switchable, wanted, raced>>
    BY <1>13 DEF NewQuestion, switching
  <2>2. \A k \in Kinds : panel'[k] = panel[k] \/ panel'[k] = Nothing
    BY <2>1 DEF TabOK
  <2>. QED BY <2>1, <2>2 DEF Together
<1>14. ASSUME NEW r \in requests, NEW pc, NEW got, Step(r, pc, got)
       PROVE  Together'
  <2>1. PICK q : /\ q.project = r.project /\ q.crossed = r.crossed
                 /\ requests' = (requests \ {r}) \cup {q}
    BY <1>14 DEF Step, TabOK
  <2>2. UNCHANGED <<view, loads, switchable, wanted, raced, panel>>
    BY <1>14 DEF Step, switching
  <2>. QED BY <2>1, <2>2 DEF Together
<1>15. ASSUME NEW r \in requests, NEW shown, Arrive(r, shown),
              \A k \in Kinds : \/ shown[k] = panel[k] \/ shown[k] = Nothing
                               \/ shown[k].project = r.project /\ shown[k].crossed = r.crossed
       PROVE  Together'
  <2>1. /\ requests' = requests \ {r} /\ panel' = shown
        /\ UNCHANGED <<view, loads, switchable, wanted, raced>>
    BY <1>15 DEF Arrive, switching
  <2>. QED BY <1>15, <2>1 DEF Together
<1>16. ASSUME NEW r \in requests, Reply(r) \/ RequestFails(r)
       PROVE  Together'
  <2>1. CASE Reply(r)
    <3> DEFINE e == [project |-> r.project, what |-> r.what, crossed |-> r.crossed, got |-> r.got]
               shown == [panel EXCEPT ![r.kind] = e]
    <3>1. Arrive(r, shown)
      BY <2>1, Zenon DEF Reply
    <3>2. \A k \in Kinds : shown[k] = panel[k] \/ shown[k] = e
      BY DEF TabOK
    <3>3. e.project = r.project /\ e.crossed = r.crossed
      OBVIOUS
    <3>. HIDE DEF e, shown
    <3>. QED BY <1>15, <3>1, <3>2, <3>3
  <2>2. CASE RequestFails(r)
    <3> DEFINE shown == IF r.kind = "open" THEN panel ELSE [panel EXCEPT ![r.kind] = Nothing]
    <3>1. Arrive(r, shown)
      BY <2>2, Zenon DEF RequestFails
    <3>2. \A k \in Kinds : shown[k] = panel[k] \/ shown[k] = Nothing
      BY DEF TabOK
    <3>. HIDE DEF shown
    <3>. QED BY <1>15, <3>1, <3>2
  <2>. QED BY <1>16, <2>1, <2>2
<1>17. ASSUME NEW r \in requests, Serve(r)
       PROVE  Together'
  BY <1>14, <1>16, <1>17 DEF Serve, OpenRow, OpenBytes, ResolveFiles, ResolveSymbols, ResolveChunks,
     DocumentChecked, HydrateAnswer, HydrateDocumentation, HydrateFiles
<1>18. CASE UNCHANGED vars
  BY <1>1, <1>18 DEF vars, switching, workspace
<1>. QED BY <1>2, <1>3, <1>5, <1>6, <1>9, <1>11, <1>12, <1>13, <1>17, <1>18, Zenon DEF Next

(* A source, an answer or documentation on display is of the project shown,  *)
(* unless its request crossed a load; and once no load is in flight that is  *)
(* the project loaded last, unless the load of a completed job met another.  *)
THEOREM TogetherAlways == Spec => []ShownBelongsTogether
<1>1. Init => Together
  <2>1. SUFFICES ASSUME Init PROVE Together
    OBVIOUS
  <2>2. /\ view = Nothing /\ loads = {} /\ requests = {}
        /\ panel = [k \in Kinds |-> Nothing]
    BY <2>1 DEF Init
  <2>. QED BY <2>2 DEF Together
<1>2. TabOK /\ Together /\ [Next]_vars => Together'
  BY StepKeepsTogether
<1>3. Together => ShownBelongsTogether
  BY DEF Together, ShownBelongsTogether
<1>. QED BY <1>1, <1>2, <1>3, Typed, PTL DEF Spec

-----------------------------------------------------------------------------
(* What is held is true when it is taken                                     *)

(* An item that is listed or cited now says what the tables say.             *)
LEMMA FreshItems ==
  ASSUME StoreOK
  PROVE  /\ \A i \in DOMAIN files : \A item : item = FileItem(i) => HeldFile(item)
         /\ \A s \in DOMAIN symbols : \A item : item = SymbolItem(s) => HeldSymbol(item)
<1>1. Len(runs) \in Nat
  BY DEF StoreOK
<1>2. \A p : Since(p, Len(runs), Len(runs)) = {}
  BY <1>1 DEF Since
<1>3. ASSUME NEW i \in DOMAIN files, NEW item, item = FileItem(i)
      PROVE  HeldFile(item)
  BY <1>1, <1>3 DEF FileItem, HeldFile, Ids
<1>4. ASSUME NEW s \in DOMAIN symbols, NEW item, item = SymbolItem(s)
      PROVE  HeldSymbol(item)
  <2>1. /\ item.symbol = s /\ item.file = symbols[s].file /\ item.name = symbols[s].name
        /\ item.owner = files[item.file].project /\ item.path = files[item.file].path
        /\ item.ver = symbols[s].ver /\ item.at = Len(runs)
    BY <1>4 DEF SymbolItem
  <2>2. /\ symbols[s] = [file |-> item.file, name |-> item.name, ver |-> item.ver]
        /\ item.file \in DOMAIN files /\ item.ver = files[item.file].ver
    BY <2>1 DEF StoreOK, SymbolTable
  <2>3. HeldFile(item)
    BY <1>1, <2>1, <2>2 DEF HeldFile, Ids
  <2>. QED BY <2>1, <2>2, <2>3 DEF HeldSymbol
<1>. QED BY <1>3, <1>4

(* Everything that can be clicked is held.                                   *)
LEMMA ItemsHeld ==
  ASSUME Held, view # Nothing
  PROVE  /\ \A item \in Items : HeldFile(item)
         /\ \A item \in view.symbols \cup ({identifier} \ {Nothing}) : HeldSymbol(item)
<1>1. ListsHeld(view)
  BY DEF Held, ViewHeld
<1>2. \A item \in view.symbols : HeldSymbol(item) /\ HeldFile(item)
  BY <1>1 DEF ListsHeld, HeldSymbol
<1>3. \A item \in view.files : HeldFile(item)
  BY <1>1 DEF ListsHeld
<1>4. \A item \in Cited : HeldFile(item)
  <2>1. SUFFICES ASSUME NEW k \in {"ask", "document"}, NEW e, e = panel[k], e # Nothing
                 PROVE  HeldFile(e.got.cited)
    BY DEF Cited
  <2>2. AnswerHeld(k, e)
    BY <2>1 DEF Held, PanelsHeld, Kinds
  <2>. QED BY <2>2 DEF AnswerHeld
<1>5. \A item \in {identifier} \ {Nothing} : HeldSymbol(item)
  BY DEF Held, FieldHeld
<1>. QED BY <1>2, <1>3, <1>4, <1>5 DEF Items

(* source_content finds the file that was clicked in the row with its id, as *)
(* far as the runs since then kept it.                                      *)
LEMMA OpenRowHeld ==
  ASSUME StoreOK, NEW r, RequestHeld(r), r.kind = "open",
         r.what.file \in Ids(files, r.project),
         NEW q, q.kind = r.kind, q.project = r.project, q.what = r.what,
         q.pc = "bytes", q.got = FileItem(r.what.file)
  PROVE  RequestHeld(q)
<1>1. HeldFile(r.what)
  BY DEF RequestHeld
<1>2. r.what.at \in 0 .. Len(runs) /\ Len(runs) \in Nat
  BY <1>1 DEF HeldFile, StoreOK
<1>3. /\ q.got.path = files[r.what.file].path /\ q.got.ver = files[r.what.file].ver
      /\ q.got.at = Len(runs)
  BY DEF FileItem
<1>4. /\ Kept(r.what) => q.got.path = r.what.path
      /\ Untouched(r.what) => q.got.ver = r.what.ver
  BY <1>1, <1>3 DEF HeldFile
<1>5. OpensIt(q)
  BY <1>2, <1>3, <1>4 DEF OpensIt, Kept, Untouched
<1>. QED BY <1>1, <1>5 DEF RequestHeld

(* The resolution of a symbol finds evidence: the code it ends with defines  *)
(* the name it found first, the hash is that of the code unless a run        *)
(* touched the file in between, and it is the function that was chosen       *)
(* unless one did since it was listed.                                      *)
LEMMA EvidenceHeld ==
  ASSUME StoreOK, NEW r, RequestHeld(r), r.kind = "document", r.pc = "symbols",
         NEW s \in Resolved(r), r.got.names[s] = symbols[s].name,
         NEW q, q.kind = r.kind, q.project = r.project, q.what = r.what,
         q.pc = "hydrate", q.got = Evidence(r, s)
  PROVE  RequestHeld(q)
<1> DEFINE f == symbols[s].file
           c == q.got.chunk
<1>1. HeldSymbol(r.what) /\ HeldFile(r.what) /\ KnownFiles(r)
  BY DEF RequestHeld, HeldSymbol
<1>2. /\ s \in DOMAIN symbols /\ s = r.what.symbol
      /\ f \in DOMAIN r.got.known \cap Ids(files, r.project)
  BY DEF Resolved
<1>3. /\ c.path = files[f].path /\ c.name = symbols[s].name /\ c.ver = symbols[s].ver
      /\ c.at = Len(runs)
      /\ q.got.name = symbols[s].name /\ q.got.hash = r.got.known[f].ver
      /\ q.got.from = r.got.from
  BY DEF Evidence, SymbolItem
<1>4. r.what.at \in 0 .. Len(runs) /\ r.got.from \in 0 .. Len(runs) /\ Len(runs) \in Nat
  BY <1>1 DEF HeldFile, KnownFiles, StoreOK
<1>5. symbols[s].ver = files[f].ver
  BY <1>2 DEF StoreOK, SymbolTable
<1>. HIDE DEF f, c
<1>6. (\A e \in Since(r.project, r.got.from, Len(runs)) : c.path \notin e.removed \cup e.changed)
      => q.got.hash = c.ver
  <2>1. SUFFICES ASSUME \A e \in Since(r.project, r.got.from, Len(runs)) :
                          c.path \notin e.removed \cup e.changed
                 PROVE  q.got.hash = c.ver
    OBVIOUS
  <2>2. r.got.known[f] = files[f]
    BY <1>1, <1>2, <1>3, <2>1 DEF KnownFiles
  <2>. QED BY <1>3, <1>5, <2>2 DEF f
<1>7. r.what.owner = r.project /\ Untouched(r.what) =>
        <<c.path, c.name, c.ver>> = <<r.what.path, r.what.name, r.what.ver>>
  <2>1. SUFFICES ASSUME r.what.owner = r.project, Untouched(r.what)
                 PROVE  <<c.path, c.name, c.ver>> = <<r.what.path, r.what.name, r.what.ver>>
    OBVIOUS
  <2>2. symbols[s] = [file |-> r.what.file, name |-> r.what.name, ver |-> r.what.ver]
    BY <1>1, <1>2, <2>1 DEF HeldSymbol
  <2>3. Kept(r.what)
    BY <2>1 DEF Untouched, Kept
  <2>4. files[r.what.file].path = r.what.path
    BY <1>1, <2>3 DEF HeldFile
  <2>5. c.path = r.what.path /\ c.name = r.what.name /\ c.ver = r.what.ver
    BY <1>3, <2>2, <2>4 DEF f
  <2>. QED BY <2>5
<1>8. Evidenced(q)
  BY <1>3, <1>4, <1>6, <1>7 DEF Evidenced, Untouched, c
<1>. QED BY <1>1, <1>8 DEF RequestHeld

(* Every query of the server leaves a request that is held.                  *)
LEMMA QueryHeld ==
  ASSUME StoreOK, TabOK, RequestsHeld, NEW r \in requests, Serve(r), ~Reply(r), ~RequestFails(r)
  PROVE  \E q : /\ requests' = (requests \ {r}) \cup {q}
                /\ RequestHeld(q)
                /\ UNCHANGED <<identifier, panel, switching>>
<1> DEFINE Q(pc, got) == [r EXCEPT !.pc = pc, !.got = got]
<1>1. RequestHeld(r) /\ DOMAIN r = {"n", "kind", "project", "what", "crossed", "pc", "got"}
  BY DEF RequestsHeld, TabOK
<1>2. \A pc, got : /\ Q(pc, got).kind = r.kind /\ Q(pc, got).project = r.project
                   /\ Q(pc, got).what = r.what /\ Q(pc, got).pc = pc /\ Q(pc, got).got = got
  BY <1>1
<1>3. ASSUME NEW pc, NEW got, Step(r, pc, got),
             \A q : /\ q.kind = r.kind /\ q.project = r.project /\ q.what = r.what
                    /\ q.pc = pc /\ q.got = got
                    => RequestHeld(q)
      PROVE  \E q : /\ requests' = (requests \ {r}) \cup {q}
                    /\ RequestHeld(q)
                    /\ UNCHANGED <<identifier, panel, switching>>
  <2>1. requests' = (requests \ {r}) \cup {Q(pc, got)} /\ UNCHANGED <<identifier, panel, switching>>
    BY <1>3, Zenon DEF Step
  <2>2. RequestHeld(Q(pc, got))
    <3>. HIDE DEF Q
    <3>. QED BY <1>2, <1>3
  <2>. QED BY <2>1, <2>2, Zenon
<1>. HIDE DEF Q
<1>4. CASE OpenRow(r)
  BY <1>1, <1>3, <1>4, OpenRowHeld, Zenon DEF OpenRow
<1>5. CASE OpenBytes(r)
  BY <1>1, <1>3, <1>5 DEF OpenBytes, RequestHeld, OpensIt
<1>6. CASE ResolveFiles(r)
  <2> DEFINE known == [i \in Ids(files, r.project) |-> files[i]]
             got == [known |-> known, todo |-> DOMAIN known, names |-> << >>, from |-> Len(runs)]
  <2>1. Step(r, "symbols", got) /\ r.kind = "document" /\ r.pc = "start"
    BY <1>6, Zenon DEF ResolveFiles
  <2>2. /\ {"known", "from"} \subseteq DOMAIN got /\ got.known = known /\ got.from = Len(runs)
        /\ \A i \in DOMAIN known : known[i] = files[i]
    OBVIOUS
  <2>3. Len(runs) \in Nat
    BY DEF StoreOK
  <2>. HIDE DEF known, got
  <2>. QED BY <1>1, <1>3, <2>1, <2>2, <2>3 DEF RequestHeld, KnownFiles
<1>7. CASE ResolveSymbols(r)
  <2>1. PICK todo, names : /\ Step(r, "symbols", [r.got EXCEPT !.todo = todo, !.names = names])
                           /\ r.kind = "document" /\ r.pc = "symbols"
    BY <1>7, Zenon DEF ResolveSymbols
  <2> DEFINE got == [r.got EXCEPT !.todo = todo, !.names = names]
  <2>2. KnownFiles(r)
    BY <1>1, <2>1 DEF RequestHeld
  <2>3. /\ {"known", "from"} \subseteq DOMAIN got
        /\ got.known = r.got.known /\ got.from = r.got.from
    BY <2>2 DEF KnownFiles
  <2>. HIDE DEF got
  <2>4. \A q : q.project = r.project /\ q.got = got => KnownFiles(q)
    BY <2>2, <2>3 DEF KnownFiles
  <2>5. Step(r, "symbols", got)
    BY <2>1 DEF got
  <2>. QED BY <1>1, <1>3, <2>1, <2>4, <2>5 DEF RequestHeld
<1>8. CASE ResolveChunks(r)
  <2>1. PICK s \in Resolved(r) : DocumentChecked(r, s) /\ r.kind = "document" /\ r.pc = "symbols"
    BY <1>8, Zenon DEF ResolveChunks
  <2>2. r.got.names[s] = symbols[s].name /\ Step(r, "hydrate", Evidence(r, s))
    BY <2>1, Zenon DEF DocumentChecked
  <2>3. \A q : /\ q.kind = r.kind /\ q.project = r.project /\ q.what = r.what
               /\ q.pc = "hydrate" /\ q.got = Evidence(r, s)
               => RequestHeld(q)
    BY <1>1, <2>1, <2>2, EvidenceHeld
  <2>. QED BY <1>3, <2>2, <2>3
<1>9. CASE HydrateAnswer(r)
  <2>1. PICK item : /\ \E s \in DOMAIN symbols : item = SymbolItem(s)
                   /\ Step(r, "files", [cited |-> item])
                   /\ r.kind = "ask"
    BY <1>9, Zenon DEF HydrateAnswer
  <2>2. HeldFile(item)
    BY <2>1, FreshItems DEF HeldSymbol
  <2>. QED BY <1>3, <2>1, <2>2 DEF RequestHeld
<1>10. CASE HydrateDocumentation(r)
  <2>1. PICK item :
          /\ \E s \in DOMAIN symbols : item = SymbolItem(s)
          /\ Step(r, "files", [name |-> r.got.name, chunk |-> r.got.chunk, hash |-> r.got.hash,
                               from |-> r.got.from, cited |-> item])
          /\ r.kind = "document" /\ r.pc = "hydrate"
    BY <1>10, Zenon DEF HydrateDocumentation
  <2>2. HeldFile(item)
    BY <2>1, FreshItems DEF HeldSymbol
  <2>3. Evidenced(r) /\ HeldSymbol(r.what)
    BY <1>1, <2>1 DEF RequestHeld
  <2>. QED BY <1>3, <2>1, <2>2, <2>3 DEF RequestHeld, Evidenced
<1>11. CASE HydrateFiles(r)
  <2>1. Step(r, "reply", r.got) /\ r.pc = "files"
    BY <1>11, Zenon DEF HydrateFiles
  <2>2. /\ r.kind = "ask" => HeldFile(r.got.cited)
        /\ r.kind # "open"
        /\ r.kind = "document" => HeldFile(r.got.cited) /\ HeldSymbol(r.what) /\ Evidenced(r)
    BY <1>1, <2>1 DEF RequestHeld
  <2>. QED BY <1>3, <2>1, <2>2 DEF RequestHeld, Evidenced
<1>. QED BY <1>4, <1>5, <1>6, <1>7, <1>8, <1>9, <1>10, <1>11, Zenon DEF Serve

-----------------------------------------------------------------------------
(* What is held stays true                                                   *)

(* Whatever the tables do, what the tab and the requests held before is      *)
(* still held.                                                              *)
LEMMA StillHeld ==
  ASSUME StoreOK, Changes, Held
  PROVE  /\ UNCHANGED view => ViewHeld'
         /\ UNCHANGED identifier => FieldHeld'
         /\ loads' \subseteq loads => LoadsHeld'
         /\ (\A q \in requests' : \E r \in requests :
               /\ q.kind = r.kind /\ q.pc = r.pc /\ q.project = r.project
               /\ q.what = r.what /\ q.got = r.got)
            => RequestsHeld'
         /\ (\A k \in Kinds : panel'[k] = panel[k] \/ panel'[k] = Nothing) => PanelsHeld'
<1>1. \A x : (HeldSymbol(x) => HeldSymbol(x)') /\ (HeldFile(x) => HeldFile(x)')
  BY ItemStillHeld
<1>2. \A x : /\ ListsHeld(x) => ListsHeld(x)'
             /\ OpensIt(x) => OpensIt(x)'
             /\ Evidenced(x) => Evidenced(x)'
  BY AnswerStillHeld
<1>3. UNCHANGED view => ViewHeld'
  BY <1>2 DEF Held, ViewHeld
<1>4. UNCHANGED identifier => FieldHeld'
  BY <1>1 DEF Held, FieldHeld
<1>5. loads' \subseteq loads => LoadsHeld'
  BY <1>2 DEF Held, LoadsHeld
<1>6. (\A q \in requests' : \E r \in requests :
         /\ q.kind = r.kind /\ q.pc = r.pc /\ q.project = r.project
         /\ q.what = r.what /\ q.got = r.got)
      => RequestsHeld'
  BY RequestStillHeld DEF Held, RequestsHeld
<1>7. (\A k \in Kinds : panel'[k] = panel[k] \/ panel'[k] = Nothing) => PanelsHeld'
  BY <1>1, <1>2 DEF Held, PanelsHeld, AnswerHeld
<1>. QED BY <1>3, <1>4, <1>5, <1>6, <1>7

(* New requests start from what was held.                                    *)
LEMMA IssueHeld ==
  ASSUME StoreOK, TabOK, Changes, Held, NEW kind \in Kinds, NEW what, Issue(kind, what),
         UNCHANGED identifier,
         kind = "open" => HeldFile(what), kind = "document" => HeldSymbol(what)
  PROVE  Held'
<1>1. PICK q : /\ q.kind = kind /\ q.what = what /\ q.pc = "start"
               /\ requests' = requests \cup {q}
  <2> DEFINE new(c) == [n |-> calls, kind |-> kind, project |-> view.project, what |-> what,
                        crossed |-> c, pc |-> "start", got |-> Nothing]
  <2>1. PICK c : requests' = requests \cup {new(c)}
    BY Zenon DEF Issue
  <2>2. new(c).kind = kind /\ new(c).what = what /\ new(c).pc = "start"
    OBVIOUS
  <2>. HIDE DEF new
  <2>. QED BY <2>1, <2>2
<1>2. RequestHeld(q)
  BY <1>1 DEF RequestHeld, Kinds
<1>3. \A r \in requests' : RequestHeld(r)
  BY <1>1, <1>2 DEF Held, RequestsHeld
<1>4. RequestsHeld'
  BY <1>3, RequestStillHeld DEF RequestsHeld
<1>5. panel' = [panel EXCEPT ![kind] = Nothing] /\ UNCHANGED <<view, loads>>
  BY DEF Issue, switching
<1>6. \A k \in Kinds : panel'[k] = panel[k] \/ panel'[k] = Nothing
  BY <1>5 DEF TabOK
<1>. QED BY <1>4, <1>5, <1>6, StillHeld DEF Held

(* Whatever the step, what is held afterwards is as true as its runs allow.  *)
LEMMA StepKeepsHeld ==
  ASSUME StoreOK, TabOK, Held, [Next]_vars
  PROVE  Held'
<1>0. Changes
  BY StepChanges
<1>1. CASE UNCHANGED <<view, loads, identifier, panel, requests>>
  BY <1>0, <1>1, StillHeld DEF Held
<1>2. ASSUME NEW p \in Edited, NEW x \in Paths, NEW v \in Versions \cup {Absent}, Edit(p, x, v)
      PROVE  Held'
  BY <1>1, <1>2 DEF Edit, switching, workspace
<1>3. ASSUME NEW p \in Projects, NEW full \in BOOLEAN, NEW mine \in BOOLEAN, Reindex(p, full, mine)
      PROVE  Held'
  BY <1>1, <1>3 DEF Reindex, workspace
<1>4. ASSUME NEW p \in Projects, NEW chosen \in BOOLEAN, LoadProject(p, chosen)
      PROVE  Held'
  <2>1. /\ UNCHANGED <<view, identifier>> /\ panel' = [k \in Kinds |-> Nothing]
        /\ requests' = {[r EXCEPT !.crossed = TRUE] : r \in requests}
    BY <1>4 DEF LoadProject, ResetWorkspace
  <2>2. \A q \in requests' : \E r \in requests :
          /\ q.kind = r.kind /\ q.pc = r.pc /\ q.project = r.project
          /\ q.what = r.what /\ q.got = r.got
    BY <2>1 DEF TabOK
  <2>3. LoadsHeld'
    <3>1. \A l \in loads' : l \in loads \/ l.lists = Nothing
      BY <1>4 DEF LoadProject
    <3>2. \A x : ListsHeld(x) => ListsHeld(x)'
      BY <1>0, AnswerStillHeld
    <3>. QED BY <3>1, <3>2 DEF Held, LoadsHeld
  <2>4. \A k \in Kinds : panel'[k] = Nothing
    BY <2>1
  <2>. QED BY <1>0, <2>1, <2>2, <2>3, <2>4, StillHeld DEF Held
<1>5. ASSUME NEW p \in Projects, Refresh(p) \/ Choose(p)
      PROVE  Held'
  BY <1>4, <1>5 DEF Refresh, Choose
<1>6. ASSUME NEW l \in loads, LoadLists(l)
      PROVE  Held'
  <2> DEFINE ids == Ids(files, l.project)
             lists == [project |-> l.project, files |-> {FileItem(i) : i \in ids},
                       symbols |-> {SymbolItem(s) : s \in {s \in DOMAIN symbols :
                                                            symbols[s].file \in ids}}]
             m == [l EXCEPT !.lists = lists]
  <2>1. /\ loads' = (loads \ {l}) \cup {m}
        /\ UNCHANGED <<view, identifier, panel, requests>>
    BY <1>6, Zenon DEF LoadLists, workspace
  <2>2. m.lists = lists
    BY DEF TabOK
  <2>3. ListsHeld(lists)
    <3>1. /\ lists.files = {FileItem(i) : i \in ids}
          /\ lists.symbols = {SymbolItem(s) : s \in {s \in DOMAIN symbols : symbols[s].file \in ids}}
          /\ ids \subseteq DOMAIN files
      BY DEF Ids
    <3>. HIDE DEF lists, ids
    <3>. QED BY <3>1, FreshItems DEF ListsHeld
  <2>. HIDE DEF m, lists
  <2>4. LoadsHeld'
    <3>1. \A x : ListsHeld(x) => ListsHeld(x)'
      BY <1>0, AnswerStillHeld
    <3>2. \A k \in loads' : k.lists # Nothing => ListsHeld(k.lists)
      BY <2>1, <2>2, <2>3 DEF Held, LoadsHeld
    <3>. QED BY <3>1, <3>2 DEF LoadsHeld
  <2>. QED BY <1>0, <2>1, <2>4, StillHeld DEF Held
<1>7. ASSUME NEW l \in loads, NEW shown, LoadSettles(l, shown),
             shown = Nothing \/ (l.lists # Nothing /\ shown = l.lists)
      PROVE  Held'
  <2>1. /\ view' = shown /\ loads' = loads \ {l}
        /\ identifier' \in {Nothing, identifier} \cup (IF view = Nothing THEN {} ELSE view.symbols)
        /\ UNCHANGED <<panel, requests>>
    BY <1>7 DEF LoadSettles
  <2>2. ViewHeld'
    <3>1. shown = Nothing \/ ListsHeld(shown)
      BY <1>7 DEF Held, LoadsHeld
    <3>2. shown = Nothing \/ ListsHeld(shown)'
      BY <1>0, <3>1, AnswerStillHeld
    <3>. QED BY <2>1, <3>2 DEF ViewHeld
  <2>3. FieldHeld'
    <3>1. \A item \in {identifier'} \ {Nothing} : HeldSymbol(item)
      BY <2>1, ItemsHeld DEF Held, FieldHeld
    <3>2. \A item : HeldSymbol(item) => HeldSymbol(item)'
      BY <1>0, ItemStillHeld
    <3>. QED BY <3>1, <3>2 DEF FieldHeld
  <2>. QED BY <1>0, <2>1, <2>2, <2>3, StillHeld DEF Held
<1>8. ASSUME NEW l \in loads, Load(l)
      PROVE  Held'
  BY <1>6, <1>7, <1>8 DEF Load, LoadEnds, LoadFails
<1>9. ASSUME view # Nothing, NEW item \in Items, OpenSource(item)
      PROVE  Held'
  <2>1. PICK what : /\ what.file = item.file /\ what.owner = item.owner /\ what.path = item.path
                    /\ what.ver = item.ver /\ what.at = item.at
                    /\ Issue("open", what) /\ identifier' = identifier
    BY <1>9 DEF OpenSource
  <2>2. HeldFile(item)
    BY <1>9, ItemsHeld
  <2>3. HeldFile(what)
    BY <2>1, <2>2 DEF HeldFile, Kept, Untouched
  <2>. QED BY <1>0, <2>1, <2>3, IssueHeld DEF Kinds
<1>10. ASSUME view # Nothing, NEW item \in view.symbols \cup ({identifier} \ {Nothing}),
              DocumentSymbol(item)
       PROVE  Held'
  <2>1. Issue("document", item) /\ identifier' = identifier
    BY <1>10, Zenon DEF DocumentSymbol
  <2>2. HeldSymbol(item)
    BY <1>10, ItemsHeld
  <2>. QED BY <1>0, <2>1, <2>2, IssueHeld DEF Kinds
<1>11. CASE Ask
  <2>1. Issue("ask", Nothing) /\ identifier' = identifier
    BY <1>11, Zenon DEF Ask
  <2>. QED BY <1>0, <2>1, IssueHeld DEF Kinds
<1>12. CASE NewQuestion
  <2>1. /\ panel' = [panel EXCEPT !["ask"] = Nothing]
        /\ UNCHANGED <<view, loads, identifier, requests>>
    BY <1>12 DEF NewQuestion, switching
  <2>2. \A k \in Kinds : panel'[k] = panel[k] \/ panel'[k] = Nothing
    BY <2>1 DEF TabOK
  <2>. QED BY <1>0, <2>1, <2>2, StillHeld DEF Held
<1>13. ASSUME NEW r \in requests, Serve(r), ~Reply(r), ~RequestFails(r)
       PROVE  Held'
  <2>1. PICK q : /\ requests' = (requests \ {r}) \cup {q} /\ RequestHeld(q)
                 /\ UNCHANGED <<identifier, panel, switching>>
    BY <1>13, QueryHeld DEF Held
  <2>2. \A d \in requests' : RequestHeld(d)
    BY <2>1 DEF Held, RequestsHeld
  <2>3. RequestsHeld'
    BY <1>0, <2>2, RequestStillHeld DEF RequestsHeld
  <2>. QED BY <1>0, <2>1, <2>3, StillHeld DEF Held, switching
<1>14. ASSUME NEW r \in requests, Reply(r)
       PROVE  Held'
  <2> DEFINE e == [project |-> r.project, what |-> r.what, crossed |-> r.crossed, got |-> r.got]
  <2>1. /\ panel' = [panel EXCEPT ![r.kind] = e] /\ requests' = requests \ {r}
        /\ UNCHANGED <<view, loads, identifier>> /\ r.pc = "reply"
    BY <1>14, Zenon DEF Reply, Arrive, switching
  <2>2. e.project = r.project /\ e.what = r.what /\ e.got = r.got
    OBVIOUS
  <2>. HIDE DEF e
  <2>3. RequestHeld(r) /\ r.kind \in Kinds
    BY DEF Held, RequestsHeld, TabOK
  <2>4. AnswerHeld(r.kind, e)
    BY <2>1, <2>2, <2>3 DEF RequestHeld, AnswerHeld, OpensIt, Evidenced, Kinds
  <2>5. PanelsHeld'
    <3>1. \A k, x : AnswerHeld(k, x) => AnswerHeld(k, x)'
      BY <1>0, ItemStillHeld, AnswerStillHeld DEF AnswerHeld
    <3>2. \A k \in Kinds : \A x \in {panel'[k]} \ {Nothing} : AnswerHeld(k, x)
      BY <2>1, <2>4 DEF Held, PanelsHeld, TabOK
    <3>. QED BY <3>1, <3>2 DEF PanelsHeld
  <2>. QED BY <1>0, <2>1, <2>5, StillHeld DEF Held
<1>15. ASSUME NEW r \in requests, RequestFails(r)
       PROVE  Held'
  <2> DEFINE shown == IF r.kind = "open" THEN panel ELSE [panel EXCEPT ![r.kind] = Nothing]
  <2>1. /\ panel' = shown /\ requests' = requests \ {r}
        /\ UNCHANGED <<view, loads, identifier>>
    BY <1>15, Zenon DEF RequestFails, Arrive, switching
  <2>2. \A k \in Kinds : panel'[k] = panel[k] \/ panel'[k] = Nothing
    BY <2>1 DEF TabOK
  <2>. QED BY <1>0, <2>1, <2>2, StillHeld DEF Held
<1>16. ASSUME NEW r \in requests, Serve(r)
       PROVE  Held'
  BY <1>13, <1>14, <1>15, <1>16
<1>17. CASE UNCHANGED vars
  BY <1>1, <1>17 DEF vars, switching, workspace
<1>. QED BY <1>2, <1>3, <1>5, <1>8, <1>9, <1>10, <1>11, <1>12, <1>16, <1>17, Zenon DEF Next

(* Everything that is held is held true.                                     *)
THEOREM HeldAlways == Spec => []Held
<1>1. Init => Held
  <2>1. SUFFICES ASSUME Init PROVE Held
    OBVIOUS
  <2>2. /\ view = Nothing /\ loads = {} /\ identifier = Nothing /\ requests = {}
        /\ panel = [k \in Kinds |-> Nothing]
    BY <2>1 DEF Init
  <2>. QED BY <2>2 DEF Held, ViewHeld, FieldHeld, LoadsHeld, RequestsHeld, PanelsHeld
<1>2. StoreOK /\ TabOK /\ Held /\ [Next]_vars => Held'
  BY StepKeepsHeld
<1>. QED BY <1>1, <1>2, Typed, PTL DEF Spec

(* A source on display is the file that was clicked, and the text that was   *)
(* listed or cited, as long as the runs of its project in between kept it    *)
(* and did not change it.                                                   *)
THEOREM OpensClicked == Spec => []OpensWhatWasClicked
<1>1. Held => OpensWhatWasClicked
  <2>1. SUFFICES ASSUME Held, NEW r, r = panel["open"], r # Nothing
                 PROVE  OpensIt(r)
    BY DEF OpensWhatWasClicked, OpensIt
  <2>. QED BY <2>1 DEF Held, PanelsHeld, AnswerHeld, Kinds
<1>. QED BY <1>1, HeldAlways, PTL

(* Documentation, asked for or on display, names the function whose code the *)
(* model is shown; the hash is that of the code, and it is the function that *)
(* was chosen, as long as no run touched the file in between.                *)
THEOREM DocumentsEvidence == Spec => []DocumentsItsEvidence
<1>1. Held => DocumentsItsEvidence
  <2>1. SUFFICES ASSUME Held, NEW r \in Documented
                 PROVE  Evidenced(r)
    BY DEF DocumentsItsEvidence, Evidenced
  <2>2. CASE r \in requests /\ r.kind = "document" /\ r.pc \in {"hydrate", "files", "reply"}
    BY <2>1, <2>2 DEF Held, RequestsHeld, RequestHeld
  <2>3. CASE r \in {panel["document"]} \ {Nothing}
    BY <2>1, <2>3 DEF Held, PanelsHeld, AnswerHeld, Kinds
  <2>. QED BY <2>1, <2>2, <2>3 DEF Documented
<1>. QED BY <1>1, HeldAlways, PTL

=============================================================================

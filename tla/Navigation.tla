----------------------------- MODULE Navigation -----------------------------
(***************************************************************************)
(* What a browser tab shows of projects that are re-indexed meanwhile.      *)
(* The tab lists the files and functions of a project, opens sources, asks  *)
(* questions and requests documentation, each by row ids that it was given  *)
(* earlier; SQLite gives the ids of deleted rows to new ones.  Requests     *)
(* are answered in any order, while the user goes on to other projects.     *)
(*                                                                          *)
(* One query of the server is one step, and so is what the tab does with    *)
(* an answer.  How a re-index is prepared and committed, and what a         *)
(* question retrieves, are StructuralIndex, IndexActivation and Reads.      *)
(***************************************************************************)
EXTENDS Naturals, SequencesExt

CONSTANTS
  Projects,
  Paths,      \* natural numbers, for the order of relative paths
  Versions,   \* contents of a file
  Defs,       \* names of the functions that a version defines, in order
  Absent,     \* no file
  Nothing,
  Edited,     \* projects whose files are edited
  Trees,      \* what the repositories may hold at first
  MaxChanges, MaxCalls   \* bounds of this model

Contents == [Paths -> Versions \cup {Absent}]

ASSUME NavigationAssumption ==
  /\ IsFiniteSet(Projects) /\ Projects # {}
  /\ IsFiniteSet(Paths) /\ Paths \subseteq Nat
  /\ Absent \notin Versions /\ Edited \subseteq Projects
  /\ Defs \in [Versions -> Seq(STRING)]
  /\ Trees \subseteq [Projects -> Contents]
  /\ {MaxChanges, MaxCalls} \subseteq Nat

VARIABLES
  tree,        \* the repository of each project
  files,       \* source_files by id
  symbols,     \* symbols by id, each with its chunk
  runs,        \* history: what each re-index replaced
  edits,       \* how many edits were made
  view,        \* project, files and symbols shown
  loads,       \* loadProject calls in flight
  refreshes,   \* projects to load once api.projects is answered
  switchable,  \* the project switcher can be used: projectLoading is false,
               \* or its menu was open before it became true
  identifier,  \* in the field of the documentation panel
  panel,       \* what each panel shows
  busy,        \* loading of askState and documentationState
  requests,    \* those of the panels in flight
  wanted,      \* history: the project that was last to be loaded
  raced,       \* history: a load nobody chose met another one
  calls        \* how many loads and requests there were

repository == <<tree, edits>>
store      == <<files, symbols, runs>>
switching  == <<view, loads, refreshes, switchable, wanted, raced>>
workspace  == <<identifier, panel, busy, requests>>
vars == <<repository, store, switching, workspace, calls>>

Kinds == {"open", "ask", "document"}

-----------------------------------------------------------------------------
(* The rows of a run                                                        *)

Ids(fs, p)        == {i \in DOMAIN fs : fs[i].project = p}
PathsOf(fs, p)    == {fs[i].path : i \in Ids(fs, p)}
FileAt(fs, p, x)  == CHOOSE i \in Ids(fs, p) : fs[i].path = x
Recorded(fs, p, x) ==
  IF x \in PathsOf(fs, p) THEN fs[FileAt(fs, p, x)].ver ELSE Absent

(* The elements of a finite set, each before those that come after it.       *)
InOrder(S, before) ==
  CHOOSE s \in [1 .. Cardinality(S) -> S] :
    \A i, j \in DOMAIN s : i < j => <<s[i], s[j]>> \in before

ByPath(paths) == InOrder(paths, {e \in paths \X paths : e[1] < e[2]})

(* Pairs of numbers: paths project by project, functions file by file.       *)
OneByOne(keys) ==
  InOrder(keys, {e \in keys \X keys :
                   e[1][1] < e[2][1] \/ (e[1][1] = e[2][1] /\ e[1][2] < e[2][2])})

(* INTEGER PRIMARY KEY without AUTOINCREMENT: one more than the largest id   *)
(* in the table, of whatever project.                                       *)
Inserted(table, rows) ==
  LET last == IF DOMAIN table = {} THEN 0 ELSE Max(DOMAIN table)
  IN  [i \in DOMAIN table \cup (last + 1 .. last + Len(rows)) |->
         IF i \in DOMAIN table THEN table[i] ELSE rows[i - last]]

(* Rows of removed paths are deleted, those of changed ones updated or       *)
(* inserted, in the order of their paths.                                   *)
FileRows(fs, p, snapshot, removed, changed) ==
  LET kept == [i \in DOMAIN fs \ {i \in Ids(fs, p) : fs[i].path \in removed} |->
                 IF fs[i].project = p /\ fs[i].path \in changed
                 THEN [fs[i] EXCEPT !.ver = snapshot[fs[i].path]] ELSE fs[i]]
      new  == ByPath(changed \ PathsOf(kept, p))
  IN  Inserted(kept, [k \in DOMAIN new |->
         [project |-> p, path |-> new[k], ver |-> snapshot[new[k]]]])

(* A function of a file: its symbol and its chunk.                          *)
Symbol(fs, i, k) == [file |-> i, name |-> Defs[fs[i].ver][k], ver |-> fs[i].ver]

(* Symbols and chunks go with their file, by cascade, and are replaced when  *)
(* it changed.                                                              *)
SymbolRows(fs, p, changed, kept) ==
  LET new == OneByOne(UNION {{x} \X (DOMAIN Defs[Recorded(fs, p, x)]) : x \in changed})
  IN  Inserted([s \in kept |-> symbols[s]],
               [n \in DOMAIN new |-> Symbol(fs, FileAt(fs, p, new[n][1]), new[n][2])])

(* Mutant: without PRAGMA foreign_keys nothing cascades.                    *)
KeptWithoutCascade(p, removed, changed) ==
  {s \in DOMAIN symbols :
     LET f == files[symbols[s].file]
     IN  f.project # p \/ f.path \notin changed \ removed}

(* Symbols of the files whose rows stay as they are.                        *)
KeptSymbols(p, removed, changed) ==
  {s \in DOMAIN symbols :
     LET f == files[symbols[s].file]
     IN  f.project # p \/ f.path \notin removed \cup changed}

-----------------------------------------------------------------------------
(* Each project has just been indexed; list_projects, in the order of ids,   *)
(* has the first of them first, and the page loads it.                      *)
Init ==
  /\ tree \in Trees
  /\ \E order \in SetToSeqs(Projects) :
       /\ LET first == OneByOne({k \in (DOMAIN order) \X Paths :
                                   tree[order[k[1]]][k[2]] # Absent})
          IN  files = [i \in DOMAIN first |->
                 [project |-> order[first[i][1]], path |-> first[i][2],
                  ver |-> tree[order[first[i][1]]][first[i][2]]]]
       /\ refreshes = {order[1]}
  /\ LET first == OneByOne(UNION {{i} \X (DOMAIN Defs[files[i].ver]) : i \in DOMAIN files})
     IN  symbols = [s \in DOMAIN first |-> Symbol(files, first[s][1], first[s][2])]
  /\ runs = << >> /\ edits = 0
  /\ view = Nothing /\ loads = {} /\ switchable = FALSE
  /\ wanted = Nothing /\ raced = FALSE
  /\ identifier = Nothing
  /\ panel = [k \in Kinds |-> Nothing] /\ busy = {}
  /\ requests = {} /\ calls = 0

-----------------------------------------------------------------------------
(* Repositories and runs                                                    *)

Edit(p, x, v) ==
  /\ edits + Len(runs) < MaxChanges
  /\ tree[p][x] # v
  /\ tree' = [tree EXCEPT ![p][x] = v] /\ edits' = edits + 1
  /\ UNCHANGED <<store, switching, workspace, calls>>

(* The one transaction of a full or an incremental run, started from this    *)
(* tab or elsewhere; the tab that started it learns of it and loads the      *)
(* project again.  What the run found changed since then is an edit that     *)
(* follows; a run that fails leaves the rows alone.                         *)
Reindex(p, full, mine) ==
  /\ edits + Len(runs) < MaxChanges
  /\ mine => p \notin refreshes
  /\ LET present == {x \in Paths : tree[p][x] # Absent}
         removed == IF full THEN PathsOf(files, p) ELSE PathsOf(files, p) \ present
         changed == IF full THEN present
                    ELSE {x \in present : Recorded(files, p, x) # tree[p][x]}
     IN  /\ files' = FileRows(files, p, tree[p], removed, changed)
         /\ symbols' = SymbolRows(files', p, changed, KeptSymbols(p, removed, changed))
         /\ runs' = Append(runs, [project |-> p, removed |-> removed, changed |-> changed])
  /\ refreshes' = IF mine THEN refreshes \cup {p} ELSE refreshes
  /\ UNCHANGED <<repository, view, loads, switchable, wanted, raced, workspace, calls>>

-----------------------------------------------------------------------------
(* Loading a project                                                        *)

(* Mutant: the panels of the project shown before stay.                     *)
LeaveWorkspace ==
  /\ requests' = {[r EXCEPT !.crossed = TRUE] : r \in requests}
  /\ UNCHANGED <<panel, busy, identifier>>

(* resetWorkspace.  The field of a documentation panel stays as it is.       *)
ResetWorkspace ==
  /\ panel' = [k \in Kinds |-> Nothing] /\ busy' = {}
  /\ UNCHANGED identifier
  /\ requests' = {[r EXCEPT !.crossed = TRUE] : r \in requests}

LoadProject(p, chosen) ==
  /\ calls < MaxCalls
  /\ loads' = loads \cup {[n |-> calls, project |-> p, chosen |-> chosen,
                           lists |-> Nothing]}
  /\ ResetWorkspace
  /\ wanted' = p /\ calls' = calls + 1
  /\ raced' = (loads # {} /\ (raced \/ ~chosen \/ \E l \in loads : ~l.chosen))
  /\ UNCHANGED <<view, repository, store>>

(* The first load of the page, or the one after a completed job.  When       *)
(* api.projects fails there is none.                                        *)
Refresh(p) ==
  /\ p \in refreshes
  /\ refreshes' = refreshes \ {p}
  /\ LoadProject(p, FALSE)
  /\ UNCHANGED switchable

(* Another item of the switcher's menu, which closes.                       *)
Choose(p) ==
  /\ switchable
  /\ view # Nothing => view.project # p
  /\ switchable' = FALSE
  /\ LoadProject(p, TRUE)
  /\ UNCHANGED refreshes

FileItem(i) ==
  [file |-> i, owner |-> files[i].project, path |-> files[i].path,
   ver |-> files[i].ver, at |-> Len(runs)]
SymbolItem(s) ==
  [symbol |-> s, file |-> symbols[s].file, owner |-> files[symbols[s].file].project,
   path |-> files[symbols[s].file].path, name |-> symbols[s].name,
   ver |-> symbols[s].ver, at |-> Len(runs)]

(* GET files and GET symbols.  A commit between the two makes some items     *)
(* older than others; a click is on one of them.                            *)
LoadLists(l) ==
  /\ l.lists = Nothing
  /\ LET ids   == Ids(files, l.project)
         lists == [project |-> l.project, files |-> {FileItem(i) : i \in ids},
                   symbols |-> {SymbolItem(s) : s \in {s \in DOMAIN symbols :
                                                        symbols[s].file \in ids}}]
     IN  loads' = (loads \ {l}) \cup {[l EXCEPT !.lists = lists]}
  /\ UNCHANGED <<view, refreshes, switchable, wanted, raced,
                 repository, store, workspace, calls>>

(* A symbol chosen before may stay in the field of the panel.               *)
LoadSettles(l, shown) ==
  /\ view' = shown /\ loads' = loads \ {l} /\ switchable' = TRUE
  /\ identifier' \in {Nothing, identifier} \cup
                     (IF view = Nothing THEN {} ELSE view.symbols)
  /\ UNCHANGED <<refreshes, wanted, raced, panel, busy, requests, repository, store, calls>>

LoadEnds(l) == l.lists # Nothing /\ LoadSettles(l, l.lists)

LoadFails(l) == LoadSettles(l, Nothing)

-----------------------------------------------------------------------------
(* Requests of the panels                                                   *)

Issue(kind, what) ==
  /\ view # Nothing /\ calls < MaxCalls
  /\ requests' = requests \cup
       {[n |-> calls, kind |-> kind, project |-> view.project, what |-> what,
         crossed |-> loads # {}, pc |-> "start", got |-> Nothing]}
  /\ panel' = [panel EXCEPT ![kind] = Nothing]
  /\ calls' = calls + 1
  /\ UNCHANGED <<repository, store, switching>>

Cited == {panel[k].got.cited : k \in {k \in {"ask", "document"} : panel[k] # Nothing}}
Items == view.files \cup view.symbols \cup Cited

OpenSource(item) ==
  /\ Issue("open", [file |-> item.file, owner |-> item.owner, path |-> item.path,
                    ver |-> item.ver, at |-> item.at])
  /\ UNCHANGED <<busy, identifier>>

Ask ==
  /\ "ask" \notin busy
  /\ Issue("ask", Nothing)
  /\ busy' = busy \cup {"ask"}
  /\ UNCHANGED identifier

(* A symbol of the list, or what the field still holds.                     *)
DocumentSymbol(item) ==
  /\ "document" \notin busy
  /\ Issue("document", item)
  /\ busy' = busy \cup {"document"}
  /\ UNCHANGED identifier

Step(r, pc, got) ==
  /\ requests' = (requests \ {r}) \cup {[r EXCEPT !.pc = pc, !.got = got]}
  /\ UNCHANGED <<identifier, panel, busy, calls, repository, store, switching>>

(* source_content: the row of this project and id, and then the file.       *)
OpenRow(r) ==
  /\ r.kind = "open" /\ r.pc = "start"
  /\ r.what.file \in Ids(files, r.project)
  /\ Step(r, "bytes", FileItem(r.what.file))

(* Mutant: what the file holds by now is shown.                             *)
OpenBytesAsTheyAre(r) ==
  /\ r.kind = "open" /\ r.pc = "bytes"
  /\ tree[r.project][r.got.path] # Absent
  /\ Step(r, "reply", [r.got EXCEPT !.ver = tree[r.project][r.got.path]])

OpenBytes(r) ==
  /\ r.kind = "open" /\ r.pc = "bytes"
  /\ tree[r.project][r.got.path] = r.got.ver
  /\ Step(r, "reply", r.got)

(* SymbolResolver._targets: the files, the symbols of each in the order of   *)
(* their paths, and then the chunks.                                        *)
ResolveFiles(r) ==
  /\ r.kind = "document" /\ r.pc = "start"
  /\ LET known == [i \in Ids(files, r.project) |-> files[i]]
     IN  Step(r, "symbols",
              [known |-> known, todo |-> DOMAIN known, names |-> << >>, from |-> Len(runs)])

ResolveSymbols(r) ==
  /\ r.kind = "document" /\ r.pc = "symbols" /\ r.got.todo # {}
  /\ LET f     == CHOOSE f \in r.got.todo :
                    \A g \in r.got.todo : r.got.known[f].path <= r.got.known[g].path
         found == {s \in DOMAIN symbols : symbols[s].file = f}
     IN  Step(r, "symbols",
              [r.got EXCEPT !.todo = @ \ {f},
                            !.names = [s \in DOMAIN @ \cup found |->
                                         IF s \in found THEN symbols[s].name ELSE @[s]]])

(* The chunk of this symbol id, if its symbol and its file were read.       *)
Resolved(r) ==
  {s \in DOMAIN r.got.names \cap DOMAIN symbols :
     /\ s = r.what.symbol
     /\ symbols[s].file \in DOMAIN r.got.known \cap Ids(files, r.project)}

Evidence(r, s) ==
  [name |-> r.got.names[s], chunk |-> SymbolItem(s),
   hash |-> r.got.known[symbols[s].file].ver, from |-> r.got.from]

(* Mutant: the syntax facts are not compared with the symbol.               *)
DocumentUnchecked(r, s) == Step(r, "hydrate", Evidence(r, s))

(* extract_syntax_facts: the code must define the symbol's name.            *)
DocumentChecked(r, s) ==
  /\ r.got.names[s] = symbols[s].name
  /\ Step(r, "hydrate", Evidence(r, s))

ResolveChunks(r) ==
  /\ r.kind = "document" /\ r.pc = "symbols" /\ r.got.todo = {}
  /\ \E s \in Resolved(r) : DocumentChecked(r, s)

(* citation_chunks: chunks by chunk id, of what was retrieved or, after the  *)
(* model's answer, documented.                                              *)
HydrateAnswer(r) ==
  /\ r.kind = "ask" /\ r.pc = "start"
  /\ \E s \in DOMAIN symbols :
       /\ symbols[s].file \in Ids(files, r.project)
       /\ Step(r, "files", [cited |-> SymbolItem(s)])

HydrateDocumentation(r) ==
  /\ r.kind = "document" /\ r.pc = "hydrate"
  /\ \E s \in DOMAIN symbols :
       LET c == SymbolItem(s)
       IN  /\ <<c.owner, c.path, c.name, c.ver>> =
                <<r.project, r.got.chunk.path, r.got.chunk.name, r.got.chunk.ver>>
           /\ Step(r, "files",
                [name |-> r.got.name, chunk |-> r.got.chunk, hash |-> r.got.hash,
                 from |-> r.got.from, cited |-> c])

(* ... and then the files they are in.                                      *)
HydrateFiles(r) ==
  /\ r.pc = "files"
  /\ r.got.cited.file \in Ids(files, r.project)
  /\ files[r.got.cited.file].path = r.got.cited.path
  /\ Step(r, "reply", r.got)

Arrive(r, shown) ==
  /\ requests' = requests \ {r}
  /\ panel' = shown
  /\ busy' = busy \ {r.kind}
  /\ UNCHANGED <<identifier, calls, repository, store, switching>>

(* The answer is shown, whatever the tab shows by now.                      *)
Reply(r) ==
  /\ r.pc = "reply"
  /\ Arrive(r, [panel EXCEPT ![r.kind] =
       [project |-> r.project, what |-> r.what, crossed |-> r.crossed, got |-> r.got]])

(* Refused by the guard, a row that is gone, other evidence, a provider or   *)
(* the network: a question and documentation then show an error alone.      *)
RequestFails(r) ==
  Arrive(r, IF r.kind = "open" THEN panel ELSE [panel EXCEPT ![r.kind] = Nothing])

NewQuestion ==
  /\ panel["ask"] # Nothing
  /\ panel' = [panel EXCEPT !["ask"] = Nothing] /\ busy' = busy \ {"ask"}
  /\ UNCHANGED <<identifier, requests, calls, repository, store, switching>>

-----------------------------------------------------------------------------
Serve(r) ==
  \/ OpenRow(r) \/ OpenBytes(r)
  \/ ResolveFiles(r) \/ ResolveSymbols(r) \/ ResolveChunks(r)
  \/ HydrateAnswer(r) \/ HydrateDocumentation(r) \/ HydrateFiles(r)
  \/ Reply(r) \/ RequestFails(r)

Load(l) ==
  LoadLists(l) \/ LoadEnds(l) \/ LoadFails(l)

Next ==
  \/ \E p \in Edited, x \in Paths, v \in Versions \cup {Absent} : Edit(p, x, v)
  \/ \E p \in Projects, full, mine \in BOOLEAN : Reindex(p, full, mine)
  \/ \E p \in Projects : Refresh(p) \/ Choose(p)
  \/ \E l \in loads : Load(l)
  \/ view # Nothing /\ \E item \in Items : OpenSource(item)
  \/ view # Nothing /\ \E item \in view.symbols \cup ({identifier} \ {Nothing}) :
       DocumentSymbol(item)
  \/ Ask \/ NewQuestion
  \/ \E r \in requests : Serve(r)

Spec == Init /\ [][Next]_vars

-----------------------------------------------------------------------------
(* Rows point at each other: a symbol belongs to a file that exists and was  *)
(* parsed from the content that the file is recorded with, and no project    *)
(* has two rows of one path.                                                *)
TypeOK ==
  /\ tree \in [Projects -> Contents]
  /\ \A i \in DOMAIN files :
       files[i] \in [project : Projects, path : Paths, ver : Versions]
  /\ \A i, j \in DOMAIN files :
       files[i].project = files[j].project /\ files[i].path = files[j].path => i = j
  /\ \A s \in DOMAIN symbols :
       /\ symbols[s].file \in DOMAIN files
       /\ symbols[s].ver = files[symbols[s].file].ver
       /\ symbols[s].name \in ToSet(Defs[symbols[s].ver])
  /\ switchable \in BOOLEAN /\ raced \in BOOLEAN
  /\ busy \subseteq {"ask", "document"}
  /\ wanted \in Projects \cup {Nothing}
  /\ refreshes \subseteq Projects

(* The runs of a project between two moments.                               *)
Since(p, from, to) ==
  {runs[k] : k \in {k \in from + 1 .. to : runs[k].project = p}}

(* A source on display is the file that was clicked, in a list, a citation   *)
(* or among symbols, as long as each run since then was incremental and kept *)
(* the file; and it is the text that was listed or cited, so that its line   *)
(* range fits, as long as none of them changed the file.                    *)
OpensWhatWasClicked ==
  LET r == panel["open"]
  IN  r # Nothing /\ r.what.owner = r.project =>
        LET since == Since(r.project, r.what.at, r.got.at)
            kept  == \A e \in since : r.what.path \notin e.removed
        IN  /\ kept => r.got.path = r.what.path
            /\ kept /\ (\A e \in since : r.what.path \notin e.changed) =>
                 r.got.ver = r.what.ver

(* Requests that have their evidence, and the documentation on display.      *)
Documented ==
  {r \in requests : r.kind = "document" /\ r.pc \in {"hydrate", "files", "reply"}}
    \cup ({panel["document"]} \ {Nothing})

(* Documentation, from the model's request on, names the function whose code *)
(* the model is shown, however many runs committed between the queries that  *)
(* found it.  When none of them touched the file, the hash it names is that  *)
(* of the code; when none did since the symbol was listed, it is the         *)
(* function that was chosen.                                                *)
DocumentsItsEvidence ==
  \A r \in Documented :
    LET c == r.got.chunk
        Untouched(path, from) ==
          \A e \in Since(r.project, from, c.at) : path \notin e.removed \cup e.changed
    IN  /\ r.got.name = c.name
        /\ Untouched(c.path, r.got.from) => r.got.hash = c.ver
        /\ r.what.owner = r.project /\ Untouched(r.what.path, r.what.at) =>
             <<c.path, c.name, c.ver>> = <<r.what.path, r.what.name, r.what.ver>>

(* What is on display belongs together.  A source, an answer or              *)
(* documentation is of the project shown, unless its request crossed a load. *)
(* Once no load is in flight the project is the one loaded last, unless the  *)
(* load of a completed job met another.                                     *)
ShownBelongsTogether ==
  /\ \A k \in Kinds :
       panel[k] # Nothing /\ ~panel[k].crossed =>
         view # Nothing /\ view.project = panel[k].project
  /\ loads = {} /\ ~raced => view = Nothing \/ view.project = wanted
=============================================================================

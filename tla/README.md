# CodeCompass: formal specifications

TLA+ specifications of CodeCompass Local (`src/`), the TLC instances that check
them and the TLAPS proofs about them. The subject of the development is what is
hard to test in this program: an index that lives in two stores without a
common transaction, rebuilt from files that are edited meanwhile and from
vectors that a remote provider makes in batches, by a background thread that may
fail or die between any two writes, while HTTP handlers read it and a browser
tab holds ids of its rows.

Paths below are relative to `src/src/codecompass/` unless they begin with
`docs/`, `frontend/` or `scripts/`.

## 1. The system

| Component | Code | State it keeps | Operations that change it |
|---|---|---|---|
| Indexing coordinator | `indexing/coordinator.py` | none between runs; per run: the scan, the base index, the cached vector index, the staged replacement | `index_repository` = scan, `_incremental_base`, `_run_full` or `_run_incremental`, `_cleanup_reserved_project` |
| Managed vector index | `vector_index/chroma.py` | Chroma collections, one per generation; the `.active.json` pointer file | `initialize`, `stage_replacement`, `activate_staged`, `rollback_staged`, `finalize_staged`, `discard_staged`, `cleanup_orphan_staging`, `discard_empty_managed_index` |
| Metadata store | `storage/sqlite.py` | `projects`, `source_files`, `symbols`, `chunks`, `indexing_jobs` | `upsert_project`, `replace_project_index`, `apply_incremental_project_index`, `delete_empty_project`, job rows |
| API runtime | `api/runtime.py` | `index_lock`, `_activating_projects`, one daemon thread per job | `index`, `start_index_job`, `_run_index_job`, `_begin_activation`, `_end_activation` |
| HTTP routes | `api/app.py` | none | read both stores in several steps (project detail, search, ask, documentation, files, symbols, content) |
| Retrieval, QA, RAG context | `retrieval/`, `qa/`, `rag/` | none | pure ranking and selection over what the stores return; semantic search reads Chroma, then SQLite |
| Embedding batches | `indexing/vectors.py` | the batches still to embed; what is embedded, truncated, failed | batching, splitting, compaction and retry of embedding calls; on an unmanaged collection also upsert, deletion, comparison, metadata |
| Structural pipeline | `scanner/`, `parser/`, `chunker/`, `indexing/service.py` | none; per run the two scans and what was read | files to symbols to chunks |
| Documentation | `documentation/` | none | evidence, one model call, hydration of citations |
| Providers | `embeddings/`, `llm/`, `providers.py`, `_openai_compatible_http.py` | none | network calls |
| Web client | `frontend/src/` | project, files and symbols shown; what each panel shows; requests in flight; polled job | loads, sources, questions, documentation, polls |
| Evaluation | `evaluation/`, `api/evaluation.py`, `demo.py`, `scripts/evaluation/` | artifact files | offline measurement runs |

How they interact. A request to index takes `index_lock` without waiting. The
synchronous route runs in the request's thread; the job route writes a row in
`indexing_jobs` and hands the lock to a new thread. Either calls the
coordinator, which calls the scanner, parser, chunker and embedding provider in
memory, then writes Chroma and SQLite. SQLite calls back: `replace_project_index`
and `apply_incremental_project_index` run `before_commit` inside their open
transaction, and that callback raises the activation guard and switches the
pointer file; `on_rollback` restores it. Readers refuse a project while its
guard is up (409 `index_activation_in_progress`) and refuse to use vectors whose
generation is not the one the project row names (409
`vector_index_state_invalid`). At start-up, jobs left active by a dead process
are marked failed.

What is hard, and what correctness means there:

* **Two stores, one index.** Between the pointer switch and the commit, and
  while a failure is compensated, the row and the pointer disagree. Correct:
  the vectors of the committed generation always exist, the stores agree when
  the guard is down, a failed run leaves the index it found.
* **Compensations that fail.** Deletion swallows every error; restoring the
  pointer may raise. Correct: what is left behind is a leak, not an index, and
  later runs recover.
* **First run of a repository.** The row, the collection and the pointer are
  made in that order and given up in another. Correct: no combination left
  behind makes later runs refuse for ever.
* **Reuse.** An incremental run copies vectors from the active collection.
  Correct: never those of another embedding model; no change of the repository
  is overlooked for ever.
* **Jobs.** The lock is taken by one thread and released by another; the row
  outlives both. Correct: one run at a time, rows that tell the truth about the
  index, jobs that finish, across faults, crashes and restarts.
* **Readers** that hold a generation or a collection over a network call while an
  activation deletes what they hold. Correct: what is searched was the index at
  some moment of the request, counts are of one index, a healthy project is not
  called invalid.
* **Files that change under the scan.** A run reads each file for its hash, its
  symbols and its lines, and again for the recheck. Correct: the rows of a file
  are of one version, a commit is a repository that existed, no change is
  overlooked.
* **Embedding in batches.** Calls are retried, split, and for one oversized chunk
  bisected. Correct: each chunk ends up with the vector of its own text or is
  reported, none is lost or truncated more than needed, and nothing is stored
  before all of them are there.
* **Row ids held by clients.** SQLite reuses the ids of deleted rows, and answers
  arrive in any order while the user moves on. Correct: what is opened,
  documented and shown is what was chosen, but for commits and loads that are
  named exactly.

The full list, at the lines where it bites, is `hazards` in `PROJECT.json`.

## 2. Modules

| Module | What it is |
|---|---|
| `AtomicIndex` | abstract specification: what the index promises its readers |
| `IndexActivation` | one repository's index, as a run of the coordinator writes it |
| `MCIndexActivation` | instance for TLC |
| `IndexActivationProofs` | its theorems |
| `IndexJobs` | requests, job threads, the lock, job rows, crash and restart |
| `MCIndexJobs` | instance for TLC |
| `IndexJobsProofs` | its theorems |
| `Reads` | `IndexActivation` with an HTTP request that reads the index meanwhile: project detail, search, ask |
| `MCReads` | instance for TLC |
| `ReadsProofs` | its theorems |
| `VectorIndexing` | `VectorIndexingService`: embedding batches and the mirror of an unmanaged collection |
| `MCVectorIndexing`, `VectorIndexingProofs` | instance for TLC, theorems |
| `StructuralIndex` | a run's reads of files that are edited meanwhile, its plan and its rows |
| `MCStructuralIndex`, `StructuralIndexProofs` | instance for TLC, theorems |
| `Navigation` | a browser tab and the row ids it holds, over re-indexes |
| `MCNavigation` | instance for TLC |
| `NavigationRows` | lemmas about its tables: orders, insertions, what a run leaves |
| `NavigationProofs` | its theorems |

`StructuralIndex` and `VectorIndexing` are what `IndexActivation` takes as one
step each (the scans, `StageFill`); `Navigation` takes a whole run as one step.

### AtomicIndex

`committed` is the index readers are served, `torn` says that metadata and
vectors do not match (so readers refuse it), `busy` is the activation guard.
Everything changes only while `busy`; a change publishes a whole index. Both
detailed modules implement it: `IndexActivation` with the guard, the row and the
stores themselves, `IndexJobs` with "some request's thread is in its activation".

### IndexActivation

State and code:

| Variable | In the code |
|---|---|
| `row` | the `projects` row (`exists`, `vector_generation`) and the project's chunks |
| `colls` | Chroma's collections by generation: existence, vectors, and the embedding identity in the metadata |
| `pointer` | `generation` in the `.active.json` file |
| `guard` | membership in `APIRuntime._activating_projects` |
| `pc` | the next step of `index_repository` and of what it calls |
| `job` | the identity and the first scan of the run, and `existing`, the row it found |
| `mode`, `old`, `staged`, `handle` | full or incremental; `old_generation` and `generation` of `StagedVectorReplacement`; the collection cached by the run's `ChromaVectorIndex` |
| `result` | how `index_repository` ended |
| `repo`, `edits`, `faults`, `crashes` | the environment |
| `broken` | history only: which compensation was defeated, for the properties to say "unless" precisely |

A step is one durable write or one check whose outcome selects the path; each
has its failing twin where the code can raise there. Chroma operations are
durable one by one, `os.replace` of the pointer is atomic, SQLite shows nothing
of a transaction before its commit. A *version* of a file stands for the chunks
it yields: chunk ids contain the content hash (`chunker/service.py:147-157`), so
two versions share no chunk, and the chunk ids of an index are its versions.
A vector is a pair of version and model, which is what reuse can confuse.

Simplifications, each with its reason:

* One project root. Projects share no collection, pointer or row.
* One worker. `index_lock` admits one run (`OneRunAtATime` of `IndexJobs`).
* The unmanaged branch of `_run_full` (282-289) is left out: the API's
  `collection_factory` always gives a managed index.
* Scan, parse, chunk, embedding, progress-write and storage errors before the
  first write are one action, `Abandon`; those after the staging scan are
  `RecheckFails`. They leave the same state.
* Rows rewritten inside the transaction appear at `Commit`, where others see
  them first.
* A branch the code guards with an exception that no state can take (the
  pointer moved by someone else, `discard_staged` of the active collection) is a
  conjunct of the action's guard. Were such a state reachable, TLC would report
  a deadlock; the proofs show directly that those states do not occur.
* Fresh generations are `uuid4`; `Gens` is finite and a generation no store or
  variable names may be taken again.
* `_index_snapshot` opens the vector index before a run and may thus create the
  empty first collection of a reserved project. `CreateFirst` and `PointFirst` of
  the run reach the same stores.

### IndexJobs

| Variable | In the code |
|---|---|
| `up`, `crashes` | the API process |
| `lock` | `index_lock` |
| `pc[r]` | the next step of the thread that serves the request, the request's own or the job's |
| `rows[r]` | its `indexing_jobs` row: state, and `previous_index_preserved` |
| `start[r]` | the index found when the request was admitted (`previous_project_id`) |
| `seen[r]`, `verdict[r]` | `snapshot` and `preserved` in `_run_index_job` |
| `index` | the project row and its chunks: `Absent`, `Reserved` (no generation, no chunk), or named by the request that committed them |
| `active` | the collection the pointer file names: by the request that filled it; `Reserved` for the empty first one, made or about to be; `Unknown` for one that cannot be opened |
| `old` | `old_name` of the last `StagedVectorReplacement`, which a rollback restores |

The steps of the run are those of `AtomicIndex`, with the reserved identity and
the failures that the job's row reports on. The eight non-terminal states of a
job row (`scanning`, `parsing`, ...) are one, `active`: no code branches on which.
`create_indexing_job` and `update_indexing_job` commit and then read the row
back, so each can raise before or after its write took effect. `torn` (a committed
index whose collection is not the active one) is what `AtomicIndex` calls by that name.

`Empty` are the requests that find no chunk to index. They matter to the verdict of a
failed job: `_snapshot_preserved` compares the ids of chunks and vectors, and the
generations only if the snapshot had one (`runtime.py:417-419`). The snapshot of a
reserved row has no generation and no ids, so if the run commits an index without
chunks and then fails (a progress write at `coordinator.py:336`, or the read after the
commit, which also puts the pointer back to the empty first collection), the job says
`previous_index_preserved` of a row that was replaced. `LooksPreserved` follows the code,
and `PreservedIsTrue` says what is true of it: a committed index reported as preserved
is the one found, in service and whole; of a reserved row, that neither store held
anything and neither does now. TLC reaches both cases, whole and torn.

A reserved row whose collection cannot be opened, or holds vectors of a run that died
between switch and commit, has no snapshot, is not given up by the clean-up, and in the
first case is refused by every later run (`Begin`). A crash may leave the first
collection without its pointer whenever a request holds the lock and the collection is
empty or not made yet, which allows it a little more often than the code does.

### Reads

`Reads` extends `IndexActivation` with one request at a time. Each step is one
SELECT, one look at the guard, one read of the pointer file or one Chroma call.

| Variable | In the code |
|---|---|
| `rpc` | the next read of the handler |
| `req` | the route and method, the `EmbeddingIdentity`, `project.vector_generation` as `require_project` read it |
| `aimed` | `generation` of the pointer file `_read_pointer` returned, its collection not yet got |
| `opened` | `_collection` of the request's `ChromaVectorIndex` |
| `hits`, `pending` | chunks listed or found; vector results not yet looked up in SQLite |
| `seen` | detail only: the contents its counts were taken from |
| `answer` | the reply |
| `served`, `overlap` | history only: the generations committed since the request began, and whether an activation held the guard |

| Steps | Code |
|---|---|
| `Refused`, `Admitted`, `ReadRow`, `NeverIndexed` | `require_project`: guard, then row; the `None` tests of `vector_generation_matches` |
| `ReadPointer`, `GetCollection`, `CollectionGone` | `_resolve_managed_collection`: the pointer file, then the collection it named |
| `GenerationMatches`, `GenerationDiffers` | `active_generation` reads the pointer file a second time; the comparison with the row |
| `CountFiles`, `CountSymbols`, `CountChunks`, `GetForListing`, `ListIds` | project detail |
| `Scan` | `LexicalRetriever.search`, first half of a hybrid search |
| `GetForQuery`, `OtherModel` | the search's own vector index, and `_validate_embedding_identity` |
| `Query`, `Hydrate`, `Rank` | the collection queried, one SELECT per hit, the cut to the limit |
| `CiteAdmitted`, `CiteRefused`, `Cite` | `citation_chunks`: guard, then every hit must still be a row |
| `RequestFails` | any error a read may raise, at any step, whatever its code |

Simplifications, each with its reason:

* One reader. Requests share no variable and write nothing, so what one can see
  does not depend on others.
* An ask is the search of its method, a wait for the model between `Rank` and
  `CiteAdmitted`, and a smaller set of chunks to cite; which chunks match a question
  or fit the context is left open (any subset).
* A generation the request remembers is not made again (`uuid4`), so `Gens` bounds
  the re-indexes during one request. The three generations of the instance give
  the one found, the one that replaces it and a third.
* A reply is closed before the indexing side moves again: nothing after the last
  read depends on the stores.
* The branch of `initialize()` that creates a first index is not a step of a
  reader, because `ReadersNeverCreate` shows that no read gets there.
* A Chroma or pointer-file error is reported by the code with the same 409 as
  a collection that is gone. Here it is `RequestFails`, so that "invalid" means
  that the stores said so.
* `citation_chunks` compares file paths of the chunks with a second SELECT. Both
  SELECTs of one path differ only if an index is committed in between; that
  failure is `RequestFails`.
* The lists of files and symbols, file content and documentation read SQLite
  only; they are in `Navigation`.

`SearchedIndexWasServed` has the condition that no fault struck since the request
was admitted. A search can open a candidate whose pointer is switched and whose
commit then fails: once the guard is down again its citations are looked up in
the old rows, and if all of its hits are there too the answer is given, with
scores of an index that was never committed.

### VectorIndexing

One call of the provider, of SQLite or of the collection is a step. The recursion
of `_embed_batch` is a stack of intervals of chunks, the first on top.

| Variable | In the code |
|---|---|
| `caller`, `identity` | `prepare_chunks` for the coordinator, or `index_project`; the service's embedding identity |
| `limit`, `serving` | the environment: how many lines of each chunk the provider takes, and the model its server answers with |
| `next`, `stack` | the loop over batches, and the recursive calls not yet made |
| `attempt` | `attempt` of `_embed_with_retries` |
| `search` | `low`, `high`, `best` of `_embed_compacted` |
| `embedded`, `truncated`, `errors` | the embedded chunks in order, the compacted ones, `VectorIndexingError`s |
| `index`, `metadata` | the collection's records, and the identity in its metadata |
| `existing`, `sent` | ids listed before the upsert; records sent so far |
| `report` | the `VectorIndexingResult` |

| Steps | Code |
|---|---|
| `TakeBatch`, `ProgressFails` | the loop of `prepare_chunks`, its progress callback |
| `Embed`, `Retry`, `GiveUp` | `_embed_with_retries` |
| `Replies`, `OrderedVectors` | the pairing of an answer with its batch (`embeddings/openai_compatible.py`) |
| `Split` | the halves of a batch that is too long or was answered wrongly |
| `StartCompaction`, `CandidateFits`, `CandidateTooLong`, `Compacted`, `NotCompactable` | the bisection over head and tail |
| `CheckDimensions`, `HandOver`, `ReportFailure` | the check of all dimensions; the end of `prepare_chunks` |
| `ListExisting`, `UpsertRefused`, `UpsertPart`, `DeleteStale`, `Compare`, `SetMetadata`, `StoreFails`, `Relist`, `RelistFails`, `Report` | `index_project` |
| `Swap`, `Rerun` | the environment: another model behind the same address, another run |

Simplifications: a text is known by its chunk and the lines it keeps; what fits is
monotone in that number (the bisection assumes so too). The failure of a part of
an upsert is `StoreFails` before the next part. The branch of `index_project` for a
managed index is `IndexActivation`'s staging. `index_project` itself is called by
the evaluation programs (`evaluation/baseline.py:109`, `performance.py:100`); the
API takes `prepare_chunks`.

Two remarks of a reader of the model. The OpenAI-compatible client reports every
400 as `HTTPError`, which is retried and never compacted; so does the Ollama
client for final 4xx errors, while `docs/validation/reliable-indexing-report.md:44` speaks of
retries of transient errors only. And an unmanaged collection with vectors of
another dimension is never repaired by re-indexing: `CleanRunCompletes` has that
exception, and TLC needs it.

### StructuralIndex

| Variable | In the code |
|---|---|
| `disk` | the repository |
| `files`, `symbols`, `chunks` | the rows: the hash of each path, the versions its symbols and chunks were made from |
| `pc`, `mode`, `todo`, `listed`, `seen` | the walk under way: paths to look at, listed and not yet hashed, hashed |
| `scan`, `changed`, `deleted` | the first scan, the `FileChangePlan` |
| `parsed`, `chunked`, `errors` | what the parser and the chunker read of each file |
| `edits`, `between`, `quiet`, `faulted`, `suspect` | history: for the properties to say "unless" precisely |

| Steps | Code |
|---|---|
| `ListFile`, `HashFile`, `FileVanished` | `RepositoryScanner.scan` |
| `NoChanges`, `PlanIncremental`, `PlanFull` | `plan_file_changes` and the choice of the path |
| `ParseFile`, `EndParse`, `ChunkFile`, `Unprepared`, `Prepared` | `IndexingService.prepare_files` |
| `RepositoryChanged`, `Rechecked` | the second scan and `file_snapshot` |
| `ReplaceIndex`, `ApplyIncremental` | the rows; the comparison with the expected chunk ids |
| `Edit` | the user, at any moment |

The recheck compares hashes, so one edit between the two hashes of a file shows;
a file changed and changed back does not, and its rows may mix versions that no
later incremental run looks at. The code calls this "best-effort"
(`coordinator.py:794`); the properties except exactly the files edited twice
between the two hashes, and TLC finds torn rows when that exception is taken away.

Simplifications: a read of one file is atomic. Listing paths in any order covers
any directory layout. Versions stand for what parser and chunker make of a text:
`Bad` ones do not parse, `Blank` ones yield no chunk. `FileVanished` ends the run at
once; the code walks on, to the same end. Full or incremental is a free choice
once there is an index (identity, schema and vectors decide, in
`IndexActivation`). Embedding and staging between chunking and recheck touch no
variable here, and failures of a commit are `IndexActivation`'s.

### Navigation

| Variable | In the code |
|---|---|
| `tree` | the files of each project |
| `files`, `symbols` | `source_files` and `symbols` by row id, a symbol with its chunk |
| `view`, `loads`, `refreshes` | `project`, `files`, `symbols` of `App.tsx`; `loadProject` calls in flight; `refreshProjects` waiting for the list |
| `switchable` | the project switcher can be used: `projectLoading` is false, or its menu was open before that became true |
| `panel`, `busy`, `identifier` | the source drawer, `askState`, `documentationState`; their `loading`; the field of the documentation panel |
| `requests` | requests of the panels in flight, with what their handler has read so far |
| `runs`, `wanted`, `raced` | history |

| Steps | Code |
|---|---|
| `Reindex` (`FileRows`, `SymbolRows`, `Inserted`) | the transactions of a full and an incremental run: which rows keep their id, and which id a new row gets |
| `Refresh`, `Choose`, `LoadLists`, `LoadEnds`, `LoadFails` | `refreshProjects`, `ProjectSwitcher`, `loadProject`; the routes of files and symbols |
| `OpenSource`, `OpenRow`, `OpenBytes` | `openSource`; `source_content`: row, bytes, hash |
| `Ask`, `HydrateAnswer`, `HydrateFiles` | `ask`; `citation_chunks` |
| `DocumentSymbol`, `ResolveFiles`, `ResolveSymbols`, `ResolveChunks`, `HydrateDocumentation` | `documentSymbol`; `_targets` query by query, the syntax facts, the citation after the model's answer |
| `Reply`, `RequestFails`, `NewQuestion` | the answer is shown, whatever project the tab shows by then |

`loadProject` and the panels guard against nothing that arrives late, and ids are
sent back as they were received. The properties therefore say exactly under which
commits and loads the tab is right, and each exception is one that TLC needs:

* a file id survives incremental runs that keep the file, so the file opened is the
  one clicked; after a full run the same id may be another file of the project,
  and its text is shown under the citation's lines;
* the hash check shows no text but that of the row, so lines fit unless the row
  itself was updated since they were cited;
* symbols, chunks and files are read by separate queries, so a documented symbol can
  be resolved half before and half after a commit; the comparison with the syntax
  facts refuses a function of another name, but `source_file_hash` may then be older
  than the code;
* a load of a completed job may cross one that the user chose, through a menu that
  was open before; whichever answers last is shown. An answer whose request crossed
  a load is shown under whatever project is there.

Simplifications: one function has one chunk, and functions of one name one
signature, which makes the comparison with the facts weaker than it is.
Documentation of a name typed by hand resolves at the time of the request and
holds no id. A search is shown and cites as an ask does. A tab's lists of files and
symbols are read at one moment: a commit between the two makes some items older
than others, and a click is on one of them. What a run found changed since its
scan is an edit after it. A failed refresh of the project list is one that never
comes.

## 3. Runs

Passing runs:

| Run | Instance | Shows |
|---|---|---|
| `activation_safety` | 2 models, 5 generations (symmetric), 3 repository contents, 3 faults, 1 crash, 2 edits; 606 447 states | `TypeOK`, `CommittedIndexComplete`, `StoresAgreeOutsideGuard`, `NeverWedged`, `OneModelPerCollection`, `LeaksAreFaults`, `FailedRunKeepsIndex`, and the refinement `ServedIndexIsAtomic` |
| `activation_live` | 1 model, 2 faults, 1 crash, 1 edit; 403 767 states | `AlwaysEventuallyUpToDate` |
| `jobs_safety` | 3 requests, one of which finds no chunk, 2 faults, 1 crash; 357 513 states | `TypeOK`, `OneRunAtATime`, `OrphansAreFaults`, `PreservedIsTrue`, `CompletedIsServed`, `FinishedJobsSettle`, `IndexIsAtomic`, `JobsFinish`, `LockIsFreed` |
| `reads_safety` | 2 models, 3 generations (symmetric), 2 repository contents, 1 fault, 1 crash, 1 edit, one request of each kind after another; 5 422 000 states | `ReadTypeOK`, `ReadersNeverCreate`, `QueryInOwnModel`, `SearchedIndexWasServed`, `DetailIsOfOneIndex`, `InvalidNeedsActivation` |
| `vectors_safety` | 4 chunks, one of four lines, in batches of 3, 1 retry, parts of 2, 1 stale id, 3 models of two dimensions, 2 runs, 1 change of the server's model; 1 788 538 states | `TypeOK`, `SettledOnce`, `CompactionIsLongest`, `CompleteIsExact`, `CleanRunCompletes`, `OneDimension`, `NothingPartial`, `Ends` |
| `structure_safety` | 2 files (symmetric), 4 versions (one blank, one not Python), 3 runs, 3 edits; 4 923 024 states | `TypeOK`, `RowsAreOfTheirHash`, `CleanRunCatchesUp`, `IndexedSnapshotExisted` |
| `navigation_safety` | 2 projects of two files and one, 2 versions of one and two functions, 2 edits or re-indexes, 3 loads or requests; 3 419 403 states | `TypeOK`, `OpensWhatWasClicked`, `DocumentsItsEvidence`, `ShownBelongsTogether` |

Runs that TLC must find violated. Each states what a document, a message or a
comment of the repository says, and shows an execution of the code that does
otherwise:

| Run | Statement | What happens |
|---|---|---|
| `postcommit_read` | `docs/fastapi-backend.md:13`, "A handled preparation or activation failure keeps a previously complete index available" | `replace_project_index` reads the project back after `commit()` inside the `try` (`storage/sqlite.py:214`, `:323`). If that SELECT fails, the pointer is restored and the staged collection deleted although the row that names it is committed |
| `reindex_repairs` | `frontend/src/components/ErrorMessage.tsx:13`, "Re-index the repository to repair it" | after a crash between the first collection and its pointer, or between the pointer switch and the commit, every later run is refused with the same error |
| `lock_leak` | `api/runtime.py:216`, "Another indexing operation is already running" | the snapshot is taken before the `try` whose `finally` releases the lock; a storage error there ends the thread with the lock held |
| `reads_invalid` | `docs/final-demo-runbook.md:89`, `vector_index_state_invalid` means "Active vector-index state is incomplete or corrupt" | a search passes the guard just before a re-index begins, reads the old generation in the row and the new one in the pointer file, and is answered 409 `vector_index_state_invalid`; nothing is wrong and the next request succeeds |
| `preserved_nothing` | `frontend/src/components/ProjectSetup.tsx:147`, "Previous index remains available" | a row reserved by a first run that crashed has no generation, and `_snapshot_preserved` answers True for it, as it would for an index without chunks that the failed run had put in its place |

**Why the bounds are enough.** Three versions in three contents give every kind
of plan: nothing changed, a file added, deleted, modified, and both. Two models
give reuse and rebuild. Three faults allow a step to fail, its compensation to
fail and the clean-up of that to fail, or three successive runs to fail; five
generations hold the active, the staged and three leaked collections, so the
bound on `Gens` never blocks a run that the bound on faults permits. One crash
can come at each step, before or after faults. Three requests give a holder, a
refused one and a successor that inherits what the first left; any of them may be the
one that finds no chunk. The proofs (below)
do not depend on any of these bounds.

For `reads_safety`, one fault and one crash at any step cover a switch undone, a
first run given up, and a restart; one edit gives re-indexes that add or remove a
chunk, and a second model one that changes no row but every vector.

For `vectors_safety`, four chunks in batches of three give two batches, and splits of
uneven and of single groups; a chunk of four lines gives a bisection of two levels;
parts of two make a failure between parts possible, and a second run one that
finds what the first left. For `structure_safety`, three edits allow a file to be
changed and changed back while the other one changes, in one run of three. For
`navigation_safety`, an edit and a re-index, or two re-indexes, are what it takes to
move an id under a held one, and three calls are a load, a request and either a
crossing load or the opening of a citation; with each exception of the properties
removed TLC finds a violation within these bounds, but for the condition
`r.what.owner = r.project` (an id of one project sent for another), which needs
longer histories.

**Deadlock** is checked in the activation and reads runs: the worker always has a
step. In the others it is off: each request is made once, or runs, edits and calls
are bounded, and the system may then be quiet.

**Fairness.** `IndexActivation`: weak fairness of the worker thread (`Work`), and
of the user asking for another run after each one ends, which is the premise of
the liveness property ("if the user keeps re-indexing") and not a claim about
the code. Faults, crashes and edits are not fair, and bounded. `IndexJobs`: weak
fairness of each thread once its request is made (threads of a live process are
scheduled) and of `Restart` (someone restarts a server that died). Nobody is
obliged to make a request. `VectorIndexing`: weak fairness of the service's own
steps, since every call of a provider or store returns, raises or times out;
that `Ends` holds means the recursion, the bisection and the retries terminate. `Reads`,
`StructuralIndex` and `Navigation` have safety properties only, and no fairness.
Faults are alternatives of a step, so a fair thread may be faulted.

**Mutants.** For every property of a passing run `PROJECT.json` names a plausible
bug, written beside the action it mutates (comment "Mutant: ..."), for which
TLC finds the property violated in the same run: a guard dropped, an old
collection deleted before the commit, a failed commit without compensation, a
lock released twice or never, a snapshot written as the verdict.

## 4. Proofs

The proof modules extend the component's module, follow the same plan, and
assume only the named assumption on its constants (`ConstantsAssumption`: the
contents are sets of versions, `NoGen` and `NoModel` are not members, the bounds
are naturals; `RequestsAssumption`: the three markers are distinct and not
requests, which are finitely many and of which any may be `Empty`; `ParamsAssumption`: batches and parts are not empty, a provider takes at
most the lines a chunk has; `VersionsAssumption`: bad and blank versions are
versions, and none of them is `None`; `NavigationAssumption`: finitely many projects,
at least one, and finitely many paths, numbered in their order). The sets of versions, generations, models and requests and the
bounds on faults, crashes and edits are arbitrary.

### IndexActivationProofs

The safety invariants are not inductive: that the committed collection is
complete after `Switch` and `Commit` depends on what `StageFill` wrote, on `Fresh`
having kept the staged generation apart, and on what the run knows at each step.
`IInv` is a conjunction of named parts:

* `InvGuard`, `InvJob`, `InvRow`: where the guard is up, and how the row relates to
  the row and the scan of the run (the one found, one reserved, or the scan's);
* `Knowledge`, one part per stretch of the run: past the base check a committed
  index is the active one (`InvChecked`); the incremental path reuses the active
  collection, which holds the row's chunks under the run's model (`InvReuse`,
  `InvOpen`); the staged collection is live, not the active one, and once filled
  holds the scan (`InvStaging`, `InvFilled`); what the pointer and the row may
  name between switch and commit, after the commit, and during compensation
  (`InvSwitched`, `InvCommitted`, `InvRollback`, `InvDrop`); the half-made first
  index (`InvFirst`);
* `InvAgree`, `InvOpenable`: `StoresAgreeOutsideGuard` and `NeverWedged` extended to
  the control states where they are still true, which makes them inductive;
* `CommittedIndexComplete` and `OneModelPerCollection` themselves.

Each part has a lemma with one step per action (`StepControl`, `StepKnows`,
`StepAgrees`, `StepCompletes`, `StepMixesNoModels`); what a deletion that may
half-fail can do is stated once (`DeleteEffect`, `DeleteKeeps`). From `IInv`:

| Theorem | Property |
|---|---|
| `TypeCorrect` | `TypeOK` |
| `CommittedComplete` | `CommittedIndexComplete` |
| `StoresAgree` | `StoresAgreeOutsideGuard` |
| `CanBeIndexed` | `NeverWedged` |
| `OneModel` | `OneModelPerCollection` |
| `FailureKeepsIndex` | `FailedRunKeepsIndex` |
| `LeaksBounded` | `LeaksAreFaults` |
| `ActivationIsAtomic` | `ServedIndexIsAtomic`: the refinement of `AtomicIndex` |

The refinement is proved step by step: actions that leave the guard, the row and
what is served unchanged stutter (`ViewFrame`, `NoIndexFrame`), actions under the
guard are `Publish` or `Disturb` (`GuardedStep`), and `Begin` and `End` are `Raise`
and `Lower`; that nothing else disturbs the index outside the guard is where
`IInv` is needed.

`LeaksBounded` needs a bound for every step of a run (`LeaksPaid`): one collection
more is allowed while a candidate is pending. Every step keeps the collections,
drops the candidate, leaves one, or adds a candidate (`StepLeaves`), and a step that
leaves the pending ones with both collections suffers a fault or is the crash.

Four theorems say what a run comes to, without any fairness. They are together the
part of `AlwaysEventuallyUpToDate` that does not speak of ENABLED: what remains is
that a worker which is never stuck (no deadlock, checked by TLC) is scheduled.

* `RunsAreShort`: `StepsLeft` bounds what is left of a run, starts at 20 or less and
  falls with every step, whatever fails; the longest runs are those that a
  clean-up prolongs by opening the index once more.
* `SuccessServes`: `indexed` or `unchanged` means that what is served is complete and is
  what the run scanned.
* `RefusalsAreBroken`: a run is refused for its stores (`vector_index_state_invalid`)
  only if a compensation was defeated before; which ones those are, `broken` records.
* `UndisturbedGoesWell`: with no fault, no edit found by the recheck and no defeated
  compensation, no step makes a run fail (`ResultOf`, `NeverRefused`).

### IndexJobsProofs

`JInv` is `TypeOK`, `OneRunAtATime`, that no thread is left when the process is
down, and for every request what the thread that serves it knows: the index is
as it was found until the run publishes (`IndexAsFound`), the pointer is switched
before the commit, so that a run that may report success left a whole index
(`IndexAsLeft`), the snapshot and the verdict are not stale (`VerdictHolds`: what was
found is in service, or there was nothing and still is, `NothingLost`), the row is as the thread last wrote it (`RowAsWritten`).
The argument is ownership: only the holder of the lock changes the index
(`StepOwnsIndex`), so what others know stays true (`BystanderKnows`). From it:
`TypeCorrect`, `MutualExclusion` (`OneRunAtATime`), `PreservedVerdict`
(`PreservedIsTrue`), `CompletedServed` (`CompletedIsServed`), `FinishedSettle`
(`FinishedJobsSettle`) and `JobsAreAtomic` (`IndexIsAtomic`). `OrphansPaid`
(`OrphansAreFaults`) counts a job as lost as soon as its thread has only the release
left (`Lost`), because that is when the fault happened that lost it (`StepLoses`).
`RequestsAreShort`: a request and its job have at most 16 steps, each of their own
steps takes some, and no other request, crash or restart gives one back
(`BystanderAdvances` needs the lock: how long a run may last depends on whether
an index is there, which only the holder changes). It is what `JobsFinish` and
`LockIsFreed` rest on besides fairness.

### ReadsProofs

`RInv` is `IInv`, the properties below, and what a request knows at each of its
steps:

* `InvGenerations`: commits are not undone, and a committed project has a pointer;
  from the row on, a request that opens vectors knows a generation;
* `InvFreshStaging`: what is being staged is neither the generation the request
  read nor filled with a model before its metadata are set;
* `InvUntroubled`, `InvServed`: without a fault since the request began, whatever the
  pointer named after the match was committed since then, or is being committed
  (`Switching`), and becomes committed before the guard is lowered;
* `InvCounts`: while the row still names the generation read, all counts are of its
  rows; once another is committed the pointer never again names the one read, so
  the comparison fails;
* `InvOverlap`: without an activation since the request began, the row and the
  pointer still name the generation read.

The proof first states what a step of the indexing side can do to the row, the
pointer and the staged collection, whatever the step is (`Effects`, and `LivesOn`
for collections), and shows from that alone that it keeps what the request knows
(`StoreKeepsGenerations`, `StoreKeepsServed`, `StoreKeepsCounts`, `StoreKeepsOverlap`).
The request's own steps write neither store; each of the `ReaderKeeps` lemmas goes
through them once. A crash or the end of a request leads back to a state in which
nobody reads (`NobodyReads`).

| Theorem | Property |
|---|---|
| `ReadTypeCorrect` | `ReadTypeOK` |
| `ReadersCreateNothing` | `ReadersNeverCreate` |
| `QueriesOwnModel` | `QueryInOwnModel` |
| `SearchesWhatWasServed` | `SearchedIndexWasServed` |
| `DetailCountsOneIndex` | `DetailIsOfOneIndex` |
| `InvalidOnlyBesideActivation` | `InvalidNeedsActivation` |

### VectorIndexingProofs

For any number of chunks, any sizes of batches and parts, and any limits of the
provider. `AnswersArePaired` is about the operators alone: in whatever order an
honest server answers and whichever indexes it leaves out, each slot gets the
vector of its own text. `IInv` adds to `TypeOK` and `SettledOnce`:

* `InvStack`: the groups on the stack follow one another without a gap from the
  frontier to `next`; popping a group moves the frontier past it
  (`PopMovesFrontier`), splitting one leaves it (`SplitKeepsFrontier`);
* `InvSearch`: the bisection brackets the limit: what was found fits and is the
  best below `low`, everything above `high` is too long;
* `InvLongest`, `InvServed`, `InvErrors`, `InvClean`: what was kept is the most that
  fits; vectors are of the server's model; which errors name chunks; what stops a
  run nothing happened to;
* `InvMirror`: the parts upserted so far are in the collection, and after the
  deletion nothing else is.

| Theorem | Property |
|---|---|
| `TypeCorrect` | `TypeOK` |
| `EveryChunkOnce` | `SettledOnce` |
| `LongestText` | `CompactionIsLongest` |
| `CompleteIsComplete` | `CompleteIsExact` |
| `CleanRunRepairs` | `CleanRunCompletes` |
| `NeverMixed` | `OneDimension` |
| `AllOrNothing` | `NothingPartial` |

That a run terminates is proved too, for any sizes: `Left` is what there is still to
do, seven natural numbers (stage, chunks not settled, chunks not taken, size of the
group in hand, whether its bisection has begun, keeps not excluded, tries or parts
left); `RunsDescend` says that every step lowers one of them and no earlier one,
whatever fails or is retried, and `NoEndlessDescent` that this cannot go on forever
(the lexicographic product of well-founded orders, from the library). `Ends`
adds that the service is scheduled and always has a step, and stays with TLC.

### StructuralIndexProofs

For any paths and versions. `InvWindow` says of each file what the two hashes can
tell of the edits between them: none, and it is unchanged; one, and it differs
from what was hashed first; more, and nothing is known. `InvPlan` and
`InvPrepared` relate plan and reads to the scan, `InvQuiet` what a run without edits
and faults knows, `InvCascade` that chunks have a file row, `InvSuspect` that the
files excepted have one. A commit is examined once: the recheck shows that each
file edited at most once was not edited (`RecheckShows`), the delta gives the
expected chunks (`DeltaIsExpected`), so what is committed is the scan (`CommitsScan`);
all other steps leave the rows alone (`OtherSteps`).

| Theorem | Property |
|---|---|
| `TypeCorrect` | `TypeOK` |
| `RowsMatchHashes` | `RowsAreOfTheirHash` |
| `CleanRunsCatchUp` | `CleanRunCatchesUp` |
| `CommitsASnapshot` | `IndexedSnapshotExisted` |

### NavigationProofs

For any finite projects and files, any versions and functions in them, any
edits and any number of loads and requests. `NavigationRows` has what the tables
need, without induction: `InOrder` is a choice among the functions that list a set in
order, and one exists because the rank of an element (how many are not
after it) is injective into as many numbers as there are elements (`InOrderNumbers`).
From that, what `Inserted` appends (`InsertedRows`), that the file rows of a run are of
its project, one per path, with the recorded content, and that the rows it does not
remove keep id and path (`FileRowsOfRun`); that the symbols of a run point at them and the
others are as before (`SymbolRowsOfRun`).

The invariant has three parts, each inductive with those before it:

* `StoreOK`, `TabOK`: the tables and the tab keep their form (`Typed`); every step
  leaves the rows alone or is one run that replaces them (`Changes`, `StepChanges`);
* `Together`: what is not marked as crossed is of the project shown while no load is in
  flight, and a load nobody raced is the only one;
* `Held`: whatever is held anywhere (a list, a load in flight, the field, a panel, a
  request at each of its queries) is true of the tables *as far as the runs since
  it was taken allow*: `Kept` for id and path, `Untouched` for the content and the symbol.
  A longer history allows less, so a run makes nothing false (`StillHeld`), and it
  remains to show that what is taken is true when it is taken (`FreshItems`) and that
  each query hands on what it was given (`QueryHeld`, `EvidenceHeld`).

| Theorem | Property |
|---|---|
| `TypeCorrect` | `TypeOK` |
| `TogetherAlways` | `ShownBelongsTogether` |
| `OpensClicked` | `OpensWhatWasClicked` |
| `DocumentsEvidence` | `DocumentsItsEvidence` |

TLC checked the parts of the invariant on the instance of `navigation_safety` before
they were proved.

### Only model-checked

`AlwaysEventuallyUpToDate`, `JobsFinish`, `LockIsFreed` and `Ends`: liveness under
fairness, whose proofs need ENABLED, which the prover does not handle. The bounds on
steps above are the part of them that does not. Every other property of a passing run
is a theorem.

## 5. Not modelled

Listed with their reasons in `components` of `PROJECT.json`.

* **Evaluation** (`evaluation/`, `api/evaluation.py`, `demo.py`, `scripts/evaluation/`,
  `reports/`): about three quarters of the implementation's Python lines. Sequential programs
  that run offline over frozen questions and recorded answers and write reports.
  They keep no state that anything else changes, and what could be wrong in them
  is arithmetic and formatting, which their tests compare with recorded numbers.
  The parts of the system they exercise are the ones modelled here. The resumable
  runner of `scripts/evaluation` appends to one file, from one process.
* **Ranking** (`retrieval/hybrid.py`, focus, `rag/`): pure functions of what the reads
  returned. `Reads` leaves open which chunks they choose, so its properties hold for
  any ranking.
* **Parsing and chunking of a text, prompts, validation of generated text**: pure
  functions of one input. A version or a chunk stands for their result.
* **Provider and HTTP clients**: stateless; their errors are alternatives of the
  steps that call them, and the pairing of vectors with texts is in
  `VectorIndexing`.
* **Branches the application does not take**: the unmanaged branch of `_run_full`
  (282-289), and `IndexingService.index_repository`, the command line without vectors.
* **Web client**: settings, evaluation views, search panel (which is the ask panel
  with other text).

## 6. Running

    tlc -config IndexActivation_safety.cfg MCIndexActivation
    tlc -config IndexJobs_safety.cfg MCIndexJobs
    tlc -config Reads_safety.cfg MCReads
    tlc -config VectorIndexing_safety.cfg MCVectorIndexing
    tlc -config StructuralIndex_safety.cfg MCStructuralIndex
    tlc -config Navigation_safety.cfg MCNavigation
    tlapm IndexActivationProofs.tla
    tlapm IndexJobsProofs.tla
    tlapm ReadsProofs.tla
    tlapm VectorIndexingProofs.tla
    tlapm StructuralIndexProofs.tla
    tlapm NavigationRows.tla
    tlapm NavigationProofs.tla

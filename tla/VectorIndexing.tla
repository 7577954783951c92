--------------------------- MODULE VectorIndexing ---------------------------
(***************************************************************************)
(* VectorIndexingService: every chunk of a project is embedded by a remote  *)
(* provider, in batches that are split, compacted and retried, and then     *)
(* either handed to the coordinator, which stages a generation with it (see *)
(* IndexActivation), or mirrored into an unmanaged collection in place.     *)
(*                                                                          *)
(* One call of the provider or of the collection is one step; between two   *)
(* of them the server may begin to answer with another model.               *)
(***************************************************************************)
EXTENDS Naturals, Sequences, FiniteSets

CONSTANTS
  N,           \* chunks of the project, numbered in SQLite's order
  Lines,       \* lines of code of each chunk
  MaxLines,    \* at most
  Limits,      \* what the provider may take: lines of each chunk
  BatchSize, MaxRetries,
  PartSize,    \* CHROMA_UPSERT_BATCH_SIZE
  Stale,       \* ids an earlier run stored and SQLite no longer has
  Models,
  Dim,         \* dimensions of each model's vectors
  None,
  MaxRuns, MaxSwaps   \* bounds of this model

Chunks == 1..N
Ids    == Chunks \cup Stale

(* A text sent to the provider: a chunk's whole embedding text (keep = 0),   *)
(* or the head and tail of its code, keep lines in all.  A vector is known   *)
(* by the text it is of and the model that made it.                          *)
Texts   == [of : Ids, keep : 0..MaxLines]
Vectors == [text : Texts, model : Models]
Whole(c) == [of |-> c, keep |-> 0]

ASSUME ParamsAssumption ==
  /\ N \in Nat /\ MaxLines \in Nat /\ Lines \in [Chunks -> 1..MaxLines]
  /\ \A l \in Limits : l \in [Chunks -> Nat] /\ \A c \in Chunks : l[c] <= Lines[c]
  /\ BatchSize \in Nat \ {0} /\ PartSize \in Nat \ {0} /\ MaxRetries \in Nat
  /\ MaxRuns \in Nat /\ MaxSwaps \in Nat
  /\ Dim \in [Models -> Nat \ {0}]
  /\ IsFiniteSet(Stale) /\ Stale \cap Chunks = {}
  /\ None \notin Models \cup Vectors

VARIABLES
  caller,     \* "coordinator": prepare_chunks; "project": index_project
  identity,   \* the model of the service's embedding identity, if it has one
  limit,      \* lines of each chunk the provider takes; all: the whole text
  serving,    \* the model the provider's server answers with
  pc,
  next,       \* first chunk of the next batch
  stack,      \* the batches the recursion has yet to embed, the first on top
  attempt,    \* of the call under way
  search,     \* the bisection for the longest text the provider takes
  embedded, truncated, errors,
  index,      \* the collection: a vector, or None, for each id
  metadata,   \* the identity the collection's metadata names
  existing,   \* ids listed before the upsert
  sent,       \* records upserted
  report,     \* the VectorIndexingResult
  spoiled,    \* history: a call of this run failed for good, or the server changed
  runs, swaps

given     == <<caller, identity, limit>>
batches   == <<next, stack, attempt, search>>
prepared  == <<embedded, truncated, errors>>
collection == <<index, metadata>>
mirroring == <<existing, sent, report>>
history   == <<spoiled, runs, swaps>>
vars == <<given, serving, pc, batches, prepared, collection, mirroring, history>>

NoSearch == [low |-> 1, high |-> 0, best |-> None]
Nothing  == [complete |-> FALSE, ids |-> {}]

(* A run starts with its provider configured as its identity says; the       *)
(* coordinator always gives one.                                             *)
Configured(i, m) ==
  /\ i \in Models \cup {None} /\ m \in Models
  /\ i \in {m, None} /\ (caller = "coordinator" => i # None)

Identity(m, width) == [model |-> m, dimensions |-> width]

(* The coordinator's service has no collection; a project's is new or        *)
(* mirrors an earlier snapshot of the repository.                            *)
Init ==
  /\ caller \in {"coordinator", "project"}
  /\ \E i \in Models \cup {None}, m \in Models :
       Configured(i, m) /\ identity = i /\ serving = m
  /\ limit \in Limits
  /\ \/ index = [i \in Ids |-> None] /\ metadata = None
     \/ \E m \in Models :
          /\ caller = "project"
          /\ index = [i \in Ids |-> IF i \in Stale THEN [text |-> Whole(i), model |-> m] ELSE None]
          /\ metadata = IF identity # None THEN Identity(m, Dim[m]) ELSE None
  /\ pc = "embed" /\ next = 1 /\ stack = <<>> /\ attempt = 0 /\ search = NoSearch
  /\ embedded = <<>> /\ truncated = {} /\ errors = {}
  /\ existing = {} /\ sent = 0 /\ report = Nothing
  /\ spoiled = FALSE /\ runs = 1 /\ swaps = 0

Goto(from, to) == pc = from /\ pc' = to

-----------------------------------------------------------------------------
(* The answer to a batch: one record for each text, in any order; a record   *)
(* names its text by index, or leaves the index out (0).                     *)

Orders(n) == {p \in [1..n -> 1..n] : \A j, k \in 1..n : p[j] = p[k] => j = k}

(* A server that leaves out some indexes answers those texts in order.       *)
Reply(order, omitted) ==
  [k \in DOMAIN order |-> [index |-> IF k \in omitted THEN 0 ELSE order[k], of |-> order[k]]]

Replies(n) ==
  {data \in {Reply(order, omitted) : order \in Orders(n), omitted \in SUBSET (1..n)} :
     \A j, k \in 1..n : j < k /\ data[j].index = 0 /\ data[k].index = 0
                          => data[j].of < data[k].of}

Rank(S, x) == Cardinality({y \in S : y <= x})

(* Mutant: the records are taken in the order they came.                     *)
OrderedVectorsAsSent(data) == [i \in DOMAIN data |-> data[i].of]

(* _ordered_vectors: the text whose vector each slot gets.  The records      *)
(* without an index fill the remaining slots in the order they came.         *)
OrderedVectors(data) ==
  LET slots     == DOMAIN data
      missing   == {k \in slots : data[k].index = 0}
      remaining == {i \in slots : \A k \in slots : data[k].index # i}
  IN  [i \in slots |->
         IF i \in remaining
         THEN data[CHOOSE k \in missing : Rank(missing, k) = Rank(remaining, i)].of
         ELSE data[CHOOSE k \in slots : data[k].index = i].of]

(* The provider takes a text that is not longer than its context.            *)
Fits(t) == IF t.keep = 0 THEN limit[t.of] = Lines[t.of] ELSE t.keep <= limit[t.of]

-----------------------------------------------------------------------------
(* _embed_batch: the recursion, as the groups it has yet to visit            *)

Group(lo, hi) == [lo |-> lo, hi |-> hi]
Top     == Head(stack)
Members == Top.lo..Top.hi
Size    == Top.hi - Top.lo + 1
AllFit  == \A c \in Members : Fits(Whole(c))

Record(c, text) == [chunk |-> c, vector |-> [text |-> text, model |-> serving]]

Error(stage, chunks, type) == [stage |-> stage, chunks |-> chunks, type |-> type]
Failed(stage, chunks, type) == errors' = errors \cup {Error(stage, chunks, type)}

Settled ==
  /\ stack' = Tail(stack) /\ attempt' = 0 /\ search' = NoSearch
  /\ UNCHANGED next

OutsideBatches == <<given, runs, swaps>>
OutsideCalls   == <<OutsideBatches, serving, collection, mirroring>>

TakeBatch ==
  LET last == IF next + BatchSize - 1 < N THEN next + BatchSize - 1 ELSE N
  IN  /\ Goto("embed", "embed")
      /\ stack = <<>> /\ next <= N
      /\ stack' = <<Group(next, last)>> /\ next' = last + 1
      /\ UNCHANGED <<OutsideCalls, attempt, search, prepared, spoiled>>

(* The coordinator's progress callback, called after each batch, raises.     *)
ProgressFails ==
  /\ Goto("embed", "done")
  /\ caller = "coordinator" /\ stack = <<>> /\ next > 1
  /\ spoiled' = TRUE
  /\ UNCHANGED <<OutsideCalls, batches, prepared>>

(* embed_texts succeeds: zip(chunks, results, strict=True).                  *)
Embed ==
  /\ Goto("embed", "embed")
  /\ stack # <<>> /\ AllFit
  /\ \E data \in Replies(Size) :
       embedded' = embedded \o
         [i \in 1..Size |-> Record(Top.lo + i - 1, Whole(Top.lo + OrderedVectors(data)[i] - 1))]
  /\ Settled
  /\ UNCHANGED <<OutsideCalls, truncated, errors, spoiled>>

Halves(g) ==
  LET mid == g.lo + (g.hi - g.lo + 1) \div 2
  IN  <<Group(g.lo, mid - 1), Group(mid, g.hi)>>

Split ==
  /\ Goto("embed", "embed")
  /\ stack # <<>> /\ ~AllFit /\ Size > 1
  /\ stack' = Halves(Top) \o Tail(stack)
  /\ attempt' = 0
  /\ UNCHANGED <<OutsideCalls, next, search, prepared, spoiled>>

(* Mutant: one try too many.                                                 *)
RetryOnceMore ==
  /\ pc \in {"embed", "compact"} /\ pc' = pc
  /\ stack # <<>> /\ (pc = "compact" => search.low <= search.high)
  /\ attempt <= MaxRetries
  /\ attempt' = attempt + 1
  /\ UNCHANGED <<OutsideCalls, next, stack, search, prepared, spoiled>>

(* _embed_with_retry: a connection that failed or timed out is tried again.  *)
Retry ==
  /\ pc \in {"embed", "compact"} /\ pc' = pc
  /\ stack # <<>> /\ (pc = "compact" => search.low <= search.high)
  /\ attempt < MaxRetries
  /\ attempt' = attempt + 1
  /\ UNCHANGED <<OutsideCalls, next, stack, search, prepared, spoiled>>

(* The last try fails, or a try fails in a way that is not tried again: the  *)
(* whole group is one error.                                                 *)
GiveUp ==
  /\ pc \in {"embed", "compact"} /\ pc' = "embed"
  /\ stack # <<>> /\ (pc = "compact" => search.low <= search.high)
  /\ Failed("embedding", Members, "ProviderError")
  /\ Settled
  /\ spoiled' = TRUE
  /\ UNCHANGED <<OutsideCalls, embedded, truncated>>

-----------------------------------------------------------------------------
(* _embed_compacted_lines: bisection for the most lines the provider takes   *)

Keep == (search.low + search.high) \div 2
Candidate == [of |-> Top.lo, keep |-> Keep]

Searching(from, to) == Goto(from, to) /\ stack # <<>>

StartCompaction ==
  /\ Searching("embed", "compact")
  /\ ~AllFit /\ Size = 1
  /\ search' = [low  |-> 1,
                high |-> IF Lines[Top.lo] > 1 THEN Lines[Top.lo] - 1 ELSE 1,
                best |-> None]
  /\ attempt' = 0
  /\ UNCHANGED <<OutsideCalls, next, stack, prepared, spoiled>>

(* Mutant: what fitted is not searched above.                                *)
CandidateFitsLast ==
  /\ Searching("compact", "compact")
  /\ search.low <= search.high /\ Fits(Candidate)
  /\ search' = [low |-> Keep + 1, high |-> Keep, best |-> Record(Top.lo, Candidate).vector]
  /\ attempt' = 0
  /\ UNCHANGED <<OutsideCalls, next, stack, prepared, spoiled>>

(* Mutant: what fitted is tried again.                                       *)
CandidateFitsAgain ==
  /\ Searching("compact", "compact")
  /\ search.low <= search.high /\ Fits(Candidate)
  /\ search' = [search EXCEPT !.low = Keep, !.best = Record(Top.lo, Candidate).vector]
  /\ attempt' = 0
  /\ UNCHANGED <<OutsideCalls, next, stack, prepared, spoiled>>

CandidateFits ==
  /\ Searching("compact", "compact")
  /\ search.low <= search.high /\ Fits(Candidate)
  /\ search' = [search EXCEPT !.low = Keep + 1, !.best = Record(Top.lo, Candidate).vector]
  /\ attempt' = 0
  /\ UNCHANGED <<OutsideCalls, next, stack, prepared, spoiled>>

CandidateTooLong ==
  /\ Searching("compact", "compact")
  /\ search.low <= search.high /\ ~Fits(Candidate)
  /\ search' = [search EXCEPT !.high = Keep - 1]
  /\ attempt' = 0
  /\ UNCHANGED <<OutsideCalls, next, stack, prepared, spoiled>>

Compacted ==
  /\ Searching("compact", "embed")
  /\ search.low > search.high /\ search.best # None
  /\ embedded' = Append(embedded, [chunk |-> Top.lo, vector |-> search.best])
  /\ truncated' = truncated \cup {Top.lo}
  /\ Settled
  /\ UNCHANGED <<OutsideCalls, errors, spoiled>>

NotCompactable ==
  /\ Searching("compact", "embed")
  /\ search.low > search.high /\ search.best = None
  /\ Failed("embedding", Members, "InputTooLong")
  /\ Settled
  /\ UNCHANGED <<OutsideCalls, embedded, truncated, spoiled>>

-----------------------------------------------------------------------------
(* prepare_chunks and _embed: what the batches come to                       *)

VectorOf(k)  == embedded[k].vector
Width(v)     == Dim[v.model]
Widths       == {Width(VectorOf(k)) : k \in DOMAIN embedded}
DimensionsDiffer == \E v, w \in Widths : v # w

AfterBatches == stack = <<>> /\ next > N

(* With an identity the vectors must have one dimension.                     *)
CheckDimensions ==
  /\ Goto("embed", "prepared")
  /\ AfterBatches
  /\ errors' = errors \cup IF identity # None /\ DimensionsDiffer
                           THEN {Error("vector", {}, "DimensionMismatch")} ELSE {}
  /\ UNCHANGED <<OutsideCalls, batches, embedded, truncated, spoiled>>

(* The coordinator raises on any error and stages the records otherwise.     *)
HandOver ==
  /\ Goto("prepared", "done")
  /\ caller = "coordinator"
  /\ report' = IF errors = {} THEN [complete |-> TRUE, ids |-> {embedded[k].chunk : k \in DOMAIN embedded}]
               ELSE Nothing
  /\ UNCHANGED <<OutsideBatches, serving, batches, prepared, collection, existing, sent, spoiled>>

-----------------------------------------------------------------------------
(* index_project on an unmanaged collection                                  *)

Stored == {i \in Ids : index[i] # None}

OutsideIndex == <<OutsideBatches, serving, batches, embedded, truncated>>

ReportFailure ==
  /\ Goto("prepared", "relist")
  /\ caller = "project" /\ errors # {}
  /\ UNCHANGED <<OutsideIndex, errors, collection, mirroring, spoiled>>

(* Mutant: what could be embedded is indexed.                                *)
ListExistingAnyway ==
  /\ Goto("prepared", "upsert")
  /\ caller = "project"
  /\ existing' = Stored
  /\ UNCHANGED <<OutsideIndex, errors, collection, sent, report, spoiled>>

ListExisting ==
  /\ Goto("prepared", "upsert")
  /\ caller = "project" /\ errors = {}
  /\ existing' = Stored
  /\ UNCHANGED <<OutsideIndex, errors, collection, sent, report, spoiled>>

(* Mutant: the stored vectors are not looked at.                             *)
RefusedAlone == embedded # <<>> /\ DimensionsDiffer

(* upsert refuses vectors of several dimensions, and of another dimension    *)
(* than the stored ones.                                                     *)
Refused == embedded # <<>> /\ (DimensionsDiffer \/ \E i \in Stored : Width(index[i]) \notin Widths)

UpsertRefused ==
  /\ Goto("upsert", "relist")
  /\ sent = 0 /\ Refused
  /\ Failed("vector", {}, "VectorIndexError")
  /\ UNCHANGED <<OutsideIndex, collection, mirroring, spoiled>>

(* One call of Chroma for each part.                                         *)
UpsertPart ==
  LET last == IF sent + PartSize < Len(embedded) THEN sent + PartSize ELSE Len(embedded)
      part == (sent + 1)..last
  IN  /\ Goto("upsert", "upsert")
      /\ sent < Len(embedded) /\ (sent = 0 => ~Refused)
      /\ index' = [i \in Ids |->
                     IF \E k \in part : embedded[k].chunk = i
                     THEN VectorOf(CHOOSE k \in part : embedded[k].chunk = i) ELSE index[i]]
      /\ sent' = last
      /\ UNCHANGED <<OutsideIndex, errors, metadata, existing, report, spoiled>>

(* Mutant: stale ids stay.                                                   *)
DeleteNothing ==
  /\ Goto("upsert", "list")
  /\ sent = Len(embedded)
  /\ UNCHANGED <<OutsideIndex, errors, collection, mirroring, spoiled>>

DeleteStale ==
  /\ Goto("upsert", "list")
  /\ sent = Len(embedded)
  /\ index' = [i \in Ids |-> IF i \in existing \ Chunks THEN None ELSE index[i]]
  /\ UNCHANGED <<OutsideIndex, errors, metadata, mirroring, spoiled>>

(* list_ids, the comparison with SQLite's ids, and whether metadata follows. *)
Compare ==
  /\ pc = "list"
  /\ errors' = errors \cup IF Stored = Chunks THEN {} ELSE {Error("vector", {}, "IncompleteIndex")}
  /\ report' = [report EXCEPT !.ids = Stored]
  /\ pc' = IF errors' = {} /\ identity # None /\ embedded # <<>> THEN "metadata" ELSE "report"
  /\ UNCHANGED <<OutsideIndex, collection, existing, sent, spoiled>>

(* Mutant: metadata is written to a new collection only.                     *)
SetMetadataOnce ==
  /\ Goto("metadata", "report")
  /\ metadata' = IF metadata = None THEN Identity(identity, CHOOSE w \in Widths : TRUE) ELSE metadata
  /\ UNCHANGED <<OutsideIndex, errors, index, mirroring, spoiled>>

SetMetadata ==
  /\ Goto("metadata", "report")
  /\ \E w \in Widths : metadata' = Identity(identity, w)
  /\ UNCHANGED <<OutsideIndex, errors, index, mirroring, spoiled>>

(* A call of the collection fails.  What it had done by then is what the     *)
(* same state after the call shows.                                          *)
StoreFails ==
  /\ \/ Goto("prepared", "relist") /\ caller = "project" /\ errors = {}
     \/ Goto("upsert", "relist")
     \/ Goto("list", "relist")
     \/ Goto("metadata", "report")
  /\ Failed("vector", {}, "VectorIndexError")
  /\ spoiled' = TRUE
  /\ UNCHANGED <<OutsideIndex, collection, mirroring>>

(* _current_ids, after an error.                                             *)
Relist ==
  /\ Goto("relist", "report")
  /\ report' = [report EXCEPT !.ids = Stored]
  /\ UNCHANGED <<OutsideIndex, errors, collection, existing, sent, spoiled>>

RelistFails ==
  /\ Goto("relist", "report")
  /\ Failed("vector", {}, "VectorIndexError")
  /\ spoiled' = TRUE
  /\ UNCHANGED <<OutsideIndex, collection, mirroring>>

(* _result.                                                                  *)
Report ==
  /\ Goto("report", "done")
  /\ report' = [report EXCEPT !.complete =
                  errors = {} /\ Len(embedded) = N /\ report.ids = Chunks]
  /\ UNCHANGED <<OutsideIndex, errors, collection, existing, sent, spoiled>>

-----------------------------------------------------------------------------
(* Around the service                                                        *)

(* The server begins to answer with another model.                           *)
Swap ==
  /\ pc \in {"embed", "compact"} /\ swaps < MaxSwaps
  /\ serving' \in Models \ {serving}
  /\ swaps' = swaps + 1 /\ spoiled' = TRUE
  /\ UNCHANGED <<given, pc, batches, prepared, collection, mirroring, runs>>

(* The same chunks are indexed again, under the same or another model.  A    *)
(* later run of the coordinator is a run of its own: it keeps nothing here.  *)
Rerun ==
  /\ Goto("done", "embed") /\ runs < MaxRuns
  /\ caller = "project"
  /\ Configured(identity', serving')
  /\ next' = 1 /\ stack' = <<>> /\ attempt' = 0 /\ search' = NoSearch
  /\ embedded' = <<>> /\ truncated' = {} /\ errors' = {}
  /\ existing' = {} /\ sent' = 0 /\ report' = Nothing
  /\ spoiled' = FALSE /\ runs' = runs + 1
  /\ UNCHANGED <<caller, limit, collection, swaps>>

Step ==
  \/ TakeBatch \/ ProgressFails \/ Embed \/ Split \/ Retry \/ GiveUp
  \/ StartCompaction \/ CandidateFits \/ CandidateTooLong \/ Compacted \/ NotCompactable
  \/ CheckDimensions \/ HandOver \/ ReportFailure
  \/ ListExisting \/ UpsertRefused \/ UpsertPart \/ DeleteStale \/ Compare \/ SetMetadata
  \/ StoreFails \/ Relist \/ RelistFails \/ Report

Next == Step \/ Swap \/ Rerun

Spec == Init /\ [][Next]_vars

(* Each call returns or times out, so the service goes on.                   *)
FairSpec == Spec /\ WF_vars(Step)

-----------------------------------------------------------------------------
(* Properties                                                                *)

EmbeddedChunks == {embedded[k].chunk : k \in DOMAIN embedded}
FailedChunks   == UNION {e.chunks : e \in {x \in errors : x.stage = "embedding"}}

(* The first chunk the batches have not yet dealt with.                      *)
Frontier == IF stack = <<>> THEN next ELSE Top.lo

(* Whatever is split, compacted, retried or given up, in any order, each     *)
(* chunk before the frontier is embedded once, in SQLite's order and with    *)
(* the vector of its own text, or reported as failed, and none after it is   *)
(* (vectors.py:181-222).                                                     *)
SettledOnce ==
  /\ \A j, k \in DOMAIN embedded : j < k => embedded[j].chunk < embedded[k].chunk
  /\ \A k \in DOMAIN embedded : VectorOf(k).text.of = embedded[k].chunk
  /\ EmbeddedChunks \cap FailedChunks = {}
  /\ EmbeddedChunks \cup FailedChunks = 1..(Frontier - 1)

(* A chunk is embedded whole if the provider takes it whole, else with the   *)
(* most lines it takes; "too long" is reported of a chunk only if it takes   *)
(* none (vectors.py:224-284).                                                *)
CompactionIsLongest ==
  /\ \A k \in DOMAIN embedded :
       LET c    == embedded[k].chunk
           keep == VectorOf(k).text.keep
       IN  IF c \in truncated THEN 0 < keep /\ keep = limit[c] /\ keep < Lines[c]
                              ELSE keep = 0 /\ limit[c] = Lines[c]
  /\ \A e \in errors : e.type = "InputTooLong" => \A c \in e.chunks : limit[c] = 0

Groups     == [lo : Chunks, hi : Chunks]
Searches   == [low : Nat, high : Nat, best : Vectors \cup {None}]
Items      == [chunk : Chunks, vector : Vectors]
Errors     == [stage : {"embedding", "vector"}, chunks : SUBSET Chunks,
               type : {"ProviderError", "InputTooLong", "DimensionMismatch",
                       "VectorIndexError", "IncompleteIndex"}]
Identities == [model : Models, dimensions : Nat]
Reports    == [complete : BOOLEAN, ids : SUBSET Ids]

TypeOK ==
  /\ caller \in {"coordinator", "project"} /\ identity \in Models \cup {None}
  /\ limit \in Limits /\ serving \in Models
  /\ pc \in {"embed", "compact", "prepared", "upsert", "list", "metadata", "relist", "report", "done"}
  /\ next \in 1..(N + 1) /\ attempt \in 0..MaxRetries
  /\ stack \in Seq(Groups) /\ search \in Searches
  /\ embedded \in Seq(Items) /\ truncated \subseteq Chunks /\ errors \subseteq Errors
  /\ index \in [Ids -> Vectors \cup {None}] /\ metadata \in Identities \cup {None}
  /\ existing \subseteq Ids /\ sent \in Nat /\ report \in Reports
  /\ spoiled \in BOOLEAN /\ runs \in Nat /\ swaps \in Nat

(* What a run calls complete is complete: no error, exactly SQLite's ids,    *)
(* every vector of its own chunk's text and of one dimension, and the        *)
(* metadata of the run's identity, unless the server changed under it        *)
(* (vectors.py:153-168, 336-369).                                            *)
CompleteIsExact ==
  pc = "done" /\ report.complete =>
    /\ errors = {} /\ EmbeddedChunks = Chunks /\ report.ids = Chunks
    /\ caller = "project" =>
         /\ Stored = Chunks
         /\ \A c \in Chunks : \E k \in DOMAIN embedded : embedded[k].chunk = c /\ index[c] = VectorOf(k)
         /\ ~DimensionsDiffer
         /\ identity # None /\ N > 0 => \E w \in Widths : metadata = Identity(identity, w)
    /\ ~spoiled => \A k \in DOMAIN embedded : VectorOf(k).model = serving

(* Whatever earlier runs left half done, a run none of whose calls fails for *)
(* good repairs, unless a chunk cannot be embedded at all or the collection  *)
(* holds vectors of another dimension.                                       *)
CleanRunCompletes ==
  pc = "done" /\ ~spoiled =>
    \/ report.complete
    \/ \E c \in Chunks : limit[c] = 0
    \/ caller = "project" /\ \E i \in Stored : Width(index[i]) # Dim[serving]

(* A collection never mixes dimensions, not even after a run that failed     *)
(* between two parts (chroma.py:107, 593).                                   *)
OneDimension == \A i, j \in Stored : Width(index[i]) = Width(index[j])

(* All embeddings are made before the collection is touched: a step that     *)
(* changes it, or hands the vectors over, has every chunk embedded and no    *)
(* error of an embedding (reliable-indexing-report.md:46).                   *)
NothingPartial ==
  [][(collection' # collection \/ report'.complete # report.complete) /\ pc # "done" =>
       EmbeddedChunks = Chunks /\ \A e \in errors : e.stage # "embedding"]_vars

(* A run ends, whatever fails.                                               *)
Ends == pc # "done" ~> pc = "done"
=============================================================================

------------------------------ MODULE Reads ------------------------------
(***************************************************************************)
(* An HTTP request that reads one repository's index, in several steps,     *)
(* while IndexActivation replaces it: project detail, search and ask.  Each *)
(* step is one SELECT, one look at the activation guard, one read of the    *)
(* pointer file or one Chroma call; nothing holds the two stores still in   *)
(* between, and an embedding or an answer may take minutes.                 *)
(*                                                                          *)
(* A request shares nothing with another one and writes nothing, so one     *)
(* reader serving one request after another is enough.  An ask is the       *)
(* search of its method, a wait for the language model and a smaller set of *)
(* hits to cite.                                                            *)
(***************************************************************************)
EXTENDS IndexActivation

VARIABLES
  rpc,       \* the request's next step
  req,       \* its kind and embedding identity; the generation its row named
  aimed,     \* the generation the pointer file named, the collection not yet got
  opened,    \* the collection object the request's ChromaVectorIndex caches
  hits,      \* chunks read or found
  pending,   \* semantic hits not yet looked up in SQLite
  seen,      \* detail: the repository contents its counts were taken from
  answer,
  served,    \* history: the generations committed since the request began
  overlap    \* history: an activation held the guard since then

held    == <<req, aimed, opened, hits, pending, seen>>
history == <<served, overlap>>
reader  == <<rpc, held, answer, history>>
readVars == <<vars, reader>>

Semantic == {"semantic", "hybrid"}
Kinds    == {"detail", "lexical"} \cup Semantic

IdleRequest == [kind |-> "detail", model |-> NoModel, gen |-> NoGen, faults |-> 0]
Requests    == [kind : Kinds, model : Models \cup {NoModel}, gen : Gens \cup {NoGen},
                faults : 0..MaxFaults]

Idle ==
  /\ rpc = "idle" /\ req = IdleRequest
  /\ aimed = NoGen /\ opened = NoGen
  /\ hits = {} /\ pending = {} /\ seen = {}
  /\ answer = "none"
  /\ served = {} /\ overlap = FALSE

Forgotten ==
  /\ rpc' = "idle" /\ req' = IdleRequest
  /\ aimed' = NoGen /\ opened' = NoGen
  /\ hits' = {} /\ pending' = {} /\ seen' = {}
  /\ answer' = "none"
  /\ served' = {} /\ overlap' = FALSE

ReadInit == Init /\ Idle

-----------------------------------------------------------------------------
(* Steps of a request; they change neither store                            *)

RGoto(from, to) == rpc = from /\ rpc' = to

Reply(from, what) ==
  /\ RGoto(from, "answered")
  /\ answer' = what
  /\ UNCHANGED <<held, history>>

(* Only a search by vectors has an embedding identity.                      *)
Ask(kind, m) ==
  /\ RGoto("idle", "guard")
  /\ m = NoModel <=> kind \notin Semantic
  /\ req' = [kind |-> kind, model |-> m, gen |-> NoGen, faults |-> faults]
  /\ served' = {row.gen} /\ overlap' = guard
  /\ UNCHANGED <<aimed, opened, hits, pending, seen, answer>>

(* require_project, first part: the guard, under _activation_lock.          *)
Refused == guard /\ Reply("guard", "in progress")

Admitted ==
  /\ RGoto("guard", "row")
  /\ ~guard
  /\ UNCHANGED <<held, answer, history>>

(* Mutant: the vector store is opened for a project without a generation.   *)
ReadRowUnchecked ==
  /\ RGoto("row", CASE req.kind = "detail"  -> "files"
                    [] req.kind = "lexical" -> "scan"
                    [] OTHER                -> "point")
  /\ row.exists
  /\ req' = [req EXCEPT !.gen = row.gen]
  /\ UNCHANGED <<aimed, opened, hits, pending, seen, answer, history>>

(* require_project, second part: get_project.  Vectors need a generation.   *)
ReadRow ==
  /\ RGoto("row", CASE req.kind = "detail"  -> "files"
                    [] req.kind = "lexical" -> "scan"
                    [] OTHER                -> "point")
  /\ row.exists
  /\ req.kind \in Semantic => row.gen # NoGen
  /\ req' = [req EXCEPT !.gen = row.gen]
  /\ UNCHANGED <<aimed, opened, hits, pending, seen, answer, history>>

NeverIndexed ==
  /\ row.exists /\ row.gen = NoGen /\ req.kind \in Semantic
  /\ Reply("row", "invalid")

(* A record that is gone, or an error of the storage, of the pointer file,  *)
(* of Chroma or of a provider, whatever its code: 404, 409, 500 or 502.     *)
RequestFails ==
  /\ rpc \notin {"idle", "answered"}
  /\ rpc' = "answered" /\ answer' = "failed"
  /\ UNCHANGED <<held, history>>

-----------------------------------------------------------------------------
(* Project detail: counts from SQLite                                       *)

CountFiles ==
  /\ RGoto("files", "symbols")
  /\ seen' = {row.chunks}
  /\ UNCHANGED <<req, aimed, opened, hits, pending, answer, history>>

(* One SELECT for each file found.                                          *)
CountSymbols ==
  /\ RGoto("symbols", "symbols") \/ RGoto("symbols", "chunks")
  /\ seen' = seen \cup {row.chunks}
  /\ UNCHANGED <<req, aimed, opened, hits, pending, answer, history>>

(* list_chunks; without a generation there is nothing to compare.           *)
CountChunks ==
  /\ IF req.gen # NoGen
     THEN RGoto("chunks", "point") /\ UNCHANGED answer
     ELSE RGoto("chunks", "answered") /\ answer' = "incomplete"
  /\ seen' = seen \cup {row.chunks} /\ hits' = row.chunks
  /\ UNCHANGED <<req, aimed, opened, pending, history>>

-----------------------------------------------------------------------------
(* Opening the managed index: once to compare generations, and once more,   *)
(* by another ChromaVectorIndex, to use it                                  *)

ReadPointer ==
  /\ RGoto("point", "get") \/ RGoto("point again", "get again")
  /\ aimed' = pointer
  /\ UNCHANGED <<req, opened, hits, pending, seen, answer, history>>

(* get_collection by the name the pointer file had.                         *)
GetCollection ==
  /\ RGoto("get", "match")
  /\ IsLive(aimed)
  /\ opened' = aimed /\ aimed' = NoGen
  /\ UNCHANGED <<req, hits, pending, seen, answer, history>>

CollectionGone ==
  /\ ~IsLive(aimed)
  /\ Reply("get", "invalid") \/ Reply("get again", "invalid")

AfterMatch == IF req.kind = "hybrid" THEN "scan" ELSE "point again"

(* Mutant: opening the index is taken for agreement.                        *)
OpenedIsEnough ==
  /\ RGoto("match", AfterMatch)
  /\ UNCHANGED <<held, answer, history>>

(* active_generation reads the pointer file once more.                      *)
GenerationMatches ==
  /\ RGoto("match", AfterMatch)
  /\ pointer = req.gen
  /\ UNCHANGED <<held, answer, history>>

GenerationDiffers ==
  /\ pointer # req.gen
  /\ Reply("match", IF req.kind = "detail" THEN "incomplete" ELSE "invalid")

(* list_ids: get_collection, then its ids.                                  *)
GetForListing ==
  /\ RGoto("get again", "list")
  /\ req.kind = "detail" /\ IsLive(aimed)
  /\ opened' = aimed /\ aimed' = NoGen
  /\ UNCHANGED <<req, hits, pending, seen, answer, history>>

ListIds ==
  /\ IsLive(opened)
  /\ Reply("list", IF Ids(opened) = hits THEN "complete" ELSE "incomplete")

-----------------------------------------------------------------------------
(* Search and ask                                                           *)

(* LexicalRetriever: get_project, then list_chunks; any of them may match.  *)
Scan ==
  /\ RGoto("scan", IF req.kind = "hybrid" THEN "point again" ELSE "cite guard")
  /\ row.exists
  /\ hits' \in SUBSET row.chunks
  /\ UNCHANGED <<req, aimed, opened, pending, seen, answer, history>>

(* Mutant: the identity recorded with the collection is not compared.       *)
GetForQueryAnyModel ==
  /\ RGoto("get again", "query")
  /\ req.kind \in Semantic /\ IsLive(aimed)
  /\ opened' = aimed /\ aimed' = NoGen
  /\ UNCHANGED <<req, hits, pending, seen, answer, history>>

(* _validate_embedding_identity, on the metadata of the collection got.     *)
GetForQuery ==
  /\ RGoto("get again", "query")
  /\ req.kind \in Semantic /\ IsLive(aimed)
  /\ colls[aimed].model = req.model
  /\ opened' = aimed /\ aimed' = NoGen
  /\ UNCHANGED <<req, hits, pending, seen, answer, history>>

OtherModel ==
  /\ req.kind \in Semantic /\ IsLive(aimed) /\ colls[aimed].model # req.model
  /\ Reply("get again", "mismatch")

(* Mutant: semantic hits are looked up and forgotten.                       *)
QueryUnfused ==
  /\ RGoto("query", "hydrate")
  /\ IsLive(opened)
  /\ pending' \in SUBSET Ids(opened)
  /\ UNCHANGED <<req, aimed, opened, hits, seen, answer, history>>

(* The question is embedded, and the cached collection asked for the nearest *)
(* vectors.                                                                 *)
Query ==
  /\ RGoto("query", "hydrate")
  /\ IsLive(opened)
  /\ pending' \in SUBSET Ids(opened)
  /\ hits' = hits \cup pending'
  /\ UNCHANGED <<req, aimed, opened, seen, answer, history>>

(* get_chunk_by_chunk_id, one SELECT for each hit.                          *)
Hydrate ==
  /\ RGoto("hydrate", "hydrate")
  /\ \E v \in pending \cap row.chunks : pending' = pending \ {v}
  /\ UNCHANGED <<req, aimed, opened, hits, seen, answer, history>>

(* The ranking is cut to its limit; an ask cites what its context kept.     *)
Rank ==
  /\ RGoto("hydrate", "cite guard")
  /\ pending = {}
  /\ hits' \in SUBSET hits
  /\ UNCHANGED <<req, aimed, opened, pending, seen, answer, history>>

(* Mutant: citations are looked up without asking for the guard.            *)
CiteUnguarded ==
  /\ RGoto("cite guard", "cite")
  /\ UNCHANGED <<held, answer, history>>

(* citation_chunks: require_project,                                        *)
CiteAdmitted ==
  /\ RGoto("cite guard", "cite")
  /\ ~guard
  /\ UNCHANGED <<held, answer, history>>

CiteRefused == guard /\ Reply("cite guard", "in progress")

(* then every cited chunk must still be there.                              *)
Cite ==
  /\ row.exists /\ hits \subseteq row.chunks
  /\ Reply("cite", "results")

Close == rpc = "answered" /\ Forgotten

-----------------------------------------------------------------------------

ReaderOpens ==
  \/ ReadPointer \/ GetCollection \/ CollectionGone
  \/ GenerationMatches \/ GenerationDiffers

ReaderCounts == CountFiles \/ CountSymbols \/ CountChunks \/ GetForListing \/ ListIds

ReaderSearches ==
  \/ Scan \/ GetForQuery \/ OtherModel \/ Query \/ Hydrate \/ Rank
  \/ CiteAdmitted \/ CiteRefused \/ Cite

ReaderStep ==
  \/ \E kind \in Kinds, m \in Models \cup {NoModel} : Ask(kind, m)
  \/ Refused \/ Admitted \/ ReadRow \/ NeverIndexed \/ RequestFails
  \/ ReaderOpens \/ ReaderCounts \/ ReaderSearches \/ Close

(* A uuid in use by the request is not given to another generation either.  *)
Remembered == {req.gen, aimed, opened} \cup served

(* A step of the indexing side.  A reply is closed before the next one.      *)
StoreStep ==
  /\ rpc # "answered"
  /\ \E m \in Models : StartIndex(m)
     \/ Work
     \/ Edit
  /\ \A g \in Remembered \cap Gens : colls'[g].live => colls[g].live
  /\ IF rpc = "idle" THEN UNCHANGED history
     ELSE served' = served \cup {row'.gen} /\ overlap' = (overlap \/ guard')
  /\ UNCHANGED <<rpc, held, answer>>

(* The process that dies takes the request with it.                         *)
ReadCrash == Crash /\ Forgotten

ReadNext == StoreStep \/ ReadCrash \/ (ReaderStep /\ UNCHANGED vars)

ReadSpec == ReadInit /\ [][ReadNext]_readVars
-----------------------------------------------------------------------------
(* Properties                                                               *)

RequestSteps ==
  {"idle", "guard", "row", "files", "symbols", "chunks", "point", "get", "match",
   "point again", "get again", "list", "scan", "query", "hydrate", "cite guard",
   "cite", "answered"}
Answers == {"none", "failed", "in progress", "invalid", "mismatch",
            "incomplete", "complete", "results"}

ReadTypeOK ==
  /\ rpc \in RequestSteps
  /\ req \in Requests
  /\ aimed \in Gens \cup {NoGen} /\ opened \in Gens \cup {NoGen}
  /\ hits \in SUBSET Versions /\ pending \in SUBSET hits
  /\ seen \in SUBSET SUBSET Versions
  /\ answer \in Answers
  /\ served \in SUBSET (Gens \cup {NoGen}) /\ overlap \in BOOLEAN

(* A read never takes the branch of initialize() that creates a project's   *)
(* first collection and pointer: whenever it opens the vector store the     *)
(* pointer exists, although a failed first run removes it again and the     *)
(* request saw the row some steps before.                                   *)
ReadersNeverCreate ==
  rpc \in {"point", "point again"} => pointer # NoGen

(* A question is only ever compared with vectors of its own embedding       *)
(* model, though the index may be rebuilt with another one after the check. *)
QueryInOwnModel ==
  rpc = "query" /\ IsLive(opened) => colls[opened].model = req.model

(* A semantic or hybrid answer comes from a generation that was committed   *)
(* at some moment of the request: never from a candidate whose pointer was  *)
(* already switched, unless its commit then failed.                         *)
SearchedIndexWasServed ==
  answer = "results" /\ req.kind \in Semantic /\ faults = req.faults
    => opened \in served

(* vector_complete is reported only with file, symbol and chunk counts that *)
(* were all taken from one index, unless the compensation of a failed run   *)
(* was defeated.                                                            *)
DetailIsOfOneIndex ==
  answer = "complete" /\ broken = {} => seen = {hits}

(* What the stores say makes a request for an indexed project invalid only  *)
(* if it overlaps an activation, or after a compensation was defeated.      *)
InvalidNeedsActivation ==
  answer = "invalid" /\ req.gen # NoGen /\ broken = {} => overlap

(* docs/final-demo-runbook.md:89 explains vector_index_state_invalid by     *)
(* "Active vector-index state is incomplete or corrupt".                    *)
InvalidMeansCorrupt ==
  answer = "invalid" /\ req.gen # NoGen => broken # {}
=============================================================================

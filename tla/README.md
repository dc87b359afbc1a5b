# quick-chat: a verification project in TLA+

quick-chat answers questions about court cases for several agencies. It keeps a
vector index of each agency's cases in Qdrant, derived from Postgres; a LangGraph
graph routes a question to agents that query both stores, a supervisor grades what
they found, and a model writes a cited answer. Everything in one API process shares
one psycopg connection pool, and the chat history of a session is LangGraph's
checkpoint, kept in the agency's own Postgres schema.

This directory holds models of the parts where the order of things matters, the TLC
runs that check them on small instances, and TLAPS proofs of what matters most for
every instance. Paths below are relative to the repository; `api/` stands for
`src/quick_chat_api/`.

    tlc -workers 2 -config Ingestion.cfg MCIngestion     # a run
    tlapm IngestionProofs.tla                            # a proof module

## 1. Inventory

| Component | State it keeps | Operations | Talks to | What is hard |
|---|---|---|---|---|
| Case ingestion (`api/modules/embedding/ingestion_service.py`, `data_ingestion/backfill_embeddings.py`) | none of its own; per call the discovered entities, the indexed snapshot and a report | `ingest_case`, `reindex_case`, `delete_case_index` | Postgres (discovery), chunker, embedder, vector store | overlapping calls; failure between upsert and clean-up; deciding "unchanged" from a payload |
| Discovery and projectors (`api/modules/embedding/db_adapters.py`, `projectors/`) | none | `discover_all` | Postgres | rows change while a run works on its snapshot |
| Chunker (`api/modules/embedding/chunking/providers/structured.py`) | none | `chunk` | embedder's token counter | progress and coverage of the window split |
| Embedding (`api/core/llm/embedding/`, inference service `src/quick_chat_inference/`) | per process the service's checked identity (`_info`) and a lock | `ensure_ready`, `embed_documents`, `embed_query`, `count_tokens_batch` | HTTP | concurrent first uses, a service redeployed behind a checked identity |
| Vector store (`api/core/vectorstore/providers/qdrant.py`) | points per collection; per process the collections already ensured | `upsert_points`, `delete_points`, `delete_by_filter`, `list_points`, `search`, `recreate_collection` | Qdrant | applied calls that report failure; creators of one collection; a memory of what exists that others falsify |
| Answer graph (`api/core/rag/graph.py`, `nodes/`, `agents/fanout.py`) | `RAGState`: partly checkpointed, partly untracked channels | one node per step | agents, models, checkpointer | what carries over between rounds and between turns; bounded retries |
| Context builder (`api/modules/rag/context_builder.py`) | none | `build_context` | | budget, deduplication, conflicts |
| Agents (`api/core/rag/agents/`) | `AgentOutput`, shared by the concurrent calls of a reply | tools | structured queries, retrieval | awaits between read and write of shared output; scope |
| Structured queries (`api/modules/rag/structured/`) | none | lookups, filters, payments, appearances | Postgres | caps and totals, fuzzy names |
| Retrieval and reranking (`api/modules/embedding/retrieval.py`, `api/core/llm/reranking/`) | none | `retrieve`, `rerank` | Qdrant, inference | scope filter |
| Checkpointer (`api/core/rag/checkpointer.py`, `api/core/database/connections.py`) | pool connections and their session settings; `_ready_agencies` | `agency_checkpointer` | Postgres | a borrowed connection changed and restored; cancellation; exhaustion |
| Chat API (`api/routers/chat_router.py`, `api/core/controllers/chat_controller.py`, `api/core/rag/pipeline.py`, `streaming.py`) | none | `run_pipeline`, `stream_pipeline` | all of the above | a client that goes away, two requests of one session |
| Migrations (`api/migrations/`, `data_ingestion/create_tables.py`) | version rows, tables and triggers per schema, the list of agencies | `run_migrations` upgrade and downgrade, `create_tables` | Postgres | schemas migrated one by one, commands that die, two operators, tables made behind Alembic's back |
| Data load (`data_ingestion/ingest_data.py`) | none; one transaction over all files | `main`, `ingest_file`, `upsert` | Postgres | integer ids reused between cases, loaders that skip each other's uncommitted rows |
| Database models (`api/core/models/agency/agency.py`) | the declared tables | | migrations, data load, discovery | declared twice, here and in the version file |
| Tracing, health, schemas, settings, registries | | | | not modelled: section 8 |

What makes each of them correct, in a sentence: the **index** of an entity is exactly
the chunks of one content and comes back to Postgres' content after any failure; an
**answer** rests on evidence graded in its own turn, of the cases in scope, and every
question ends; an **agent** returns only cases its scope permits, whatever order its
calls finish in; the **pool** never leaks a connection nor lends one under another
agency's settings, and a finished turn of a **session** is not forgotten; a process's **memory** of the
collection and of the model it checked is true; a **version row** tells which tables a schema has;
and a **load** leaves all of its rows, each of its own case, or none.

`PROJECT.json` lists the hazards one by one, each at its line, with the property that
would catch it or the reason there is none yet.

## 2. Modules

| Module | Models | Checked by | Proved in |
|---|---|---|---|
| `CaseIndex` | abstract: what the index of a case promises to those who search it | (refined by `Ingestion`) | |
| `Ingestion` | the index of one case under concurrent ingest, reindex and delete | `MCIngestion`, 3 runs | `IngestionProofs` |
| `AgentOutput` | the contract: what an agent may hand to the graph under a scope | (shared) | |
| `AnswerTurn` | the answer graph over the turns of one session | 4 runs | `AnswerTurnProofs` |
| `AgentPromise` | abstract: what a run of an agent is to the graph that awaits it | (refined by `AgentRun`) | |
| `AgentRun` | the tool loop of one agent | `MCAgentRun`, `MCAgentParts`, 2 runs | `AgentRunProofs` |
| `SessionStore` | abstract: one history per session, what checkpointing promises to its turns | (refined by `ChatService`) | |
| `ChatService` | requests, tools and the checkpointer on one pool | `MCChatService`, 2 runs | `ChatServiceProofs` |
| `Chunker` | packing lines and splitting oversized ones | `MCChunker`, `MCChunkerParts`, 1 run | `ChunkerProofs` |
| `FirstUse` (parameters: `FirstUseConstants`) | first use of the inference service and of the collection by several processes | `MCFirstUse` beside `AgentRun` | `FirstUseProofs`; in `MCAgentParts`: `AgentRunProofs` |
| `AgencySchema` | the tables of an agency as the models declare them | (shared) | |
| `AgencyVersion` | the same tables as the Alembic version makes them | (shared) | |
| `Provisioning` (parameters: `ProvisioningConstants`) | migrations, `create_tables` and registrations by several operators | beside `Chunker` | `ProvisioningProofs`; in `MCChunkerParts`: `ChunkerProofs` |
| `CaseRows` | the case documents and the rows one becomes, with the parameters of `DataLoad` | (shared) | |
| `DataLoad` | loaders of case documents, and discovery of what they loaded | `MCDataLoad` beside `Chunker` | `DataLoadProofs`; in `MCChunkerParts`: `ChunkerProofs` |

`AgentOutput` is what joins two of them. `AnswerTurn` lets an agent return any member of
`Returnable(agent, scope)`; `AgentRun` models how the agent comes to its output and
promises (`KeepsContract`, checked and proved) that at every moment the output is such
a member. The composition is therefore assume/guarantee, and neither state space is
multiplied by the other. `AgentPromise` says the rest of what the graph relies on when it keeps an
output and reads it later. `ChatService` abstracts a graph run to "checkpoints after
nodes, then the last one", and its tools to borrowers of a connection. `AgencySchema` joins
`Provisioning`, which makes the tables, and `DataLoad`, whose inserts obey their keys.

### Ingestion

State: `db` (the content of each entity in Postgres), `config` (the deployed indexing
key), `index` (the points), and for each run of the service its program counter and the
locals of the coroutine: `force`, `key`, `discovered`, `seen` (the snapshot of
`list_points`), `current`, `outcome` (the report). `past` (contents ever held) and
`undisturbed` (nobody else wrote something different here since this run looked) are
history variables: no guard of the program reads them.

One action per stretch between two awaits: `StartIngest`, `Discover` (`CaseNotFound`),
`LoadIndexed` (`LoadFails`), then per entity `Skip` or `BeginEmbed`/`EmbedFails`,
`Upsert`/`UpsertFails`, `DeleteStale`/`DeleteStaleFails`, and `Finish`;
`StartDelete`, `ListForDelete`, `DeleteByFilter`. `...Fails` leaves open whether the call
was applied, at once or never: a call that lands late, after its caller gave up (the store is
called in a thread, which a cancelled task does not stop), changes the index as a slower
concurrent run does, so the two-caller run covers it and the serial one assumes it away.
The environment edits rows, deploys another key, loses a point (a partial
restore of the store) and aborts a run at any await.

A content stands for what `_content_hash` covers; a point for its payload. The point id
`uuid5(entity, slot)` is the pair, so an upsert overwrites in place. Discovery and
`list_points` are one read each: cases of at most one scroll page (256 points). Every
projector emits a line, so a content has at least one chunk.

`CaseIndex` is what a reader of the index sees: per entity the contents points are retrievable
for (`shown`) and whether the first chunk is there (`found`). It has no runs, snapshots or skip
detection; its steps show a held content at once, trim others while the first chunk stays,
withdraw the whole case, or lose a point with a fault. `KeepsIndexPromise` is `CaseIndex`'s `Spec`
under the mapping `held <- past, shown <- ShownVersions, found <- FirstChunkThere`.

### AnswerTurn

`node` is the node that runs next. `agents` is a superstep of its own whose inside is
visible: `case_first` (the case agent ahead of the others) and `gather` (the concurrent
rest, in any order of return). `outputs`/`ran` are `agent_outputs`; `retry`, `retries`,
`resolved`, `insufficient`, `citations` and the like are the channels of `RAGState`;
`steps` counts supersteps; `graded` records what the supervisor approved in this turn.
`AskAgain` is `initial_state` of the next question: it resets what the code resets, keeps
what the checkpoint keeps, and loses the untracked channels. `Fail` is any exception in a
node; the next turn starts from what was checkpointed.

What models answer (route, entities, grading, rewriting, citations) is a free choice
within their structured output. The token budget may drop any part of the evidence.

### AgentRun

The model asks for up to |`Calls`| tool calls; each runs to its await on a store and
from there to its end, and between the two the others write the same `AgentOutput`
(`evidence`, `matches`, `candidates`). The guards before the await (`Refuse`,
`RejectIds`), those after it (`RejectRows`, `RejectUnknown`), what each tool records, the
iteration bound and a failing call that leaves its siblings running (`ToolFails`, orphans
go on) are each an action. `KeepsPromise` is `AgentPromise`'s `Spec` with `replies <- iterations`
and `result` the `Output` once `phase` is `"done"`; until then, and after a failure, no output counts. Facts are kept per case; every row a query may reach may be
returned, which includes those a cap would have cut.

### ChatService

`owner` and `setting` (search path, autocommit, row factory) per connection; `pc` per
request along `agency_checkpointer` and the graph; `call` per tool; `ready` is
`_ready_agencies`, `tables` the schemas with checkpoint tables; `history` the turns in a
session's checkpoint, written whole by the last writer. Every `await` of borrow, tune,
pin, setup, restore and return is a step; a request may fail or be cancelled at each,
the pool's 30-second wait may end only when every connection is out, and a crash ends
all requests, closes the connections and forgets `ready`, but not the tables or history.
`SessionStore` has no connections, schemas or crashes: a turn begins with its session's history,
may write it back, and ends with itself added or without. `KeepsSessions` maps `saved` to the turns
of a thread in whichever schema they were written (`Kept`), `seen` to `base` and `status` to `pc`.

### Chunker

The loops of `chunk` one iteration at a time: `PackLine` (with its flush), `BeginSplit`,
`Probe` (one step of the binary search), `CloseWindow`, `EndPacking`, `Build`. A text is a
span of words or lines. It joins `Ingestion` at one point: a document with a line gets a
chunk (`Survives`), which is why a content there has at least one.

### FirstUse

A caller is the spine of `CaseIngestionService._run` for one entity: `ensure_ready` (unlocked
test, lock, second test, `/info`, comparison), `list_points`, `embed`, `upsert_points`, each store
call through `_ensure_collection` (memo, `collection_exists`, create or check the schema, payload
indexes one by one, memo). `info`, `lock` and `ensured` are per process; `served`, `coll`, `fields`
and `points` are shared by all. Store calls run in threads, so callers of one process interleave
inside `_ensure_collection`. The service is redeployed with another model, a process restarts, any
request fails, a waiter is cancelled, an operator recreates the collection. History variables:
`stable` (no redeploy since the process's check was answered), `sound` and `intact` (no deletion of
the collection since the memo, or the caller's own check). The order of the payload indexes and of
the waiters is left open; `recreate_collection` has no caller in `src/`.

### Provisioning, AgencySchema, AgencyVersion

`AgencySchema` has each table of `agency.py` with its references and unique keys; `AgencyVersion`
has the same from the statements of the version file, in their order, and when the upgrade and
downgrade scripts run on a given set of tables. `Provisioning` runs them: `Begin` parses a command,
`NextRun` takes the next Alembic run of `Order`, `PlanConfig`/`RunConfig` and, for each schema of the
list read once (`ListAgencies`), `PlanSchema`/`RunSchema` read a version and then run the script, one
transaction per schema. Between the reading and the script others may act; the script then fails
(`Abort`, which ends the command). `CreateTables` and `Register` act outside of Alembic, `Die` ends a
command anywhere with its open transaction rolled back. `alone` is history: nobody interfered.

### CaseRows, DataLoad

A document is a case with its nested records; `BuildRows` (in `CaseRows`) is `build_rows` for the columns that are
keys or references. `Start` opens the transaction over a directory, `Upsert` inserts one table's rows
of the current file, `Commit` is the end of `engine.begin()` and `Report` what follows it,
`engine.dispose()` and "Done.". `Refused` rolls back, and so does `Die` before the commit; after it
(the answer to COMMIT is lost, `dispose` fails, the process is killed) the rows stay and nothing is
said. `committed` and `done` are history: the documents of loads whose COMMIT took effect, and of
those that said "Done.". `Sees`, `Waits`, `RefersWell`
and `UniqueKeys` are Postgres under READ COMMITTED: a statement sees committed rows and its own,
waits for a transaction that wrote an equal key, and fails on a broken key; a cycle of waits ends
one of its members. `discover_all` reads the active rows by the relationships the adapter uses.
Assumed of the documents (`DocumentsAssumption`): integers are distinct within one, and no UUIDs;
a UUID belongs to one case. The first is true of every case in `data/`, and the loader needs it.

## 3. Runs

| Run | Instance | Checks |
|---|---|---|
| `ingestion` | 2 callers, 1 entity, contents of 1 and 2 chunks, 2 edits, 2 faults, callers symmetric; 2.1 M states | `EmbeddedIsExact`, `SkippedWasComplete`, `KeepsIndexPromise` |
| `ingestion_serial` | 1 caller, 2 entities, 3 contents, 2 keys, 2 edits, 1 fault, nothing reverts | `SkippedIsExact`, `Converges` |
| `ingestion_skip` | 1 caller, an edit that goes back | violates `SkippedIsExact` |
| `answer_turn` | 2 turns, 1 case, 1 item per agent, 2 retries; 662 k states | grounding, scope, bounds, termination |
| `answer_ambiguity`, `answer_hand_over`, `answer_requested` | 1 turn, 2 cases | violate one promise of SPEC.md each |
| `agent_run` | *agent*: 2 cases of which 1 is held, 2 chunks, 2 concurrent calls, 2 iterations (335 k states); *first use*: 2 processes with 2 callers and 1, 2 models of one dimension, 1 payload index, 1 event (379 k states) | contract, promise to the graph, no duplicate, ambiguity, termination; memo, model, lock |
| `agent_run_lookups` | both cases held, 1 iteration | violates `LookupsResolve` |
| `chat_service` | 3 requests (2 of one session, 1 of another agency under the same session id), 2 connections, 1 tool each, 2 faults; 292 k states | leaks, schema, tables, turns, one history per session, termination |
| `chat_service_dirty` | the same | violates `CleanInPool` |
| `chunker` | *chunker*: one line of up to 5 words, or 2 or 3 lines of up to 2, word costs 0, 1, 3, budgets 1, 3, 4 (70 k states); *provisioning*: 2 agencies, 2 operators, 1 command besides the deployer's, 1 death, 2 outside actions (71 k states); *data load*: 2 loaders, 4 documents of 3 cases, 4 directories of 1 or 2 files, 1 row deactivated (131 k states) | coverage, budget, search, termination; version rows, order, exit codes, liveness; case separation, atomicity, loading again |

`MCAgentParts` and `MCChunkerParts` put small, independent parts side by side in one run.
`focus` says which part a behaviour is about; the others stay where they began, so the state
spaces add up and do not multiply. The parts share no variable and no property relates two of
them: a behaviour of the composition is, up to stuttering, a behaviour of the part in focus,
under the fairness that part states for itself. The properties of a part are those of its
module, looked at while it is in focus.

Why these bounds are enough for the cases of interest:

- *Ingestion.* A race over an entity takes two callers, and a stale chunk takes a content
  of two chunks edited to one of one. Two faults let a clean-up fail and a point be lost,
  or two runs be aborted. Entities are independent but for the order of the loop: the
  serial run has two. Indexing keys matter to skipping only and are in the serial run.
- *Answers.* Three agents are fixed by the code. One item of evidence, strong or weak, is
  enough for graded or rejected, fact or chunk; two turns for everything that carries
  over. Two retries is the most the settings accept. The hand-over, which needs two different
  cases, is looked at with two, in one turn.
- *Agents.* Two calls of a reply are enough for a race of two; two iterations for a later
  reply meeting the state (and the orphans) of an earlier one; one held case and one not
  for every branch of the checks.
- *Chunks.* Five words make windows of one, two and more words with an overlap of one and of
  two (70 %), searches of up to three probes, and words above the budget at every place.
- *Pool.* Three requests on two connections reach the state in which each holds one and
  waits for another. Two of them share a session (lost updates), the third has the same
  session id in another agency (separation).

- *First use.* Two callers of one process race for its lock and its memos, the third brings a
  second process that creates the collection at the same time or falsifies the memo. One event
  is a redeploy, a recreation, a failure or a restart at every moment of the three; the proofs
  hold for any number of them. Two models of one dimension are what a check of the dimension
  alone would not tell apart.
- *Provisioning.* Two agencies have a first and a next one; a second operator goes up or down in
  between or finds what the first did; two outside actions register an agency and make its tables.
- *Loads.* Two loaders meet in one file and in two files in the opposite order (a
  deadlock, by a case of the one and a ticket number of the other), and either loads again what
  was committed and not reported; two documents use the same integers, one comes in a version whose new disposition is
  refused by a unique index, one refers to a charge it does not have.

Every name bounded: `MaxEdits`, `MaxFaults`, `MaxChunks` (Ingestion), `MaxTurns`,
`MaxEvidence` (AnswerTurn), `Calls` (AgentRun), `MaxFaults`, `Requests`, `Conns`, `Tools`
(ChatService), `MaxEvents` (FirstUse), `MaxCommands`, `MaxFaults`, `MaxOutside` (Provisioning),
`MaxInactive` (DataLoad). `MaxRetries` and `MaxIterations` are settings of the program.

Deadlock is not checked where the system really stops: `AnswerTurn` after its last turn,
`AgentRun` when the run has ended, `ChatService` when each request has been asked,
`Chunker` when the chunks are built (and so not in the parts beside the chunker and the agent either:
a loader that waits can always be killed, an operator can always start again). `Ingestion`
never stops and its runs check for deadlock.

## 4. Properties worth a look

- `EmbeddedIsExact`: a run that reports an entity *embedded*, and that nobody else wrote
  to differently meanwhile, leaves exactly the chunks of that content. The delete list is
  computed from a snapshot taken before chunking, so the argument has to relate three
  moments.
- `SkippedWasComplete`: skipping looks at one payload of the group; if the group is of
  one content then it was the complete one. `SkippedIsExact` drops the "if": where runs follow
  one another it takes two different faults, or a fault and a reverting edit, to break it
  (sections 6 and 7).
- `KeepsIndexPromise`: while an entity is rewritten its first chunk is never missing, so a
  question asked meanwhile still finds it, and no point ever shows text Postgres did not hold,
  whatever runs overlap and wherever they end.
- `Converges`: after every failure, loss or edit, the index agrees with Postgres again.
- `TargetsHaveOutputs`: `retry_agents` is checkpointed, `agent_outputs` is not; the lookup
  in the supervisor still never fails.
- `MissingIsNamed`: the notes accumulate over rounds while outputs are replaced.
- `AnswerIsGrounded`, `ContextIsGraded`: no evidence of an earlier turn or of a rejected
  round is cited or shown.
- `WithinRecursionLimit`: the longest turn takes 6 + 2 * MaxRetries supersteps, ten
  with the default, which LangGraph's limit of 25 permits.
- `KeepsContract`: two checks, one on the ids asked for and one on the rows found; with
  either alone a case outside the scope gets through.
- `KeepsPromise`: the output is an object that `run_agent`, its tools and its caller share, and
  `gather` leaves calls running when one fails. Still nobody writes an output once it was returned:
  calls outlive only a run that raised.
- `KeepsSessions`: connections change hands between agencies with whatever path and mode they were
  left in; still each session has one history, which only its own unfinished turns write.
- `HeldByWorkers`: a connection is out exactly while a worker that is still there uses it.
- `TurnsSurvive`: an answered turn that no other run of its session overlapped is in the
  session's history for good. Overlapping ones are lost by the last writer, and that is
  how the code is: the property says precisely which are safe.
- `RequestsEnd`: requests that hold a connection and wait for another do end, though only
  because of the pool's timeout (its mutant without the timeout deadlocks).
- `Survives`, `WindowsMatchScan`, `Chunked`: the windows overlap, always advance and leave no
  word out, and the binary search ends where a scan would, for words that cost nothing, one
  token, or more than the whole budget.
- `EnsuredIsUsable`, `PointsOfExpectedModel`: what a process remembers against what others did to
  it since. The first is about threads that create, check and index one collection at once, the
  second about a check, a redeploy and a write in every order; both name the exception
  (somebody deleted the collection; the service changed after the check) instead of assuming it away.
- `LockHeldByChecker`: a failed, cancelled or dead check leaves the lock free, and nobody checks twice.
- `VersionIsTrue`: version row, tables and triggers agree however commands raced, and the version
  file makes what the models declare. `tests/contract/test_schema_parity.py` compares columns and
  indexes of the two; references and triggers are compared here only.
- `ConfigLast`, `ExitMeansDone`: said of commands nobody interfered with, but over whatever state
  earlier interference and deaths left behind. After `downgrade all` there is no list of agencies
  for `ExitMeansDone` to speak of; that they are at base then is `ConfigLast`.
- `ReachesHead`: repeating the upgrade reaches every agency that no `create_tables` run blocks.
- `DoneMeansLoaded`: a load is whole or absent. Insert-if-absent skips rows of other loaders that
  may yet be rolled back; the waiting makes it right, and a transaction per file (its mutant) would
  not be. It is said of loads that committed, which includes those that said "Done." and may include
  one that did not live to say it: nothing in the code tells the operator of those.
- `RerunIsIdempotent`: that operator loads again. For documents that committed, by whichever load,
  no statement is refused or waits and nothing is inserted, whatever the others do meanwhile. A plain
  INSERT (its mutant) would be refused. The repository tests it for one load after another
  (`tests/contract/test_data_ingestion_scripts.py:29`).
- `StaysInCase`: the id map is per document; one per file mixes cases (its mutant), and discovery,
  which goes by parties and charges, would then index one case's rows under another.

## 5. Fairness

- *Ingestion*: weak fairness of each run's next step (an await returns, with a result or an
  error) and strong fairness of starting an unforced `ingest_case`: somebody, the API or the
  backfill, keeps calling it. Nothing in the repository schedules it, so `Converges` is
  conditional on a caller, as the docstring's "the next run retries it" is. Nothing is
  assumed of failures but their bounded number.
- *AnswerTurn*: weak fairness of `Step`: LangGraph schedules the next node, and clients
  time out. No fairness of `AskAgain` or `Fail`.
- *AgentRun*: weak fairness of the loop and of each call; `asyncio.gather` awaits all.
- *Chunker*: weak fairness of the only process: a token count returns.
- *Provisioning*: weak fairness of each command's next step (Postgres answers or the connection
  breaks) and of the deployer starting `upgrade` again whenever its last command has ended. That
  somebody re-runs a failed deployment is the assumption `ReachesHead` is about. Deaths and other
  commands are bounded in number and nothing is assumed of them.
- *FirstUse*, *DataLoad*: safety only, no fairness.
- *ChatService*: weak fairness of each request's next step, of the timeout of a wait, of
  the last checkpoint of a graph (its steps are bounded, which is `AnswerTurn`'s
  `TurnEnds`) and of each tool call's end. Nothing promises that a waiting request is
  served: only that it is served or times out.

## 6. Proofs

All theorems are for every value of the constants that satisfies the named assumptions
(`ConstantsAssumption`, `FirstAssumption`, `FirstUseAssumption`, `ProvisioningAssumption`, `DocumentsAssumption`, `NoPointAssumption`, `ServiceAssumption`,
`SizesAssumption`, `TokensAssumption`, `JoinedAssumption`, each evaluated by TLC in the runs).
The MC module of a run that has two or three parts side by side is proved about as it is: its steps
are steps of one part's module or leave that part's variables alone (`SameStep`, `SameProvisioning`,
`SameLoad`), so the part's invariance theorem, instantiated, carries over. `AgentRunProofs` ends with
this for `FirstUse`, `ChunkerProofs` for `Provisioning` and `DataLoad`, for all the properties of the
parts that the runs check.
Layout: one lemma per conjunct of the invariant, in it one step per action; frame lemmas
collect the actions that leave the conjunct's variables alone.

- **Ingestion.** Two invariants. `PointsInv` carries provenance: what is in Postgres or in
  a run's locals was once in Postgres (`SourcesArePast`), and a snapshot's payloads are well
  formed. `ExactInv` is needed because `EmbeddedIsExact` speaks of a moment after the
  delete while the delete list is older: `SnapshotCovers` says that until the entity is
  written, each surplus point now in the store was in the snapshot; `HalfWritten` that
  between upsert and delete only ids on the delete list are wrong. With both, the delete
  makes the entity exact. `NeverUnindexed` follows from slot 0 never being on the list.
  `SkippedIsExact` has theorems that say when it holds, for runs that follow one another
  (`Serial`). Two things make a group look complete that is not: old points behind new ones, which a
  write leaves that stops between upsert and clean-up, and a lost point, after which the count fits
  again. Without losses `Whole` is inductive: points of a version somebody can still ask for are all
  there, so an equal count leaves no room for others; it rests on `InOrder`, nothing in the store is
  newer than what a run is about to write, which an edit or a setting that goes back would break
  (`SkipsAreExactUnlessLost`). Without half-way writes `Tidy` is: the points of an entity agree, but
  for the stale ids a run is about to delete, and skip detection does not err over such a group
  (`SkipsAreExactUnlessHalfWritten`, which needs no order and lets edits go back). A first fault
  breaks at most one of the two: `SkipsSurviveOneFault`, which is the instance `ingestion_serial`
  checks. Two are too many, once a content has three chunks: old chunks 0 to 2, an upsert of two new
  ones whose clean-up fails, new chunk 1 lost; chunk 0 says two, two points are found, and the
  entity is skipped with an old chunk in it.
  `IndexRefined` proves the refinement: `UpsertShows` and `DeleteTrims` map the two writes to `Show`
  and `Trim`, `LosingLoses` a lost point to `Lose`, and every other step is a stutter, an `Edit` or a
  `Fail`; the sources invariant supplies what `Show` requires, that the content was held.
- **AnswerTurn.** `TurnInv` = types, `StepsInv` (supersteps taken are a function of the
  node and of the most often retried agent), `RoundInv` (who is waiting, whose scope),
  `SettledInv` (outputs of settled agents hold graded items only; the notes name exactly
  the empty ones) and `ReplyInv` (context and citations come from there). `StepsInv` needs
  the lock step of the rounds: each retried agent was retried in every round before, or the
  bound would be the sum over the agents.
- **AgentRun.** `RunInv` = types, `CallsInv` (what a call in flight may carry, by tool and
  scope) and `EvidenceInv` (what has been recorded is permitted). `CallsInv` is what makes
  `EvidenceInv` inductive across the await. `RunKeepsPromise` proves the refinement of
  `AgentPromise`; it needs `NothingLeftRunning`, that calls run only while their reply is gathered
  or after a failure, so that a step of a call is a stutter of the promise.
- **ChatService.** `ServiceInv` = types, `HeldByWorkers` (which identifies the borrower, so
  that "the connection of r" is one connection), `PathInv`, `TablesReady`, `CleanInv` and
  `HistoryInv` (a run that is alone in its session has read everything saved).
  `CheckpointerIsStore` proves the refinement of `SessionStore` from `PathInv` and `NothingStray`
  (a thread's history is in no schema but its agency's, `StrayStep`): the three steps of a run that
  read or write map to `Begin`, `Refresh` and `Finish`, all others to a stutter or to `Abandon`.
- **Chunker.** `ChunkerInv` = types, `PlaceInv` (where the pieces end is where the loop goes
  on, so appending keeps them linked), `SearchInv` (lo will do, nothing beyond hi does),
  `HeldInv` (the joined lines cost at most `current_tokens`), `PackedFit`,
  `WindowsMatchScan` and `ChunksInv`. The token counts are constants about which only
  `TokensAssumption` (monotonic in prefix length, which the code's docstring claims) and
  `JoinedAssumption` (joining lines costs no more than its parts) are assumed, so no sum has
  to be computed and no induction over data is needed.

- **FirstUse.** `LockSafe` is inductive with types. `ModelChecked` needs that a process that knows
  a model, unovertaken by a redeploy, knows the served one; `MemoIsTrue` needs that a caller
  between its check and the memo holds an intact, hybrid collection whose indexes are those still to
  make or made, by itself or by another thread.
- **Provisioning.** `NoDrift` (the version's tables are the models' tables, names and keys) and
  `ScriptEffect` (what either script does to a schema that is empty or complete) reduce the schema
  to two states; `VersionRowIsTrue` follows for any number of operators. The other two need
  `DoneInv`, which ties an undisturbed command's remaining runs and remaining queue to the
  schemas that already are where it takes them; `OwnStep` is its step for the command itself.
- **DataLoad.** `LoadInv` gives `DoneMeansLoaded` and `RerunIsIdempotent`. For each loader, the
  tables before its place in the directory are loaded (`LoadedInv`: an id of them is seen, committed
  or own) and nothing else is written (`WrittenInv`), so the commit adds exactly its documents; what
  waits to be reported has committed (`PhaseInv`). What was loaded once is well typed (`TypedInv`),
  and with its ids all there a second load has nothing to insert or to wait for. `StaysInCase`
  follows from `RowInv`: `RowsInv`, over committed and uncommitted rows, says each comes from a
  document and refers to nothing outside it (a reference to a case is the document's own because the
  case row that Postgres found has a UUID of it), and `UniqueInv`, no id twice, is what waiting for open
  transactions ensures. `SameCase` carries it over to a row and the party or charge by which discovery
  finds it. It needs the loader to replace every integer by the right UUID
  (`IdMapIsTrue`), row by row for the ten tables (`RowsAre`, `RowReferences`).

Only model-checked: liveness (`Converges`, `TurnEnds`, `AgentComesBack`, `RequestsEnd`,
`Chunked`, `ReachesHead`), which needs `ENABLED` and is out of the prover's reach. Every invariant and
every action property of the runs is a theorem, `SkippedIsExact` under the conditions above, and so
are the three refinements. The type invariants of `AgentRun` and `ChatService` are proved and are
not among their runs' properties: the refinements see an ill-typed output or checkpoint first.
Induction over data and RECURSIVE operators are out of the prover's reach too; no module here
declares one.

## 7. Where the code and its documents part

Each is a run expected to violate its property; `PROJECT.json` has the lines.

1. `ingestion_skip`: an entity edited and edited back around an aborted run is skipped as
   unchanged although its chunks are of two contents, because the snapshot takes hash, key
   and count from the first point only. One run without an edit back gets there too, by a clean-up
   that fails and a point that is lost (section 6); what it takes in all is what the theorems exclude.
2. `answer_ambiguity`: an ambiguous name asks for clarification only when the case agent
   was routed together with another agent.
3. `answer_hand_over`: cases found on a retry of the case agent never reach the dependent
   agents, which the first miss kept from running.
4. `answer_requested`: the case agent's result replaces the requested case as the scope.
5. `agent_run_lookups`: of two lookups in one reply only the last to finish is resolved.
6. `chat_service_dirty`: a restore that is cancelled returns a changed connection to the
   pool. Its effect on later borrowers is left as a possible `Rejected`.

Discovery parts from its docstring too, and no run is about it: `discover_all` says "Every knowledge
entity for one case" (`db_adapters.py:114`), but a sanction or disposition without a charge, or a
sanction, disposition or address whose charge or party is inactive while it is not, is never
indexed. `discover_all` in `DataLoad` leaves them out as the code does.

Also worth knowing, and stated as the exception in a property rather than as a violation: a
service redeployed with another model embeds for processes that checked the old one; a process
does not notice that another recreated the collection; of two processes that create a collection
the second fails its call; an agency whose tables `create_tables` made stops `run_migrations` at
itself and all agencies after it; a changed record that keeps a unique key (a new disposition of the
same charge) refuses the whole load every time.

## 8. Not modelled

Not modelled for good: tracing and logging, the health endpoint, declarations (API schemas,
settings, registries, constants, columns without a key), prompt wording, projector formatting, BM25
and RRF, which are either without state or outside `src/`. Also left out, with what that costs:

- The context builder's merging, ranking and conflicts, and the caps and totals of the structured
  queries, are pure functions: `AnswerTurn` and `AgentRun` allow every result they could give, so
  the properties hold for them, but nothing is said about the functions themselves.
- Writing a new Alembic revision (the autogenerate hooks of `utils.py`) happens at a developer's
  desk and changes no database. `downgrade` with the default revision `head` does nothing useful and
  is left out of `Commands`.
- `add_uuid7_ids.py` rewrites the data files once before anything is loaded.
- A case of more than one scroll page (256 points): `list_points` is one read in the models.
- The backfill's loop over cases: one case is modelled, and an exception of one ends the loop.
- The local embedding provider's lazy load, one per process and without a second party.
- `_collection_name` maps agencies that differ in punctuation only to one collection; `Agencies`
  are taken as distinct after it.

LangGraph, psycopg, Postgres, Qdrant and the language models are modelled from their use; such
definitions are marked external in the map.

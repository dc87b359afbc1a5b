------------------------------ MODULE Ingestion ------------------------------
(***************************************************************************)
(* The knowledge index of ONE case: the points the vector store holds for  *)
(* the case's entities (case, party, charge, ...), and the operations that *)
(* change them -- ingest_case, reindex_case and delete_case_index of       *)
(* CaseIngestionService.  Nothing in the code serialises them: two HTTP    *)
(* requests, or a request and the backfill script, run side by side, so    *)
(* every await is a place where another run may write.                     *)
(*                                                                         *)
(* Abstractions.                                                           *)
(*  - A "content" stands for everything _content_hash covers (projected    *)
(*    text and case payload), so equal hashes are equal contents.          *)
(*  - A point is its payload; the text of chunk s of content c is fixed by *)
(*    <<c, indexing key, s>>.  The deterministic point id uuid5(entity, s) *)
(*    is the pair <<entity, s>>, so writing a chunk overwrites in place.   *)
(*  - discover_all is one read of Postgres and list_points one read of the *)
(*    store (cases of at most one scroll page, 256 points).                *)
(*  - A failed or abandoned call was applied at once or never.  One that   *)
(*    is applied late does what a slower concurrent run does.              *)
(***************************************************************************)
EXTENDS Naturals, FiniteSets

CONSTANTS
  Entities,     \* the entities of the case: (source_table, source_id, source_type)
  Contents,     \* the contents an entity can have
  Absent,       \* "no such row in Postgres"
  NoPoint,      \* "no point under this id in the vector store"
  NumKeys,      \* indexing keys 1..NumKeys: model/chunking settings, oldest first
  MaxChunks,    \* bound: chunks of one entity
  ChunkCount,   \* ChunkCount[c][k]: pieces content c is split into under key k
  First,        \* First[e][S]: of e's points at slots S, the one a scroll returns first
  Runs,         \* concurrent callers of the service
  MaxEdits,     \* bound: edits of the case rows
  MaxFaults,    \* bound: failed calls, lost points and aborted runs
  AllowRevert   \* may a content or a setting return to an earlier value?

Keys  == 1 .. NumKeys
Slots == 0 .. MaxChunks - 1

(* Every projector emits at least one line (case_number, party_type and the *)
(* like are never null), so every content has a chunk.                     *)
ASSUME ConstantsAssumption ==
  /\ NumKeys \in Nat \ {0}
  /\ MaxChunks \in Nat \ {0}
  /\ MaxEdits \in Nat /\ MaxFaults \in Nat
  /\ AllowRevert \in BOOLEAN
  /\ Absent \notin Contents
  /\ ChunkCount \in [Contents -> [Keys -> 1 .. MaxChunks]]

(* A scroll is ordered by point id, a uuid5 hash: any slot may come first.  *)
ASSUME FirstAssumption ==
  /\ First \in [Entities -> [(SUBSET Slots) \ {{}} -> Slots]]
  /\ \A e \in Entities, S \in (SUBSET Slots) \ {{}} : First[e][S] \in S

PayloadLastIndex(c, k) ==
  [content_hash |-> c, indexing_key |-> k, chunk_count |-> ChunkCount[c][k] - 1]

(* What a point carries for skip detection.                                *)
Payload(c, k) ==
  [content_hash |-> c, indexing_key |-> k, chunk_count |-> ChunkCount[c][k]]

Payloads == [content_hash : Contents, indexing_key : Keys, chunk_count : 1 .. MaxChunks]

ASSUME NoPointAssumption == NoPoint \notin Payloads

VARIABLES
  db,          \* Postgres: the content of every entity now, or Absent
  config,      \* the indexing key of the deployed settings
  index,       \* the vector store: index[e][s] is point <<e, s>>
  pc,          \* where each run stands
  force,       \* reindex_case rather than ingest_case
  key,         \* the indexing key the run read when it started
  discovered,  \* the run's snapshot of db
  seen,        \* the run's snapshot of index (_load_indexed)
  current,     \* the entity being embedded and written
  outcome,     \* the run's EntityIngestionOutcome per entity
  faults, edits,
  \* history, read by the properties and by EditEntity's bound only
  past,        \* the contents an entity has had
  undisturbed  \* undisturbed[r][e]: since run r read the store, nobody wrote
               \* anything to e but the content and key r is writing too

store == <<index, undisturbed>>
rows  == <<db, config, edits, past>>
locals == <<force, key, discovered, seen, current, outcome>>
vars == <<db, config, index, pc, force, key, discovered, seen, current, outcome,
          faults, edits, past, undisturbed>>

Outcomes == {"none", "embedded", "skipped", "failed"}
Phases   == {"idle", "discover", "load", "next", "embed", "stale", "done",
             "list", "filter"}

Nothing   == [s \in Slots |-> NoPoint]
NoIndex   == [e \in Entities |-> Nothing]
NoRows    == [e \in Entities |-> Absent]
NoOutcome == [e \in Entities |-> "none"]

Present(pts) == {s \in Slots : pts[s] # NoPoint}

(* The points of an entity that is completely indexed for content c, key k. *)
Full(c, k) == [s \in Slots |-> IF s < ChunkCount[c][k] THEN Payload(c, k) ELSE NoPoint]

Init ==
  /\ db \in [Entities -> Contents]
  /\ config = 1
  /\ index = NoIndex
  /\ pc = [r \in Runs |-> "idle"]
  /\ force = [r \in Runs |-> FALSE]
  /\ key = [r \in Runs |-> 1]
  /\ discovered = [r \in Runs |-> NoRows]
  /\ seen = [r \in Runs |-> NoIndex]
  /\ current \in [Runs -> Entities]
  /\ outcome = [r \in Runs |-> NoOutcome]
  /\ faults = 0 /\ edits = 0
  /\ past = [e \in Entities |-> {db[e]}]
  /\ undisturbed = [r \in Runs |-> [e \in Entities |-> TRUE]]

Goto(r, p)   == pc' = [pc EXCEPT ![r] = p]
Report(r, o) == outcome' = [outcome EXCEPT ![r][current[r]] = o]
Fault        == faults < MaxFaults /\ faults' = faults + 1

(* Run r writes its current entity: another run that writes something else *)
(* there can no longer rely on what it read.                               *)
WriteIndex(r, new) ==
  /\ index' = new
  /\ undisturbed' = [q \in Runs |-> [e \in Entities |->
       /\ undisturbed[q][e]
       /\ \/ e # current[r]
          \/ discovered[q][e] = discovered[r][e] /\ key[q] = key[r]]]

-----------------------------------------------------------------------------
(* ingest_case / reindex_case                                              *)

(* _run: ensure_ready, then the indexing key of this process's settings.   *)
StartIngest(r, f) ==
  /\ pc[r] \in {"idle", "done"}
  /\ force' = [force EXCEPT ![r] = f]
  /\ key' = [key EXCEPT ![r] = config]
  /\ discovered' = [discovered EXCEPT ![r] = NoRows]
  /\ seen' = [seen EXCEPT ![r] = NoIndex]
  /\ outcome' = [outcome EXCEPT ![r] = NoOutcome]
  /\ Goto(r, "discover")
  /\ UNCHANGED <<rows, store, current, faults>>

(* discover_all in a read session closed before anything else happens.     *)
Discover(r) ==
  /\ pc[r] = "discover"
  /\ \E e \in Entities : db[e] # Absent
  /\ discovered' = [discovered EXCEPT ![r] = db]
  /\ Goto(r, "load")
  /\ UNCHANGED <<rows, store, force, key, seen, current, outcome, faults>>

(* CaseNotFoundError leaves the index as it is.                            *)
CaseNotFound(r) ==
  /\ pc[r] = "discover"
  /\ \A e \in Entities : db[e] = Absent
  /\ Goto(r, "idle")
  /\ UNCHANGED <<rows, store, locals, faults>>

LoadIndexed(r) ==
  /\ pc[r] = "load"
  /\ seen' = [seen EXCEPT ![r] = index]
  /\ undisturbed' = [undisturbed EXCEPT ![r] = [e \in Entities |-> TRUE]]
  /\ Goto(r, "next")
  /\ UNCHANGED <<rows, index, force, key, discovered, current, outcome, faults>>

(* A VectorStoreError on the read reports every discovered entity FAILED.  *)
LoadFails(r) ==
  /\ pc[r] = "load"
  /\ outcome' = [outcome EXCEPT ![r] =
       [e \in Entities |-> IF discovered[r][e] = Absent THEN "none" ELSE "failed"]]
  /\ Goto(r, "done")
  /\ Fault
  /\ UNCHANGED <<rows, store, force, key, discovered, seen, current>>

Pending(r) == {e \in Entities : discovered[r][e] # Absent /\ outcome[r][e] = "none"}

(* group[0]: the point of the group that the scroll returned first.        *)
Group0(e, pts) == pts[First[e][Present(pts)]]

UnchangedAnyCount(e, pts, c, k) ==
  /\ Present(pts) # {}
  /\ LET group0 == Group0(e, pts) IN
       /\ group0.content_hash = c
       /\ group0.indexing_key = k

UnchangedAnyKey(e, pts, c, k) ==
  /\ Present(pts) # {}
  /\ LET group0 == Group0(e, pts) IN
       /\ group0.content_hash = c
       /\ group0.chunk_count = Cardinality(Present(pts))

(* The skip test: hash, indexing key and expected count of group[0] against *)
(* what was discovered and the number of points found.                     *)
Unchanged(e, pts, c, k) ==
  /\ Present(pts) # {}
  /\ LET group0 == Group0(e, pts) IN
       /\ group0.content_hash = c
       /\ group0.indexing_key = k
       /\ group0.chunk_count = Cardinality(Present(pts))

CanSkip(r, e) == ~force[r] /\ Unchanged(e, seen[r][e], discovered[r][e], key[r])

Skip(r, e) ==
  /\ pc[r] = "next"
  /\ e \in Pending(r)
  /\ CanSkip(r, e)
  /\ outcome' = [outcome EXCEPT ![r][e] = "skipped"]
  /\ UNCHANGED <<rows, store, pc, force, key, discovered, seen, current, faults>>

(* Chunking and embedding are under way; nothing is written yet.           *)
BeginEmbed(r, e) ==
  /\ pc[r] = "next"
  /\ e \in Pending(r)
  /\ ~CanSkip(r, e)
  /\ current' = [current EXCEPT ![r] = e]
  /\ Goto(r, "embed")
  /\ UNCHANGED <<rows, store, force, key, discovered, seen, outcome, faults>>

(* ChunkingError or EmbeddingProviderError: this entity only.              *)
EmbedFails(r) ==
  /\ pc[r] = "embed"
  /\ Report(r, "failed")
  /\ Goto(r, "next")
  /\ Fault
  /\ UNCHANGED <<rows, store, force, key, discovered, seen, current>>

(* The points _write sends for the current entity, laid over the index.    *)
Written(r) ==
  LET e == current[r]
      new == Full(discovered[r][e], key[r])
  IN  [index EXCEPT ![e] = [s \in Slots |-> IF new[s] # NoPoint THEN new[s] ELSE index[e][s]]]

StaleIdsOffByOne(r) ==
  {s \in Present(seen[r][current[r]]) : s > ChunkCount[discovered[r][current[r]]][key[r]]}

StaleIdsAll(r) == Present(seen[r][current[r]])

(* stale_ids: ids of the snapshot that the new points do not reuse.        *)
StaleIds(r) ==
  Present(seen[r][current[r]]) \ Present(Full(discovered[r][current[r]], key[r]))

WithoutStale(r) ==
  [index EXCEPT ![current[r]] = [s \in Slots |-> IF s \in StaleIds(r) THEN NoPoint
                                                 ELSE index[current[r]][s]]]

(* _write, first call: all new points in one upsert.                       *)
Upsert(r) ==
  /\ pc[r] = "embed"
  /\ WriteIndex(r, Written(r))
  /\ IF StaleIds(r) = {}
       THEN Report(r, "embedded") /\ Goto(r, "next")
       ELSE UNCHANGED outcome /\ Goto(r, "stale")
  /\ UNCHANGED <<rows, force, key, discovered, seen, current, faults>>

(* A failed call may still have reached the store before its answer was lost. *)
UpsertFails(r) ==
  /\ pc[r] = "embed"
  /\ \/ WriteIndex(r, Written(r))
     \/ UNCHANGED store
  /\ Report(r, "failed")
  /\ Goto(r, "next")
  /\ Fault
  /\ UNCHANGED <<rows, force, key, discovered, seen, current>>

(* _write, second call.                                                    *)
DeleteStale(r) ==
  /\ pc[r] = "stale"
  /\ WriteIndex(r, WithoutStale(r))
  /\ Report(r, "embedded")
  /\ Goto(r, "next")
  /\ UNCHANGED <<rows, force, key, discovered, seen, current, faults>>

DeleteStaleFails(r) ==
  /\ pc[r] = "stale"
  /\ \/ WriteIndex(r, WithoutStale(r))
     \/ UNCHANGED store
  /\ Report(r, "failed")
  /\ Goto(r, "next")
  /\ Fault
  /\ UNCHANGED <<rows, force, key, discovered, seen, current>>

Finish(r) ==
  /\ pc[r] = "next"
  /\ Pending(r) = {}
  /\ Goto(r, "done")
  /\ UNCHANGED <<rows, store, locals, faults>>

-----------------------------------------------------------------------------
(* delete_case_index: list (for the returned count), then delete by filter. *)

StartDelete(r) ==
  /\ pc[r] \in {"idle", "done"}
  /\ outcome' = [outcome EXCEPT ![r] = NoOutcome]
  /\ Goto(r, "list")
  /\ UNCHANGED <<rows, store, force, key, discovered, seen, current, faults>>

ListForDelete(r) ==
  /\ pc[r] = "list"
  /\ Goto(r, "filter")
  /\ UNCHANGED <<rows, store, locals, faults>>

DeleteByFilter(r) ==
  /\ pc[r] = "filter"
  /\ index' = NoIndex
  /\ undisturbed' = [q \in Runs |-> [e \in Entities |-> FALSE]]
  /\ Goto(r, "idle")
  /\ UNCHANGED <<rows, locals, faults>>

(* The process dies, the request is cancelled, or an exception outside the *)
(* per-entity handler (ensure_ready, the delete calls) ends the call.      *)
Abort(r) ==
  /\ pc[r] \notin {"idle", "done"}
  /\ Goto(r, "idle")
  /\ outcome' = [outcome EXCEPT ![r] = NoOutcome]
  /\ Fault
  /\ UNCHANGED <<rows, store, force, key, discovered, seen, current>>

-----------------------------------------------------------------------------
(* The environment: case data, deployments, the store itself.              *)

EditEntity(e, c) ==
  /\ edits < MaxEdits
  /\ c # db[e]
  /\ c \in past[e] => AllowRevert
  /\ db' = [db EXCEPT ![e] = c]
  /\ past' = [past EXCEPT ![e] = @ \cup {c}]
  /\ edits' = edits + 1
  /\ UNCHANGED <<config, store, pc, locals, faults>>

Deploy(k) ==
  /\ edits < MaxEdits
  /\ k # config
  /\ k < config => AllowRevert
  /\ config' = k
  /\ edits' = edits + 1
  /\ UNCHANGED <<db, past, store, pc, locals, faults>>

(* A point disappears from the store (the tests drop one to stand for a    *)
(* crash that lost a chunk after its hash was written).                    *)
LosePoint(e, s) ==
  /\ index[e][s] # NoPoint
  /\ index' = [index EXCEPT ![e][s] = NoPoint]
  /\ undisturbed' = [r \in Runs |-> [undisturbed[r] EXCEPT ![e] = FALSE]]
  /\ Fault
  /\ UNCHANGED <<rows, pc, locals>>

-----------------------------------------------------------------------------
(* The steps a live process takes without a fault.                         *)
IngestStep(r) ==
  \/ Discover(r) \/ CaseNotFound(r) \/ LoadIndexed(r)
  \/ \E e \in Entities : Skip(r, e) \/ BeginEmbed(r, e)
  \/ Upsert(r) \/ DeleteStale(r) \/ Finish(r)

DeleteStep(r) == ListForDelete(r) \/ DeleteByFilter(r)

FaultStep(r) ==
  LoadFails(r) \/ EmbedFails(r) \/ UpsertFails(r) \/ DeleteStaleFails(r) \/ Abort(r)

Environment ==
  \/ \E e \in Entities, c \in Contents \cup {Absent} : EditEntity(e, c)
  \/ \E k \in Keys : Deploy(k)
  \/ \E e \in Entities, s \in Slots : LosePoint(e, s)

Next ==
  \/ \E r \in Runs : \/ \E f \in BOOLEAN : StartIngest(r, f)
                     \/ StartDelete(r)
                     \/ IngestStep(r)
                     \/ DeleteStep(r)
                     \/ FaultStep(r)
  \/ Environment

Spec == Init /\ [][Next]_vars

(* A started call goes on (its awaits return or raise), and somebody keeps  *)
(* asking for the case to be ingested: the "next run" the module relies on. *)
FairSpec ==
  /\ Spec
  /\ \A r \in Runs : /\ WF_vars(IngestStep(r))
                     /\ WF_vars(DeleteStep(r))
                     /\ SF_vars(StartIngest(r, FALSE))

-----------------------------------------------------------------------------
TypeOK ==
  /\ db \in [Entities -> Contents \cup {Absent}]
  /\ config \in Keys
  /\ index \in [Entities -> [Slots -> Payloads \cup {NoPoint}]]
  /\ pc \in [Runs -> Phases]
  /\ force \in [Runs -> BOOLEAN]
  /\ key \in [Runs -> Keys]
  /\ discovered \in [Runs -> [Entities -> Contents \cup {Absent}]]
  /\ seen \in [Runs -> [Entities -> [Slots -> Payloads \cup {NoPoint}]]]
  /\ current \in [Runs -> Entities]
  /\ outcome \in [Runs -> [Entities -> Outcomes]]
  /\ faults \in 0 .. MaxFaults
  /\ edits \in 0 .. MaxEdits
  /\ past \in [Entities -> SUBSET (Contents \cup {Absent})]
  /\ undisturbed \in [Runs -> [Entities -> BOOLEAN]]

(* Whatever the interleaving, and whatever fails half-way, re-indexing an  *)
(* entity never takes it out of retrieval: its first chunk goes only when  *)
(* the case index is deleted or the store itself loses the point.  This is *)
(* what "upsert first" in _write is for.                                   *)
NeverUnindexed ==
  [][\A e \in Entities :
       index[e][0] # NoPoint /\ index'[e][0] = NoPoint
         => \/ \E r \in Runs : DeleteByFilter(r)
            \/ LosePoint(e, 0)]_vars

(* An entity reported EMBEDDED holds exactly the chunks of the content the *)
(* run discovered, whatever debris of failed, aborted or overlapping runs  *)
(* it found there, and even if other runs write the same content at the    *)
(* same time: the stale ids are right although they come from a snapshot.  *)
EmbeddedIsExact ==
  \A r \in Runs, e \in Entities :
    outcome[r][e] = "embedded" /\ undisturbed[r][e]
      => index[e] = Full(discovered[r][e], key[r])

(* All of an entity's points were written for the same content and key.    *)
Uniform(pts) ==
  \A s, t \in Present(pts) : pts[s] = pts[t]

(* Skip detection never overlooks a missing chunk or an outdated content   *)
(* or key: an entity skipped over a uniform group was completely indexed,  *)
(* even after points were lost or writes of several runs interleaved.      *)
SkippedWasComplete ==
  \A r \in Runs, e \in Entities :
    outcome[r][e] = "skipped" /\ Uniform(seen[r][e])
      => seen[r][e] = Full(discovered[r][e], key[r])

(* The stronger claim skip detection is used for: what a run skips IS the  *)
(* discovered content.  It needs more than the code guarantees, since a    *)
(* group can mix two contents: by an edit that goes back, by overlapping   *)
(* runs, or, with three chunks, by a write that stops half-way and a point *)
(* that is lost.  See the README.                                          *)
SkippedIsExact ==
  \A r \in Runs, e \in Entities :
    outcome[r][e] = "skipped" /\ undisturbed[r][e]
      => index[e] = Full(discovered[r][e], key[r])

(* What is retrievable for an entity is text Postgres held for it at some  *)
(* time, split under a deployed setting, at a slot that split has.         *)
Provenance ==
  \A e \in Entities, s \in Slots :
    index[e][s] # NoPoint =>
      LET p == index[e][s] IN
        /\ p.content_hash \in past[e]
        /\ p = Payload(p.content_hash, p.indexing_key)
        /\ s < p.chunk_count

(* To those who search, a case is a CaseIndex: versions shown per entity,    *)
(* and whether its first chunk is there.                                    *)
ShownVersions ==
  [e \in Entities |-> {index[e][s].content_hash : s \in Present(index[e])}]

FirstChunkThere == [e \in Entities |-> index[e][0] # NoPoint]

Index == INSTANCE CaseIndex WITH
  Versions <- Contents \cup {Absent},
  held <- past, shown <- ShownVersions, found <- FirstChunkThere

(* Ingestion keeps the promise of CaseIndex whatever runs overlap, fail and *)
(* are aborted: "upsert first, then delete the stale ids" never takes an    *)
(* entity out of retrieval, and every point shows text that was once held.  *)
KeepsIndexPromise == Index!Spec

(* Inductive strengthening of EmbeddedIsExact (proved in IngestionProofs).  *)

(* The entity being written is one the run discovered and not yet reported. *)
CurrentPending ==
  \A r \in Runs : pc[r] \in {"embed", "stale"} => current[r] \in Pending(r)

ReportedDiscovered ==
  \A r \in Runs :
    /\ pc[r] \in {"discover", "load"} => outcome[r] = NoOutcome
    /\ \A e \in Entities :
         outcome[r][e] \in {"embedded", "skipped"} => discovered[r][e] # Absent

(* Until the entity is written, a point beyond the new chunks that is in   *)
(* the store now was there when the run looked.                            *)
SnapshotCovers ==
  \A r \in Runs : \A e \in Pending(r), s \in Slots :
    /\ undisturbed[r][e]
    /\ \/ pc[r] \in {"next", "embed"}
       \/ pc[r] = "stale" /\ e # current[r]
    /\ s >= ChunkCount[discovered[r][e]][key[r]]
    /\ index[e][s] # NoPoint
    => seen[r][e][s] # NoPoint

(* Between upsert and clean-up only stale ids separate the entity from     *)
(* being exact.                                                            *)
HalfWritten ==
  \A r \in Runs : pc[r] = "stale" /\ undisturbed[r][current[r]] =>
    \A s \in Slots :
      s \in StaleIds(r) \/ index[current[r]][s] = Full(discovered[r][current[r]], key[r])[s]

ExactInv ==
  /\ CurrentPending
  /\ ReportedDiscovered
  /\ SnapshotCovers
  /\ HalfWritten
  /\ EmbeddedIsExact

(* Inductive strengthening of Provenance and SkippedWasComplete.           *)
SourcesArePast ==
  \A e \in Entities :
    /\ db[e] \in past[e]
    /\ \A r \in Runs : discovered[r][e] # Absent => discovered[r][e] \in past[e]

WellFormed(pts) ==
  \A s \in Present(pts) :
    /\ pts[s] = Payload(pts[s].content_hash, pts[s].indexing_key)
    /\ s < pts[s].chunk_count

SeenWellFormed == \A r \in Runs, e \in Entities : WellFormed(seen[r][e])

PointsInv ==
  /\ SourcesArePast
  /\ SeenWellFormed
  /\ ReportedDiscovered
  /\ Provenance
  /\ SkippedWasComplete

(* "The next run retries it": whatever failed, was lost or edited, as long *)
(* as somebody keeps calling ingest_case the index agrees with Postgres    *)
(* again, for every entity that is still there.                            *)
InStep == \A e \in Entities : db[e] # Absent => index[e] = Full(db[e], config)
Converges == []<>InStep
=============================================================================

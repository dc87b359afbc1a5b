--------------------------- MODULE IngestionProofs ---------------------------
(***************************************************************************)
(* Proofs about Ingestion, for any entities, contents, callers and bounds. *)
(***************************************************************************)
EXTENDS Ingestion, FiniteSetTheorems, TLAPS

(* Under each type-correct version, Full is a type-correct group of points *)
(* that occupies exactly the slots below the chunk count.                  *)
LEMMA FullType ==
  ASSUME NEW c \in Contents, NEW k \in Keys
  PROVE  /\ ChunkCount[c][k] \in 1 .. MaxChunks
         /\ Payload(c, k) \in Payloads
         /\ Full(c, k) \in [Slots -> Payloads \cup {NoPoint}]
         /\ Present(Full(c, k)) = {s \in Slots : s < ChunkCount[c][k]}
<1>1. ChunkCount[c][k] \in 1 .. MaxChunks
  BY ConstantsAssumption
<1>2. Payload(c, k) \in Payloads
  BY <1>1 DEF Payload, Payloads
<1>3. Payload(c, k) # NoPoint
  BY <1>2, NoPointAssumption
<1>4. Full(c, k) \in [Slots -> Payloads \cup {NoPoint}]
  BY <1>2 DEF Full
<1>5. Present(Full(c, k)) = {s \in Slots : s < ChunkCount[c][k]}
  BY <1>3 DEF Present, Full
<1> QED
  BY <1>1, <1>2, <1>4, <1>5

(* TypeOK says nothing of what current and discovered are worth together;  *)
(* a writing run has a discovered content in hand.                         *)
LEMMA WritingType ==
  ASSUME TypeOK, CurrentPending, NEW r \in Runs, pc[r] \in {"embed", "stale"}
  PROVE  /\ current[r] \in Entities
         /\ discovered[r][current[r]] \in Contents
         /\ key[r] \in Keys
         /\ outcome[r][current[r]] = "none"
BY DEF TypeOK, CurrentPending, Pending

-----------------------------------------------------------------------------
TypeInv == TypeOK /\ CurrentPending

(* The index operations keep the index a map from slots to points.         *)
LEMMA WrittenType ==
  ASSUME TypeInv, NEW r \in Runs, pc[r] \in {"embed", "stale"}
  PROVE  /\ Written(r) \in [Entities -> [Slots -> Payloads \cup {NoPoint}]]
         /\ WithoutStale(r) \in [Entities -> [Slots -> Payloads \cup {NoPoint}]]
<1> DEFINE e == current[r]
           c == discovered[r][e]
           new == Full(c, key[r])
<1>1. e \in Entities /\ c \in Contents /\ key[r] \in Keys
  BY WritingType DEF TypeInv
<1>2. new \in [Slots -> Payloads \cup {NoPoint}]
  BY <1>1, FullType
<1>3. index \in [Entities -> [Slots -> Payloads \cup {NoPoint}]]
  BY DEF TypeInv, TypeOK
<1>4. [s \in Slots |-> IF new[s] # NoPoint THEN new[s] ELSE index[e][s]]
        \in [Slots -> Payloads \cup {NoPoint}]
  BY <1>1, <1>2, <1>3
<1>5. [s \in Slots |-> IF s \in StaleIds(r) THEN NoPoint ELSE index[e][s]]
        \in [Slots -> Payloads \cup {NoPoint}]
  BY <1>1, <1>3
<1> QED
  BY <1>3, <1>4, <1>5 DEF Written, WithoutStale

LEMMA WriteIndexType ==
  ASSUME NEW r, NEW new, WriteIndex(r, new)
  PROVE  undisturbed' \in [Runs -> [Entities -> BOOLEAN]]
<1> DEFINE still(q, e) ==
             /\ undisturbed[q][e]
             /\ \/ e # current[r]
                \/ discovered[q][e] = discovered[r][e] /\ key[q] = key[r]
<1>1. undisturbed' = [q \in Runs |-> [e \in Entities |-> still(q, e)]]
  BY DEF WriteIndex
<1>2. \A q, e : still(q, e) \in BOOLEAN
  OBVIOUS
<1> HIDE DEF still
<1> QED
  BY <1>1, <1>2

LEMMA TypeInitially == Init => TypeInv
BY ConstantsAssumption
   DEF Init, TypeInv, TypeOK, CurrentPending, Keys, NoIndex, Nothing, NoRows, NoOutcome,
       Phases, Outcomes

LEMMA TypeStep == TypeInv /\ [Next]_vars => TypeInv'
<1> SUFFICES ASSUME TypeInv, [Next]_vars PROVE TypeInv'
  OBVIOUS
<1> USE DEF TypeInv, Goto, Report, Fault, Phases, Outcomes, rows, store, locals
<1>1. ASSUME NEW r \in Runs, NEW f \in BOOLEAN, StartIngest(r, f) PROVE TypeInv'
  BY <1>1 DEF StartIngest, TypeOK, CurrentPending, Pending, NoRows, NoIndex, Nothing, NoOutcome
<1>2. ASSUME NEW r \in Runs, StartDelete(r) PROVE TypeInv'
  BY <1>2 DEF StartDelete, TypeOK, CurrentPending, Pending, NoOutcome
<1>3. ASSUME NEW r \in Runs, Discover(r) PROVE TypeInv'
  BY <1>3 DEF Discover, TypeOK, CurrentPending, Pending
<1>4. ASSUME NEW r \in Runs, CaseNotFound(r) PROVE TypeInv'
  BY <1>4 DEF CaseNotFound, TypeOK, CurrentPending, Pending
<1>5. ASSUME NEW r \in Runs, LoadIndexed(r) PROVE TypeInv'
  BY <1>5 DEF LoadIndexed, TypeOK, CurrentPending, Pending
<1>6. ASSUME NEW r \in Runs, NEW e \in Entities, Skip(r, e) PROVE TypeInv'
  BY <1>6 DEF Skip, TypeOK, CurrentPending, Pending
<1>7. ASSUME NEW r \in Runs, NEW e \in Entities, BeginEmbed(r, e) PROVE TypeInv'
  BY <1>7 DEF BeginEmbed, TypeOK, CurrentPending, Pending
<1>8. ASSUME NEW r \in Runs, Upsert(r) PROVE TypeInv'
  <2>1. Written(r) \in [Entities -> [Slots -> Payloads \cup {NoPoint}]]
    BY <1>8, WrittenType DEF Upsert
  <2>2. index' = Written(r) /\ undisturbed' \in [Runs -> [Entities -> BOOLEAN]]
    BY <1>8, WriteIndexType DEF Upsert, WriteIndex
  <2>3. CASE StaleIds(r) = {}
    <3>1. TypeOK'
      <4>1. outcome' \in [Runs -> [Entities -> Outcomes]] /\ pc' \in [Runs -> Phases]
        <5>1. Report(r, "embedded") /\ Goto(r, "next")
          BY <1>8, <2>3 DEF Upsert
        <5> QED
          BY <5>1 DEF TypeOK
      <4>2. UNCHANGED <<rows, force, key, discovered, seen, current, faults>>
        BY <1>8 DEF Upsert
      <4> QED
        BY <4>1, <4>2, <2>1, <2>2 DEF TypeOK
    <3>2. CurrentPending'
      BY <1>8, <2>3 DEF Upsert, TypeOK, CurrentPending, Pending
    <3> QED
      BY <3>1, <3>2
  <2>4. CASE StaleIds(r) # {}
    BY <1>8, <2>1, <2>2, <2>4 DEF Upsert, TypeOK, CurrentPending, Pending
  <2> QED
    BY <2>3, <2>4
<1>9. ASSUME NEW r \in Runs, DeleteStale(r) PROVE TypeInv'
  <2>1. WithoutStale(r) \in [Entities -> [Slots -> Payloads \cup {NoPoint}]]
    BY <1>9, WrittenType DEF DeleteStale
  <2>2. index' = WithoutStale(r) /\ undisturbed' \in [Runs -> [Entities -> BOOLEAN]]
    BY <1>9, WriteIndexType DEF DeleteStale, WriteIndex
  <2> QED
    BY <1>9, <2>1, <2>2 DEF DeleteStale, TypeOK, CurrentPending, Pending
<1>10. ASSUME NEW r \in Runs, Finish(r) PROVE TypeInv'
  BY <1>10 DEF Finish, TypeOK, CurrentPending, Pending
<1>11. ASSUME NEW r \in Runs, ListForDelete(r) PROVE TypeInv'
  BY <1>11 DEF ListForDelete, TypeOK, CurrentPending, Pending
<1>12. ASSUME NEW r \in Runs, DeleteByFilter(r) PROVE TypeInv'
  BY <1>12 DEF DeleteByFilter, TypeOK, CurrentPending, Pending, NoIndex, Nothing
<1>13. ASSUME NEW r \in Runs, LoadFails(r) PROVE TypeInv'
  BY <1>13, ConstantsAssumption DEF LoadFails, TypeOK, CurrentPending, Pending
<1>14. ASSUME NEW r \in Runs, EmbedFails(r) PROVE TypeInv'
  BY <1>14, ConstantsAssumption DEF EmbedFails, TypeOK, CurrentPending, Pending
<1>15. ASSUME NEW r \in Runs, UpsertFails(r) PROVE TypeInv'
  <2>1. Written(r) \in [Entities -> [Slots -> Payloads \cup {NoPoint}]]
    BY <1>15, WrittenType DEF UpsertFails
  <2>2. /\ index' \in [Entities -> [Slots -> Payloads \cup {NoPoint}]]
        /\ undisturbed' \in [Runs -> [Entities -> BOOLEAN]]
    <3>1. CASE WriteIndex(r, Written(r))
      BY <2>1, <3>1, WriteIndexType DEF WriteIndex
    <3>2. CASE UNCHANGED store
      BY <3>2 DEF TypeOK
    <3> QED
      BY <1>15, <3>1, <3>2 DEF UpsertFails
  <2>3. TypeOK'
    <3>1. outcome' \in [Runs -> [Entities -> Outcomes]] /\ pc' \in [Runs -> Phases]
      BY <1>15 DEF UpsertFails, TypeOK
    <3>2. UNCHANGED <<rows, force, key, discovered, seen, current>>
      BY <1>15 DEF UpsertFails
    <3>3. faults' \in 0 .. MaxFaults
      BY <1>15, ConstantsAssumption DEF UpsertFails, TypeOK
    <3> QED
      BY <3>1, <3>2, <3>3, <2>2 DEF TypeOK
  <2>4. CurrentPending'
    BY <1>15 DEF UpsertFails, TypeOK, CurrentPending, Pending
  <2> QED
    BY <2>3, <2>4
<1>16. ASSUME NEW r \in Runs, DeleteStaleFails(r) PROVE TypeInv'
  <2>1. WithoutStale(r) \in [Entities -> [Slots -> Payloads \cup {NoPoint}]]
    BY <1>16, WrittenType DEF DeleteStaleFails
  <2>2. /\ index' \in [Entities -> [Slots -> Payloads \cup {NoPoint}]]
        /\ undisturbed' \in [Runs -> [Entities -> BOOLEAN]]
    <3>1. CASE WriteIndex(r, WithoutStale(r))
      BY <2>1, <3>1, WriteIndexType DEF WriteIndex
    <3>2. CASE UNCHANGED store
      BY <3>2 DEF TypeOK
    <3> QED
      BY <1>16, <3>1, <3>2 DEF DeleteStaleFails
  <2>3. TypeOK'
    <3>1. outcome' \in [Runs -> [Entities -> Outcomes]] /\ pc' \in [Runs -> Phases]
      BY <1>16 DEF DeleteStaleFails, TypeOK
    <3>2. UNCHANGED <<rows, force, key, discovered, seen, current>>
      BY <1>16 DEF DeleteStaleFails
    <3>3. faults' \in 0 .. MaxFaults
      BY <1>16, ConstantsAssumption DEF DeleteStaleFails, TypeOK
    <3> QED
      BY <3>1, <3>2, <3>3, <2>2 DEF TypeOK
  <2>4. CurrentPending'
    BY <1>16 DEF DeleteStaleFails, TypeOK, CurrentPending, Pending
  <2> QED
    BY <2>3, <2>4
<1>17. ASSUME NEW r \in Runs, Abort(r) PROVE TypeInv'
  BY <1>17, ConstantsAssumption DEF Abort, TypeOK, CurrentPending, Pending, NoOutcome
<1>18. ASSUME NEW e \in Entities, NEW c \in Contents \cup {Absent}, EditEntity(e, c)
       PROVE TypeInv'
  BY <1>18, ConstantsAssumption DEF EditEntity, TypeOK, CurrentPending, Pending
<1>19. ASSUME NEW k \in Keys, Deploy(k) PROVE TypeInv'
  BY <1>19, ConstantsAssumption DEF Deploy, TypeOK, CurrentPending, Pending
<1>20. ASSUME NEW e \in Entities, NEW s \in Slots, LosePoint(e, s) PROVE TypeInv'
  BY <1>20, ConstantsAssumption DEF LosePoint, TypeOK, CurrentPending, Pending
<1>21. CASE UNCHANGED vars
  BY <1>21 DEF vars, TypeOK, CurrentPending, Pending
<1> QED
  BY <1>1, <1>2, <1>3, <1>4, <1>5, <1>6, <1>7, <1>8, <1>9, <1>10, <1>11, <1>12, <1>13,
     <1>14, <1>15, <1>16, <1>17, <1>18, <1>19, <1>20, <1>21
     DEF Next, IngestStep, DeleteStep, FaultStep, Environment

LEMMA TypeInvariance == Spec => []TypeInv
BY TypeInitially, TypeStep, PTL DEF Spec

(* Every state the service can reach is well typed.                        *)
THEOREM TypeCorrect == Spec => []TypeOK
<1>1. TypeInv => TypeOK
  BY DEF TypeInv
<1> QED
  BY <1>1, TypeInvariance, PTL

-----------------------------------------------------------------------------
(* Chunk 0 of the written entity is among the new points, so it is never    *)
(* stale; every other entity keeps its points.                             *)
LEMMA WritesKeepFirstChunk ==
  ASSUME TypeInv, NEW r \in Runs, pc[r] \in {"embed", "stale"}, NEW e \in Entities,
         index[e][0] # NoPoint
  PROVE  Written(r)[e][0] # NoPoint /\ WithoutStale(r)[e][0] # NoPoint
<1> DEFINE c == discovered[r][current[r]]
<1>1. c \in Contents /\ key[r] \in Keys /\ current[r] \in Entities
  BY WritingType DEF TypeInv
<1>2. 0 \in Slots
  BY ConstantsAssumption DEF Slots
<1>3. 0 \in Present(Full(c, key[r]))
  BY <1>1, <1>2, FullType, ConstantsAssumption
<1>4. Full(c, key[r])[0] # NoPoint /\ 0 \notin StaleIds(r)
  BY <1>3 DEF StaleIds, Present
<1>5. index \in [Entities -> [Slots -> Payloads \cup {NoPoint}]]
  BY DEF TypeInv, TypeOK
<1>6. CASE e = current[r]
  BY <1>1, <1>2, <1>4, <1>5, <1>6 DEF Written, WithoutStale
<1>7. CASE e # current[r]
  BY <1>1, <1>5, <1>7 DEF Written, WithoutStale
<1> QED
  BY <1>6, <1>7

(* Only four kinds of steps touch the vector store, and LoadIndexed starts  *)
(* a new observation of it.                                                *)
LEMMA StoreWriters ==
  ASSUME [Next]_vars
  PROVE  \/ UNCHANGED store
         \/ \E r \in Runs : LoadIndexed(r)
         \/ \E r \in Runs : /\ pc[r] = "embed"
                            /\ WriteIndex(r, Written(r))
         \/ \E r \in Runs : /\ pc[r] = "stale"
                            /\ WriteIndex(r, WithoutStale(r))
         \/ \E r \in Runs : DeleteByFilter(r)
         \/ \E e \in Entities, s \in Slots : LosePoint(e, s)
<1> USE DEF locals, rows
<1>1. ASSUME NEW r \in Runs, IngestStep(r), ~UNCHANGED store, ~LoadIndexed(r)
      PROVE  \/ pc[r] = "embed" /\ WriteIndex(r, Written(r))
             \/ pc[r] = "stale" /\ WriteIndex(r, WithoutStale(r))
  BY <1>1 DEF IngestStep, Discover, CaseNotFound, Skip, BeginEmbed, Upsert,
              DeleteStale, Finish
<1>2. ASSUME NEW r \in Runs, FaultStep(r), ~UNCHANGED store
      PROVE  \/ pc[r] = "embed" /\ WriteIndex(r, Written(r))
             \/ pc[r] = "stale" /\ WriteIndex(r, WithoutStale(r))
  BY <1>2 DEF FaultStep, LoadFails, EmbedFails, UpsertFails, DeleteStaleFails, Abort
<1>3. ASSUME NEW r \in Runs, DeleteStep(r)
      PROVE  UNCHANGED store \/ DeleteByFilter(r)
  BY <1>3 DEF DeleteStep, ListForDelete
<1>4. ASSUME NEW r \in Runs, StartDelete(r) \/ \E f \in BOOLEAN : StartIngest(r, f)
      PROVE  UNCHANGED store
  BY <1>4 DEF StartDelete, StartIngest
<1>5. ASSUME Environment
      PROVE  UNCHANGED store \/ \E e \in Entities, s \in Slots : LosePoint(e, s)
  BY <1>5 DEF Environment, EditEntity, Deploy
<1>6. CASE UNCHANGED vars
  BY <1>6 DEF vars, store
<1> QED
  BY <1>1, <1>2, <1>3, <1>4, <1>5, <1>6 DEF Next

LEMMA IndexWriters ==
  ASSUME [Next]_vars
  PROVE  \/ UNCHANGED index
         \/ \E r \in Runs : /\ pc[r] = "embed"
                            /\ WriteIndex(r, Written(r))
         \/ \E r \in Runs : /\ pc[r] = "stale"
                            /\ WriteIndex(r, WithoutStale(r))
         \/ \E r \in Runs : DeleteByFilter(r)
         \/ \E e \in Entities, s \in Slots : LosePoint(e, s)
<1>1. ASSUME NEW r \in Runs, LoadIndexed(r) PROVE UNCHANGED index
  BY <1>1 DEF LoadIndexed
<1>2. UNCHANGED store => UNCHANGED index
  BY DEF store
<1> QED
  BY <1>1, <1>2, StoreWriters

(* Re-indexing never takes an entity out of retrieval, under any           *)
(* interleaving of runs, failures and aborts.                              *)
THEOREM IndexedStaysIndexed == Spec => NeverUnindexed
<1> DEFINE Kept == \A e \in Entities :
             index[e][0] # NoPoint /\ index'[e][0] = NoPoint
               => \/ \E r \in Runs : DeleteByFilter(r)
                  \/ LosePoint(e, 0)
<1>1. TypeInv /\ [Next]_vars => [Kept]_vars
  <2> SUFFICES ASSUME TypeInv, [Next]_vars, NEW e \in Entities,
                      index[e][0] # NoPoint, index'[e][0] = NoPoint
               PROVE  (\E r \in Runs : DeleteByFilter(r)) \/ LosePoint(e, 0)
    OBVIOUS
  <2>1. ASSUME NEW r \in Runs, pc[r] = "embed", WriteIndex(r, Written(r)) PROVE FALSE
    BY <2>1, WritesKeepFirstChunk DEF WriteIndex
  <2>2. ASSUME NEW r \in Runs, pc[r] = "stale", WriteIndex(r, WithoutStale(r)) PROVE FALSE
    BY <2>2, WritesKeepFirstChunk DEF WriteIndex
  <2>3. ASSUME NEW f \in Entities, NEW s \in Slots, LosePoint(f, s)
        PROVE  LosePoint(e, 0)
    <3>1. index \in [Entities -> [Slots -> Payloads \cup {NoPoint}]]
      BY DEF TypeInv, TypeOK
    <3>2. index' = [index EXCEPT ![f][s] = NoPoint]
      BY <2>3 DEF LosePoint
    <3>3. 0 \in Slots
      BY ConstantsAssumption DEF Slots
    <3>4. f = e /\ s = 0
      BY <3>1, <3>2, <3>3
    <3> QED
      BY <2>3, <3>4
  <2> QED
    BY <2>1, <2>2, <2>3, IndexWriters
<1> QED
  BY <1>1, TypeInvariance, PTL DEF Spec, NeverUnindexed

-----------------------------------------------------------------------------
(* What a step may do to the snapshots of run r ...                        *)
LEMMA SnapshotFrame ==
  ASSUME TypeInv, [Next]_vars, NEW r \in Runs
  PROVE  \/ \E f \in BOOLEAN : StartIngest(r, f)
         \/ Discover(r)
         \/ LoadIndexed(r)
         \/ /\ discovered'[r] = discovered[r]
            /\ seen'[r] = seen[r]
            /\ key'[r] = key[r]
<1> USE DEF store, locals, rows
<1>1. ASSUME NEW q \in Runs, q # r,
             IngestStep(q) \/ \E f \in BOOLEAN : StartIngest(q, f)
      PROVE  discovered'[r] = discovered[r] /\ seen'[r] = seen[r] /\ key'[r] = key[r]
  BY <1>1 DEF IngestStep, StartIngest, Discover, CaseNotFound, LoadIndexed, Skip, BeginEmbed,
              Upsert, DeleteStale, Finish, TypeInv, TypeOK
<1>2. ASSUME IngestStep(r)
      PROVE  \/ Discover(r) \/ LoadIndexed(r)
             \/ discovered'[r] = discovered[r] /\ seen'[r] = seen[r] /\ key'[r] = key[r]
  BY <1>2 DEF IngestStep, CaseNotFound, Skip, BeginEmbed, Upsert, DeleteStale, Finish
<1>3. ASSUME NEW q \in Runs, FaultStep(q) \/ DeleteStep(q) \/ StartDelete(q)
      PROVE  UNCHANGED <<discovered, seen, key>>
  BY <1>3 DEF FaultStep, DeleteStep, LoadFails, EmbedFails, UpsertFails, DeleteStaleFails,
              Abort, ListForDelete, DeleteByFilter, StartDelete
<1>4. ASSUME Environment PROVE UNCHANGED <<discovered, seen, key>>
  BY <1>4 DEF Environment, EditEntity, Deploy, LosePoint
<1>5. CASE UNCHANGED vars
  BY <1>5 DEF vars
<1> QED
  BY <1>1, <1>2, <1>3, <1>4, <1>5 DEF Next

(* ... and to what it has reported about entity e.                         *)
LEMMA OutcomeFrame ==
  ASSUME TypeInv, [Next]_vars, NEW r \in Runs, NEW e \in Entities
  PROVE  \/ outcome'[r][e] = outcome[r][e]
         \/ outcome'[r][e] \in {"none", "failed"}
         \/ Skip(r, e)
         \/ /\ e = current[r] /\ outcome'[r][e] = "embedded"
            /\ (Upsert(r) /\ StaleIds(r) = {}) \/ DeleteStale(r)
<1> USE DEF store, locals, rows, Report, NoOutcome
<1> outcome \in [Runs -> [Entities -> Outcomes]] /\ current \in [Runs -> Entities]
  BY DEF TypeInv, TypeOK
<1>1. ASSUME NEW q \in Runs, Upsert(q), StaleIds(q) = {}
      PROVE  \/ outcome'[r][e] = outcome[r][e]
             \/ q = r /\ e = current[r] /\ outcome'[r][e] = "embedded"
  BY <1>1 DEF Upsert
<1>2. ASSUME NEW q \in Runs, Upsert(q), StaleIds(q) # {}
      PROVE  outcome'[r][e] = outcome[r][e]
  BY <1>2 DEF Upsert
<1>3. ASSUME NEW q \in Runs, DeleteStale(q)
      PROVE  \/ outcome'[r][e] = outcome[r][e]
             \/ q = r /\ e = current[r] /\ outcome'[r][e] = "embedded"
  BY <1>3 DEF DeleteStale
<1>4. ASSUME NEW q \in Runs, NEW f \in Entities, Skip(q, f)
      PROVE  outcome'[r][e] = outcome[r][e] \/ Skip(r, e)
  <2>1. CASE q = r /\ f = e
    BY <1>4, <2>1
  <2>2. CASE ~(q = r /\ f = e)
    BY <1>4, <2>2 DEF Skip
  <2> QED
    BY <2>1, <2>2
<1>5. ASSUME NEW q \in Runs,
             Discover(q) \/ CaseNotFound(q) \/ LoadIndexed(q) \/ Finish(q)
               \/ (\E f \in Entities : BeginEmbed(q, f)) \/ DeleteStep(q) \/ Environment
      PROVE  outcome'[r][e] = outcome[r][e]
  BY <1>5 DEF Discover, CaseNotFound, LoadIndexed, Finish, BeginEmbed, DeleteStep,
              ListForDelete, DeleteByFilter, Environment, EditEntity, Deploy, LosePoint
<1>6. ASSUME NEW q \in Runs, FaultStep(q) \/ StartDelete(q) \/ \E f \in BOOLEAN : StartIngest(q, f)
      PROVE  outcome'[r][e] = outcome[r][e] \/ outcome'[r][e] \in {"none", "failed"}
  BY <1>6 DEF FaultStep, LoadFails, EmbedFails, UpsertFails, DeleteStaleFails, Abort,
              StartDelete, StartIngest
<1>7. CASE UNCHANGED vars
  BY <1>7 DEF vars
<1> QED
  BY <1>1, <1>2, <1>3, <1>4, <1>5, <1>6, <1>7 DEF Next, IngestStep

LEMMA SourcesInitially == Init => PointsInv
BY DEF Init, PointsInv, SourcesArePast, SeenWellFormed, WellFormed, ReportedDiscovered,
       Provenance, SkippedWasComplete, NoIndex, Nothing, NoRows, NoOutcome, Present

LEMMA SourcesStep ==
  ASSUME TypeInv, SourcesArePast, [Next]_vars
  PROVE  SourcesArePast' /\ \A e \in Entities : past[e] \subseteq past'[e]
<1>1. \A e \in Entities : db'[e] \in past'[e] /\ past[e] \subseteq past'[e]
  <2> USE DEF rows, SourcesArePast, TypeInv, TypeOK
  <2>1. ASSUME NEW f \in Entities, NEW c \in Contents \cup {Absent}, EditEntity(f, c)
        PROVE  \A e \in Entities : db'[e] \in past'[e] /\ past[e] \subseteq past'[e]
    BY <2>1 DEF EditEntity
  <2>2. ASSUME NEW k \in Keys, Deploy(k) PROVE UNCHANGED <<db, past>>
    BY <2>2 DEF Deploy
  <2>3. ASSUME NEW f \in Entities, NEW s \in Slots, LosePoint(f, s) PROVE UNCHANGED <<db, past>>
    BY <2>3 DEF LosePoint
  <2>4. ASSUME NEW r \in Runs, IngestStep(r) PROVE UNCHANGED <<db, past>>
    BY <2>4 DEF IngestStep, Discover, CaseNotFound, LoadIndexed, Skip, BeginEmbed, Upsert,
                DeleteStale, Finish
  <2>5. ASSUME NEW r \in Runs, \/ FaultStep(r) \/ DeleteStep(r) \/ StartDelete(r)
                                \/ \E f \in BOOLEAN : StartIngest(r, f)
        PROVE  UNCHANGED <<db, past>>
    BY <2>5 DEF FaultStep, DeleteStep, LoadFails, EmbedFails, UpsertFails, DeleteStaleFails,
                Abort, ListForDelete, DeleteByFilter, StartDelete, StartIngest
  <2>6. CASE UNCHANGED vars
    BY <2>6 DEF vars
  <2> QED
    BY <2>1, <2>2, <2>3, <2>4, <2>5, <2>6 DEF Next, Environment
<1>2. ASSUME NEW r \in Runs, NEW e \in Entities, discovered'[r][e] # Absent
      PROVE  discovered'[r][e] \in past'[e]
  <2>1. CASE Discover(r)
    <3>1. discovered'[r][e] = db[e]
      BY <2>1 DEF Discover, TypeInv, TypeOK
    <3> QED
      BY <1>1, <3>1 DEF SourcesArePast
  <2>2. CASE \E f \in BOOLEAN : StartIngest(r, f)
    BY <1>2, <2>2 DEF StartIngest, NoRows, TypeInv, TypeOK
  <2>3. CASE discovered'[r] = discovered[r]
    BY <1>1, <1>2, <2>3 DEF SourcesArePast
  <2>4. CASE LoadIndexed(r)
    BY <1>1, <1>2, <2>4 DEF LoadIndexed, SourcesArePast
  <2> QED
    BY <2>1, <2>2, <2>3, <2>4, SnapshotFrame
<1> QED
  BY <1>1, <1>2 DEF SourcesArePast

LEMMA EarlyPhases ==
  ASSUME TypeInv, [Next]_vars, NEW r \in Runs, pc'[r] \in {"discover", "load"}
  PROVE  \/ \E f \in BOOLEAN : StartIngest(r, f)
         \/ Discover(r)
         \/ pc'[r] = pc[r] /\ outcome'[r] = outcome[r]
<1> USE DEF store, locals, rows, Goto, Report
<1> pc \in [Runs -> Phases] /\ outcome \in [Runs -> [Entities -> Outcomes]]
  BY DEF TypeInv, TypeOK
<1>1. ASSUME NEW q \in Runs, q # r,
             \/ IngestStep(q) \/ FaultStep(q) \/ DeleteStep(q) \/ StartDelete(q)
             \/ \E f \in BOOLEAN : StartIngest(q, f)
      PROVE  pc'[r] = pc[r] /\ outcome'[r] = outcome[r]
  BY <1>1 DEF IngestStep, StartIngest, Discover, CaseNotFound, LoadIndexed, Skip, BeginEmbed,
              Upsert, DeleteStale, Finish, FaultStep, LoadFails, EmbedFails, UpsertFails,
              DeleteStaleFails, Abort, DeleteStep, ListForDelete, DeleteByFilter, StartDelete
<1>2. ASSUME IngestStep(r) \/ FaultStep(r) \/ DeleteStep(r) \/ StartDelete(r), ~Discover(r)
      PROVE  FALSE
  <2>1. ~(CaseNotFound(r) \/ LoadIndexed(r) \/ Upsert(r) \/ DeleteStale(r) \/ Finish(r))
    BY DEF CaseNotFound, LoadIndexed, Upsert, DeleteStale, Finish
  <2>2. ~(FaultStep(r) \/ DeleteStep(r) \/ StartDelete(r))
    BY DEF FaultStep, LoadFails, EmbedFails, UpsertFails, DeleteStaleFails, Abort,
           DeleteStep, ListForDelete, DeleteByFilter, StartDelete
  <2>3. ~\E e \in Entities : Skip(r, e) \/ BeginEmbed(r, e)
    BY DEF Skip, BeginEmbed
  <2> QED
    BY <1>2, <2>1, <2>2, <2>3 DEF IngestStep
<1>3. ASSUME Environment PROVE pc'[r] = pc[r] /\ outcome'[r] = outcome[r]
  BY <1>3 DEF Environment, EditEntity, Deploy, LosePoint
<1>4. CASE UNCHANGED vars
  BY <1>4 DEF vars
<1> QED
  BY <1>1, <1>2, <1>3, <1>4 DEF Next

LEMMA ReportedStep ==
  ASSUME TypeInv, ReportedDiscovered, [Next]_vars
  PROVE  ReportedDiscovered'
<1>1. ASSUME NEW r \in Runs, pc'[r] \in {"discover", "load"}
      PROVE  outcome'[r] = NoOutcome
  <2>1. CASE \E f \in BOOLEAN : StartIngest(r, f)
    BY <2>1 DEF StartIngest, TypeInv, TypeOK
  <2>2. CASE Discover(r)
    BY <2>2 DEF Discover, ReportedDiscovered
  <2>3. CASE pc'[r] = pc[r] /\ outcome'[r] = outcome[r]
    BY <1>1, <2>3 DEF ReportedDiscovered
  <2> QED
    BY <1>1, <2>1, <2>2, <2>3, EarlyPhases
<1>2. ASSUME NEW r \in Runs, NEW e \in Entities, outcome'[r][e] \in {"embedded", "skipped"}
      PROVE  discovered'[r][e] # Absent
  <2>1. ~\E f \in BOOLEAN : StartIngest(r, f)
    BY <1>2 DEF StartIngest, NoOutcome, TypeInv, TypeOK
  <2>2. ~Discover(r)
    BY <1>2 DEF Discover, ReportedDiscovered, NoOutcome
  <2>3. discovered'[r] = discovered[r]
    BY <2>1, <2>2, SnapshotFrame DEF LoadIndexed
  <2>4. CASE outcome'[r][e] = outcome[r][e]
    BY <1>2, <2>3, <2>4 DEF ReportedDiscovered
  <2>5. CASE Skip(r, e)
    BY <2>3, <2>5 DEF Skip, Pending
  <2>6. CASE e = current[r] /\ (Upsert(r) \/ DeleteStale(r))
    <3>1. pc[r] \in {"embed", "stale"}
      BY <2>6 DEF Upsert, DeleteStale
    <3> QED
      BY <2>3, <2>6, <3>1, WritingType, ConstantsAssumption DEF TypeInv
  <2> QED
    BY <1>2, <2>4, <2>5, <2>6, OutcomeFrame
<1> QED
  BY <1>1, <1>2 DEF ReportedDiscovered

LEMMA ProvenanceStep ==
  ASSUME TypeInv, SourcesArePast, Provenance, [Next]_vars
  PROVE  Provenance'
<1> DEFINE Sound(e, s, p) == /\ p.content_hash \in past'[e]
                            /\ p = Payload(p.content_hash, p.indexing_key)
                            /\ s < p.chunk_count
<1>1. ASSUME NEW e \in Entities, NEW s \in Slots, index[e][s] # NoPoint
      PROVE  Sound(e, s, index[e][s])
  BY <1>1, SourcesStep DEF Provenance
<1>2. index \in [Entities -> [Slots -> Payloads \cup {NoPoint}]]
  BY DEF TypeInv, TypeOK
<1>3. ASSUME NEW e \in Entities, NEW s \in Slots, index'[e][s] # NoPoint
      PROVE  Sound(e, s, index'[e][s])
  <2> HIDE DEF Sound
  <2>1. CASE UNCHANGED index
    BY <1>1, <1>3, <2>1
  <2>2. ASSUME NEW r \in Runs, pc[r] = "embed", WriteIndex(r, Written(r))
        PROVE  Sound(e, s, index'[e][s])
    <3> DEFINE c == discovered[r][current[r]]
               k == key[r]
    <3>1. c \in Contents /\ k \in Keys /\ current[r] \in Entities
      BY <2>2, WritingType DEF TypeInv
    <3>2. index' = Written(r)
      BY <2>2 DEF WriteIndex
    <3>3. CASE e = current[r] /\ s < ChunkCount[c][k]
      <4>1. Full(c, k)[s] = Payload(c, k)
        BY <3>3 DEF Full
      <4>2. Full(c, k)[s] # NoPoint
        BY <3>1, <4>1, FullType, NoPointAssumption
      <4>3. index'[e][s] = Payload(c, k)
        BY <1>2, <3>1, <3>2, <3>3, <4>1, <4>2 DEF Written
      <4>4. c \in past'[e]
        BY <3>1, <3>3, SourcesStep, ConstantsAssumption DEF SourcesArePast
      <4> QED
        BY <3>3, <4>3, <4>4 DEF Sound, Payload
    <3>4. CASE e = current[r] /\ ~(s < ChunkCount[c][k])
      <4>1. Full(c, k)[s] = NoPoint
        BY <3>4 DEF Full
      <4>2. index'[e][s] = index[e][s]
        BY <1>2, <3>1, <3>2, <3>4, <4>1 DEF Written
      <4> QED
        BY <1>1, <1>3, <4>2
    <3>5. CASE e # current[r]
      BY <1>1, <1>2, <1>3, <3>1, <3>2, <3>5 DEF Written
    <3> QED
      BY <3>3, <3>4, <3>5
  <2>3. ASSUME NEW r \in Runs, pc[r] = "stale", WriteIndex(r, WithoutStale(r))
        PROVE  Sound(e, s, index'[e][s])
    <3>1. index' = WithoutStale(r)
      BY <2>3 DEF WriteIndex
    <3>2. index'[e][s] = index[e][s]
      <4>1. CASE e = current[r]
        BY <1>2, <1>3, <3>1, <4>1 DEF WithoutStale
      <4>2. CASE e # current[r]
        BY <1>2, <3>1, <4>2 DEF WithoutStale
      <4> QED
        BY <4>1, <4>2
    <3> QED
      BY <1>1, <1>3, <3>2
  <2>4. ASSUME NEW r \in Runs, DeleteByFilter(r) PROVE FALSE
    BY <1>3, <2>4 DEF DeleteByFilter, NoIndex, Nothing
  <2>5. ASSUME NEW f \in Entities, NEW t \in Slots, LosePoint(f, t)
        PROVE  Sound(e, s, index'[e][s])
    <3>1. index' = [index EXCEPT ![f][t] = NoPoint]
      BY <2>5 DEF LosePoint
    <3>2. index'[e][s] = index[e][s]
      BY <1>2, <1>3, <3>1
    <3> QED
      BY <1>1, <1>3, <3>2
  <2> QED
    BY <2>1, <2>2, <2>3, <2>4, <2>5, IndexWriters
<1> QED
  BY <1>3 DEF Provenance

LEMMA SeenStep ==
  ASSUME TypeInv, SeenWellFormed, Provenance, [Next]_vars
  PROVE  SeenWellFormed'
<1> SUFFICES ASSUME NEW r \in Runs, NEW e \in Entities PROVE WellFormed(seen'[r][e])
  BY DEF SeenWellFormed, WellFormed, Present
<1> seen \in [Runs -> [Entities -> [Slots -> Payloads \cup {NoPoint}]]]
  BY DEF TypeInv, TypeOK
<1>1. CASE \E f \in BOOLEAN : StartIngest(r, f)
  <2>1. seen'[r][e] = Nothing
    BY <1>1 DEF StartIngest, NoIndex
  <2> QED
    BY <2>1 DEF WellFormed, Present, Nothing
<1>2. CASE Discover(r)
  BY <1>2 DEF Discover, SeenWellFormed
<1>3. CASE LoadIndexed(r)
  <2>1. seen'[r][e] = index[e]
    BY <1>3 DEF LoadIndexed
  <2> QED
    BY <2>1 DEF Provenance, WellFormed, Present
<1>4. CASE seen'[r] = seen[r]
  BY <1>4 DEF SeenWellFormed
<1> QED
  BY <1>1, <1>2, <1>3, <1>4, SnapshotFrame

(* n different numbers below n are all the numbers below n.                *)
LEMMA WholeInterval ==
  ASSUME NEW n \in Nat \ {0}, NEW S \in SUBSET (0 .. n - 1), Cardinality(S) = n
  PROVE  S = 0 .. n - 1
<1>1. PICK m \in Int : m = n - 1
  OBVIOUS
<1>2. IsFiniteSet(0 .. m) /\ Cardinality(0 .. m) = m + 1
  BY <1>1, FS_Interval
<1>3. S \in SUBSET (0 .. m) /\ Cardinality(S) = Cardinality(0 .. m)
  BY <1>1, <1>2
<1>4. S = 0 .. m
  BY <1>2, <1>3, FS_Subset
<1> QED
  BY <1>1, <1>4

(* The heart of skip detection: a well-formed, uniform group that passes   *)
(* the test is the complete index of the content.                          *)
LEMMA UnchangedIsFull ==
  ASSUME NEW e \in Entities, NEW c \in Contents, NEW k \in Keys,
         NEW pts \in [Slots -> Payloads \cup {NoPoint}],
         WellFormed(pts), Uniform(pts), Unchanged(e, pts, c, k)
  PROVE  pts = Full(c, k)
<1> DEFINE S == Present(pts)
           n == ChunkCount[c][k]
<1>1. S \in (SUBSET Slots) \ {{}}
  BY DEF Unchanged, Present
<1>2. First[e][S] \in S
  BY <1>1, FirstAssumption
<1>3. n \in 1 .. MaxChunks /\ MaxChunks \in Nat
  BY ConstantsAssumption
<1>4. /\ pts[First[e][S]] = Payload(c, k)
      /\ Cardinality(S) = n
  <2>1. /\ pts[First[e][S]].content_hash = c
        /\ pts[First[e][S]].indexing_key = k
        /\ pts[First[e][S]].chunk_count = Cardinality(S)
    BY DEF Unchanged, Group0
  <2>2. pts[First[e][S]] = Payload(c, k)
    BY <1>2, <2>1 DEF WellFormed
  <2> QED
    BY <2>1, <2>2 DEF Payload
<1>5. \A s \in S : pts[s] = Payload(c, k) /\ s < n
  BY <1>2, <1>4 DEF Uniform, WellFormed, Payload
<1>6. S \in SUBSET (0 .. n - 1)
  BY <1>1, <1>3, <1>5 DEF Slots
<1>7. n \in Nat \ {0}
  BY <1>3
<1>8. S = 0 .. n - 1
  BY <1>4, <1>6, <1>7, WholeInterval
<1>9. \A s \in Slots : pts[s] = Full(c, k)[s]
  BY <1>3, <1>5, <1>8 DEF Full, Present, Slots
<1>10. Full(c, k) \in [Slots -> Payloads \cup {NoPoint}]
  BY FullType
<1> QED
  BY <1>9, <1>10

LEMMA SkippedStep ==
  ASSUME TypeInv, SeenWellFormed, ReportedDiscovered, SkippedWasComplete, [Next]_vars
  PROVE  SkippedWasComplete'
<1> SUFFICES ASSUME NEW r \in Runs, NEW e \in Entities,
                    outcome'[r][e] = "skipped", Uniform(seen'[r][e])
             PROVE  seen'[r][e] = Full(discovered'[r][e], key'[r])
  BY DEF SkippedWasComplete, Uniform, Present, Full, Payload
<1>1. ~\E f \in BOOLEAN : StartIngest(r, f)
  BY DEF StartIngest, NoOutcome, TypeInv, TypeOK
<1>2. ~Discover(r)
  BY DEF Discover, ReportedDiscovered, NoOutcome
<1>3. ~LoadIndexed(r)
  BY DEF LoadIndexed, ReportedDiscovered, NoOutcome
<1>4. discovered'[r] = discovered[r] /\ seen'[r] = seen[r] /\ key'[r] = key[r]
  BY <1>1, <1>2, <1>3, SnapshotFrame
<1>5. CASE outcome'[r][e] = outcome[r][e]
  BY <1>4, <1>5 DEF SkippedWasComplete
<1>6. CASE Skip(r, e)
  <2>1. /\ discovered[r][e] \in Contents
        /\ Unchanged(e, seen[r][e], discovered[r][e], key[r])
    BY <1>6 DEF Skip, CanSkip, Pending, TypeInv, TypeOK
  <2>2. seen[r][e] \in [Slots -> Payloads \cup {NoPoint}] /\ key[r] \in Keys
    BY DEF TypeInv, TypeOK
  <2>3. WellFormed(seen[r][e])
    BY DEF SeenWellFormed
  <2> QED
    BY <1>4, <2>1, <2>2, <2>3, UnchangedIsFull
<1> QED
  BY <1>5, <1>6, OutcomeFrame

LEMMA PointsInvariance == Spec => []PointsInv
<1>1. TypeInv /\ PointsInv /\ [Next]_vars => PointsInv'
  BY SourcesStep, SeenStep, ReportedStep, ProvenanceStep, SkippedStep DEF PointsInv
<1> QED
  BY <1>1, SourcesInitially, TypeInvariance, PTL DEF Spec

(* Retrieval only ever shows text Postgres held.                           *)
THEOREM IndexedTextWasHeld == Spec => []Provenance
<1>1. PointsInv => Provenance
  BY DEF PointsInv
<1> QED
  BY <1>1, PointsInvariance, PTL

(* A skipped entity whose points agree with each other is completely       *)
(* indexed for what the run discovered.                                    *)
THEOREM SkipsAreComplete == Spec => []SkippedWasComplete
<1>1. PointsInv => SkippedWasComplete
  BY DEF PointsInv
<1> QED
  BY <1>1, PointsInvariance, PTL

-----------------------------------------------------------------------------
(* EMBEDDED is exact: the effect of a write on the slots ...               *)
LEMMA WriteEffect ==
  ASSUME TypeInv, NEW r \in Runs, pc[r] \in {"embed", "stale"}, NEW e \in Entities,
         NEW s \in Slots
  PROVE  LET full == Full(discovered[r][current[r]], key[r]) IN
           /\ Written(r)[e][s] = IF e = current[r] /\ full[s] # NoPoint
                                   THEN full[s] ELSE index[e][s]
           /\ WithoutStale(r)[e][s] = IF e = current[r] /\ s \in StaleIds(r)
                                        THEN NoPoint ELSE index[e][s]
           /\ s \in StaleIds(r) => full[s] = NoPoint
           /\ full[s] = NoPoint /\ seen[r][current[r]][s] # NoPoint => s \in StaleIds(r)
<1> DEFINE full == Full(discovered[r][current[r]], key[r])
<1>1. current[r] \in Entities /\ index \in [Entities -> [Slots -> Payloads \cup {NoPoint}]]
  BY DEF TypeInv, TypeOK
<1>2. Written(r)[e][s] = IF e = current[r] /\ full[s] # NoPoint THEN full[s] ELSE index[e][s]
  BY <1>1 DEF Written
<1>3. WithoutStale(r)[e][s] = IF e = current[r] /\ s \in StaleIds(r) THEN NoPoint
                              ELSE index[e][s]
  BY <1>1 DEF WithoutStale
<1>4. s \in StaleIds(r) <=> seen[r][current[r]][s] # NoPoint /\ full[s] = NoPoint
  BY DEF StaleIds, Present
<1> QED
  BY <1>2, <1>3, <1>4

(* ... and what it leaves of another observer's entity: as long as run q    *)
(* counts e as undisturbed, a step can only bring e's points nearer to what *)
(* q is writing.                                                           *)
LEMMA UndisturbedFrame ==
  ASSUME TypeInv, [Next]_vars, NEW q \in Runs, NEW e \in Entities,
         undisturbed'[q][e], ~LoadIndexed(q)
  PROVE  /\ undisturbed[q][e]
         /\ \A s \in Slots :
              index'[e][s] \in {index[e][s], Full(discovered[q][e], key[q])[s]}
<1>1. CASE UNCHANGED store
  BY <1>1 DEF store
<1>2. ASSUME NEW r \in Runs, LoadIndexed(r) PROVE undisturbed'[q] = undisturbed[q] /\ index' = index
  BY <1>2 DEF LoadIndexed, TypeInv, TypeOK
<1>3. ASSUME NEW r \in Runs, pc[r] \in {"embed", "stale"}, NEW new, WriteIndex(r, new),
             new \in {Written(r), WithoutStale(r)}
      PROVE  /\ undisturbed[q][e]
             /\ \A s \in Slots :
                  index'[e][s] \in {index[e][s], Full(discovered[q][e], key[q])[s]}
  <2>1. /\ undisturbed[q][e]
        /\ \/ e # current[r]
           \/ discovered[q][e] = discovered[r][e] /\ key[q] = key[r]
    BY <1>3 DEF WriteIndex
  <2>2. index' = new
    BY <1>3 DEF WriteIndex
  <2>3. ASSUME NEW s \in Slots
        PROVE  index'[e][s] \in {index[e][s], Full(discovered[q][e], key[q])[s]}
    <3>1. CASE e # current[r]
      BY <1>3, <2>2, <3>1, WriteEffect
    <3>2. CASE e = current[r] /\ discovered[q][e] = discovered[r][e] /\ key[q] = key[r]
      BY <1>3, <2>2, <3>2, WriteEffect
    <3> QED
      BY <2>1, <3>1, <3>2
  <2> QED
    BY <2>1, <2>3
<1>4. ASSUME NEW r \in Runs, DeleteByFilter(r) PROVE FALSE
  BY <1>4 DEF DeleteByFilter
<1>5. ASSUME NEW f \in Entities, NEW t \in Slots, LosePoint(f, t)
      PROVE  undisturbed[q][e] /\ index'[e] = index[e]
  <2>1. undisturbed'[q] = [undisturbed[q] EXCEPT ![f] = FALSE]
    BY <1>5 DEF LosePoint
  <2>2. undisturbed[q] \in [Entities -> BOOLEAN]
    BY DEF TypeInv, TypeOK
  <2>3. e # f
    BY <2>1, <2>2
  <2>4. index' = [index EXCEPT ![f][t] = NoPoint]
    BY <1>5 DEF LosePoint
  <2> QED
    BY <2>1, <2>2, <2>3, <2>4 DEF TypeInv, TypeOK
<1> QED
  BY <1>1, <1>2, <1>3, <1>4, <1>5, StoreWriters

(* A run that is past its snapshot was past it before the step, or has just *)
(* taken it; it reaches the clean-up only through its own upsert.          *)
LEMMA WritingFrame ==
  ASSUME TypeInv, [Next]_vars, NEW r \in Runs, pc'[r] \in {"next", "embed", "stale"},
         NEW e \in Entities, outcome'[r][e] = "none", ~LoadIndexed(r)
  PROVE  /\ outcome[r][e] = "none"
         /\ \/ pc[r] \in {"next", "embed"}
            \/ pc[r] = "stale" /\ pc'[r] = "stale" /\ current'[r] = current[r]
            \/ pc[r] = "stale" /\ e # current[r]
         /\ pc'[r] = "stale" =>
              \/ Upsert(r) /\ current'[r] = current[r]
              \/ pc[r] = "stale" /\ current'[r] = current[r]
<1> USE DEF locals, Goto, Report
<1>0. /\ pc \in [Runs -> Phases] /\ current \in [Runs -> Entities]
      /\ outcome \in [Runs -> [Entities -> Outcomes]]
  BY DEF TypeInv, TypeOK
<1> DEFINE Still == /\ pc'[r] = pc[r] /\ current'[r] = current[r]
                    /\ outcome'[r] = outcome[r]
<1>1. ASSUME NEW q \in Runs, q # r,
             \/ IngestStep(q) \/ FaultStep(q) \/ DeleteStep(q) \/ StartDelete(q)
             \/ \E f \in BOOLEAN : StartIngest(q, f)
      PROVE  Still
  BY <1>0, <1>1 DEF IngestStep, StartIngest, Discover, CaseNotFound, LoadIndexed, Skip,
              BeginEmbed, Upsert, DeleteStale, Finish, FaultStep, LoadFails, EmbedFails,
              UpsertFails, DeleteStaleFails, Abort, DeleteStep, ListForDelete, DeleteByFilter,
              StartDelete
<1>2. ASSUME Environment \/ UNCHANGED vars PROVE Still
  BY <1>2 DEF Environment, EditEntity, Deploy, LosePoint, vars
<1>3. CASE Still
  BY <1>3
<1>4. ASSUME NEW f \in Entities, Skip(r, f) PROVE Still \/ (pc[r] = "next" /\ pc'[r] = "next"
                                                 /\ outcome[r][e] = "none")
  BY <1>0, <1>4 DEF Skip
<1>5. ASSUME NEW f \in Entities, BeginEmbed(r, f)
      PROVE  pc[r] = "next" /\ pc'[r] = "embed" /\ outcome[r][e] = "none"
  BY <1>0, <1>5 DEF BeginEmbed
<1>6. ASSUME Upsert(r)
      PROVE  pc[r] = "embed" /\ current'[r] = current[r] /\ outcome[r][e] = "none"
  BY <1>0, <1>6 DEF Upsert
<1>7. ASSUME DeleteStale(r) \/ DeleteStaleFails(r)
      PROVE  /\ pc[r] = "stale" /\ pc'[r] = "next" /\ current'[r] = current[r]
             /\ outcome[r][e] = "none" /\ e # current[r]
  BY <1>0, <1>7 DEF DeleteStale, DeleteStaleFails
<1>8. ASSUME EmbedFails(r) \/ UpsertFails(r)
      PROVE  pc[r] = "embed" /\ pc'[r] = "next" /\ outcome[r][e] = "none"
  BY <1>0, <1>8 DEF EmbedFails, UpsertFails
<1>9. ASSUME \/ Discover(r) \/ CaseNotFound(r) \/ Finish(r) \/ LoadFails(r) \/ Abort(r)
             \/ DeleteStep(r) \/ StartDelete(r) \/ \E f \in BOOLEAN : StartIngest(r, f)
      PROVE  FALSE
  BY <1>0, <1>9 DEF Discover, CaseNotFound, Finish, LoadFails, Abort, DeleteStep, ListForDelete,
                    DeleteByFilter, StartDelete, StartIngest
<1> HIDE DEF Still
<1>10. CASE \E q \in Runs : q # r /\ (\/ IngestStep(q) \/ FaultStep(q) \/ DeleteStep(q)
             \/ StartDelete(q) \/ \E f \in BOOLEAN : StartIngest(q, f))
  BY <1>1, <1>3, <1>10
<1>11. CASE IngestStep(r) \/ FaultStep(r)
  BY <1>3, <1>4, <1>5, <1>6, <1>7, <1>8, <1>9, <1>11 DEF IngestStep, FaultStep
<1> QED
  BY <1>2, <1>3, <1>9, <1>10, <1>11 DEF Next

LEMMA SnapshotStep ==
  ASSUME TypeInv, SnapshotCovers, [Next]_vars
  PROVE  SnapshotCovers'
<1> SUFFICES ASSUME NEW r \in Runs, NEW e \in Pending(r)', NEW s \in Slots,
                    undisturbed'[r][e],
                    \/ pc'[r] \in {"next", "embed"}
                    \/ pc'[r] = "stale" /\ e # current'[r],
                    s >= ChunkCount[discovered'[r][e]][key'[r]],
                    index'[e][s] # NoPoint
             PROVE  seen'[r][e][s] # NoPoint
  BY DEF SnapshotCovers
<1>1. e \in Entities /\ discovered'[r][e] # Absent /\ outcome'[r][e] = "none"
  BY DEF Pending
<1>2. CASE LoadIndexed(r)
  BY <1>1, <1>2 DEF LoadIndexed, TypeInv, TypeOK
<1>3. CASE ~LoadIndexed(r)
  <2>1. /\ outcome[r][e] = "none"
        /\ \/ pc[r] \in {"next", "embed"}
           \/ pc[r] = "stale" /\ e # current[r]
    BY <1>1, <1>3, WritingFrame
  <2>2. ~Discover(r) /\ ~\E f \in BOOLEAN : StartIngest(r, f)
    BY <2>1 DEF Discover, StartIngest
  <2>3. discovered'[r] = discovered[r] /\ seen'[r] = seen[r] /\ key'[r] = key[r]
    BY <1>3, <2>2, SnapshotFrame
  <2>4. e \in Pending(r)
    BY <1>1, <2>1, <2>3 DEF Pending
  <2>5. Full(discovered[r][e], key[r])[s] = NoPoint
    <3>1. discovered[r][e] \in Contents /\ key[r] \in Keys
      BY <1>1, <2>3 DEF TypeInv, TypeOK
    <3>2. ChunkCount[discovered[r][e]][key[r]] \in 1 .. MaxChunks /\ s \in 0 .. MaxChunks - 1
      BY <3>1, FullType DEF Slots
    <3>3. ~(s < ChunkCount[discovered[r][e]][key[r]])
      BY <2>3, <3>2, ConstantsAssumption
    <3> QED
      BY <3>3 DEF Full
  <2>6. undisturbed[r][e] /\ index[e][s] # NoPoint
    BY <1>1, <1>3, <2>5, UndisturbedFrame
  <2> QED
    BY <2>1, <2>3, <2>4, <2>6 DEF SnapshotCovers
<1> QED
  BY <1>2, <1>3

(* After an upsert, what is not yet right in the entity is a stale id.     *)
LEMMA UpsertLeavesStale ==
  ASSUME TypeInv, SnapshotCovers, NEW r \in Runs, Upsert(r),
         undisturbed[r][current[r]], NEW s \in Slots
  PROVE  \/ s \in StaleIds(r)
         \/ index'[current[r]][s] = Full(discovered[r][current[r]], key[r])[s]
<1> DEFINE e == current[r]
           full == Full(discovered[r][e], key[r])
<1>1. pc[r] = "embed" /\ index' = Written(r)
  BY DEF Upsert, WriteIndex
<1>2. e \in Entities /\ e \in Pending(r)
  BY <1>1 DEF TypeInv, TypeOK, CurrentPending
<1>3. index'[e][s] = IF full[s] # NoPoint THEN full[s] ELSE index[e][s]
  BY <1>1, <1>2, WriteEffect
<1>4. CASE full[s] = NoPoint /\ index[e][s] # NoPoint
  <2>1. discovered[r][e] \in Contents /\ key[r] \in Keys
    BY <1>1, WritingType DEF TypeInv
  <2>2. ChunkCount[discovered[r][e]][key[r]] \in 1 .. MaxChunks /\ s \in 0 .. MaxChunks - 1
    BY <2>1, FullType DEF Slots
  <2>3. Payload(discovered[r][e], key[r]) # NoPoint
    BY <2>1, FullType, NoPointAssumption
  <2>4. s >= ChunkCount[discovered[r][e]][key[r]]
    BY <1>4, <2>2, <2>3, ConstantsAssumption DEF Full
  <2>5. seen[r][e][s] # NoPoint
    BY <1>1, <1>2, <1>4, <2>4 DEF SnapshotCovers
  <2> QED
    BY <1>1, <1>2, <1>4, <2>5, WriteEffect
<1>5. CASE ~(full[s] = NoPoint /\ index[e][s] # NoPoint)
  BY <1>3, <1>5
<1> QED
  BY <1>4, <1>5

LEMMA HalfWrittenStep ==
  ASSUME TypeInv, SnapshotCovers, HalfWritten, [Next]_vars
  PROVE  HalfWritten'
<1> SUFFICES ASSUME NEW r \in Runs, pc'[r] = "stale", undisturbed'[r][current'[r]],
                    NEW s \in Slots
             PROVE  \/ s \in StaleIds(r)'
                    \/ index'[current'[r]][s]
                         = Full(discovered'[r][current'[r]], key'[r])[s]
  BY DEF HalfWritten, Full, Payload
<1> DEFINE e == current[r]
<1>1. TypeInv'
  BY TypeStep
<1>2. current'[r] \in Entities /\ outcome'[r][current'[r]] = "none"
  BY <1>1 DEF TypeInv, TypeOK, CurrentPending, Pending
<1>3. ~LoadIndexed(r)
  BY DEF LoadIndexed, Goto, TypeInv, TypeOK
<1>4. \/ Upsert(r) /\ current'[r] = e
      \/ pc[r] = "stale" /\ current'[r] = e
  BY <1>2, <1>3, WritingFrame
<1>5. ~Discover(r) /\ ~\E f \in BOOLEAN : StartIngest(r, f)
  BY <1>4 DEF Discover, StartIngest, Upsert
<1>6. /\ current'[r] = current[r]
      /\ discovered'[r] = discovered[r] /\ seen'[r] = seen[r] /\ key'[r] = key[r]
  BY <1>3, <1>4, <1>5, SnapshotFrame
<1>7. StaleIds(r)' = StaleIds(r)
  BY <1>6 DEF StaleIds, Full, Present, Payload
<1>8. undisturbed[r][e] /\ index'[e][s] \in {index[e][s], Full(discovered[r][e], key[r])[s]}
  BY <1>2, <1>3, <1>6, UndisturbedFrame
<1>9. CASE Upsert(r)
  BY <1>6, <1>7, <1>8, <1>9, UpsertLeavesStale
<1>10. CASE pc[r] = "stale"
  BY <1>6, <1>7, <1>8, <1>10 DEF HalfWritten
<1> QED
  BY <1>4, <1>9, <1>10

LEMMA EmbeddedStep ==
  ASSUME TypeInv, ExactInv, [Next]_vars
  PROVE  EmbeddedIsExact'
<1> USE DEF ExactInv
<1> SUFFICES ASSUME NEW r \in Runs, NEW e \in Entities,
                    outcome'[r][e] = "embedded", undisturbed'[r][e]
             PROVE  index'[e] = Full(discovered'[r][e], key'[r])
  BY DEF EmbeddedIsExact, Full, Payload
<1>1. ~\E f \in BOOLEAN : StartIngest(r, f)
  BY DEF StartIngest, NoOutcome, TypeInv, TypeOK
<1>2. ~Discover(r) /\ ~LoadIndexed(r)
  BY DEF Discover, LoadIndexed, ReportedDiscovered, NoOutcome
<1>3. discovered'[r] = discovered[r] /\ key'[r] = key[r]
  BY <1>1, <1>2, SnapshotFrame
<1>4. /\ discovered[r][e] \in Contents /\ key[r] \in Keys
      /\ index'[e] \in [Slots -> Payloads \cup {NoPoint}]
  <2>1. TypeOK' /\ ReportedDiscovered'
    BY TypeStep, ReportedStep DEF TypeInv
  <2> QED
    BY <1>3, <2>1 DEF TypeOK, ReportedDiscovered
<1> DEFINE full == Full(discovered[r][e], key[r])
<1>5. undisturbed[r][e] /\ \A s \in Slots : index'[e][s] \in {index[e][s], full[s]}
  BY <1>2, UndisturbedFrame
<1>6. \A s \in Slots : index'[e][s] = full[s]
  <2>1. CASE outcome'[r][e] = outcome[r][e]
    BY <1>5, <2>1 DEF EmbeddedIsExact
  <2>2. CASE e = current[r] /\ Upsert(r) /\ StaleIds(r) = {}
    BY <1>5, <2>2, UpsertLeavesStale
  <2>3. CASE e = current[r] /\ DeleteStale(r)
    <3>1. pc[r] = "stale" /\ index' = WithoutStale(r)
      BY <2>3 DEF DeleteStale, WriteIndex
    <3>2. ASSUME NEW s \in Slots PROVE index'[e][s] = full[s]
      <4>1. CASE s \in StaleIds(r)
        BY <2>3, <3>1, <4>1, WriteEffect
      <4>2. CASE s \notin StaleIds(r)
        <5>1. index[e][s] = full[s]
          BY <1>5, <2>3, <3>1, <4>2 DEF HalfWritten
        <5> QED
          BY <1>5, <5>1
      <4> QED
        BY <4>1, <4>2
    <3> QED
      BY <3>2
  <2>4. ~Skip(r, e)
    BY DEF Skip, TypeInv, TypeOK
  <2> QED
    BY <2>1, <2>2, <2>3, <2>4, OutcomeFrame
<1>7. full \in [Slots -> Payloads \cup {NoPoint}]
  BY <1>4, FullType
<1> QED
  BY <1>3, <1>4, <1>6, <1>7

LEMMA ExactInitially == Init => ExactInv
BY DEF Init, ExactInv, CurrentPending, ReportedDiscovered, SnapshotCovers, HalfWritten,
       EmbeddedIsExact, NoOutcome, NoIndex, Nothing

(* A run that reports EMBEDDED has left exactly the discovered content's   *)
(* chunks, unless somebody wrote something else in between: whatever the   *)
(* debris it found and whoever wrote the same content at the same time.    *)
THEOREM EmbeddedHasNoDebris == Spec => []EmbeddedIsExact
<1>1. TypeInv /\ ExactInv /\ [Next]_vars => ExactInv'
  <2> SUFFICES ASSUME TypeInv, ExactInv, [Next]_vars PROVE ExactInv'
    OBVIOUS
  <2>1. CurrentPending'
    BY TypeStep DEF TypeInv
  <2>2. ReportedDiscovered'
    BY ReportedStep DEF ExactInv
  <2>3. SnapshotCovers' /\ HalfWritten'
    BY SnapshotStep, HalfWrittenStep DEF ExactInv
  <2>4. EmbeddedIsExact'
    BY EmbeddedStep
  <2> QED
    BY <2>1, <2>2, <2>3, <2>4 DEF ExactInv
<1>2. ExactInv => EmbeddedIsExact
  BY DEF ExactInv
<1> QED
  BY <1>1, <1>2, ExactInitially, TypeInvariance, PTL DEF Spec
-----------------------------------------------------------------------------
(* Ingestion keeps the promise of CaseIndex.  What a write shows: the new   *)
(* version, because its first chunk is among the points written, and        *)
(* besides only what was shown before.                                      *)
LEMMA UpsertShows ==
  ASSUME TypeInv, PointsInv, NEW r \in Runs, pc[r] = "embed", WriteIndex(r, Written(r)),
         UNCHANGED past, faults' \in {faults, faults + 1}
  PROVE  Index!Show(current[r], discovered[r][current[r]])
<1> DEFINE e == current[r]
           c == discovered[r][e]
           full == Full(c, key[r])
           kept == {s \in Slots : index[e][s] # NoPoint /\ full[s] = NoPoint}
           some == {index[e][s].content_hash : s \in kept}
<1>1. e \in Entities /\ c \in Contents /\ key[r] \in Keys
  BY WritingType DEF TypeInv
<1>2. 0 \in Slots /\ 0 < ChunkCount[c][key[r]]
  BY <1>1, ConstantsAssumption DEF Slots
<1>3. \A s \in Slots : full[s] # NoPoint <=> s < ChunkCount[c][key[r]]
  BY <1>1, FullType DEF Present
<1>4. \A s \in Slots : full[s] # NoPoint => full[s].content_hash = c
  BY <1>3 DEF Full, Payload
<1>5. \A f \in Entities, s \in Slots :
        index'[f][s] = IF f = e /\ full[s] # NoPoint THEN full[s] ELSE index[f][s]
  BY WriteEffect DEF WriteIndex
<1>6. {index'[e][s].content_hash : s \in Present(index'[e])} = some \cup {c}
  <2>1. ASSUME NEW s \in Present(index'[e]) PROVE index'[e][s].content_hash \in some \cup {c}
    BY <1>1, <1>4, <1>5 DEF Present
  <2>2. ASSUME NEW s \in kept PROVE s \in Present(index'[e]) /\ index'[e][s] = index[e][s]
    BY <1>1, <1>5 DEF Present
  <2>3. 0 \in Present(index'[e]) /\ index'[e][0].content_hash = c
    BY <1>1, <1>2, <1>3, <1>4, <1>5 DEF Present
  <2> HIDE DEF full
  <2> QED
    BY <2>1, <2>2, <2>3
<1>7. some \in SUBSET ShownVersions[e]
  BY <1>1 DEF ShownVersions, Present
<1>8. ASSUME NEW f \in Entities, f # e PROVE Present(index'[f]) = Present(index[f])
                                 /\ \A s \in Slots : index'[f][s] = index[f][s]
  BY <1>5, <1>8 DEF Present
<1>9. ShownVersions' = [ShownVersions EXCEPT ![e] = some \cup {c}]
  <2>1. ASSUME NEW f \in Entities, f # e
        PROVE  {index'[f][s].content_hash : s \in Present(index'[f])}
                 = {index[f][s].content_hash : s \in Present(index[f])}
    BY <1>8, <2>1 DEF Present
  <2> HIDE DEF some, full, kept
  <2> QED
    BY <1>1, <1>6, <2>1 DEF ShownVersions
<1>10. FirstChunkThere' = [FirstChunkThere EXCEPT ![e] = TRUE]
  BY <1>1, <1>2, <1>3, <1>5 DEF FirstChunkThere
<1>11. c \in past[e]
  BY <1>1, ConstantsAssumption DEF PointsInv, SourcesArePast
<1> QED
  BY <1>7, <1>9, <1>10, <1>11 DEF Index!Show

(* What the clean-up of stale ids leaves.                                   *)
LEMMA DeleteTrims ==
  ASSUME TypeInv, NEW r \in Runs, pc[r] = "stale", WriteIndex(r, WithoutStale(r)),
         UNCHANGED past, faults' \in {faults, faults + 1}
  PROVE  Index!Trim(current[r])
<1> DEFINE e == current[r]
           some == {index'[e][s].content_hash : s \in Present(index'[e])}
<1>1. e \in Entities /\ 0 \in Slots
  BY WritingType, ConstantsAssumption DEF TypeInv, Slots
<1>2. \A f \in Entities, s \in Slots :
        index'[f][s] = IF f = e /\ s \in StaleIds(r) THEN NoPoint ELSE index[f][s]
  BY WriteEffect DEF WriteIndex
<1>3. \A f \in Entities : index[f][0] # NoPoint => index'[f][0] # NoPoint
  BY WritesKeepFirstChunk DEF WriteIndex
<1>4. some \in SUBSET ShownVersions[e]
  BY <1>1, <1>2 DEF ShownVersions, Present
<1>5. FirstChunkThere[e] => some # {}
  BY <1>1, <1>3 DEF FirstChunkThere, Present
<1>6. ShownVersions' = [ShownVersions EXCEPT ![e] = some]
  <2>1. ASSUME NEW f \in Entities, f # e
        PROVE  {index'[f][s].content_hash : s \in Present(index'[f])}
                 = {index[f][s].content_hash : s \in Present(index[f])}
    BY <1>2, <2>1 DEF Present
  <2> QED
    BY <1>1, <2>1 DEF ShownVersions
<1>7. UNCHANGED FirstChunkThere
  BY <1>1, <1>2, <1>3 DEF FirstChunkThere
<1> QED
  BY <1>4, <1>5, <1>6, <1>7 DEF Index!Trim

LEMMA LosingLoses ==
  ASSUME TypeInv, NEW e \in Entities, NEW s \in Slots, LosePoint(e, s)
  PROVE  Index!Lose(e)
<1> DEFINE some == {index'[e][t].content_hash : t \in Present(index'[e])}
<1>1. 0 \in Slots
  BY ConstantsAssumption DEF Slots
<1>2. \A f \in Entities, t \in Slots :
        index'[f][t] = IF f = e /\ t = s THEN NoPoint ELSE index[f][t]
  BY DEF LosePoint, TypeInv, TypeOK
<1>3. some \in SUBSET ShownVersions[e]
  BY <1>2 DEF ShownVersions, Present
<1>4. ShownVersions' = [ShownVersions EXCEPT ![e] = some]
  <2>1. ASSUME NEW f \in Entities, f # e
        PROVE  {index'[f][t].content_hash : t \in Present(index'[f])}
                 = {index[f][t].content_hash : t \in Present(index[f])}
    BY <1>2, <2>1 DEF Present
  <2> QED
    BY <2>1 DEF ShownVersions
<1>5. /\ FirstChunkThere' = [FirstChunkThere EXCEPT ![e] = (index'[e][0] # NoPoint)]
      /\ index'[e][0] # NoPoint => FirstChunkThere[e]
  BY <1>1, <1>2 DEF FirstChunkThere
<1>6. UNCHANGED past /\ faults' = faults + 1
  BY DEF LosePoint, rows, Fault
<1> QED
  BY <1>3, <1>4, <1>5, <1>6 DEF Index!Lose

(* A step that leaves the store alone changes held or faults at most.       *)
LEMMA IndexFrame ==
  ASSUME UNCHANGED index
  PROVE  UNCHANGED <<ShownVersions, FirstChunkThere>>
BY DEF ShownVersions, FirstChunkThere, Present

LEMMA PromiseStep ==
  ASSUME TypeInv, PointsInv, [Next]_vars
  PROVE  [Index!Next]_(Index!vars)
<1> USE DEF rows, store, Fault, locals
<1>1. ASSUME NEW e \in Entities, NEW c \in Contents \cup {Absent}, EditEntity(e, c)
      PROVE  Index!Edit(e, c)
  BY <1>1, IndexFrame DEF EditEntity, Index!Edit
<1>2. ASSUME NEW e \in Entities, NEW s \in Slots, LosePoint(e, s) PROVE Index!Next
  BY <1>2, LosingLoses DEF Index!Next
<1>3. ASSUME NEW k \in Keys, Deploy(k) PROVE UNCHANGED Index!vars
  BY <1>3, IndexFrame DEF Deploy, Index!vars
<1>4. ASSUME UNCHANGED <<index, past>>, faults' \in {faults, faults + 1} PROVE [Index!Next]_(Index!vars)
  BY <1>4, IndexFrame DEF Index!Next, Index!Fail, Index!vars
<1>5. ASSUME NEW r \in Runs, pc[r] = "embed", WriteIndex(r, Written(r)), UNCHANGED past,
             faults' \in {faults, faults + 1}
      PROVE  Index!Next
  <2>1. current[r] \in Entities /\ discovered[r][current[r]] \in Contents
    BY <1>5, WritingType DEF TypeInv
  <2> QED
    BY <1>5, <2>1, UpsertShows DEF Index!Next
<1>6. ASSUME NEW r \in Runs, pc[r] = "stale", WriteIndex(r, WithoutStale(r)), UNCHANGED past,
             faults' \in {faults, faults + 1}
      PROVE  Index!Next
  <2>1. current[r] \in Entities
    BY <1>6, WritingType DEF TypeInv
  <2> QED
    BY <1>6, <2>1, DeleteTrims DEF Index!Next
<1>7. ASSUME NEW r \in Runs, Upsert(r) \/ UpsertFails(r) PROVE [Index!Next]_(Index!vars)
  BY <1>4, <1>5, <1>7 DEF Upsert, UpsertFails, WriteIndex
<1>8. ASSUME NEW r \in Runs, DeleteStale(r) \/ DeleteStaleFails(r) PROVE [Index!Next]_(Index!vars)
  BY <1>4, <1>6, <1>8 DEF DeleteStale, DeleteStaleFails, WriteIndex
<1>9. ASSUME NEW r \in Runs, DeleteByFilter(r) PROVE Index!Withdraw
  <2>1. index' = NoIndex /\ UNCHANGED <<past, faults>>
    BY <1>9 DEF DeleteByFilter
  <2>2. ASSUME NEW e \in Entities
        PROVE  Present(index'[e]) = {} /\ index'[e][0] = NoPoint
    BY <2>1, ConstantsAssumption DEF NoIndex, Nothing, Present, Slots
  <2>3. /\ ShownVersions' = [e \in Entities |-> {}]
        /\ FirstChunkThere' = [e \in Entities |-> FALSE]
    BY <2>2 DEF ShownVersions, FirstChunkThere
  <2> QED
    BY <2>1, <2>3 DEF Index!Withdraw
<1>10. ASSUME NEW r \in Runs, StartDelete(r) \/ \E f \in BOOLEAN : StartIngest(r, f)
       PROVE  [Index!Next]_(Index!vars)
  BY <1>4, <1>10 DEF StartDelete, StartIngest
<1>11. ASSUME NEW r \in Runs, IngestStep(r) PROVE [Index!Next]_(Index!vars)
  BY <1>4, <1>7, <1>8, <1>11
     DEF IngestStep, Discover, CaseNotFound, LoadIndexed, Skip, BeginEmbed, Finish
<1>12. ASSUME NEW r \in Runs, DeleteStep(r) PROVE [Index!Next]_(Index!vars)
  BY <1>4, <1>9, <1>12 DEF DeleteStep, ListForDelete, Index!Next
<1>13. ASSUME NEW r \in Runs, FaultStep(r) PROVE [Index!Next]_(Index!vars)
  BY <1>4, <1>7, <1>8, <1>13 DEF FaultStep, LoadFails, EmbedFails, Abort
<1>14. CASE UNCHANGED vars
  BY <1>4, <1>14 DEF vars
<1>15. ASSUME Environment PROVE [Index!Next]_(Index!vars)
  BY <1>1, <1>2, <1>3, <1>15 DEF Environment, Index!Next
<1> QED
  BY <1>10, <1>11, <1>12, <1>13, <1>14, <1>15 DEF Next

LEMMA PromiseInitially == Init => Index!Init
<1> SUFFICES ASSUME Init PROVE Index!Init
  OBVIOUS
<1>1. db \in [Entities -> Contents \cup {Absent}] /\ past = [e \in Entities |-> {db[e]}]
  BY DEF Init
<1>2. \A e \in Entities : Present(index[e]) = {} /\ index[e][0] = NoPoint
  BY ConstantsAssumption DEF Init, NoIndex, Nothing, Present, Slots
<1>3. /\ ShownVersions = [e \in Entities |-> {}]
      /\ FirstChunkThere = [e \in Entities |-> FALSE]
  BY <1>2 DEF ShownVersions, FirstChunkThere
<1> QED
  BY <1>1, <1>3 DEF Index!Init, Init

(* Every behaviour of the runs, seen through the versions shown and held,   *)
(* is one of CaseIndex.                                                     *)
THEOREM IndexRefined == Spec => KeepsIndexPromise
BY PromiseInitially, PromiseStep, TypeInvariance, PointsInvariance, PTL
   DEF Spec, KeepsIndexPromise, Index!Spec

-----------------------------------------------------------------------------
(***************************************************************************)
(* What a run skips is what it discovered (SkippedIsExact), if runs follow  *)
(* one another.  Two things can still mix the points of an entity: a write  *)
(* that stops between upsert and clean-up leaves old points behind the new  *)
(* ones, and a point the store loses makes the count of such a mixture come *)
(* out right again.  Either alone is harmless, for opposite reasons:        *)
(*  - no point is lost: points of a version that can still be asked for are *)
(*    all there (Whole), so the count leaves no room for another point;     *)
(*  - no write stops half-way: an entity's points are of one version        *)
(*    (Tidy), and skip detection does not err over a uniform group.         *)
(* Both together break it with one run and three chunks: see the README.    *)
(***************************************************************************)
Serial == \A r, q \in Runs : r = q

(* A run that has discovered the rows it will compare and write.            *)
Busy == {"load", "next", "embed", "stale"}

(* The version of point p may still be what some run discovers or has.      *)
Alive(e, p) ==
  \/ p.content_hash = db[e] /\ p.indexing_key = config
  \/ \E r \in Runs : /\ pc[r] = "discover"
                     /\ p.content_hash = db[e] /\ p.indexing_key = key[r]
  \/ \E r \in Runs : /\ pc[r] \in Busy
                     /\ p.content_hash = discovered[r][e] /\ p.indexing_key = key[r]

(* Nothing in the store is newer than what a run is about to write.         *)
InOrder ==
  /\ \A r \in Runs : pc[r] \in Busy \cup {"discover"} => key[r] <= config
  /\ \A e \in Entities : \A s \in Present(index[e]) :
       /\ index[e][s].indexing_key <= config
       /\ \A r \in Runs :
            /\ pc[r] \in Busy \cup {"discover"} => index[e][s].indexing_key <= key[r]
            /\ pc[r] \in Busy /\ index[e][s].content_hash = db[e] => discovered[r][e] = db[e]

Whole ==
  \A e \in Entities : \A s \in Present(index[e]) :
    Alive(e, index[e][s]) =>
      \A t \in Slots : t < index[e][s].chunk_count => index[e][t] = index[e][s]

Tidy ==
  \A e \in Entities :
    \/ Uniform(index[e])
    \/ \E r \in Runs :
         /\ pc[r] = "stale" /\ current[r] = e
         /\ \A s \in Present(index[e]) \ StaleIds(r) :
              index[e][s] = Payload(discovered[r][e], key[r])

(* What a run saw of an entity it has not come to is there, or was lost.     *)
SeenHolds ==
  \A r \in Runs : \A e \in Pending(r) :
    \/ pc[r] \in {"next", "embed"}
    \/ pc[r] = "stale" /\ e # current[r]
    => /\ Present(index[e]) \subseteq Present(seen[r][e])
       /\ undisturbed[r][e] => seen[r][e] = index[e]

HalfWrites(r) == UpsertFails(r) \/ DeleteStaleFails(r) \/ (pc[r] = "stale" /\ Abort(r))

NoLoss      == \A e \in Entities, s \in Slots : ~ LosePoint(e, s)
NoHalfWrite == \A r \in Runs : ~ HalfWrites(r)

(* A point of the index says what version it is of, and where it belongs.   *)
LEMMA PointFacts ==
  ASSUME TypeInv, Provenance, NEW e \in Entities, NEW s \in Present(index[e])
  PROVE  /\ s \in Slots /\ index[e][s] # NoPoint
         /\ index[e][s] \in Payloads
         /\ index[e][s].content_hash \in Contents /\ index[e][s].content_hash \in past[e]
         /\ index[e][s].indexing_key \in Keys
         /\ index[e][s] = Payload(index[e][s].content_hash, index[e][s].indexing_key)
         /\ index[e][s].chunk_count
              = ChunkCount[index[e][s].content_hash][index[e][s].indexing_key]
         /\ s < index[e][s].chunk_count
<1>1. s \in Slots /\ index[e][s] # NoPoint
  BY DEF Present
<1>2. index[e][s] \in Payloads
  BY <1>1 DEF TypeInv, TypeOK
<1>3. index[e][s].content_hash \in Contents /\ index[e][s].indexing_key \in Keys
  BY <1>2 DEF Payloads
<1>4. /\ index[e][s].content_hash \in past[e]
      /\ index[e][s] = Payload(index[e][s].content_hash, index[e][s].indexing_key)
      /\ s < index[e][s].chunk_count
  BY <1>1 DEF Provenance
<1>5. index[e][s].chunk_count
        = ChunkCount[index[e][s].content_hash][index[e][s].indexing_key]
  BY <1>4 DEF Payload
<1> QED BY <1>1, <1>2, <1>3, <1>4, <1>5

(* Rows change beside the runs and the store, and settings move forward.    *)
LEMMA RowsFrame ==
  ASSUME [Next]_vars
  PROVE  \/ UNCHANGED rows
         \/ /\ UNCHANGED <<index, pc, key, discovered>>
            /\ \/ \E e \in Entities, c \in Contents \cup {Absent} : EditEntity(e, c)
               \/ \E k \in Keys : Deploy(k)
<1> USE DEF rows
<1>1. ASSUME NEW r \in Runs, IngestStep(r) PROVE UNCHANGED rows
  BY <1>1 DEF IngestStep, Discover, CaseNotFound, LoadIndexed, Skip, BeginEmbed, Upsert,
              DeleteStale, Finish
<1>2. ASSUME NEW r \in Runs, \/ FaultStep(r) \/ DeleteStep(r) \/ StartDelete(r)
                              \/ \E f \in BOOLEAN : StartIngest(r, f)
      PROVE  UNCHANGED rows
  BY <1>2 DEF FaultStep, DeleteStep, LoadFails, EmbedFails, UpsertFails, DeleteStaleFails,
              Abort, ListForDelete, DeleteByFilter, StartDelete, StartIngest
<1>3. ASSUME NEW e \in Entities, NEW s \in Slots, LosePoint(e, s) PROVE UNCHANGED rows
  BY <1>3 DEF LosePoint
<1>4. ASSUME NEW e \in Entities, NEW c \in Contents \cup {Absent}, EditEntity(e, c)
      PROVE  UNCHANGED <<index, pc, key, discovered>>
  BY <1>4 DEF EditEntity, store, locals
<1>5. ASSUME NEW k \in Keys, Deploy(k) PROVE UNCHANGED <<index, pc, key, discovered>>
  BY <1>5 DEF Deploy, store, locals
<1>6. CASE UNCHANGED vars
  BY <1>6 DEF vars
<1> QED
  BY <1>1, <1>2, <1>3, <1>4, <1>5, <1>6 DEF Next, Environment

(* A run gets to work through StartIngest and Discover, and keeps what it   *)
(* has until it is done.                                                    *)
LEMMA BusyFrame ==
  ASSUME TypeInv, [Next]_vars, NEW r \in Runs, pc'[r] \in Busy \cup {"discover"}
  PROVE  \/ \E f \in BOOLEAN : StartIngest(r, f)
         \/ Discover(r)
         \/ /\ pc[r] \in Busy <=> pc'[r] \in Busy
            /\ pc[r] \in Busy \cup {"discover"}
            /\ key'[r] = key[r] /\ discovered'[r] = discovered[r]
<1> USE DEF store, locals, rows, Goto, Busy
<1> pc \in [Runs -> Phases]
  BY DEF TypeInv, TypeOK
<1> DEFINE Same == pc[r] \in Busy \cup {"discover"} /\ (pc[r] \in Busy <=> pc'[r] \in Busy)
<1>1. ASSUME NEW q \in Runs, q # r,
             \/ IngestStep(q) \/ FaultStep(q) \/ DeleteStep(q) \/ StartDelete(q)
             \/ \E f \in BOOLEAN : StartIngest(q, f)
      PROVE  Same
  BY <1>1 DEF IngestStep, StartIngest, Discover, CaseNotFound, LoadIndexed, Skip, BeginEmbed,
              Upsert, DeleteStale, Finish, FaultStep, LoadFails, EmbedFails, UpsertFails,
              DeleteStaleFails, Abort, DeleteStep, ListForDelete, DeleteByFilter, StartDelete
<1>2. ASSUME IngestStep(r), ~Discover(r) PROVE Same
  BY <1>2 DEF IngestStep, CaseNotFound, LoadIndexed, Skip, BeginEmbed, Upsert, DeleteStale, Finish
<1>3. ASSUME FaultStep(r) \/ DeleteStep(r) \/ StartDelete(r) PROVE Same
  BY <1>3 DEF FaultStep, LoadFails, EmbedFails, UpsertFails, DeleteStaleFails, Abort,
              DeleteStep, ListForDelete, DeleteByFilter, StartDelete
<1>4. ASSUME Environment \/ UNCHANGED vars PROVE Same
  BY <1>4 DEF Environment, EditEntity, Deploy, LosePoint, vars
<1>5. \/ \E f \in BOOLEAN : StartIngest(r, f)
      \/ Discover(r)
      \/ Same
  BY <1>1, <1>2, <1>3, <1>4 DEF Next
<1>6. \/ \E f \in BOOLEAN : StartIngest(r, f)
      \/ Discover(r)
      \/ key'[r] = key[r] /\ discovered'[r] = discovered[r]
  <2>1. LoadIndexed(r) => key'[r] = key[r] /\ discovered'[r] = discovered[r]
    BY DEF LoadIndexed
  <2> QED BY <2>1, SnapshotFrame
<1> QED BY <1>5, <1>6

LEMMA ConfigGrows ==
  ASSUME ~AllowRevert, TypeInv, [Next]_vars
  PROVE  config \in Nat /\ config' \in Nat /\ config <= config'
<1>1. config \in Keys /\ config' \in Keys
  BY TypeStep DEF TypeInv, TypeOK
<1>2. config \in Nat /\ config' \in Nat
  BY <1>1, ConstantsAssumption DEF Keys
<1>3. UNCHANGED rows => config' = config
  BY DEF rows
<1>4. ASSUME NEW e \in Entities, NEW c \in Contents \cup {Absent}, EditEntity(e, c)
      PROVE  config' = config
  BY <1>4 DEF EditEntity
<1>5. ASSUME NEW k \in Keys, Deploy(k) PROVE config <= config'
  <2>1. config' = k /\ ~(k < config) /\ k \in Nat
    BY <1>1, <1>2, <1>5 DEF Deploy
  <2> QED BY <1>2, <2>1
<1> QED BY <1>2, <1>3, <1>4, <1>5, RowsFrame

(* A version nobody can ask for any more stays so: neither the case data    *)
(* nor the settings go back.                                                *)
LEMMA AliveShrinks ==
  ASSUME ~AllowRevert, TypeInv, [Next]_vars, NEW e \in Entities, NEW p \in Payloads,
         p.content_hash \in past[e], p.indexing_key <= config, Alive(e, p)'
  PROVE  Alive(e, p)
<1>0. /\ p.indexing_key \in Nat /\ config \in Nat
      /\ db \in [Entities -> Contents \cup {Absent}]
      /\ Keys \subseteq Nat
  BY ConstantsAssumption DEF TypeInv, TypeOK, Keys, Payloads
<1>1. ASSUME NEW r \in Runs, pc'[r] = "discover"
      PROVE  \/ key'[r] = config
             \/ pc[r] = "discover" /\ key'[r] = key[r]
  <2>1. CASE \E f \in BOOLEAN : StartIngest(r, f)
    BY <2>1 DEF StartIngest, TypeInv, TypeOK
  <2>2. ~Discover(r)
    BY <1>1 DEF Discover, Goto, TypeInv, TypeOK
  <2> QED BY <1>1, <2>1, <2>2, BusyFrame DEF Busy
<1>2. ASSUME NEW r \in Runs, pc'[r] \in Busy
      PROVE  \/ pc[r] = "discover" /\ key'[r] = key[r] /\ discovered'[r] = db
             \/ pc[r] \in Busy /\ key'[r] = key[r] /\ discovered'[r] = discovered[r]
  <2>1. ~\E f \in BOOLEAN : StartIngest(r, f)
    BY <1>2 DEF StartIngest, Goto, Busy, TypeInv, TypeOK
  <2>2. CASE Discover(r)
    BY <2>2 DEF Discover, TypeInv, TypeOK
  <2> QED BY <1>2, <2>1, <2>2, BusyFrame
<1>3. CASE UNCHANGED rows
  <2>1. db' = db /\ config' = config
    BY <1>3 DEF rows
  <2> QED BY <1>1, <1>2, <2>1 DEF Alive
<1>4. CASE UNCHANGED <<index, pc, key, discovered>>
  <2>1. ASSUME NEW f \in Entities, NEW c \in Contents \cup {Absent}, EditEntity(f, c)
        PROVE  Alive(e, p)
    <3>1. config' = config /\ (p.content_hash = db'[e] => db'[e] = db[e])
      BY <1>0, <2>1 DEF EditEntity
    <3> QED BY <1>4, <3>1 DEF Alive
  <2>2. ASSUME NEW k \in Keys, Deploy(k) PROVE Alive(e, p)
    <3>1. db' = db /\ config' = k /\ k # config /\ ~(k < config) /\ k \in Nat
      BY <1>0, <2>2 DEF Deploy
    <3>2. p.indexing_key # config'
      BY <1>0, <3>1
    <3> QED BY <1>4, <3>1, <3>2 DEF Alive
  <2>3. CASE UNCHANGED rows
    BY <1>3, <2>3
  <2> QED BY <2>1, <2>2, <2>3, RowsFrame
<1> QED BY <1>3, <1>4, RowsFrame

(* While the only run is at work, the versions that can be asked for and    *)
(* have points are one: the run's own.                                      *)
LEMMA AlivePoint ==
  ASSUME Serial, TypeInv, Provenance, InOrder, NEW r \in Runs, pc[r] \in Busy,
         NEW e \in Entities, NEW s \in Present(index[e]), Alive(e, index[e][s])
  PROVE  index[e][s] = Payload(discovered[r][e], key[r])
<1> DEFINE p == index[e][s]
<1>1. p = Payload(p.content_hash, p.indexing_key)
  BY PointFacts
<1>2. p.indexing_key \in Nat /\ key[r] \in Nat /\ config \in Nat
  BY PointFacts, ConstantsAssumption DEF TypeInv, TypeOK, Keys
<1>3. CASE p.content_hash = db[e] /\ p.indexing_key = config
  <2>1. key[r] <= config /\ p.indexing_key <= key[r] /\ discovered[r][e] = db[e]
    BY <1>3 DEF InOrder
  <2>2. p.indexing_key = key[r]
    BY <1>2, <1>3, <2>1
  <2> QED BY <1>1, <1>3, <2>1, <2>2
<1>4. ASSUME NEW q \in Runs, pc[q] = "discover" PROVE FALSE
  <2>1. q = r
    BY DEF Serial
  <2> QED BY <1>4, <2>1 DEF Busy
<1>5. ASSUME NEW q \in Runs, p.content_hash = discovered[q][e], p.indexing_key = key[q]
      PROVE  p = Payload(discovered[r][e], key[r])
  <2>1. q = r
    BY DEF Serial
  <2> QED BY <1>1, <1>5, <2>1
<1> QED BY <1>3, <1>4, <1>5 DEF Alive

(* What changes an entity's points.                                         *)
LEMMA EntityWrites ==
  ASSUME TypeInv, [Next]_vars, NEW e \in Entities
  PROVE  \/ index'[e] = index[e]
         \/ \E r \in Runs : /\ e = current[r] /\ pc[r] = "embed" /\ index' = Written(r)
                            /\ Upsert(r) \/ UpsertFails(r)
         \/ \E r \in Runs : /\ e = current[r] /\ pc[r] = "stale" /\ index' = WithoutStale(r)
                            /\ DeleteStale(r) \/ DeleteStaleFails(r)
         \/ \E r \in Runs : DeleteByFilter(r) /\ index'[e] = Nothing
         \/ \E s \in Slots : LosePoint(e, s) /\ index'[e] = [index[e] EXCEPT ![s] = NoPoint]
<1> USE DEF locals, rows, store
<1>0. index \in [Entities -> [Slots -> Payloads \cup {NoPoint}]]
  BY DEF TypeInv, TypeOK
<1>1. ASSUME NEW r \in Runs, Upsert(r) \/ UpsertFails(r), index'[e] # index[e]
      PROVE  e = current[r] /\ pc[r] = "embed" /\ index' = Written(r)
  <2>1. pc[r] = "embed" /\ (index' = Written(r) \/ index' = index)
    BY <1>1 DEF Upsert, UpsertFails, WriteIndex
  <2>2. index' = Written(r)
    BY <1>1, <2>1
  <2>3. e # current[r] => Written(r)[e] = index[e]
    BY <1>0 DEF Written
  <2> QED BY <1>1, <2>1, <2>2, <2>3
<1>2. ASSUME NEW r \in Runs, DeleteStale(r) \/ DeleteStaleFails(r), index'[e] # index[e]
      PROVE  e = current[r] /\ pc[r] = "stale" /\ index' = WithoutStale(r)
  <2>1. pc[r] = "stale" /\ (index' = WithoutStale(r) \/ index' = index)
    BY <1>2 DEF DeleteStale, DeleteStaleFails, WriteIndex
  <2>2. index' = WithoutStale(r)
    BY <1>2, <2>1
  <2>3. e # current[r] => WithoutStale(r)[e] = index[e]
    BY <1>0 DEF WithoutStale
  <2> QED BY <1>2, <2>1, <2>2, <2>3
<1>3. ASSUME NEW r \in Runs, IngestStep(r)
      PROVE  index' = index \/ Upsert(r) \/ DeleteStale(r)
  BY <1>3 DEF IngestStep, Discover, CaseNotFound, LoadIndexed, Skip, BeginEmbed, Finish
<1>4. ASSUME NEW r \in Runs, FaultStep(r)
      PROVE  index' = index \/ UpsertFails(r) \/ DeleteStaleFails(r)
  BY <1>4 DEF FaultStep, LoadFails, EmbedFails, Abort
<1>5. ASSUME NEW r \in Runs, DeleteStep(r)
      PROVE  index' = index \/ (DeleteByFilter(r) /\ index'[e] = Nothing)
  BY <1>5 DEF DeleteStep, ListForDelete, DeleteByFilter, NoIndex
<1>6. ASSUME NEW r \in Runs, StartDelete(r) \/ \E f \in BOOLEAN : StartIngest(r, f)
      PROVE  index' = index
  BY <1>6 DEF StartDelete, StartIngest
<1>7. ASSUME NEW f \in Entities, NEW s \in Slots, LosePoint(f, s)
      PROVE  \/ index'[e] = index[e]
             \/ f = e /\ index'[e] = [index[e] EXCEPT ![s] = NoPoint]
  BY <1>0, <1>7 DEF LosePoint
<1>8. ASSUME Environment
      PROVE  index' = index \/ \E f \in Entities, s \in Slots : LosePoint(f, s)
  BY <1>8 DEF Environment, EditEntity, Deploy
<1>9. CASE UNCHANGED vars
  BY <1>9 DEF vars
<1> QED
  BY <1>1, <1>2, <1>3, <1>4, <1>5, <1>6, <1>7, <1>8, <1>9 DEF Next

(* A point that a step leaves in the store was there, or is one of the run  *)
(* that writes its entity.                                                  *)
LEMMA PointOrigin ==
  ASSUME TypeInv, [Next]_vars, NEW e \in Entities, NEW s \in Present(index'[e])
  PROVE  \/ s \in Present(index[e]) /\ index'[e][s] = index[e][s]
         \/ \E r \in Runs : /\ e = current[r] /\ pc[r] = "embed"
                            /\ Full(discovered[r][e], key[r])[s] # NoPoint
                            /\ index'[e][s] = Full(discovered[r][e], key[r])[s]
                            /\ index'[e][s] = Payload(discovered[r][e], key[r])
<1>0. s \in Slots /\ index'[e][s] # NoPoint
  BY DEF Present
<1>1. CASE index'[e] = index[e]
  BY <1>0, <1>1 DEF Present
<1>2. ASSUME NEW r \in Runs, e = current[r], pc[r] = "embed", index' = Written(r)
      PROVE  \/ index'[e][s] = index[e][s]
             \/ /\ Full(discovered[r][e], key[r])[s] # NoPoint
                /\ index'[e][s] = Full(discovered[r][e], key[r])[s]
                /\ index'[e][s] = Payload(discovered[r][e], key[r])
  BY <1>0, <1>2, WriteEffect DEF Full
<1>3. ASSUME NEW r \in Runs, e = current[r], pc[r] = "stale", index' = WithoutStale(r)
      PROVE  index'[e][s] = index[e][s]
  BY <1>0, <1>3, WriteEffect
<1>4. index'[e] # Nothing
  BY <1>0 DEF Nothing
<1>5. ASSUME NEW t \in Slots, index'[e] = [index[e] EXCEPT ![t] = NoPoint]
      PROVE  index'[e][s] = index[e][s]
  BY <1>0, <1>5 DEF TypeInv, TypeOK
<1> QED
  BY <1>0, <1>1, <1>2, <1>3, <1>4, <1>5, EntityWrites DEF Present

LEMMA InOrderStep ==
  ASSUME Serial, ~AllowRevert, TypeInv, SourcesArePast, Provenance, InOrder, [Next]_vars
  PROVE  InOrder'
<1>0. /\ Keys \subseteq Nat /\ config \in Nat /\ config' \in Nat /\ config <= config'
      /\ key \in [Runs -> Keys] /\ db \in [Entities -> Contents \cup {Absent}]
      /\ pc \in [Runs -> Phases]
  BY ConfigGrows, ConstantsAssumption DEF TypeInv, TypeOK, Keys
<1>1. ASSUME NEW r \in Runs, \E f \in BOOLEAN : StartIngest(r, f)
      PROVE  key'[r] = config /\ pc'[r] = "discover"
  BY <1>0, <1>1 DEF StartIngest, Goto
<1>2. ASSUME NEW r \in Runs, Discover(r)
      PROVE  /\ pc[r] = "discover" /\ key'[r] = key[r] /\ discovered'[r] = db
             /\ UNCHANGED rows
  BY <1>2 DEF Discover, TypeInv, TypeOK, rows
<1>3. ASSUME NEW r \in Runs, pc'[r] \in Busy \cup {"discover"}
      PROVE  key'[r] <= config'
  <2>1. key[r] \in Nat /\ key'[r] \in Nat
    BY <1>0, TypeStep DEF TypeInv, TypeOK
  <2>2. CASE \E f \in BOOLEAN : StartIngest(r, f)
    BY <1>0, <1>1, <2>2
  <2>3. CASE pc[r] \in Busy \cup {"discover"} /\ key'[r] = key[r]
    <3>1. key[r] <= config
      BY <2>3 DEF InOrder
    <3> QED BY <1>0, <2>1, <2>3, <3>1
  <2> QED BY <1>2, <1>3, <2>2, <2>3, BusyFrame
<1>4. ASSUME NEW e \in Entities, NEW s \in Present(index'[e]),
             s \in Present(index[e]), index'[e][s] = index[e][s]
      PROVE  /\ index'[e][s].indexing_key <= config'
             /\ \A r \in Runs :
                  /\ pc'[r] \in Busy \cup {"discover"} => index'[e][s].indexing_key <= key'[r]
                  /\ pc'[r] \in Busy /\ index'[e][s].content_hash = db'[e]
                       => discovered'[r][e] = db'[e]
  <2> DEFINE p == index[e][s]
  <2>1. p.indexing_key \in Nat /\ p.content_hash \in past[e]
    BY <1>0, <1>4, PointFacts
  <2>2. p.indexing_key <= config
    BY <1>4 DEF InOrder
  <2>3. ASSUME NEW r \in Runs, pc'[r] \in Busy \cup {"discover"}
        PROVE  p.indexing_key <= key'[r]
    BY <1>1, <1>2, <1>4, <2>2, <2>3, BusyFrame DEF InOrder
  <2>4. ASSUME NEW r \in Runs, pc'[r] \in Busy, p.content_hash = db'[e]
        PROVE  discovered'[r][e] = db'[e]
    <3>1. CASE UNCHANGED rows
      <4>1. db' = db /\ ~\E f \in BOOLEAN : StartIngest(r, f)
        BY <1>1, <2>4, <3>1 DEF rows, Busy
      <4> QED BY <1>2, <1>4, <2>4, <4>1, BusyFrame DEF InOrder
    <3>2. ASSUME UNCHANGED <<index, pc, key, discovered>>, db'[e] = db[e]
          PROVE  discovered'[r][e] = db'[e]
      BY <1>4, <2>4, <3>2 DEF InOrder
    <3>3. ASSUME NEW f \in Entities, NEW c \in Contents \cup {Absent}, EditEntity(f, c)
          PROVE  db'[e] = db[e]
      BY <1>0, <2>1, <2>4, <3>3 DEF EditEntity
    <3>4. ASSUME NEW k \in Keys, Deploy(k) PROVE db'[e] = db[e]
      BY <3>4 DEF Deploy
    <3> QED BY <3>1, <3>2, <3>3, <3>4, RowsFrame
  <2> QED BY <1>0, <1>4, <2>1, <2>2, <2>3, <2>4
<1>5. ASSUME NEW e \in Entities, NEW s \in Present(index'[e]),
             index'[e][s] # index[e][s], NEW q \in Runs, pc[q] = "embed",
             index'[e][s] = Payload(discovered[q][e], key[q])
      PROVE  /\ index'[e][s].indexing_key <= config'
             /\ \A r \in Runs :
                  /\ pc'[r] \in Busy \cup {"discover"} => index'[e][s].indexing_key <= key'[r]
                  /\ pc'[r] \in Busy /\ index'[e][s].content_hash = db'[e]
                       => discovered'[r][e] = db'[e]
  <2>1. index'[e][s].indexing_key = key[q] /\ index'[e][s].content_hash = discovered[q][e]
    BY <1>5 DEF Payload
  <2>2. key[q] \in Nat /\ key[q] <= config
    BY <1>0, <1>5 DEF InOrder, Busy
  <2>3. UNCHANGED rows
    BY <1>5, RowsFrame
  <2>4. ASSUME NEW r \in Runs, pc'[r] \in Busy \cup {"discover"}
        PROVE  r = q /\ key'[r] = key[q] /\ discovered'[r] = discovered[q]
    <3>1. r = q
      BY DEF Serial
    <3>2. ~Discover(r) /\ ~\E f \in BOOLEAN : StartIngest(r, f)
      BY <1>5, <3>1 DEF Discover, StartIngest
    <3> QED BY <2>4, <3>1, <3>2, BusyFrame
  <2> QED BY <1>0, <2>1, <2>2, <2>4
<1>6. ASSUME NEW e \in Entities, NEW s \in Present(index'[e])
      PROVE  /\ index'[e][s].indexing_key <= config'
             /\ \A r \in Runs :
                  /\ pc'[r] \in Busy \cup {"discover"} => index'[e][s].indexing_key <= key'[r]
                  /\ pc'[r] \in Busy /\ index'[e][s].content_hash = db'[e]
                       => discovered'[r][e] = db'[e]
  <2>1. CASE s \in Present(index[e]) /\ index'[e][s] = index[e][s]
    BY <1>4, <2>1
  <2>2. CASE ~(s \in Present(index[e]) /\ index'[e][s] = index[e][s])
    <3>1. index'[e][s] # index[e][s]
      BY <2>2 DEF Present
    <3> QED BY <1>5, <2>2, <3>1, PointOrigin
  <2> QED BY <2>1, <2>2
<1> QED BY <1>3, <1>6 DEF InOrder, Present

LEMMA LossCounts ==
  ASSUME TypeInv, [NoLoss]_vars, NEW e \in Entities, NEW s \in Slots
  PROVE  ~LosePoint(e, s)
<1>1. faults \in Nat
  BY ConstantsAssumption DEF TypeInv, TypeOK
<1> QED BY <1>1 DEF NoLoss, LosePoint, Fault, vars

(* Without losses the group of a version somebody asks for stays whole: a   *)
(* write either brings all of it or leaves it alone.                        *)
LEMMA WholeStep ==
  ASSUME Serial, ~AllowRevert, TypeInv, Provenance, InOrder, Whole, [Next]_vars, [NoLoss]_vars
  PROVE  Whole'
<1> SUFFICES ASSUME NEW e \in Entities, NEW s \in Present(index'[e]),
                    Alive(e, index[e][s])',
                    NEW t \in Slots, t < index'[e][s].chunk_count
             PROVE  index'[e][t] = index'[e][s]
  BY DEF Whole, Present
<1>1. s \in Slots /\ index'[e][s] # NoPoint
  BY DEF Present
<1> PICK p : p = index'[e][s]
  OBVIOUS
<1>2. ASSUME s \in Present(index[e]), index[e][s] = p
      PROVE  /\ Alive(e, p) /\ index[e][t] = p
             /\ \A r \in Runs : pc[r] \in Busy => p = Payload(discovered[r][e], key[r])
             /\ p.chunk_count \in Nat /\ s < p.chunk_count
  <2>1. /\ p \in Payloads /\ p.content_hash \in past[e] /\ s < p.chunk_count
        /\ p.chunk_count \in Nat
    BY <1>2, PointFacts, ConstantsAssumption DEF Payloads
  <2>2. p.indexing_key <= config
    BY <1>2 DEF InOrder
  <2>3. Alive(e, p)'
    BY <1>2 DEF Alive
  <2>4. Alive(e, p)
    BY <2>1, <2>2, AliveShrinks
  <2>5. index[e][t] = p
    BY <1>2, <2>4 DEF Whole
  <2> QED BY <1>2, <2>1, <2>4, <2>5, AlivePoint
<1>3. CASE index'[e] = index[e]
  BY <1>1, <1>2, <1>3 DEF Present
<1>4. ASSUME NEW r \in Runs, e = current[r], pc[r] = "embed", index' = Written(r)
      PROVE  index'[e][t] = index'[e][s]
  <2> DEFINE full == Full(discovered[r][e], key[r])
  <2>2. /\ index'[e][s] = IF full[s] # NoPoint THEN full[s] ELSE index[e][s]
        /\ index'[e][t] = IF full[t] # NoPoint THEN full[t] ELSE index[e][t]
    BY <1>1, <1>4, WriteEffect
  <2>3. /\ discovered[r][e] \in Contents /\ key[r] \in Keys
        /\ Payload(discovered[r][e], key[r]) # NoPoint
    BY <1>4, WritingType, FullType, NoPointAssumption DEF TypeInv
  <2>4. CASE full[s] # NoPoint
    <3>1. index'[e][s] = Payload(discovered[r][e], key[r])
      BY <1>1, <2>2, <2>4 DEF Full
    <3>2. t < ChunkCount[discovered[r][e]][key[r]]
      BY <3>1 DEF Payload
    <3> QED BY <2>2, <2>3, <3>1, <3>2 DEF Full
  <2>5. CASE full[s] = NoPoint
    <3>1. s \in Present(index[e]) /\ index[e][s] = p
      BY <1>1, <2>2, <2>5 DEF Present
    <3>2. p = Payload(discovered[r][e], key[r]) /\ s < p.chunk_count
      BY <1>2, <1>4, <3>1 DEF Busy
    <3>3. s < ChunkCount[discovered[r][e]][key[r]]
      BY <3>2 DEF Payload
    <3> QED BY <1>1, <2>3, <2>5, <3>3 DEF Full
  <2> QED BY <2>4, <2>5
<1>5. ASSUME NEW r \in Runs, e = current[r], pc[r] = "stale", index' = WithoutStale(r)
      PROVE  index'[e][t] = index'[e][s]
  <2>1. /\ index'[e][s] = IF s \in StaleIds(r) THEN NoPoint ELSE index[e][s]
        /\ index'[e][t] = IF t \in StaleIds(r) THEN NoPoint ELSE index[e][t]
        /\ t \in StaleIds(r) => Full(discovered[r][e], key[r])[t] = NoPoint
    BY <1>1, <1>5, WriteEffect
  <2>2. s \in Present(index[e]) /\ index[e][s] = p
    BY <1>1, <2>1 DEF Present
  <2>3. p = Payload(discovered[r][e], key[r]) /\ index[e][t] = p
    BY <1>2, <1>5, <2>2 DEF Busy
  <2>4. t < ChunkCount[discovered[r][e]][key[r]]
    BY <2>2, <2>3 DEF Payload
  <2>5. Payload(discovered[r][e], key[r]) # NoPoint
    BY <1>5, WritingType, FullType, NoPointAssumption DEF TypeInv
  <2>6. t \notin StaleIds(r)
    BY <2>1, <2>4, <2>5 DEF Full
  <2> QED BY <2>1, <2>2, <2>3, <2>6
<1>6. index'[e] # Nothing
  BY <1>1 DEF Nothing
<1> QED BY <1>3, <1>4, <1>5, <1>6, EntityWrites, LossCounts

(* Nobody but the run itself and losses touches what it has seen.           *)
LEMMA SeenHoldsStep ==
  ASSUME Serial, TypeInv, SeenHolds, [Next]_vars
  PROVE  SeenHolds'
<1> SUFFICES ASSUME NEW r \in Runs, NEW e \in Pending(r)',
                    \/ pc'[r] \in {"next", "embed"}
                    \/ pc'[r] = "stale" /\ e # current'[r]
             PROVE  /\ Present(index'[e]) \subseteq Present(seen'[r][e])
                    /\ undisturbed'[r][e] => seen'[r][e] = index'[e]
  BY DEF SeenHolds, Present
<1>0. /\ e \in Entities /\ discovered'[r][e] # Absent /\ outcome'[r][e] = "none"
      /\ outcome \in [Runs -> [Entities -> Outcomes]] /\ pc \in [Runs -> Phases]
      /\ index[e] \in [Slots -> Payloads \cup {NoPoint}]
  BY DEF Pending, TypeInv, TypeOK
<1>1. CASE LoadIndexed(r)
  BY <1>0, <1>1 DEF LoadIndexed, TypeInv, TypeOK
<1>2. CASE ~LoadIndexed(r)
  <2>1. /\ outcome[r][e] = "none"
        /\ \/ pc[r] \in {"next", "embed"}
           \/ pc[r] = "stale" /\ e # current[r]
    BY <1>0, <1>2, WritingFrame
  <2>2. ~Discover(r) /\ ~\E f \in BOOLEAN : StartIngest(r, f)
    BY <2>1 DEF Discover, StartIngest
  <2>3. discovered'[r] = discovered[r] /\ seen'[r] = seen[r]
    BY <1>2, <2>2, SnapshotFrame
  <2>4. e \in Pending(r)
    BY <1>0, <2>1, <2>3 DEF Pending
  <2>5. /\ Present(index[e]) \subseteq Present(seen[r][e])
        /\ undisturbed[r][e] => seen[r][e] = index[e]
    BY <2>1, <2>4 DEF SeenHolds
  <2>6. undisturbed'[r][e] => undisturbed[r][e]
    BY <1>0, <1>2, UndisturbedFrame
  <2>7. CASE index'[e] = index[e]
    BY <2>3, <2>5, <2>6, <2>7
  <2>8. ASSUME NEW q \in Runs, e = current[q], pc[q] = "embed", Upsert(q) \/ UpsertFails(q)
        PROVE  FALSE
    <3>1. q = r
      BY DEF Serial
    <3>2. CASE Upsert(q)
      BY <1>0, <2>8, <3>1, <3>2 DEF Upsert, Report, Goto
    <3>3. CASE UpsertFails(q)
      BY <1>0, <2>8, <3>1, <3>3 DEF UpsertFails, Report
    <3> QED BY <2>8, <3>2, <3>3
  <2>9. ASSUME NEW q \in Runs, e = current[q], pc[q] = "stale" PROVE FALSE
    <3>1. q = r
      BY DEF Serial
    <3> QED BY <2>1, <2>9, <3>1
  <2>10. ASSUME NEW q \in Runs, DeleteByFilter(q) PROVE FALSE
    <3>1. q = r
      BY DEF Serial
    <3> QED BY <2>1, <2>10, <3>1 DEF DeleteByFilter
  <2>11. ASSUME NEW s \in Slots, LosePoint(e, s), index'[e] = [index[e] EXCEPT ![s] = NoPoint]
         PROVE  /\ Present(index'[e]) \subseteq Present(seen'[r][e])
                /\ undisturbed'[r][e] => seen'[r][e] = index'[e]
    <3>1. Present(index'[e]) \subseteq Present(index[e])
      BY <1>0, <2>11 DEF Present
    <3>2. ~undisturbed'[r][e]
      BY <1>0, <2>11 DEF LosePoint, TypeInv, TypeOK
    <3> QED BY <2>3, <2>5, <3>1, <3>2
  <2> QED BY <1>0, <2>7, <2>8, <2>9, <2>10, <2>11, EntityWrites
<1> QED BY <1>1, <1>2

(* A run leaves the clean-up through it, or by being aborted.               *)
LEMMA StaleFrame ==
  ASSUME TypeInv, [Next]_vars, NEW r \in Runs, pc[r] = "stale"
  PROVE  \/ DeleteStale(r)
         \/ HalfWrites(r)
         \/ /\ pc'[r] = "stale" /\ current'[r] = current[r]
            /\ discovered'[r] = discovered[r] /\ seen'[r] = seen[r] /\ key'[r] = key[r]
<1> USE DEF store, locals, rows, Goto
<1> pc \in [Runs -> Phases] /\ current \in [Runs -> Entities]
  BY DEF TypeInv, TypeOK
<1> DEFINE Still == pc'[r] = "stale" /\ current'[r] = current[r]
<1>1. ASSUME NEW q \in Runs, q # r,
             \/ IngestStep(q) \/ FaultStep(q) \/ DeleteStep(q) \/ StartDelete(q)
             \/ \E f \in BOOLEAN : StartIngest(q, f)
      PROVE  Still
  BY <1>1 DEF IngestStep, StartIngest, Discover, CaseNotFound, LoadIndexed, Skip, BeginEmbed,
              Upsert, DeleteStale, Finish, FaultStep, LoadFails, EmbedFails, UpsertFails,
              DeleteStaleFails, Abort, DeleteStep, ListForDelete, DeleteByFilter, StartDelete
<1>2. ASSUME \/ DeleteStep(r) \/ StartDelete(r)
             \/ \E f \in BOOLEAN : StartIngest(r, f)
      PROVE  FALSE
  BY <1>2 DEF StartIngest, DeleteStep, ListForDelete, DeleteByFilter, StartDelete
<1>3. ASSUME IngestStep(r) PROVE DeleteStale(r)
  BY <1>3 DEF IngestStep, Discover, CaseNotFound, LoadIndexed, Skip, BeginEmbed, Upsert, Finish
<1>4. ASSUME FaultStep(r) PROVE HalfWrites(r)
  BY <1>4 DEF FaultStep, LoadFails, EmbedFails, UpsertFails, HalfWrites
<1>5. ASSUME Environment \/ UNCHANGED vars PROVE Still
  BY <1>5 DEF Environment, EditEntity, Deploy, LosePoint, vars
<1>6. DeleteStale(r) \/ HalfWrites(r) \/ Still
  BY <1>1, <1>2, <1>3, <1>4, <1>5 DEF Next
<1>7. ~(\E f \in BOOLEAN : StartIngest(r, f)) /\ ~Discover(r) /\ ~LoadIndexed(r)
  BY DEF StartIngest, Discover, LoadIndexed
<1> QED BY <1>6, <1>7, SnapshotFrame

LEMMA HalfWriteCounts ==
  ASSUME TypeInv, [NoHalfWrite]_vars, NEW r \in Runs
  PROVE  ~HalfWrites(r)
<1>1. faults \in Nat
  BY ConstantsAssumption DEF TypeInv, TypeOK
<1> QED
  BY <1>1 DEF NoHalfWrite, HalfWrites, UpsertFails, DeleteStaleFails, Abort, Fault, vars

(* Without half-way writes an entity's points are of one version, or stale  *)
(* ids of the run that is about to delete them.                             *)
LEMMA TidyStep ==
  ASSUME Serial, TypeInv, SeenHolds, Tidy, [Next]_vars, [NoHalfWrite]_vars
  PROVE  Tidy'
<1> SUFFICES ASSUME NEW e \in Entities
             PROVE  \/ Uniform(index'[e])
                    \/ \E r \in Runs :
                         /\ pc'[r] = "stale" /\ current'[r] = e
                         /\ \A s \in Present(index'[e]) \ StaleIds(r)' :
                              index'[e][s] = Payload(discovered'[r][e], key'[r])
  BY DEF Tidy, Uniform, Present, Payload
<1>0. index[e] \in [Slots -> Payloads \cup {NoPoint}] /\ pc \in [Runs -> Phases]
  BY DEF TypeInv, TypeOK
<1>1. ASSUME \A s \in Slots : index'[e][s] \in {index[e][s], NoPoint},
             \A r \in Runs : DeleteStale(r) /\ current[r] = e =>
               \A s \in StaleIds(r) : index'[e][s] = NoPoint
      PROVE  \/ Uniform(index'[e])
             \/ \E r \in Runs :
                  /\ pc'[r] = "stale" /\ current'[r] = e
                  /\ \A s \in Present(index'[e]) \ StaleIds(r)' :
                       index'[e][s] = Payload(discovered'[r][e], key'[r])
  <2>1. /\ \A s \in Present(index'[e]) : s \in Present(index[e]) /\ index'[e][s] = index[e][s]
    BY <1>1 DEF Present
  <2>2. CASE Uniform(index[e])
    BY <2>1, <2>2 DEF Uniform
  <2>3. ASSUME NEW r \in Runs, pc[r] = "stale", current[r] = e,
               \A s \in Present(index[e]) \ StaleIds(r) :
                 index[e][s] = Payload(discovered[r][e], key[r])
        PROVE  \/ Uniform(index'[e])
               \/ /\ pc'[r] = "stale" /\ current'[r] = e
                  /\ \A s \in Present(index'[e]) \ StaleIds(r)' :
                       index'[e][s] = Payload(discovered'[r][e], key'[r])
    <3>1. CASE DeleteStale(r)
      <4>1. \A s \in Present(index'[e]) : s \notin StaleIds(r)
        BY <1>1, <2>3, <3>1 DEF Present
      <4> QED BY <2>1, <2>3, <4>1 DEF Uniform
    <3>2. CASE /\ pc'[r] = "stale" /\ current'[r] = current[r]
               /\ discovered'[r] = discovered[r] /\ seen'[r] = seen[r] /\ key'[r] = key[r]
      <4>1. StaleIds(r)' = StaleIds(r)
        BY <3>2 DEF StaleIds, Full, Present, Payload
      <4> QED BY <2>1, <2>3, <3>2, <4>1
    <3> QED BY <2>3, <3>1, <3>2, StaleFrame, HalfWriteCounts
  <2> QED BY <2>2, <2>3 DEF Tidy
<1>2. ASSUME NEW r \in Runs, e = current[r], pc[r] = "embed", index' = Written(r), Upsert(r)
      PROVE  \/ Uniform(index'[e])
             \/ /\ pc'[r] = "stale" /\ current'[r] = e
                /\ \A s \in Present(index'[e]) \ StaleIds(r)' :
                     index'[e][s] = Payload(discovered'[r][e], key'[r])
  <2> DEFINE full == Full(discovered[r][e], key[r])
  <2>1. Present(index[e]) \subseteq Present(seen[r][e])
    BY <1>2 DEF SeenHolds, TypeInv, CurrentPending
  <2>2. ASSUME NEW s \in Present(index'[e]), s \notin StaleIds(r)
        PROVE  index'[e][s] = Payload(discovered[r][e], key[r])
    <3>1. s \in Slots /\ index'[e][s] # NoPoint
      BY <2>2 DEF Present
    <3>2. /\ index'[e][s] = IF full[s] # NoPoint THEN full[s] ELSE index[e][s]
          /\ full[s] = NoPoint /\ seen[r][e][s] # NoPoint => s \in StaleIds(r)
      BY <1>2, <3>1, WriteEffect
    <3>3. full[s] # NoPoint
      BY <2>1, <2>2, <3>1, <3>2 DEF Present
    <3> QED BY <3>1, <3>2, <3>3 DEF Full
  <2>3. CASE StaleIds(r) = {}
    BY <2>2, <2>3 DEF Uniform
  <2>4. CASE StaleIds(r) # {}
    <3>1. /\ pc'[r] = "stale" /\ current'[r] = e
          /\ UNCHANGED <<discovered, seen, key, current>>
      BY <1>0, <1>2, <2>4 DEF Upsert, Goto
    <3>2. StaleIds(r)' = StaleIds(r)
      BY <3>1 DEF StaleIds, Full, Present, Payload
    <3> QED BY <2>2, <3>1, <3>2
  <2> QED BY <2>3, <2>4
<1>3. CASE index'[e] = index[e]
  <2>1. ASSUME NEW r \in Runs, DeleteStale(r), current[r] = e, NEW s \in StaleIds(r)
        PROVE  index'[e][s] = NoPoint
    <3>1. pc[r] = "stale" /\ index' = WithoutStale(r) /\ s \in Slots
      BY <2>1 DEF DeleteStale, WriteIndex, StaleIds, Present
    <3> QED BY <2>1, <3>1, WriteEffect
  <2> QED BY <1>1, <1>3, <2>1
<1>4. ASSUME NEW r \in Runs, e = current[r], pc[r] = "stale", index' = WithoutStale(r),
             DeleteStale(r)
      PROVE  \/ Uniform(index'[e])
             \/ \E q \in Runs :
                  /\ pc'[q] = "stale" /\ current'[q] = e
                  /\ \A s \in Present(index'[e]) \ StaleIds(q)' :
                       index'[e][s] = Payload(discovered'[q][e], key'[q])
  <2>1. \A s \in Slots : index'[e][s] = IF s \in StaleIds(r) THEN NoPoint ELSE index[e][s]
    BY <1>4, WriteEffect
  <2>2. StaleIds(r) \subseteq Slots
    BY DEF StaleIds, Present
  <2>3. \A q \in Runs : q = r
    BY DEF Serial
  <2> QED BY <1>1, <2>1, <2>2, <2>3
<1>5. CASE index'[e] = Nothing
  BY <1>5 DEF Uniform, Present, Nothing
<1>6. ASSUME NEW s \in Slots, LosePoint(e, s), index'[e] = [index[e] EXCEPT ![s] = NoPoint]
      PROVE  \/ Uniform(index'[e])
             \/ \E r \in Runs :
                  /\ pc'[r] = "stale" /\ current'[r] = e
                  /\ \A t \in Present(index'[e]) \ StaleIds(r)' :
                       index'[e][t] = Payload(discovered'[r][e], key'[r])
  <2>1. \A r \in Runs : ~DeleteStale(r)
    BY <1>0, <1>6 DEF LosePoint, DeleteStale, Goto
  <2> QED BY <1>0, <1>1, <1>6, <2>1
<1>7. \A r \in Runs : ~UpsertFails(r) /\ ~DeleteStaleFails(r)
  BY HalfWriteCounts DEF HalfWrites
<1> QED BY <1>2, <1>3, <1>4, <1>5, <1>6, <1>7, EntityWrites

(* What skip detection finds right is right, over a tidy group and over one *)
(* whose compared point belongs to a whole version.                         *)
LEMMA SkipFinds ==
  ASSUME Serial, TypeInv, Provenance, SeenHolds, Whole \/ Tidy,
         NEW r \in Runs, NEW e \in Entities, Skip(r, e), undisturbed[r][e]
  PROVE  index[e] = Full(discovered[r][e], key[r])
<1> DEFINE c == discovered[r][e]
           k == key[r]
           pts == index[e]
           S == Present(pts)
<1>1. /\ pc[r] = "next" /\ c \in Contents /\ k \in Keys
      /\ pts \in [Slots -> Payloads \cup {NoPoint}]
  BY DEF Skip, Pending, TypeInv, TypeOK
<1>2. seen[r][e] = pts
  BY DEF Skip, SeenHolds
<1>3. Unchanged(e, pts, c, k)
  BY <1>2 DEF Skip, CanSkip
<1>4. WellFormed(pts)
  BY DEF Provenance, WellFormed, Present
<1>5. CASE Tidy
  <2>1. \A q \in Runs : pc[q] # "stale"
    BY <1>1 DEF Serial
  <2>2. Uniform(pts)
    BY <1>5, <2>1 DEF Tidy
  <2> QED BY <1>1, <1>3, <1>4, <2>2, UnchangedIsFull
<1>6. CASE Whole
  <2>1. S \in (SUBSET Slots) \ {{}} /\ First[e][S] \in S
    BY <1>3, FirstAssumption DEF Unchanged, Present
  <2> PICK p \in Payloads : p = pts[First[e][S]]
    BY <2>1, PointFacts
  <2>2. p.content_hash = c /\ p.indexing_key = k /\ p.chunk_count = Cardinality(S)
    BY <1>3 DEF Unchanged, Group0
  <2>3. Alive(e, p)
    BY <1>1, <2>2 DEF Alive, Busy
  <2>4. \A t \in Slots : t < p.chunk_count => pts[t] = p
    BY <1>6, <2>1, <2>3 DEF Whole
  <2>5. p # NoPoint /\ p.chunk_count \in 1 .. MaxChunks
    BY NoPointAssumption DEF Payloads
  <2> PICK m \in Int : m = p.chunk_count - 1
    BY <2>5, ConstantsAssumption
  <2>6. m \in Nat /\ p.chunk_count = m + 1 /\ 0 .. m \subseteq Slots
    BY <2>5, ConstantsAssumption DEF Slots
  <2>7. \A t \in 0 .. m : pts[t] = p
    BY <2>4, <2>6
  <2>8. 0 .. m \subseteq S
    BY <2>5, <2>6, <2>7 DEF Present
  <2>9. IsFiniteSet(0 .. m) /\ Cardinality(0 .. m) = p.chunk_count
    <3>1. m \in Nat /\ p.chunk_count = m + 1
      BY <2>6
    <3>2. IsFiniteSet(0 .. m) /\ Cardinality(0 .. m) = m + 1
      BY ONLY <3>1, FS_Interval
    <3> QED BY <3>1, <3>2
  <2>10. IsFiniteSet(S)
    <3>1. PICK n \in Int : n = MaxChunks - 1
      BY ConstantsAssumption
    <3>2. IsFiniteSet(0 .. n) /\ S \subseteq 0 .. n
      BY <2>1, <3>1, FS_Interval DEF Slots
    <3> QED BY <3>2, FS_Subset
  <2>11. S = 0 .. m
    BY <2>2, <2>8, <2>9, <2>10, FS_Subset
  <2>12. \A s \in S : pts[s] = p
    BY <2>7, <2>11
  <2>13. Uniform(pts)
    BY <2>12 DEF Uniform
  <2> QED BY <1>1, <1>3, <1>4, <2>13, UnchangedIsFull
<1> QED BY <1>5, <1>6

LEMMA ExactSkipStep ==
  ASSUME Serial, TypeInv, PointsInv, SeenHolds, Whole \/ Tidy, SkippedIsExact, [Next]_vars
  PROVE  SkippedIsExact'
<1> USE DEF PointsInv
<1> SUFFICES ASSUME NEW r \in Runs, NEW e \in Entities,
                    outcome'[r][e] = "skipped", undisturbed'[r][e]
             PROVE  index'[e] = Full(discovered'[r][e], key'[r])
  BY DEF SkippedIsExact, Full, Payload
<1>1. ~\E f \in BOOLEAN : StartIngest(r, f)
  BY DEF StartIngest, NoOutcome, TypeInv, TypeOK
<1>2. ~Discover(r) /\ ~LoadIndexed(r)
  BY DEF Discover, LoadIndexed, ReportedDiscovered, NoOutcome
<1>3. discovered'[r] = discovered[r] /\ key'[r] = key[r]
  BY <1>1, <1>2, SnapshotFrame
<1>4. /\ discovered[r][e] \in Contents /\ key[r] \in Keys
      /\ index'[e] \in [Slots -> Payloads \cup {NoPoint}]
  <2>1. TypeOK' /\ ReportedDiscovered'
    BY TypeStep, ReportedStep DEF TypeInv
  <2> QED
    BY <1>3, <2>1 DEF TypeOK, ReportedDiscovered
<1> DEFINE full == Full(discovered[r][e], key[r])
<1>5. undisturbed[r][e] /\ \A s \in Slots : index'[e][s] \in {index[e][s], full[s]}
  BY <1>2, UndisturbedFrame
<1>6. index[e] = full
  <2>1. CASE outcome'[r][e] = outcome[r][e]
    BY <1>5, <2>1 DEF SkippedIsExact
  <2>2. CASE Skip(r, e)
    BY <1>5, <2>2, SkipFinds
  <2> QED BY <2>1, <2>2, OutcomeFrame
<1>7. full \in [Slots -> Payloads \cup {NoPoint}]
  BY <1>4, FullType
<1> QED BY <1>3, <1>4, <1>5, <1>6, <1>7

LEMMA FaultsCount ==
  ASSUME TypeInv, [Next]_vars
  PROVE  /\ faults \in 0 .. MaxFaults /\ faults' \in 0 .. MaxFaults
         /\ faults <= faults'
         /\ faults' = faults => [NoLoss]_vars /\ [NoHalfWrite]_vars
         /\ [NoLoss]_vars \/ [NoHalfWrite]_vars
<1> USE DEF rows, store, locals
<1>1. faults \in 0 .. MaxFaults /\ faults' \in 0 .. MaxFaults
  BY TypeStep DEF TypeInv, TypeOK
<1>2. faults' = faults \/ faults' = faults + 1
  <2>1. ASSUME NEW r \in Runs, FaultStep(r) PROVE faults' = faults + 1
    BY <2>1 DEF FaultStep, LoadFails, EmbedFails, UpsertFails, DeleteStaleFails, Abort, Fault
  <2>2. ASSUME NEW r \in Runs, IngestStep(r) PROVE faults' = faults
    BY <2>2 DEF IngestStep, Discover, CaseNotFound, LoadIndexed, Skip, BeginEmbed, Upsert,
                DeleteStale, Finish
  <2>3. ASSUME NEW r \in Runs,
               DeleteStep(r) \/ StartDelete(r) \/ \E f \in BOOLEAN : StartIngest(r, f)
        PROVE  faults' = faults
    BY <2>3 DEF DeleteStep, ListForDelete, DeleteByFilter, StartIngest, StartDelete
  <2>4. ASSUME Environment PROVE faults' = faults \/ faults' = faults + 1
    BY <2>4 DEF Environment, EditEntity, Deploy, LosePoint, Fault
  <2>5. CASE UNCHANGED vars
    BY <2>5 DEF vars
  <2> QED BY <2>1, <2>2, <2>3, <2>4, <2>5 DEF Next
<1>3. ASSUME NEW e \in Entities, NEW s \in Slots, LosePoint(e, s)
      PROVE  faults' # faults /\ pc' = pc
  BY <1>1, <1>3, ConstantsAssumption DEF LosePoint, Fault
<1>4. ASSUME NEW r \in Runs, HalfWrites(r)
      PROVE  faults' # faults /\ pc' # pc
  <2>1. faults' = faults + 1 /\ Goto(r, pc'[r]) /\ pc'[r] # pc[r]
    BY <1>4 DEF HalfWrites, UpsertFails, DeleteStaleFails, Abort, Fault, Goto, TypeInv, TypeOK
  <2> QED BY <1>1, <2>1, ConstantsAssumption
<1> QED BY <1>1, <1>2, <1>3, <1>4, ConstantsAssumption DEF NoLoss, NoHalfWrite

LEMMA SkipInitially ==
  Init => InOrder /\ Whole /\ Tidy /\ SeenHolds /\ SkippedIsExact /\ faults = 0
<1> SUFFICES ASSUME Init
             PROVE  InOrder /\ Whole /\ Tidy /\ SeenHolds /\ SkippedIsExact /\ faults = 0
  OBVIOUS
<1>1. \A e \in Entities : Present(index[e]) = {}
  BY DEF Init, NoIndex, Nothing, Present
<1>2. \A r \in Runs : pc[r] = "idle" /\ \A e \in Entities : outcome[r][e] = "none"
  BY DEF Init, NoOutcome
<1> QED
  BY <1>1, <1>2 DEF Init, InOrder, Whole, Tidy, Uniform, SeenHolds, SkippedIsExact, Busy

(* Runs that follow one another, over data and settings that do not go      *)
(* back, skip an entity only if the index is exactly what they discovered,  *)
(* unless the store loses points: failed and aborted writes do not matter.  *)
THEOREM SkipsAreExactUnlessLost ==
  ASSUME Serial, ~AllowRevert
  PROVE  Spec /\ [][NoLoss]_vars => []SkippedIsExact
<1> DEFINE Inv == InOrder /\ Whole /\ SeenHolds /\ SkippedIsExact
<1>1. TypeInv /\ PointsInv /\ Inv /\ [Next]_vars /\ [NoLoss]_vars => Inv'
  BY InOrderStep, WholeStep, SeenHoldsStep, ExactSkipStep DEF PointsInv
<1>2. Init => Inv
  BY SkipInitially
<1>3. Inv => SkippedIsExact
  OBVIOUS
<1> HIDE DEF Inv
<1> QED BY <1>1, <1>2, <1>3, TypeInvariance, PointsInvariance, PTL DEF Spec

(* So they do, even where data and settings do go back, unless a write      *)
(* stops half-way: lost points do not matter.                               *)
THEOREM SkipsAreExactUnlessHalfWritten ==
  ASSUME Serial
  PROVE  Spec /\ [][NoHalfWrite]_vars => []SkippedIsExact
<1> DEFINE Inv == Tidy /\ SeenHolds /\ SkippedIsExact
<1>1. TypeInv /\ PointsInv /\ Inv /\ [Next]_vars /\ [NoHalfWrite]_vars => Inv'
  BY TidyStep, SeenHoldsStep, ExactSkipStep
<1>2. Init => Inv
  BY SkipInitially
<1>3. Inv => SkippedIsExact
  OBVIOUS
<1> HIDE DEF Inv
<1> QED BY <1>1, <1>2, <1>3, TypeInvariance, PointsInvariance, PTL DEF Spec

(* So no single fault, of any kind, makes a run skip what is not indexed.   *)
THEOREM SkipsSurviveOneFault ==
  ASSUME Serial, ~AllowRevert, MaxFaults <= 1
  PROVE  Spec => []SkippedIsExact
<1> DEFINE Inv == /\ InOrder /\ SeenHolds /\ SkippedIsExact
                  /\ Whole \/ Tidy
                  /\ faults = 0 => Whole /\ Tidy
<1>1. TypeInv /\ PointsInv /\ Inv /\ [Next]_vars => Inv'
  <2> SUFFICES ASSUME TypeInv, PointsInv, Inv, [Next]_vars PROVE Inv'
    OBVIOUS
  <2>1. InOrder' /\ SeenHolds' /\ SkippedIsExact'
    BY InOrderStep, SeenHoldsStep, ExactSkipStep DEF PointsInv
  <2>2. Whole /\ [NoLoss]_vars => Whole'
    BY WholeStep DEF PointsInv
  <2>3. Tidy /\ [NoHalfWrite]_vars => Tidy'
    BY TidyStep
  <2>4. CASE faults' = faults
    BY <2>1, <2>2, <2>3, <2>4, FaultsCount
  <2>5. CASE faults' # faults
    <3>1. faults = 0 /\ faults' # 0
      BY <2>5, FaultsCount, ConstantsAssumption
    <3> QED BY <2>1, <2>2, <2>3, <3>1, FaultsCount
  <2> QED BY <2>4, <2>5
<1>2. Init => Inv
  BY SkipInitially
<1>3. Inv => SkippedIsExact
  OBVIOUS
<1> HIDE DEF Inv
<1> QED BY <1>1, <1>2, <1>3, TypeInvariance, PointsInvariance, PTL DEF Spec
=============================================================================

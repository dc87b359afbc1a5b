------------------------------- MODULE FirstUse -------------------------------
(***************************************************************************)
(* What a process checks lazily before it touches the knowledge index, and *)
(* remembers afterwards:                                                   *)
(*  - RemoteEmbeddingProvider.ensure_ready asks the inference service which *)
(*    model it serves, once, under an asyncio.Lock, and keeps the answer in *)
(*    _info;                                                                *)
(*  - QdrantVectorStore._ensure_collection creates the agency's collection  *)
(*    or checks its schema, makes the payload indexes, and adds the         *)
(*    collection to _ensured_collections.                                   *)
(* Several API workers and the backfill script do this side by side against *)
(* one service and one Qdrant; inside one process several coroutines share  *)
(* the two memos, and store calls run in threads (asyncio.to_thread) that   *)
(* nothing serialises.                                                      *)
(*                                                                          *)
(* Abstractions.  A call is the spine of CaseIngestionService._run for one *)
(* entity: ensure_ready, list_points, embed, upsert_points.  The payload   *)
(* indexes are made in any order and any waiter gets the lock next (the    *)
(* code's orders are fixed; no property tells).  recreate_collection has   *)
(* no caller under src/: an operator's call, made from one of the          *)
(* processes.                                                              *)
(***************************************************************************)
EXTENDS FirstUseConstants

VARIABLES
  served,   \* the model the inference service serves now
  coll,     \* the collection: "none", "dense" (predates hybrid search), "hybrid"
  fields,   \* payload indexes the collection has
  points,   \* points of the collection: model of the vector, and trusted (below)
  info,     \* info[p]: the model p's _info names
  lock,     \* lock[p]: holder of p's asyncio.Lock
  ensured,  \* ensured[p]: the collection is in p's _ensured_collections
  pc, op, todo, vec,   \* per caller: place, operation, indexes to make, and the
            \* model of the service's last answer to it
  events,
  \* history, read by the properties only
  intact,   \* intact[c]: no delete_collection since c found or made the collection
  sound,    \* sound[p]: no delete_collection since p's memo was earned
  stable    \* stable[p]: no redeploy since p's check of the model was answered

local  == <<op, todo, vec>>
memo   == <<info, lock, stable>>
qdrant == <<coll, fields, points>>
vars   == <<served, coll, fields, points, info, lock, ensured, pc, op, todo, vec,
            events, intact, sound, stable>>

Ended  == {"idle", "failed", "error"}   \* idle: no call yet, or a good one
Places == Ended \cup {"wait", "info", "verify", "ensure", "exists", "create",
                      "schema", "index", "mark", "apply", "embed", "drop", "discard"}

Init ==
  /\ served \in Models
  /\ \/ coll \in {"none", "dense"} /\ fields = {}
     \/ coll = "hybrid" /\ fields \in SUBSET Fields
  /\ points = {}
  /\ info = [p \in Procs |-> NoModel]
  /\ lock = [p \in Procs |-> Nobody]
  /\ ensured = [p \in Procs |-> FALSE]
  /\ pc = [c \in Callers |-> "idle"]
  /\ op = [c \in Callers |-> "list"]
  /\ todo = [c \in Callers |-> {}]
  /\ vec = [c \in Callers |-> NoModel]
  /\ events = 0
  /\ intact = [c \in Callers |-> FALSE]
  /\ sound = [p \in Procs |-> FALSE]
  /\ stable = [p \in Procs |-> FALSE]

Goto(c, place) == pc' = [pc EXCEPT ![c] = place]
Event == events < MaxEvents /\ events' = events + 1

(* The call of c ends; its locals are gone.                                 *)
Return(c, outcome) ==
  /\ Goto(c, outcome)
  /\ op' = [op EXCEPT ![c] = "list"]
  /\ todo' = [todo EXCEPT ![c] = {}]
  /\ vec' = [vec EXCEPT ![c] = NoModel]
  /\ intact' = [intact EXCEPT ![c] = FALSE]

-----------------------------------------------------------------------------
(* ensure_ready                                                             *)

Take(c)   == lock' = [lock EXCEPT ![ProcOf[c]] = c]

(* Mutant of Unlock: without try/finally only a matching answer releases.    *)
UnlockOnSuccess(c) ==
  lock' = IF vec[c] \in {NoModel, Expected} THEN [lock EXCEPT ![ProcOf[c]] = Nobody] ELSE lock

(* Mutant of Unlock: the lock object itself is dropped.                     *)
UnlockToNone(c) == lock' = [lock EXCEPT ![ProcOf[c]] = NoModel]

Unlock(c) == lock' = [lock EXCEPT ![ProcOf[c]] = Nobody]

(* The unlocked test; then the lock, at once when it is free.               *)
Start(c) ==
  LET p == ProcOf[c] IN
  /\ pc[c] \in Ended
  /\ \/ info[p] # NoModel /\ Goto(c, "ensure") /\ UNCHANGED lock
     \/ info[p] = NoModel /\ lock[p] = Nobody /\ Goto(c, "info") /\ Take(c)
     \/ info[p] = NoModel /\ lock[p] # Nobody /\ Goto(c, "wait") /\ UNCHANGED lock
  /\ UNCHANGED <<served, qdrant, info, stable, ensured, local, events, intact, sound>>

(* A waiter gets the lock and tests again; it lets go of it at once when    *)
(* the check was made meanwhile.                                            *)
Retest(c) ==
  LET p == ProcOf[c] IN
  /\ pc[c] = "wait" /\ lock[p] = Nobody
  /\ \/ info[p] # NoModel /\ Goto(c, "ensure") /\ UNCHANGED lock
     \/ info[p] = NoModel /\ Goto(c, "info") /\ Take(c)
  /\ UNCHANGED <<served, qdrant, info, stable, ensured, local, events, intact, sound>>

(* The service answers; the answer is looked at later ("verify").           *)
AnswerInfo(c) ==
  /\ pc[c] = "info"
  /\ Goto(c, "verify")
  /\ vec' = [vec EXCEPT ![c] = served]
  /\ stable' = [stable EXCEPT ![ProcOf[c]] = TRUE]
  /\ UNCHANGED <<served, qdrant, info, lock, ensured, op, todo, events, intact, sound>>

(* Mutant of Matches: only the dimension is compared.                        *)
MatchesDim(m) == Dim[m] = ExpectedDim

Matches(m) == m = Expected /\ Dim[m] = ExpectedDim

(* A mismatch raises out of ensure_ready and leaves _info unset.            *)
VerifyInfo(c) ==
  LET p == ProcOf[c] IN
  /\ pc[c] = "verify" /\ Unlock(c)
  /\ \/ /\ Matches(vec[c])
        /\ info' = [info EXCEPT ![p] = vec[c]]
        /\ Goto(c, "ensure") /\ UNCHANGED <<local, intact, stable>>
     \/ /\ ~ Matches(vec[c])
        /\ Return(c, "error")
        /\ stable' = [stable EXCEPT ![p] = FALSE] /\ UNCHANGED info
  /\ UNCHANGED <<served, qdrant, ensured, events, sound>>

(* GET /info fails, times out or is cancelled.                              *)
FailInfo(c) ==
  /\ pc[c] = "info" /\ Event
  /\ Return(c, "error") /\ Unlock(c)
  /\ UNCHANGED <<served, qdrant, info, stable, ensured, sound>>

(* A coroutine that waits for the lock is cancelled.                        *)
CancelWait(c) ==
  /\ pc[c] = "wait" /\ Event
  /\ Return(c, "error")
  /\ UNCHANGED <<served, qdrant, memo, ensured, sound>>

-----------------------------------------------------------------------------
(* _ensure_collection, on behalf of list, write or recreate                 *)

(* An exception that is no VectorStoreError leaves ingest_case; a           *)
(* VectorStoreOperationError becomes a "failed" outcome, as does every      *)
(* exception inside recreate_collection.                                    *)
Raised(c) == IF op[c] = "recreate" THEN "failed" ELSE "error"

(* _ensure_collection is over: on to the operation itself.                  *)
Usable(c) ==
  \/ op[c] = "recreate" /\ Return(c, "idle")
  \/ op[c] # "recreate" /\ Goto(c, "apply") /\ UNCHANGED <<local, intact>>

TestEnsured(c) ==
  /\ pc[c] = "ensure"
  /\ \/ ensured[ProcOf[c]] /\ Usable(c)
     \/ ~ ensured[ProcOf[c]] /\ Goto(c, "exists") /\ UNCHANGED <<local, intact>>
  /\ UNCHANGED <<served, qdrant, memo, ensured, events, sound>>

TestExists(c) ==
  /\ pc[c] = "exists"
  /\ Goto(c, IF coll = "none" THEN "create" ELSE "schema")
  /\ UNCHANGED <<served, qdrant, memo, ensured, local, events, intact, sound>>

(* Mutant of Holds: a collection that exists gets no indexes.                *)
HoldsUnindexed(c) ==
  /\ intact' = [intact EXCEPT ![c] = TRUE]
  /\ todo' = [todo EXCEPT ![c] = IF pc[c] = "create" THEN Fields ELSE {}]
  /\ Goto(c, "index") /\ UNCHANGED <<op, vec>>

(* c has a collection it made or checked; its indexes are next.             *)
Holds(c) ==
  /\ intact' = [intact EXCEPT ![c] = TRUE]
  /\ todo' = [todo EXCEPT ![c] = Fields]
  /\ Goto(c, "index") /\ UNCHANGED <<op, vec>>

(* create_collection; Qdrant refuses a name that is taken by now.           *)
Create(c) ==
  /\ pc[c] = "create"
  /\ \/ coll = "none" /\ coll' = "hybrid" /\ fields' = {} /\ Holds(c)
     \/ coll # "none" /\ Return(c, Raised(c)) /\ UNCHANGED <<coll, fields>>
  /\ UNCHANGED <<served, points, memo, ensured, events, sound>>

(* _require_hybrid_schema; get_collection raises when it is gone by now.    *)
RequireHybrid(c) ==
  /\ pc[c] = "schema"
  /\ \/ coll = "hybrid" /\ Holds(c)
     \/ coll = "dense" /\ Return(c, "failed")
     \/ coll = "none" /\ Return(c, Raised(c))
  /\ UNCHANGED <<served, qdrant, memo, ensured, events, sound>>

(* create_payload_index, idempotent, one request per field.                 *)
IndexField(c) ==
  /\ pc[c] = "index"
  /\ \/ /\ coll # "none"
        /\ \E f \in todo[c] :
             fields' = fields \cup {f} /\ todo' = [todo EXCEPT ![c] = @ \ {f}]
        /\ UNCHANGED <<pc, op, vec, intact>>
     \/ coll = "none" /\ todo[c] # {} /\ Return(c, Raised(c)) /\ UNCHANGED fields
     \/ todo[c] = {} /\ Goto(c, "mark") /\ UNCHANGED <<fields, local, intact>>
  /\ UNCHANGED <<served, coll, points, memo, ensured, events, sound>>

MarkEnsured(c) ==
  LET p == ProcOf[c] IN
  /\ pc[c] = "mark"
  /\ ensured' = [ensured EXCEPT ![p] = TRUE]
  /\ sound' = [sound EXCEPT ![p] = @ \/ intact[c]]
  /\ Usable(c)
  /\ UNCHANGED <<served, qdrant, memo, events>>

(* A Qdrant request of _ensure_collection fails, before it was applied or   *)
(* (create_collection) after.                                               *)
FailEnsure(c) ==
  /\ pc[c] \in {"exists", "create", "schema", "index"} /\ Event
  /\ Return(c, Raised(c))
  /\ \/ UNCHANGED <<coll, fields>>
     \/ pc[c] = "create" /\ coll = "none" /\ coll' = "hybrid" /\ fields' = {}
  /\ UNCHANGED <<served, points, memo, ensured, sound>>

-----------------------------------------------------------------------------
(* The operations themselves                                                *)

(* list_points: a scroll of a collection that is gone is a failed outcome.  *)
ListPoints(c) ==
  /\ pc[c] = "apply" /\ op[c] = "list"
  /\ \/ coll = "none" /\ Return(c, "failed")
     \/ coll # "none" /\ Goto(c, "embed") /\ UNCHANGED <<local, intact>>
  /\ UNCHANGED <<served, qdrant, memo, ensured, events, sound>>

(* _call: ensure_ready first (its fast path: _info is never unset again),   *)
(* then POST /embed, answered by whatever the service serves now.           *)
Embed(c) ==
  /\ pc[c] = "embed"
  /\ vec' = [vec EXCEPT ![c] = served]
  /\ op' = [op EXCEPT ![c] = "write"]
  /\ Goto(c, "ensure")
  /\ UNCHANGED <<served, qdrant, memo, ensured, todo, events, intact, sound>>

(* Qdrant refuses vectors of another size than the collection's, and a      *)
(* collection without the named vectors.                                    *)
Accepts(m) == coll = "hybrid" /\ Dim[m] = ExpectedDim

UpsertPoints(c) ==
  /\ pc[c] = "apply" /\ op[c] = "write"
  /\ \/ /\ Accepts(vec[c])
        /\ points' = points \cup {[model |-> vec[c], trusted |-> stable[ProcOf[c]]]}
        /\ Return(c, "idle")
     \/ ~ Accepts(vec[c]) /\ Return(c, "failed") /\ UNCHANGED points
  /\ UNCHANGED <<served, coll, fields, memo, ensured, events, sound>>

(* The request of a list, a write or an embed fails: a failed outcome.  (A  *)
(* coroutine cancelled here ends the same way: its thread's call goes on,   *)
(* and the cancellation is seen after it.)                                  *)
FailCall(c) ==
  /\ pc[c] \in {"apply", "embed"} /\ Event
  /\ Return(c, "failed")
  /\ UNCHANGED <<served, qdrant, memo, ensured, sound>>

-----------------------------------------------------------------------------
(* recreate_collection, in the process of c                                 *)

StartRecreate(c) ==
  /\ pc[c] \in Ended /\ Event
  /\ Goto(c, "drop") /\ op' = [op EXCEPT ![c] = "recreate"]
  /\ UNCHANGED <<served, qdrant, memo, ensured, todo, vec, intact, sound>>

DropCollection(c) ==
  /\ pc[c] = "drop"
  /\ coll' = "none" /\ fields' = {} /\ points' = {}
  /\ intact' = [d \in Callers |-> FALSE]
  /\ sound' = [p \in Procs |-> FALSE]
  /\ Goto(c, "discard")
  /\ UNCHANGED <<served, memo, ensured, local, events>>

(* Only this process forgets the collection.                                *)
Discard(c) ==
  LET p == ProcOf[c] IN
  /\ pc[c] = "discard"
  /\ ensured' = [ensured EXCEPT ![p] = FALSE]
  /\ sound' = [sound EXCEPT ![p] = FALSE]
  /\ Goto(c, "ensure")
  /\ UNCHANGED <<served, qdrant, memo, local, events, intact>>

-----------------------------------------------------------------------------
(* The environment                                                          *)

(* The service is redeployed with another EMBEDDING_MODEL.                  *)
Redeploy(m) ==
  /\ Event /\ m # served
  /\ served' = m
  /\ stable' = [p \in Procs |-> FALSE]
  /\ UNCHANGED <<qdrant, info, lock, ensured, pc, local, intact, sound>>

(* A process restarts: its memos, lock and coroutines are gone.             *)
Restart(p) ==
  LET Survives(f, gone) == [c \in Callers |-> IF ProcOf[c] = p THEN gone ELSE f[c]] IN
  /\ Event
  /\ info' = [info EXCEPT ![p] = NoModel]
  /\ lock' = [lock EXCEPT ![p] = Nobody]
  /\ stable' = [stable EXCEPT ![p] = FALSE]
  /\ ensured' = [ensured EXCEPT ![p] = FALSE]
  /\ sound' = [sound EXCEPT ![p] = FALSE]
  /\ pc' = Survives(pc, "idle") /\ op' = Survives(op, "list")
  /\ todo' = Survives(todo, {}) /\ vec' = Survives(vec, NoModel)
  /\ intact' = Survives(intact, FALSE)
  /\ UNCHANGED <<served, qdrant>>

-----------------------------------------------------------------------------
Progress(c) ==
  \/ Retest(c) \/ AnswerInfo(c) \/ VerifyInfo(c)
  \/ TestEnsured(c) \/ TestExists(c) \/ Create(c) \/ RequireHybrid(c)
  \/ IndexField(c) \/ MarkEnsured(c)
  \/ ListPoints(c) \/ Embed(c) \/ UpsertPoints(c)
  \/ DropCollection(c) \/ Discard(c)

Disturb(c) ==
  FailInfo(c) \/ CancelWait(c) \/ FailEnsure(c) \/ FailCall(c) \/ StartRecreate(c)

Next ==
  \/ \E c \in Callers : Start(c) \/ Progress(c) \/ Disturb(c)
  \/ \E m \in Models : Redeploy(m)
  \/ \E p \in Procs : Restart(p)

Spec == Init /\ [][Next]_vars

-----------------------------------------------------------------------------
TypeOK ==
  /\ served \in Models
  /\ coll \in {"none", "dense", "hybrid"}
  /\ fields \subseteq Fields
  /\ points \subseteq [model : Models, trusted : BOOLEAN]
  /\ info \in [Procs -> Models \cup {NoModel}]
  /\ lock \in [Procs -> Callers \cup {Nobody}]
  /\ ensured \in [Procs -> BOOLEAN]
  /\ pc \in [Callers -> Places]
  /\ op \in [Callers -> {"list", "write", "recreate"}]
  /\ todo \in [Callers -> SUBSET Fields]
  /\ vec \in [Callers -> Models \cup {NoModel}]
  /\ events \in 0 .. MaxEvents
  /\ intact \in [Callers -> BOOLEAN]
  /\ sound \in [Procs -> BOOLEAN]
  /\ stable \in [Procs -> BOOLEAN]

(* What a process remembers is true: unless some process deleted the        *)
(* collection in between, a collection in _ensured_collections exists, has  *)
(* the hybrid schema and every payload index, however many processes and    *)
(* threads created or checked it at the same time.                          *)
EnsuredIsUsable ==
  \A p \in Procs : ensured[p] /\ sound[p] => coll = "hybrid" /\ fields = Fields

(* No point carries a vector of another model than EMBEDDING_MODEL, as long *)
(* as the service was not redeployed since the writer's process checked it: *)
(* the indexing key stored with the point says the truth, whatever the      *)
(* order of concurrent first uses, failed checks and redeploys before.      *)
PointsOfExpectedModel ==
  \A pt \in points : pt.trusted => pt.model = Expected

(* The provider's lock is held only by a coroutine that is checking the     *)
(* model in that process: neither a failed check nor a cancelled or dead    *)
(* coroutine leaves it taken, which would block every later first use; and  *)
(* nobody checks without it, or once the model is known.                    *)
LockHeldByChecker ==
  /\ \A p \in Procs : lock[p] # Nobody =>
       ProcOf[lock[p]] = p /\ pc[lock[p]] \in {"info", "verify"}
  /\ \A c \in Callers : pc[c] \in {"info", "verify"} =>
       lock[ProcOf[c]] = c /\ info[ProcOf[c]] = NoModel

=============================================================================

-------------------------- MODULE FirstUseConstants --------------------------
(* The parameters of FirstUse.                                              *)
EXTENDS Naturals

CONSTANTS
  Procs,       \* processes: API workers, the backfill script
  Callers,     \* coroutines that use the index
  ProcOf,      \* ProcOf[c]: the process c runs in
  Models,      \* models the inference service may serve
  Expected,    \* EMBEDDING_MODEL of the processes
  Dim,         \* Dim[m]: dimension of m's vectors
  ExpectedDim, \* EMBEDDING_DIM of the processes
  Fields,      \* _INDEXED_PAYLOAD_FIELDS and _BOOL_PAYLOAD_FIELDS
  NoModel,     \* _info is None
  Nobody,      \* the lock is free
  MaxEvents    \* bound: redeploys, restarts, cancellations, failures, recreations

ASSUME FirstUseAssumption ==
  /\ ProcOf \in [Callers -> Procs]
  /\ Expected \in Models
  /\ NoModel \notin Models /\ Nobody \notin Callers
  /\ MaxEvents \in Nat
=============================================================================

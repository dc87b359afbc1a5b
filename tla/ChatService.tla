---------------------------- MODULE ChatService ----------------------------
(***************************************************************************)
(* Chat requests on the one connection pool of the API process.            *)
(*                                                                         *)
(* A request borrows a connection to validate its agency, gives it back,   *)
(* and borrows another for the whole run of the graph: the checkpointer    *)
(* sets it to autocommit and dictionary rows, pins its search_path to the  *)
(* agency's schema, creates the checkpoint tables once per process, reads  *)
(* the session's history, writes a checkpoint after every node, and at the *)
(* end restores the connection.  Meanwhile the tools of the run borrow     *)
(* further connections from the same pool, so a request holds one          *)
(* connection while it waits for another, until the pool's timeout.        *)
(*                                                                         *)
(* Faults: a statement, a model call or a tool fails; the client goes away *)
(* and the run is cancelled, possibly while it restores its connection;    *)
(* the process crashes and starts again over the same database.            *)
(***************************************************************************)
EXTENDS Naturals

CONSTANTS
  Requests,    \* chat requests, each asked once
  Conns,       \* connections of the pool (DB_POOL_SIZE + DB_MAX_OVERFLOW)
  Tools,       \* the tool calls one request may make, each once
  Agencies,    \* agency schemas
  AgencyOf,    \* the agency a request is for
  SessionOf,   \* the chat session it belongs to
  Nobody,      \* the holder of a free connection
  Public,      \* the search_path a new connection has
  MaxFaults    \* bound on the faults of a behaviour

Schemas == Agencies \cup {Public}
Sessions == {SessionOf[r] : r \in Requests}
Threads == Agencies \X Sessions
Holders == Requests \X (Tools \cup {"run"})

ASSUME ServiceAssumption ==
  /\ AgencyOf \in [Requests -> Agencies]
  /\ Nobody \notin Holders
  /\ Public \notin Agencies
  /\ "run" \notin Tools
  /\ MaxFaults \in Nat

VARIABLES
  owner,       \* who has borrowed each connection
  setting,     \* what each connection is set to, in the pool or out of it
  pc,          \* where each request is
  dictBefore,  \* previous_row_factory of each run: dictionary rows?
  call,        \* what each tool call of each request is doing
  ready,       \* _ready_agencies of the process
  tables,      \* schemas of the database that have the checkpoint tables
  history,     \* turns in the messages of a thread's last checkpoint
  base,        \* the turns a run read when it started
  alone,       \* history variable: no other run of the thread overlapped
  cancelled,   \* history variable: some restore was cancelled
  faults

poolVars == <<owner, setting>>
dbVars == <<ready, tables, history, base, alone>>
vars == <<owner, setting, pc, dictBefore, call, ready, tables, history, base,
          alone, cancelled, faults>>

Settings == [path : Schemas, autocommit : BOOLEAN, dictRows : BOOLEAN]
Fresh == [path |-> Public, autocommit |-> FALSE, dictRows |-> FALSE]

Ended == {"answered", "failed"}
Saving == {"reading", "running"}
Restoring == {"closing", "aborting"}
Borrowing == {"validating", "tuning", "pinning", "preparing"}
               \cup Saving \cup Restoring
Locations == {"arriving", "connecting"} \cup Borrowing \cup Ended

Calling == {"waiting", "querying"}
CallStages == {"unused", "done"} \cup Calling

Run(r) == <<r, "run">>
Thread(r) == <<AgencyOf[r], SessionOf[r]>>
Active(t) == {r \in Requests : pc[r] = "running" /\ Thread(r) = t}

Init ==
  /\ owner = [c \in Conns |-> Nobody]
  /\ setting = [c \in Conns |-> Fresh]
  /\ pc = [r \in Requests |-> "arriving"]
  /\ dictBefore = [r \in Requests |-> FALSE]
  /\ call = [r \in Requests |-> [t \in Tools |-> "unused"]]
  /\ ready = {}
  /\ tables = {}
  /\ history = [s \in Schemas |-> [t \in Threads |-> {}]]
  /\ base = [r \in Requests |-> {}]
  /\ alone = [r \in Requests |-> FALSE]
  /\ cancelled = FALSE
  /\ faults = 0

Fault ==
  /\ faults < MaxFaults
  /\ faults' = faults + 1

Goto(r, l) == pc' = [pc EXCEPT ![r] = l]
CallIs(r, t, s) == call' = [call EXCEPT ![r][t] = s]

-----------------------------------------------------------------------------
(* The pool: any free connection is lent; a waiter gives up when there is   *)
(* none for as long as pool_timeout.                                        *)

Take(h) ==
  \E c \in Conns : owner[c] = Nobody /\ owner' = [owner EXCEPT ![c] = h]

LetGo(h) ==
  owner' = [c \in Conns |-> IF owner[c] = h THEN Nobody ELSE owner[c]]

(* Mutant: a pool without a timeout.                                        *)
WaitsForever == FALSE

PoolTimeout == \A c \in Conns : owner[c] # Nobody

Holds(h) == \E c \in Conns : owner[c] = h

Set(h, s) ==
  setting' = [c \in Conns |-> IF owner[c] = h THEN s[c] ELSE setting[c]]

-----------------------------------------------------------------------------
(* The agency header: one short session.                                    *)

Arrive(r) ==
  /\ pc[r] = "arriving"
  /\ Take(Run(r))
  /\ Goto(r, "validating")
  /\ UNCHANGED <<setting, dictBefore, call, dbVars, cancelled, faults>>

Validated(r) ==
  /\ pc[r] = "validating"
  /\ LetGo(Run(r))
  /\ Goto(r, "connecting")
  /\ UNCHANGED <<setting, dictBefore, call, dbVars, cancelled, faults>>

(* An unknown agency, or a query that fails.                                *)
Rejected(r) ==
  /\ pc[r] = "validating"
  /\ Fault
  /\ LetGo(Run(r))
  /\ Goto(r, "failed")
  /\ UNCHANGED <<setting, dictBefore, call, dbVars, cancelled>>

WaitTimesOut(r) ==
  /\ pc[r] \in {"arriving", "connecting"}
  /\ PoolTimeout
  /\ Goto(r, "failed")
  /\ UNCHANGED <<poolVars, dictBefore, call, dbVars, cancelled, faults>>

-----------------------------------------------------------------------------
(* agency_checkpointer                                                      *)

Connect(r) ==
  /\ pc[r] = "connecting"
  /\ Take(Run(r))
  /\ Goto(r, "tuning")
  /\ UNCHANGED <<setting, dictBefore, call, dbVars, cancelled, faults>>

Tune(r) ==
  /\ pc[r] = "tuning"
  /\ \E c \in Conns :
       /\ owner[c] = Run(r)
       /\ dictBefore' = [dictBefore EXCEPT ![r] = setting[c].dictRows]
  /\ Set(Run(r), [c \in Conns |-> [setting[c] EXCEPT !.autocommit = TRUE,
                                                     !.dictRows = TRUE]])
  /\ Goto(r, "pinning")
  /\ UNCHANGED <<owner, call, dbVars, cancelled, faults>>

(* rollback or set_autocommit fails, before anything has changed.           *)
TuneFails(r) ==
  /\ pc[r] = "tuning"
  /\ Fault
  /\ LetGo(Run(r))
  /\ Goto(r, "failed")
  /\ UNCHANGED <<setting, dictBefore, call, dbVars, cancelled>>

(* Mutant: the search_path is set only when the tables are to be created.   *)
PinnedOnce(r) ==
  [c \in Conns |-> IF AgencyOf[r] \in ready THEN setting[c]
                   ELSE [setting[c] EXCEPT !.path = AgencyOf[r]]]

Pinned(r) ==
  [c \in Conns |-> [setting[c] EXCEPT !.path = AgencyOf[r]]]

Pin(r) ==
  /\ pc[r] = "pinning"
  /\ Set(Run(r), Pinned(r))
  /\ Goto(r, IF AgencyOf[r] \in ready THEN "reading" ELSE "preparing")
  /\ UNCHANGED <<owner, dictBefore, call, dbVars, cancelled, faults>>

(* Where the tables are created: the first schema of the search_path.       *)
SetUpSchemas(r) == {setting[c].path : c \in {d \in Conns : owner[d] = Run(r)}}

Prepare(r) ==
  /\ pc[r] = "preparing"
  /\ tables' = tables \cup SetUpSchemas(r)
  /\ ready' = ready \cup {AgencyOf[r]}
  /\ Goto(r, "reading")
  /\ UNCHANGED <<poolVars, dictBefore, call, history, base, alone, cancelled,
                 faults>>

(* Mutant: the agency is marked as ready whether or not setup succeeded.    *)
PrepareFailsReady(r) ==
  /\ pc[r] = "preparing"
  /\ Fault
  /\ tables' \in {tables, tables \cup SetUpSchemas(r)}
  /\ ready' = ready \cup {AgencyOf[r]}
  /\ Goto(r, "aborting")
  /\ UNCHANGED <<poolVars, dictBefore, call, history, base, alone, cancelled>>

(* setup fails, or is cancelled, with or without the tables created.        *)
PrepareFails(r) ==
  /\ pc[r] = "preparing"
  /\ Fault
  /\ tables' \in {tables, tables \cup SetUpSchemas(r)}
  /\ Goto(r, "aborting")
  /\ UNCHANGED <<poolVars, dictBefore, call, ready, history, base, alone,
                 cancelled>>

(* The statements and nodes of the run raise, or the client goes away and   *)
(* the run is cancelled: control passes to the finally clause.  The calls   *)
(* of the run are not waited for.                                           *)
Interrupt(r) ==
  /\ pc[r] \in {"pinning"} \cup Saving
  /\ Fault
  /\ Goto(r, "aborting")
  /\ UNCHANGED <<poolVars, dictBefore, call, dbVars, cancelled>>

Outcome(r) == IF pc[r] = "closing" THEN "answered" ELSE "failed"

(* Mutant: the row factory is left as the checkpointer had it.              *)
RestoredPath(r) ==
  [c \in Conns |-> [setting[c] EXCEPT !.path = Public, !.autocommit = FALSE]]

Restored(r) ==
  [c \in Conns |-> [path |-> Public, autocommit |-> FALSE,
                    dictRows |-> dictBefore[r]]]

Restore(r) ==
  /\ pc[r] \in Restoring
  /\ Set(Run(r), Restored(r))
  /\ LetGo(Run(r))
  /\ Goto(r, Outcome(r))
  /\ UNCHANGED <<dictBefore, call, dbVars, cancelled, faults>>

(* RESET fails with a psycopg.Error: the connection is replaced.            *)
RestoreFails(r) ==
  /\ pc[r] \in Restoring
  /\ Fault
  /\ Set(Run(r), [c \in Conns |-> Fresh])
  /\ LetGo(Run(r))
  /\ Goto(r, Outcome(r))
  /\ UNCHANGED <<dictBefore, call, dbVars, cancelled>>

(* The task is cancelled at the RESET, which is no psycopg.Error: neither   *)
(* the restore nor the invalidation happens.                                *)
RestoreCancelled(r) ==
  /\ pc[r] \in Restoring
  /\ Fault
  /\ \E reset \in BOOLEAN :
       Set(Run(r), [c \in Conns |-> [setting[c] EXCEPT
                                      !.path = IF reset THEN Public ELSE @]])
  /\ LetGo(Run(r))
  /\ Goto(r, "failed")
  /\ cancelled' = TRUE
  /\ UNCHANGED <<dictBefore, call, dbVars>>

-----------------------------------------------------------------------------
(* The run of the graph: the history is read once, every node ends in a     *)
(* checkpoint of the whole state, and the last one adds the turn.           *)

ReadHistory(r) ==
  /\ pc[r] = "reading"
  /\ \E c \in Conns :
       /\ owner[c] = Run(r)
       /\ base' = [base EXCEPT ![r] = history[setting[c].path][Thread(r)]]
  /\ alone' = [q \in Requests |->
                 IF q = r THEN Active(Thread(r)) = {}
                 ELSE alone[q] /\ q \notin Active(Thread(r))]
  /\ Goto(r, "running")
  /\ UNCHANGED <<poolVars, dictBefore, call, ready, tables, history, cancelled,
                 faults>>

Checkpoint(r, turns) ==
  \E c \in Conns :
    /\ owner[c] = Run(r)
    /\ history' = [history EXCEPT ![setting[c].path][Thread(r)] = turns]

NodeDone(r) ==
  /\ pc[r] = "running"
  /\ Checkpoint(r, base[r])
  /\ UNCHANGED <<poolVars, pc, dictBefore, call, ready, tables, base, alone,
                 cancelled, faults>>

(* Mutant: the answer replaces the messages, it is not added to them.       *)
FinalizeOnly(r) == {r}

Finalize(r) == base[r] \cup {r}

SaveAnswer(r) ==
  /\ pc[r] = "running"
  /\ \A t \in Tools : call[r][t] \notin Calling
  /\ Checkpoint(r, Finalize(r))
  /\ Goto(r, "closing")
  /\ UNCHANGED <<poolVars, dictBefore, call, ready, tables, base, alone,
                 cancelled, faults>>

-----------------------------------------------------------------------------
(* The tools: tenant_session around one query each.                         *)

StartCall(r, t) ==
  /\ pc[r] = "running"
  /\ call[r][t] = "unused"
  /\ CallIs(r, t, "waiting")
  /\ UNCHANGED <<poolVars, pc, dictBefore, dbVars, cancelled, faults>>

CallConnects(r, t) ==
  /\ call[r][t] = "waiting"
  /\ Take(<<r, t>>)
  /\ CallIs(r, t, "querying")
  /\ UNCHANGED <<setting, pc, dictBefore, dbVars, cancelled, faults>>

CallReturns(r, t) ==
  /\ call[r][t] = "querying"
  /\ LetGo(<<r, t>>)
  /\ CallIs(r, t, "done")
  /\ UNCHANGED <<setting, pc, dictBefore, dbVars, cancelled, faults>>

(* A failure reaches the run through gather, if the run is still there.     *)
RunFails(r) ==
  pc' = [pc EXCEPT ![r] = IF @ = "running" THEN "aborting" ELSE @]

(* Mutant: a session that fails is not closed.                              *)
CallFailsUnclosed(r, t) ==
  /\ call[r][t] = "querying"
  /\ Fault
  /\ CallIs(r, t, "done")
  /\ RunFails(r)
  /\ UNCHANGED <<poolVars, dictBefore, dbVars, cancelled>>

CallFails(r, t) ==
  /\ call[r][t] = "querying"
  /\ Fault
  /\ LetGo(<<r, t>>)
  /\ CallIs(r, t, "done")
  /\ RunFails(r)
  /\ UNCHANGED <<setting, dictBefore, dbVars, cancelled>>

(* No connection within the pool's timeout, or the run was cancelled.       *)
CallGivesUp(r, t) ==
  /\ call[r][t] = "waiting"
  /\ PoolTimeout \/ pc[r] # "running"
  /\ CallIs(r, t, "done")
  /\ RunFails(r)
  /\ UNCHANGED <<poolVars, dictBefore, dbVars, cancelled, faults>>

-----------------------------------------------------------------------------
(* The process dies and starts again: a new pool, nothing ready.            *)
Crash ==
  /\ Fault
  /\ owner' = [c \in Conns |-> Nobody]
  /\ setting' = [c \in Conns |-> Fresh]
  /\ pc' = [r \in Requests |->
              IF pc[r] \in {"arriving"} \cup Ended THEN pc[r] ELSE "failed"]
  /\ call' = [r \in Requests |-> [t \in Tools |->
                IF call[r][t] \in Calling THEN "done" ELSE call[r][t]]]
  /\ ready' = {}
  /\ UNCHANGED <<dictBefore, tables, history, base, alone, cancelled>>

Progress(r) ==
  \/ Arrive(r) \/ Validated(r) \/ WaitTimesOut(r)
  \/ Connect(r) \/ Tune(r) \/ Pin(r) \/ Prepare(r)
  \/ ReadHistory(r) \/ Restore(r)

Failure(r) ==
  \/ Rejected(r) \/ TuneFails(r) \/ PrepareFails(r) \/ Interrupt(r)
  \/ RestoreFails(r) \/ RestoreCancelled(r)

CallEnds(r, t) == CallConnects(r, t) \/ CallReturns(r, t) \/ CallGivesUp(r, t)

Next ==
  \/ \E r \in Requests : Progress(r) \/ NodeDone(r) \/ SaveAnswer(r) \/ Failure(r)
  \/ \E r \in Requests, t \in Tools :
       StartCall(r, t) \/ CallEnds(r, t) \/ CallFails(r, t)
  \/ Crash

Spec == Init /\ [][Next]_vars

(* The event loop goes on with every task that can go on; queries return,   *)
(* the bounded graph comes to its end, and the pool's timeout expires.      *)
FairSpec ==
  /\ Spec
  /\ \A r \in Requests : WF_vars(Progress(r)) /\ WF_vars(SaveAnswer(r))
  /\ \A r \in Requests, t \in Tools : WF_vars(CallEnds(r, t))

-----------------------------------------------------------------------------
(* The types of the state; an agency marked as ready has its tables.        *)
TypeOK ==
  /\ owner \in [Conns -> Holders \cup {Nobody}]
  /\ setting \in [Conns -> Settings]
  /\ pc \in [Requests -> Locations]
  /\ dictBefore \in [Requests -> BOOLEAN]
  /\ call \in [Requests -> [Tools -> CallStages]]
  /\ ready \subseteq Agencies \cap tables
  /\ tables \subseteq Schemas
  /\ history \in [Schemas -> [Threads -> SUBSET Requests]]
  /\ base \in [Requests -> SUBSET Requests]
  /\ alone \in [Requests -> BOOLEAN]
  /\ cancelled \in BOOLEAN
  /\ faults \in 0..MaxFaults

(* Every borrowed connection has a holder that still works with it, a       *)
(* holder has one, and a request past the pool has its own: whatever fails, *)
(* is cancelled or is left behind by a failed run (async with around        *)
(* engine.connect and session_context), nothing leaks from the pool.        *)
HeldByWorkers ==
  /\ \A c, d \in Conns : owner[c] = owner[d] /\ owner[c] # Nobody => c = d
  /\ \A r \in Requests :
       Holds(Run(r)) <=> pc[r] \in Borrowing
  /\ \A r \in Requests, t \in Tools :
       Holds(<<r, t>>) <=> call[r][t] = "querying"

(* The checkpointer reads and writes in its own agency's schema, whatever   *)
(* other runs have done to the connections before (checkpointer.py: the     *)
(* search_path is pinned for the duration of the run).                      *)
SaverPinned ==
  \A r \in Requests, c \in Conns :
    owner[c] = Run(r) /\ pc[r] \in Saving => setting[c].path = AgencyOf[r]

(* A run that uses the checkpointer finds its tables: an agency is in       *)
(* _ready_agencies only once some setup of it has succeeded.                *)
TablesReady ==
  \A r \in Requests : pc[r] \in Saving => AgencyOf[r] \in tables

(* A turn that no other run of its session overlapped is in the session's   *)
(* history from its answer on, across later turns, failed runs and crashes  *)
(* (state.py: messages are meant to survive between turns).                 *)
TurnsSurvive ==
  \A r \in Requests :
    pc[r] \in {"closing", "answered"} /\ alone[r] =>
      r \in history[AgencyOf[r]][Thread(r)]

(* The turns of a session, in whichever schema they were written.           *)
Kept(t) == UNION {history[s][t] : s \in Schemas}

Status(r) ==
  CASE pc[r] = "running"              -> "open"
    [] pc[r] \in Restoring \cup Ended -> "closed"
    [] OTHER                          -> "new"

Store == INSTANCE SessionStore WITH
  Turns <- Requests, Sessions <- Threads,
  SessionOf <- [r \in Requests |-> Thread(r)],
  saved <- [t \in Threads |-> Kept(t)],
  seen <- base,
  status <- [r \in Requests |-> Status(r)]

(* Over connections that change hands between agencies, the checkpointer is  *)
(* a store with one history per agency and session: a run reads and writes   *)
(* that of its own thread, nothing of it is anywhere else, and a run that    *)
(* was cancelled or failed writes no more (pipeline.py, checkpointer.py).    *)
KeepsSessions == Store!Spec

(* As long as no restore is cancelled, a connection in the pool is as a new *)
(* one, whatever else failed (checkpointer.py, the finally clause).         *)
CleanUnlessCancelled ==
  ~cancelled => \A c \in Conns : owner[c] = Nobody => setting[c] = Fresh

(* checkpointer.py: every connection setting is restored before the         *)
(* connection goes back to the pool.                                        *)
CleanInPool == \A c \in Conns : owner[c] = Nobody => setting[c] = Fresh

(* Every request ends, though each may hold a connection while its tools    *)
(* wait for one: the pool's timeout breaks the wait.                        *)
RequestsEnd == \A r \in Requests : <>(pc[r] \in Ended)

-----------------------------------------------------------------------------
(* What the proofs add to make these invariants inductive.                  *)

Tuned == {"pinning", "preparing"} \cup Saving \cup Restoring

PathInv ==
  \A r \in Requests, c \in Conns :
    owner[c] = Run(r) /\ pc[r] \in {"preparing"} \cup Saving =>
      setting[c].path = AgencyOf[r]

CleanInv ==
  ~cancelled =>
    /\ \A c \in Conns : setting[c] # Fresh =>
         \E r \in Requests : owner[c] = Run(r) /\ pc[r] \in Tuned
    /\ \A r \in Requests : pc[r] \in Tuned => ~dictBefore[r]

Saved(r) == pc[r] \in {"closing", "answered"} /\ alone[r]

HistoryInv ==
  /\ \A r \in Requests : Saved(r) => r \in history[AgencyOf[r]][Thread(r)]
  /\ \A r, q \in Requests :
       Saved(r) /\ q \in Active(Thread(r)) => r \in base[q]
  /\ \A r, q \in Requests :
       q # r /\ pc[r] = "running" /\ q \in Active(Thread(r)) => ~alone[r]

(* For KeepsSessions: a thread's history is in its agency's schema only.     *)
NothingStray ==
  \A s \in Schemas, t \in Threads : s # t[1] => history[s][t] = {}

ServiceInv ==
  TypeOK /\ HeldByWorkers /\ PathInv /\ TablesReady /\ CleanInv /\ HistoryInv

=============================================================================

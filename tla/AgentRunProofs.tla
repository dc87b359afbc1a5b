---------------------------- MODULE AgentRunProofs ----------------------------
(***************************************************************************)
(* Proofs about one agent run, for every set of cases, chunks and calls,    *)
(* every scope and every number of iterations; and, at the end, about the   *)
(* composition with FirstUse in MCAgentParts.                               *)
(***************************************************************************)
EXTENDS MCAgentParts, TLAPS

(* A run starts with an empty output and no calls.                          *)
LEMMA InitOK == Init => RunInv
<1> SUFFICES ASSUME Init PROVE RunInv
  OBVIOUS
<1>1. TypeOK
  <2>1. tool \in [Calls -> ToolNames]
    BY DEF Init, ToolNames
  <2>2. 0 \in 0 .. MaxIterations
    BY ConstantsAssumption
  <2> QED BY <2>1, <2>2 DEF Init, TypeOK
<1>2. CallsInv /\ EvidenceInv /\ ChunksOnce /\ NothingLeftRunning
  BY DEF Init, CallsInv, EvidenceInv, ChunksOnce, NothingLeftRunning
<1> QED BY <1>1, <1>2 DEF RunInv

(* A hit is a chunk with its case and one of the two kinds.                 *)
LEMMA HitShape ==
  ASSUME NEW h \in Hits
  PROVE  /\ h.chunk \in Chunks /\ h.case = CaseOf[h.chunk] /\ h.case \in Cases
         /\ h.kind \in {"strong", "weak"} /\ h.chunk # NoChunk
BY ConstantsAssumption DEF Hits, Hit

LEMMA TypeStep ==
  ASSUME TypeOK, [Next]_vars
  PROVE  TypeOK'
<1> USE ConstantsAssumption DEF run, call, out
<1>1. CASE UNCHANGED vars
  BY <1>1 DEF TypeOK, vars
<1>2. ASSUME NEW asked \in SUBSET Calls, NEW names \in [asked -> Tools[agent]],
             NEW cases \in [asked -> SUBSET Cases], Reply(asked, names, cases)
      PROVE  TypeOK'
  <2>1. \A c \in asked : names[c] \in ToolNames
    BY <1>2 DEF TypeOK, Agents, Tools, ToolNames
  <2>2. iterations' \in 0 .. MaxIterations
    BY <1>2 DEF Reply, MoreReplies, CountReply, TypeOK
  <2>3. "search" \in ToolNames
    BY DEF ToolNames
  <2>4. tool' \in [Calls -> ToolNames] /\ ids' \in [Calls -> SUBSET Cases]
    BY <1>2, <2>1, <2>3 DEF Reply
  <2> QED BY <1>2, <2>2, <2>4 DEF Reply, TypeOK
<1>3. CASE ReplyText
  BY <1>3 DEF ReplyText, MoreReplies, CountReply, TypeOK
<1>4. CASE GiveUp \/ Gathered \/ ModelFails
  BY <1>4 DEF GiveUp, Gathered, ModelFails, TypeOK
<1>5. ASSUME NEW c \in Calls, Refuse(c) \/ RejectIds(c) PROVE TypeOK'
  BY <1>5 DEF Refuse, RejectIds, Answered, MoveTo, TypeOK
<1>6. ASSUME NEW c \in Calls, NEW found \in SUBSET Reach(c), Query(c, found) PROVE TypeOK'
  <2>1. found \subseteq Cases
    BY DEF Reach
  <2> QED BY <1>6, <2>1 DEF Query, MoveTo, TypeOK
<1>7. ASSUME NEW c \in Calls, NEW ranked \in SUBSET Hits, Search(c, ranked) PROVE TypeOK'
  BY <1>7 DEF Search, MoveTo, TypeOK
<1>8. ASSUME NEW c \in Calls, Record(c) \/ RecordFacts(c) PROVE TypeOK'
  <2>1. {Fact(x) : x \in rows[c]} \subseteq AnyEvidence
    BY DEF TypeOK, AnyEvidence
  <2> QED BY <1>8, <2>1 DEF Record, AddMatches, RecordFacts, Answered, MoveTo, TypeOK
<1>9. ASSUME NEW c \in Calls, RecordCandidates(c) \/ RejectRows(c) \/ RejectUnknown(c)
      PROVE  TypeOK'
  BY <1>9 DEF RecordCandidates, RejectRows, RejectUnknown, Answered, MoveTo, TypeOK
<1>10. ASSUME NEW c \in Calls, RecordHits(c) PROVE TypeOK'
  BY <1>10 DEF RecordHits, NewHits, Answered, MoveTo, TypeOK, AnyEvidence
<1>11. ASSUME NEW c \in Calls, ToolFails(c) PROVE TypeOK'
  BY <1>11 DEF ToolFails, MoveTo, TypeOK
<1> QED
  BY <1>1, <1>2, <1>3, <1>4, <1>5, <1>6, <1>7, <1>8, <1>9, <1>10, <1>11
     DEF Next, Loop, Asking, Start, Finish

(* Only a call that starts its await needs care.                           *)
LEMMA CallsStep ==
  ASSUME TypeOK, CallsInv, [Next]_vars
  PROVE  CallsInv'
<1> USE DEF run, call, out
<1>1. CASE UNCHANGED vars
  BY <1>1 DEF CallsInv, vars, Permitted, Searchable
<1>2. ASSUME NEW asked \in SUBSET Calls, NEW names \in [asked -> Tools[agent]],
             NEW cases \in [asked -> SUBSET Cases], Reply(asked, names, cases)
      PROVE  CallsInv'
  BY <1>2 DEF Reply, CallsInv
<1>3. CASE ReplyText \/ GiveUp \/ Gathered \/ ModelFails
  BY <1>3 DEF ReplyText, GiveUp, Gathered, ModelFails, CallsInv, Permitted, Searchable
<1>4. ASSUME NEW c \in Calls, NEW found \in SUBSET Reach(c), Query(c, found)
      PROVE  CallsInv'
  <2>1. tool[c] = "payments" => Permitted(found)
    BY <1>4 DEF Query, Reach, Permitted
  <2>2. tool[c] = "filter_appearances" => Permitted(found)
    BY <1>4 DEF Query, Reach, Permitted
  <2> QED BY <1>4, <2>1, <2>2 DEF Query, MoveTo, CallsInv, TypeOK, Permitted, Searchable
<1>5. ASSUME NEW c \in Calls, NEW ranked \in SUBSET Hits, Search(c, ranked)
      PROVE  CallsInv'
  BY <1>5 DEF Search, MoveTo, CallsInv, TypeOK, Permitted, Searchable
<1>6. ASSUME NEW c \in Calls,
             \/ stage' = [stage EXCEPT ![c] = "idle"]
             \/ stage' = stage,
             UNCHANGED <<run, call>>
      PROVE  CallsInv'
  BY <1>6 DEF CallsInv, TypeOK, Permitted, Searchable
<1>7. ASSUME NEW c \in Calls, Refuse(c) \/ RejectIds(c) \/ Finish(c) \/ ToolFails(c)
      PROVE  CallsInv'
  <2>1. stage' = [stage EXCEPT ![c] = "idle"] /\ UNCHANGED <<run, call>>
    BY <1>7 DEF Refuse, RejectIds, Finish, ToolFails, Record, RecordCandidates, RecordFacts,
                RejectRows, RejectUnknown, RecordHits, Answered, MoveTo
  <2> QED BY <2>1, <1>6
<1> QED
  BY <1>1, <1>2, <1>3, <1>4, <1>5, <1>7 DEF Next, Loop, Asking, Start

(* A step that records nothing keeps the output's invariants.              *)
LEMMA OutputKept ==
  ASSUME EvidenceInv, ChunksOnce, UNCHANGED <<run, evidence, matches, candidates>>
  PROVE  EvidenceInv' /\ ChunksOnce'
BY DEF EvidenceInv, ChunksOnce, run

LEMMA OutputStep ==
  ASSUME RunInv, [Next]_vars
  PROVE  EvidenceInv' /\ ChunksOnce'
<1> USE DEF run, call, out
<1>1. CASE UNCHANGED vars
  BY <1>1, OutputKept DEF RunInv, vars
<1>2. ASSUME NEW asked \in SUBSET Calls, NEW names \in [asked -> Tools[agent]],
             NEW cases \in [asked -> SUBSET Cases], Reply(asked, names, cases)
      PROVE  EvidenceInv' /\ ChunksOnce'
  BY <1>2, OutputKept DEF Reply, RunInv
<1>3. CASE ReplyText \/ GiveUp \/ Gathered \/ ModelFails
  BY <1>3, OutputKept DEF ReplyText, GiveUp, Gathered, ModelFails, RunInv
<1>4. ASSUME NEW c \in Calls,
             \/ Refuse(c) \/ RejectIds(c) \/ ToolFails(c)
             \/ \E found \in SUBSET Reach(c) : Query(c, found)
             \/ \E ranked \in SUBSET Hits : Search(c, ranked)
             \/ RejectRows(c) \/ RejectUnknown(c)
      PROVE  EvidenceInv' /\ ChunksOnce'
  BY <1>4, OutputKept DEF Refuse, RejectIds, ToolFails, Query, Search, RejectRows, RejectUnknown,
                          Answered, RunInv
<1>5. ASSUME NEW c \in Calls, Record(c)
      PROVE  EvidenceInv' /\ ChunksOnce'
  <2>1. agent = "case" \/ (agent = "procedural" /\ scope = {})
    BY <1>5 DEF Record, RunInv, CallsInv, TypeOK, Agents, Tools
  <2>2. EvidenceInv'
    BY <1>5, <2>1 DEF Record, AddMatches, Answered, RunInv, EvidenceInv, Fact
  <2>3. ChunksOnce'
    BY <1>5 DEF Record, AddMatches, RunInv, ChunksOnce, Fact
  <2> QED BY <2>2, <2>3
<1>6. ASSUME NEW c \in Calls, RecordCandidates(c)
      PROVE  EvidenceInv' /\ ChunksOnce'
  <2>1. agent = "case"
    BY <1>6 DEF RecordCandidates, RunInv, CallsInv, TypeOK, Agents, Tools
  <2> QED BY <1>6, <2>1 DEF RecordCandidates, Answered, RunInv, EvidenceInv, ChunksOnce
<1>7. ASSUME NEW c \in Calls, RecordFacts(c)
      PROVE  EvidenceInv' /\ ChunksOnce'
  <2>1. Permitted(rows[c])
    BY <1>7 DEF RecordFacts, RowsPermitted, RunInv, CallsInv
  <2>2. EvidenceInv'
    BY <1>7, <2>1 DEF RecordFacts, Answered, RunInv, EvidenceInv, Fact, Permitted
  <2>3. ChunksOnce'
    BY <1>7 DEF RecordFacts, RunInv, ChunksOnce, Fact
  <2> QED BY <2>2, <2>3
<1>8. ASSUME NEW c \in Calls, RecordHits(c)
      PROVE  EvidenceInv' /\ ChunksOnce'
  <2>1. /\ \A h \in hits[c] : h \in Hits /\ h.chunk \in Searchable
        /\ \A h, g \in hits[c] : h.chunk = g.chunk => h = g
    BY <1>8 DEF RecordHits, RunInv, CallsInv, TypeOK
  <2>2. \A h \in NewHits(c) : scope = {} \/ h.case \in scope
    BY <2>1, HitShape DEF NewHits, Searchable
  <2>3. EvidenceInv'
    BY <1>8, <2>2 DEF RecordHits, Answered, RunInv, EvidenceInv
  <2>4. ChunksOnce'
    BY <1>8, <2>1 DEF RecordHits, NewHits, RunInv, ChunksOnce
  <2> QED BY <2>3, <2>4
<1> QED
  BY <1>1, <1>2, <1>3, <1>4, <1>5, <1>6, <1>7, <1>8 DEF Next, Loop, Asking, Start, Finish

(* A call only changes its stage while the reply is gathered, or after a     *)
(* failure.                                                                *)
LEMMA RunningStep ==
  ASSUME TypeOK, NothingLeftRunning, [Next]_vars
  PROVE  NothingLeftRunning'
<1> USE DEF run, call, out
<1>1. CASE UNCHANGED vars
  BY <1>1 DEF NothingLeftRunning, vars
<1>2. CASE Asking
  BY <1>2 DEF Asking, Reply, NothingLeftRunning
<1>3. CASE ReplyText \/ GiveUp \/ Gathered \/ ModelFails
  BY <1>3 DEF ReplyText, GiveUp, Gathered, ModelFails, NothingLeftRunning
<1>4. ASSUME NEW c \in Calls, Start(c) \/ Finish(c)
      PROVE  NothingLeftRunning'
  <2>1. stage[c] # "idle" /\ UNCHANGED phase
    BY <1>4 DEF Start, Finish, Refuse, RejectIds, Query, Search, Record, RecordCandidates,
                RecordFacts, RejectRows, RejectUnknown, RecordHits, Answered
  <2> QED BY <2>1 DEF NothingLeftRunning
<1>5. ASSUME NEW c \in Calls, ToolFails(c)
      PROVE  NothingLeftRunning'
  BY <1>5 DEF ToolFails, NothingLeftRunning
<1> QED BY <1>1, <1>2, <1>3, <1>4, <1>5 DEF Next, Loop

THEOREM RunInvariant == Spec => []RunInv
<1>1. RunInv /\ [Next]_vars => RunInv'
  BY TypeStep, CallsStep, OutputStep, RunningStep DEF RunInv
<1> QED BY InitOK, <1>1, PTL DEF Spec

(* The variables of a run keep their types, whatever the model asks for.    *)
THEOREM RunTypeCorrect == Spec => []TypeOK
<1>1. RunInv => TypeOK
  BY DEF RunInv
<1> QED BY RunInvariant, <1>1, PTL

LEMMA InvGivesContract ==
  ASSUME RunInv
  PROVE  KeepsContract
<1> DEFINE items == {[case |-> e.case, kind |-> e.kind] : e \in evidence}
<1>1. \A e \in AnyEvidence : e.case \in Cases /\ e.kind \in Kinds
  BY HitShape DEF AnyEvidence, Fact, Kinds
<1>2. items \subseteq Items
  BY <1>1 DEF RunInv, TypeOK, Items
<1>3. Output \in Outputs
  BY <1>2 DEF Output, Outputs, RunInv, TypeOK
<1>4. \A x \in matches : [case |-> x, kind |-> "fact"] \in items
  <2> SUFFICES ASSUME NEW x \in matches PROVE [case |-> x, kind |-> "fact"] \in items
    OBVIOUS
  <2>1. Fact(x) \in evidence
    BY DEF RunInv, EvidenceInv
  <2> QED BY <2>1 DEF Fact
<1>5. \A i \in items : \/ scope = {}
                       \/ agent = "case" /\ i.kind = "fact"
                       \/ i.case \in scope
  BY DEF RunInv, EvidenceInv
<1>6. /\ agent = "case" => InScope({i \in items : i.kind # "fact"}, scope)
      /\ agent # "case" => InScope(items, scope)
  BY <1>5 DEF InScope
<1>7. /\ candidates => agent = "case"
      /\ agent = "financial" => matches = {}
      /\ agent = "procedural" /\ scope # {} => matches = {}
  BY DEF RunInv, EvidenceInv
<1> QED BY <1>3, <1>4, <1>6, <1>7 DEF KeepsContract, Returnable, Output

(* Every output of an agent is one the graph's model assumes: the tool loop  *)
(* implements the contract, so what is shown of AnswerTurn holds with it.    *)
THEOREM AgentKeepsContract == Spec => []KeepsContract
<1>1. RunInv => KeepsContract
  BY InvGivesContract
<1> QED BY RunInvariant, <1>1, PTL

(* A step that finishes neither the run nor an output, as the graph sees it. *)
LEMMA PromiseKept ==
  ASSUME UNCHANGED <<run, iterations, phase>>, phase = "done" => UNCHANGED out
  PROVE  UNCHANGED Promise!vars
BY DEF Promise!vars, run, out, Output

(* Each step of a run is a step of AgentPromise or a stutter.                *)
LEMMA PromiseStep ==
  ASSUME RunInv, KeepsContract', [Next]_vars
  PROVE  [Promise!Next]_(Promise!vars)
<1> USE DEF run, call, out
<1>1. CASE UNCHANGED vars
  BY <1>1, PromiseKept DEF vars
<1>2. CASE Asking
  <2>1. Promise!Ask
    BY <1>2 DEF Asking, Reply, CountReply, MoreReplies, Promise!Ask, Promise!Running,
                EmptyOutput, Promise!EmptyOutput
  <2> QED BY <2>1 DEF Promise!Next
<1>3. CASE ReplyText \/ GiveUp
  <2>1. phase = "model" /\ phase' = "done" /\ UNCHANGED <<agent, scope>>
    BY <1>3 DEF ReplyText, GiveUp
  <2>2. \/ iterations < MaxIterations /\ iterations' = iterations + 1
        \/ iterations = MaxIterations /\ UNCHANGED iterations
    BY <1>3, ConstantsAssumption DEF ReplyText, GiveUp, MoreReplies, CountReply, RunInv, TypeOK
  <2>3. Output' \in Promise!Returnable(agent, scope)
    BY <2>1 DEF KeepsContract, Returnable, Promise!Returnable, Outputs, Promise!Outputs,
                  Items, Promise!Items, Kinds, Promise!Kinds, InScope, Promise!InScope
  <2>4. Promise!Return
    BY <2>1, <2>2, <2>3 DEF Promise!Return, Promise!Running, Promise!Returned,
                          EmptyOutput, Promise!EmptyOutput
  <2> QED BY <2>4 DEF Promise!Next
<1>4. CASE Gathered
  BY <1>4 DEF Gathered, Promise!vars
<1>5. CASE ModelFails
  <2>1. Promise!Raise
    BY <1>5 DEF ModelFails, Promise!Raise, Promise!Running, Promise!Raised,
                EmptyOutput, Promise!EmptyOutput
  <2> QED BY <2>1 DEF Promise!Next
<1>6. ASSUME NEW c \in Calls, Start(c) \/ Finish(c)
      PROVE  UNCHANGED Promise!vars
  <2>1. stage[c] # "idle" /\ UNCHANGED <<run, iterations, phase>>
    BY <1>6 DEF Start, Finish, Refuse, RejectIds, Query, Search, Record, RecordCandidates,
                RecordFacts, RejectRows, RejectUnknown, RecordHits, Answered
  <2>2. phase # "done"
    BY <2>1 DEF RunInv, NothingLeftRunning
  <2> QED BY <2>1, <2>2, PromiseKept
<1>7. ASSUME NEW c \in Calls, ToolFails(c)
      PROVE  [Promise!Next]_(Promise!vars)
  <2>1. phase \in {"tools", "failed"}
    BY <1>7 DEF ToolFails, RunInv, TypeOK, NothingLeftRunning
  <2>2. CASE phase = "tools"
    <3>1. Promise!Raise
      BY <1>7, <2>2 DEF ToolFails, Promise!Raise, Promise!Running, Promise!Raised,
                       EmptyOutput, Promise!EmptyOutput
    <3> QED BY <3>1 DEF Promise!Next
  <2>3. CASE phase = "failed"
    BY <1>7, <2>3, PromiseKept DEF ToolFails
  <2> QED BY <2>1, <2>2, <2>3
<1> QED BY <1>1, <1>2, <1>3, <1>4, <1>5, <1>6, <1>7 DEF Next, Loop

(* The tool loop implements AgentPromise: a bounded number of replies, then  *)
(* one output that nobody writes any more, or an exception.                 *)
THEOREM RunKeepsPromise == Spec => KeepsPromise
<1>1. Init => Promise!Init
  BY DEF Init, Promise!Init, Promise!Running, EmptyOutput, Promise!EmptyOutput, Agents, Promise!Agents
<1>2. RunInv /\ KeepsContract' /\ [Next]_vars => [Promise!Next]_(Promise!vars)
  BY PromiseStep
<1> QED BY RunInvariant, AgentKeepsContract, <1>1, <1>2, PTL DEF Spec, KeepsPromise, Promise!Spec

(* Concurrent searches never put a chunk into the evidence twice.           *)
THEOREM ChunksRecordedOnce == Spec => []ChunksOnce
<1>1. RunInv => ChunksOnce
  BY DEF RunInv
<1> QED BY RunInvariant, <1>1, PTL

(* An ambiguous person stays ambiguous until the agent comes back.          *)
THEOREM AmbiguityIsNotResolved == Spec => AmbiguityStays
<1>1. [Next]_vars => (candidates => candidates')
  BY DEF vars, run, call, out, Next, Loop, Asking, Start, Finish, Reply, ReplyText, GiveUp,
         Gathered, ModelFails, ToolFails, Refuse, RejectIds, Query, Search, Record, AddMatches,
         RecordCandidates, RecordFacts, RejectRows, RejectUnknown, RecordHits, Answered
<1>2. [][Next]_vars => [][candidates => candidates']_vars
  BY <1>1, PTL
<1> QED BY <1>2 DEF Spec, AmbiguityStays

-----------------------------------------------------------------------------
(* Side by side with FirstUse.  FP has the theorems of FirstUse about the   *)
(* variables of the composition; its Init and Next are those of F.          *)
FP == INSTANCE FirstUseProofs

LEMMA SameInit == F!Init => FP!Init
BY DEF F!Init, FP!Init

(* F and FP instantiate the same actions: both unfold to the same formulas. *)
LEMMA SameStep == F!Next => FP!Next
BY Zenon
   DEF F!Next, FP!Next, F!Progress, FP!Progress, F!Disturb, FP!Disturb, F!vars, FP!vars,
         F!local, FP!local, F!memo, FP!memo, F!qdrant, FP!qdrant, F!Ended, FP!Ended,
         F!Goto, FP!Goto, F!Event, FP!Event, F!Return, FP!Return, F!Take, FP!Take,
         F!Unlock, FP!Unlock, F!Start, FP!Start, F!Retest, FP!Retest,
         F!AnswerInfo, FP!AnswerInfo, F!Matches, FP!Matches,
         F!VerifyInfo, FP!VerifyInfo, F!FailInfo, FP!FailInfo,
         F!CancelWait, FP!CancelWait, F!Raised, FP!Raised, F!Usable, FP!Usable,
         F!TestEnsured, FP!TestEnsured, F!TestExists, FP!TestExists,
         F!Holds, FP!Holds, F!Create, FP!Create, F!RequireHybrid, FP!RequireHybrid,
         F!IndexField, FP!IndexField, F!MarkEnsured, FP!MarkEnsured,
         F!FailEnsure, FP!FailEnsure, F!ListPoints, FP!ListPoints, F!Embed, FP!Embed,
         F!Accepts, FP!Accepts, F!UpsertPoints, FP!UpsertPoints,
         F!FailCall, FP!FailCall, F!StartRecreate, FP!StartRecreate,
         F!DropCollection, FP!DropCollection, F!Discard, FP!Discard,
         F!Redeploy, FP!Redeploy, F!Restart, FP!Restart

(* Every behaviour of the composition is one of FirstUse: a step of the     *)
(* agent leaves use alone, a step of use is one of FirstUse.                *)
LEMMA UseIsFirstUse == MCSpec => FP!Spec
<1>1. MCInit => FP!Init
  BY SameInit DEF MCInit
<1>2. [Run \/ Answer \/ Use]_<<focus, vars, use>> => [FP!Next]_(FP!vars)
  <2>1. CASE Run \/ Answer \/ UNCHANGED <<focus, vars, use>>
    BY <2>1 DEF Run, Answer, use, FP!vars
  <2>2. CASE Use
    BY <2>2, SameStep DEF Use
  <2> QED BY <2>1, <2>2
<1> QED BY <1>1, <1>2, PTL DEF MCSpec, FP!Spec

(* Beside an agent that searches, what a process remembers of its collection *)
(* is true, for any number of processes and coroutines.                     *)
THEOREM SearchFindsCollection == MCSpec => []EnsuredIsUsable
<1>1. FP!EnsuredIsUsable => EnsuredIsUsable
  BY DEF EnsuredIsUsable, F!EnsuredIsUsable, FP!EnsuredIsUsable
<1> QED BY <1>1, UseIsFirstUse, FirstUseAssumption, FP!MemoIsTrue, PTL

(* ... points written under a check no redeploy overtook have vectors of     *)
(* EMBEDDING_MODEL, so that a query's vector can be compared with them.      *)
THEOREM SearchComparesLike == MCSpec => []PointsOfExpectedModel
<1>1. FP!PointsOfExpectedModel => PointsOfExpectedModel
  BY DEF PointsOfExpectedModel, F!PointsOfExpectedModel, FP!PointsOfExpectedModel
<1> QED BY <1>1, UseIsFirstUse, FirstUseAssumption, FP!ModelChecked, PTL

(* ... and no failed, cancelled or dead first use keeps the lock every other *)
(* search of the process would wait for.                                    *)
THEOREM SearchIsNotLockedOut == MCSpec => []LockHeldByChecker
<1>1. FP!LockHeldByChecker => LockHeldByChecker
  BY DEF LockHeldByChecker, F!LockHeldByChecker, FP!LockHeldByChecker
<1> QED BY <1>1, UseIsFirstUse, FirstUseAssumption, FP!LockSafe, PTL
=============================================================================

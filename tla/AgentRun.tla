------------------------------- MODULE AgentRun -------------------------------
(***************************************************************************)
(* One run of an agent (case, financial or procedural): the bounded loop in *)
(* which a model asks for tool calls, the calls of one reply run            *)
(* concurrently, and each call writes what it found into the agent's output. *)
(*                                                                         *)
(* A call runs without interruption up to its await on Postgres, Qdrant or  *)
(* the reranker, and from there to its end; in between, other calls of the  *)
(* same reply write the same output.                                       *)
(*                                                                         *)
(* Abstractions.                                                           *)
(*  - Every case and chunk a query finds is the agency's: the session's     *)
(*    schema and the collection name are fixed by RequestContext.          *)
(*  - Facts are kept per case: several rows of one case are one fact.      *)
(*  - get_next_appearance has get_appearances' control, over fewer rows.   *)
(*  - The list caps (CROSS_CASE_LIST_CAP) are among the rows a query may    *)
(*    return; totals and truncation only change the wording of the notes.  *)
(***************************************************************************)
EXTENDS Naturals, FiniteSets, AgentOutput

CONSTANTS
  Held,           \* the cases Postgres holds; a request or a model may name others
  Chunks,         \* the chunks in the agency's collection
  CaseOf,         \* the case each chunk belongs to
  NoChunk,        \* the chunk of a fact
  Calls,          \* bound: tool calls a reply may hold
  MaxIterations   \* AGENT_MAX_ITERATIONS

ASSUME ConstantsAssumption ==
  /\ Held \subseteq Cases
  /\ CaseOf \in [Chunks -> Cases]
  /\ NoChunk \notin Chunks
  /\ MaxIterations \in Nat \ {0}

Tools ==
  [case       |-> {"lookup", "party", "filter", "search"},
   financial  |-> {"payments"},
   procedural |-> {"appearances", "filter_appearances", "search"}]

ToolNames == {"lookup", "party", "filter", "search", "payments",
              "appearances", "filter_appearances"}

(* The rerank score of a chunk depends on the query: either side of the      *)
(* supervisor's threshold.                                                  *)
Fact(c)     == [case |-> c, kind |-> "fact", chunk |-> NoChunk]
Hit(h, k)   == [case |-> CaseOf[h], kind |-> k, chunk |-> h]
Hits        == {Hit(h, k) : h \in Chunks, k \in {"strong", "weak"}}
AnyEvidence == {Fact(c) : c \in Cases} \cup Hits

VARIABLES
  agent, scope,   \* which agent runs, under which case scope
  phase,          \* "model", "tools", "done" or "failed"
  iterations,     \* replies of the model
  stage,          \* per call: "idle", "called", "waiting" (at its await)
  tool, ids,      \* per call: the tool and the case ids the model asked for
  rows, hits,     \* per call: the cases its query matched, the reranked chunks
  evidence,       \* out.evidence
  matches,        \* the case ids of out.matches
  candidates,     \* out.candidates is not empty
  rejected        \* out.rejected_case_ids

run  == <<agent, scope>>
call == <<tool, ids, rows, hits>>
out  == <<evidence, matches, candidates, rejected>>
vars == <<agent, scope, phase, iterations, stage, tool, ids, rows, hits,
          evidence, matches, candidates, rejected>>

Init ==
  /\ agent \in Agents
  /\ scope \in SUBSET Cases
  /\ phase = "model" /\ iterations = 0
  /\ stage = [c \in Calls |-> "idle"]
  /\ tool = [c \in Calls |-> "search"]
  /\ ids = [c \in Calls |-> {}]
  /\ rows = [c \in Calls |-> {}] /\ hits = [c \in Calls |-> {}]
  /\ evidence = {} /\ matches = {} /\ candidates = FALSE /\ rejected = {}

(* scope.require: every case id is in the scope, if there is one.            *)
Permitted(cases) == scope = {} \/ cases \subseteq scope

MoveTo(c, s) == stage' = [stage EXCEPT ![c] = s]

Answered(c) == MoveTo(c, "idle") /\ UNCHANGED <<run, phase, iterations, call>>

-----------------------------------------------------------------------------
(* run_agent                                                               *)

(* get_payments needs case ids, get_appearances may have numbers instead, the *)
(* other tools have no such argument.                                       *)
TakesIds(name, cases) ==
  /\ name = "payments" => cases # {}
  /\ name \notin {"payments", "appearances"} => cases = {}

CountNothing == UNCHANGED iterations
CountReply == iterations' = iterations + 1

MoreReplies == iterations < MaxIterations

(* The model asks for some calls.  Unknown tools and invalid arguments are  *)
(* answered at once (Refuse).                                               *)
Reply(asked, names, cases) ==
  /\ phase = "model" /\ MoreReplies
  /\ asked # {}
  /\ names \in [asked -> Tools[agent]]
  /\ cases \in [asked -> SUBSET Cases]
  /\ \A c \in asked : TakesIds(names[c], cases[c])
  /\ CountReply
  /\ phase' = "tools"
  /\ stage' = [c \in Calls |-> IF c \in asked THEN "called" ELSE "idle"]
  /\ tool' = [c \in Calls |-> IF c \in asked THEN names[c] ELSE "search"]
  /\ ids' = [c \in Calls |-> IF c \in asked THEN cases[c] ELSE {}]
  /\ rows' = [c \in Calls |-> {}] /\ hits' = [c \in Calls |-> {}]
  /\ UNCHANGED <<run, out>>

(* It asks for nothing more.                                               *)
ReplyText ==
  /\ phase = "model" /\ MoreReplies
  /\ CountReply
  /\ phase' = "done"
  /\ UNCHANGED <<run, stage, call, out>>

GiveUp ==
  /\ phase = "model" /\ ~MoreReplies
  /\ phase' = "done"
  /\ UNCHANGED <<run, iterations, stage, call, out>>

(* Mutant of Gathered: does not wait for every call.                        *)
GatheredFirst ==
  /\ phase = "tools"
  /\ \E c \in Calls : stage[c] = "idle"
  /\ phase' = "model"
  /\ UNCHANGED <<run, iterations, stage, call, out>>

(* gather returns when every call is answered.                             *)
Gathered ==
  /\ phase = "tools"
  /\ \A c \in Calls : stage[c] = "idle"
  /\ phase' = "model"
  /\ UNCHANGED <<run, iterations, stage, call, out>>

(* The model call, a query, the search, the reranker or a tool's own check   *)
(* raises: gather re-raises at once, and the run is over.  The other calls   *)
(* are not cancelled.                                                      *)
ModelFails ==
  /\ phase = "model"
  /\ phase' = "failed"
  /\ UNCHANGED <<run, iterations, stage, call, out>>

ToolFails(c) ==
  /\ stage[c] # "idle"
  /\ MoveTo(c, "idle")
  /\ phase' = "failed"
  /\ UNCHANGED <<run, iterations, call, out>>

-----------------------------------------------------------------------------
(* The tools                                                               *)

Refuse(c) ==
  /\ stage[c] = "called"
  /\ Answered(c)
  /\ UNCHANGED out

(* CaseScopeViolation before the query.                                    *)
RejectIds(c) ==
  /\ stage[c] = "called"
  /\ tool[c] \in {"payments", "appearances"}
  /\ ~Permitted(ids[c])
  /\ rejected' = rejected \cup (ids[c] \ scope)
  /\ Answered(c)
  /\ UNCHANGED <<evidence, matches, candidates>>

(* What the query of a call may match.  Appearances are found by case id or  *)
(* by case number, and the model may name any number.                       *)
Reach(c) ==
  Held \cap CASE tool[c] = "payments" -> ids[c]
              [] tool[c] = "filter_appearances" /\ scope # {} -> scope
              [] OTHER -> Cases

Searchable == {h \in Chunks : scope = {} \/ CaseOf[h] \in scope}

(* A query on the case tables.                                              *)
Query(c, found) ==
  /\ stage[c] = "called"
  /\ tool[c] # "search"
  /\ tool[c] \in {"payments", "appearances"} => Permitted(ids[c])
  /\ found \subseteq Reach(c)
  /\ rows' = [rows EXCEPT ![c] = found]
  /\ MoveTo(c, "waiting")
  /\ UNCHANGED <<run, phase, iterations, tool, ids, hits, out>>

(* retrieve, filtered by the store, then the reranker.                      *)
Search(c, ranked) ==
  /\ stage[c] = "called"
  /\ tool[c] = "search"
  /\ \A h \in ranked : h.chunk \in Searchable
  /\ \A h, g \in ranked : h.chunk = g.chunk => h = g
  /\ hits' = [hits EXCEPT ![c] = ranked]
  /\ MoveTo(c, "waiting")
  /\ UNCHANGED <<run, phase, iterations, tool, ids, rows, out>>

ReplaceMatches(c) ==
  matches' = rows[c] /\ candidates' = FALSE /\ evidence' = evidence \cup {Fact(x) : x \in rows[c]}

(* _record: the last list replaces the one before, its facts add up.        *)
AddMatches(c) ==
  matches' = rows[c] /\ UNCHANGED candidates /\ evidence' = evidence \cup {Fact(x) : x \in rows[c]}

Record(c) ==
  /\ stage[c] = "waiting"
  /\ tool[c] \in {"lookup", "party", "filter"} \/ (tool[c] = "filter_appearances" /\ scope = {})
  /\ AddMatches(c)
  /\ Answered(c)
  /\ UNCHANGED rejected

(* Several people have the name, or only similar ones do.                   *)
RecordCandidates(c) ==
  /\ stage[c] = "waiting"
  /\ tool[c] = "party"
  /\ candidates' = TRUE
  /\ Answered(c)
  /\ UNCHANGED <<evidence, matches, rejected>>

RowsUnchecked(c) == TRUE

(* Appearances found by number are checked against the scope once more.      *)
RowsPermitted(c) == tool[c] = "appearances" => Permitted(rows[c])

RecordFacts(c) ==
  /\ stage[c] = "waiting"
  /\ \/ tool[c] \in {"payments", "appearances"}
     \/ tool[c] = "filter_appearances" /\ scope # {}
  /\ tool[c] = "payments" => ids[c] \subseteq Held
  /\ RowsPermitted(c)
  /\ evidence' = evidence \cup {Fact(x) : x \in rows[c]}
  /\ Answered(c)
  /\ UNCHANGED <<matches, candidates, rejected>>

RejectRows(c) ==
  /\ stage[c] = "waiting"
  /\ ~RowsPermitted(c)
  /\ rejected' = rejected \cup (rows[c] \ scope)
  /\ Answered(c)
  /\ UNCHANGED <<evidence, matches, candidates>>

(* CaseScopeError: one of the ids is no case of the agency, so none counts.  *)
RejectUnknown(c) ==
  /\ stage[c] = "waiting"
  /\ tool[c] = "payments"
  /\ ~(ids[c] \subseteq Held)
  /\ rejected' = rejected \cup ids[c]
  /\ Answered(c)
  /\ UNCHANGED <<evidence, matches, candidates>>

NewHitsByItem(c) == {h \in hits[c] : h \notin evidence}

(* Chunks that another search put into the evidence meanwhile are left out.  *)
NewHits(c) == {h \in hits[c] : \A e \in evidence : e.chunk # h.chunk}

RecordHits(c) ==
  /\ stage[c] = "waiting"
  /\ tool[c] = "search"
  /\ evidence' = evidence \cup NewHits(c)
  /\ Answered(c)
  /\ UNCHANGED <<matches, candidates, rejected>>

-----------------------------------------------------------------------------
Asking ==
  /\ phase = "model"
  /\ \E asked \in SUBSET Calls :
       \E names \in [asked -> Tools[agent]], cases \in [asked -> SUBSET Cases] :
         Reply(asked, names, cases)

Start(c) ==
  /\ stage[c] = "called"
  /\ \/ Refuse(c)
     \/ RejectIds(c)
     \/ \E found \in SUBSET Reach(c) : Query(c, found)
     \/ \E ranked \in SUBSET Hits : Search(c, ranked)

Finish(c) ==
  \/ Record(c) \/ RecordCandidates(c)
  \/ RecordFacts(c) \/ RejectRows(c) \/ RejectUnknown(c)
  \/ RecordHits(c)

Loop == Asking \/ ReplyText \/ GiveUp \/ Gathered

Next ==
  \/ Loop
  \/ ModelFails
  \/ \E c \in Calls : Start(c) \/ Finish(c) \/ ToolFails(c)

Spec == Init /\ [][Next]_vars

(* Model and tool calls return or raise: the event loop goes on.            *)
FairSpec ==
  /\ Spec
  /\ WF_vars(Loop)
  /\ \A c \in Calls : WF_vars(Start(c) \/ Finish(c))

-----------------------------------------------------------------------------
TypeOK ==
  /\ agent \in Agents /\ scope \subseteq Cases
  /\ phase \in {"model", "tools", "done", "failed"}
  /\ iterations \in 0 .. MaxIterations
  /\ stage \in [Calls -> {"idle", "called", "waiting"}]
  /\ tool \in [Calls -> ToolNames] /\ ids \in [Calls -> SUBSET Cases]
  /\ rows \in [Calls -> SUBSET Cases] /\ hits \in [Calls -> SUBSET Hits]
  /\ evidence \subseteq AnyEvidence
  /\ matches \subseteq Cases /\ candidates \in BOOLEAN /\ rejected \subseteq Cases

(* What the graph sees of the run.                                         *)
Output ==
  [evidence   |-> {[case |-> e.case, kind |-> e.kind] : e \in evidence},
   cases      |-> matches,
   candidates |-> candidates]

(* Whatever the model asks for, in whatever order its calls come back, and   *)
(* also half-way or after a failure: the output is one that AnswerTurn       *)
(* assumes.  In particular a scope is never left by payments, appearances    *)
(* or a search, even for a case named by its number.                        *)
KeepsContract == Output \in Returnable(agent, scope)

Promise == INSTANCE AgentPromise WITH
  replies <- iterations,
  result  <- [status |-> CASE phase = "done"   -> "returned"
                           [] phase = "failed" -> "raised"
                           [] OTHER            -> "running",
              output |-> IF phase = "done" THEN Output ELSE EmptyOutput]

(* The run keeps AgentPromise: at most AGENT_MAX_ITERATIONS replies, then one *)
(* output that keeps the contract, or an exception.  run_agent fills an      *)
(* object its caller and the tools share, and gather leaves calls running    *)
(* when one fails: no call may still write an output that was returned.     *)
KeepsPromise == Promise!Spec

(* Overlapping searches never record one chunk twice, not even with two      *)
(* scores: each chunk is graded once, by the score it came with first.      *)
ChunksOnce ==
  \A e, f \in evidence : e.chunk = f.chunk /\ e.chunk # NoChunk => e = f

(* "A person is never picked silently" (find_cases_by_party): once a lookup  *)
(* was ambiguous, no other call of the run takes the candidates back.       *)
AmbiguityStays == [][candidates => candidates']_vars

(* An agent comes back, after at most AGENT_MAX_ITERATIONS replies.         *)
AgentComesBack == <>(phase \in {"done", "failed"})

(* Inductive strengthening of KeepsContract and ChunksOnce, proved in        *)
(* AgentRunProofs: what a call brings back from its await is permitted ...   *)
CallsInv ==
  \A c \in Calls : stage[c] # "idle" =>
    /\ tool[c] \in Tools[agent]
    /\ stage[c] = "waiting" /\ tool[c] \in {"payments", "filter_appearances"} =>
         Permitted(rows[c])
    /\ stage[c] = "waiting" /\ tool[c] = "search" =>
         /\ \A h \in hits[c] : h.chunk \in Searchable
         /\ \A h, g \in hits[c] : h.chunk = g.chunk => h = g

(* ... and so is what was recorded.                                        *)
EvidenceInv ==
  /\ \A x \in matches : Fact(x) \in evidence
  /\ candidates => agent = "case"
  /\ matches # {} => agent = "case" \/ (agent = "procedural" /\ scope = {})
  /\ \A e \in evidence : \/ scope = {}
                         \/ agent = "case" /\ e.kind = "fact"
                         \/ e.case \in scope

(* Calls are running only while the reply that asked for them is gathered,   *)
(* or once the run has failed (needed for KeepsPromise).                    *)
NothingLeftRunning ==
  phase \in {"model", "done"} => \A c \in Calls : stage[c] = "idle"

RunInv ==
  /\ TypeOK
  /\ CallsInv
  /\ EvidenceInv
  /\ ChunksOnce
  /\ NothingLeftRunning

-----------------------------------------------------------------------------
(* What the documents promise and the code does not keep: see the README.   *)

(* SPEC FR-3, the case ids the case agent's lookup resolves are passed on:   *)
(* every case it found and holds a fact of is among its matches.            *)
LookupsResolve ==
  phase = "done" /\ agent = "case" =>
    \A e \in evidence : e.chunk = NoChunk => e.case \in matches
=============================================================================

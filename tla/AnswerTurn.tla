------------------------------ MODULE AnswerTurn ------------------------------
(***************************************************************************)
(* The answer pipeline: one session's turns through the LangGraph graph    *)
(*                                                                         *)
(*   understand -> agents -> supervisor -> build_context -> generate       *)
(*                   |  ^________|                |            |           *)
(*                   +------------------------> finalize <-----+           *)
(*                                                                         *)
(* The graph's control is kept whole: routing, the case-first hand-over of *)
(* case ids, the concurrent fan-out, grading, bounded retries, the edges.  *)
(* What models and stores answer is a free choice.                         *)
(*                                                                         *)
(* Abstractions.                                                           *)
(*  - The token budget of build_context may drop any of the evidence.      *)
(*  - Nothing else reads the state while a node runs, so an agent's output *)
(*    is entered in outputs at once although the node returns it later.    *)
(***************************************************************************)
EXTENDS Naturals, FiniteSets, AgentOutput

CONSTANTS
  NoCase,         \* the request names no case id
  MaxRetries,     \* SUPERVISOR_MAX_RETRIES
  MaxEvidence,    \* bound: items one agent run returns
  MaxTurns        \* bound: questions asked in the session

ASSUME ConstantsAssumption ==
  /\ MaxRetries \in Nat /\ MaxEvidence \in Nat /\ MaxTurns \in Nat
  /\ NoCase \notin Cases

Nodes  == {"understand", "agents", "case_first", "gather", "supervisor",
           "build_context", "generate", "finalize", "end", "failed"}

VARIABLES
  node,            \* the node that runs next; case_first and gather are inside agents
  requested,       \* requested_case_id
  agents,          \* the agents the question was routed to
  anchored,        \* entities name a case number or a party
  ran,             \* the keys of agent_outputs
  outputs,         \* agent_outputs
  scope, waiting,  \* locals of the agents node: the case scope, agents not back yet
  resolved,        \* resolved_case_ids
  evidence,        \* evidence, with the agent each item came from
  retries, retry,  \* retries and retry_agents
  insufficient,    \* insufficient_domains
  contexts,        \* the items in contexts / context_map
  clarification,   \* needs_clarification is set
  answer,          \* "none", "insufficient" or "grounded"
  citations, flagged,  \* citations and insufficient_information
  turn,
  \* history, read by the properties only
  steps,           \* supersteps of this turn
  graded           \* (agent, item) pairs the supervisor kept in this turn

route == <<requested, agents, anchored>>
found == <<ran, outputs, scope, waiting, resolved, clarification>>
loop  == <<retries, retry, insufficient, graded>>
reply == <<contexts, answer, citations, flagged>>
vars  == <<node, requested, agents, anchored, ran, outputs, scope, waiting, resolved,
           evidence, retries, retry, insufficient, contexts, clarification, answer,
           citations, flagged, turn, steps, graded>>

(* initial_state, at the START of a turn.                                  *)
Init ==
  /\ node = "understand"
  /\ requested \in Cases \cup {NoCase}
  /\ agents = {} /\ anchored = FALSE
  /\ ran = {} /\ outputs = [a \in Agents |-> EmptyOutput]
  /\ scope = {} /\ waiting = {} /\ resolved = {} /\ evidence = {}
  /\ retries = [a \in Agents |-> 0] /\ retry = {} /\ insufficient = {}
  /\ contexts = {} /\ clarification = FALSE
  /\ answer = "none" /\ citations = {} /\ flagged = FALSE
  /\ turn = 1 /\ steps = 0 /\ graded = {}

(* understand, agents and supervisor once and once per retry, the last three. *)
MaxSteps == 1 + 2 * (1 + MaxRetries) + 3

(* A node returns (steps counts to one past the longest path).              *)
Superstep(next) ==
  /\ node' = next
  /\ steps' = IF steps <= MaxSteps THEN steps + 1 ELSE steps
Inside(next)    == node' = next /\ UNCHANGED steps

-----------------------------------------------------------------------------
(* understand: keyword rules first, the LLM when they say nothing or the   *)
(* question has names or follows up.                                       *)

(* route_by_rules: an anchored question always involves the case agent; all *)
(* three domains without an anchor are an unclear intent.                  *)
RouteByRules(matched, anchor) ==
  IF anchor THEN matched \cup {"case"}
  ELSE IF matched = Agents THEN {} ELSE matched

(* keywords and inText are what the question matches, inRequest is the      *)
(* request's case_number.                                                  *)
UnderstandByRules(keywords, inText, inRequest) ==
  /\ node = "understand"
  /\ RouteByRules(keywords, inText) # {}
  /\ agents' = RouteByRules(keywords, inText)
  /\ anchored' = (inText \/ inRequest)
  /\ Superstep("agents")
  /\ UNCHANGED <<requested, found, evidence, loop, reply, turn>>

(* The LLM adds a party, a case number or, when the rules still say nothing, *)
(* its own choice of agents, which may be empty.                            *)
UnderstandWithLLM(keywords, inText, inRequest, party, number, chosen) ==
  /\ node = "understand"
  /\ agents' = LET rules == RouteByRules(keywords, inText \/ party)
               IN  IF rules = {} THEN chosen ELSE rules
  /\ anchored' = (inText \/ inRequest \/ party \/ number)
  /\ Superstep("agents")
  /\ UNCHANGED <<requested, found, evidence, loop, reply, turn>>

-----------------------------------------------------------------------------
(* agents: the fan-out                                                     *)

(* The outputs one agent run may end with (AgentRun shows that it does).    *)
Results(a, s) == {o \in Returnable(a, s) : Cardinality(o.evidence) <= MaxEvidence}

KnownFromRequest == IF requested = NoCase THEN {} ELSE {requested}

Known == resolved \cup (IF requested = NoCase THEN {} ELSE {requested})

(* A retry keeps the outputs of the agents that are not retried.           *)
StartAgents ==
  LET names == IF retry # {} THEN retry ELSE agents IN
  /\ node = "agents"
  /\ ran' = IF retry # {} THEN ran ELSE {}
  /\ scope' = Known
  /\ waiting' = names
  /\ Inside(IF "case" \in names /\ Cardinality(names) > 1 THEN "case_first" ELSE "gather")
  /\ UNCHANGED <<route, outputs, resolved, clarification, evidence, loop, reply, turn>>

(* _result: the evidence and the resolved cases of a set of outputs; an     *)
(* ambiguous case output resolves nothing.                                 *)
Evidence(r, outs) == UNION {{<<a, i>> : i \in outs[a].evidence} : a \in r}
ResolvedBy(r, outs, s) ==
  s \cup UNION {outs[a].cases : a \in {b \in r : ~outs[b].candidates}}

ReturnAgents(s, ask, next) ==
  /\ resolved' = ResolvedBy(ran', outputs', s)
  /\ evidence' = Evidence(ran', outputs')
  /\ clarification' = ask
  /\ Superstep(next)

Enter(a, out) ==
  /\ ran' = ran \cup {a}
  /\ outputs' = [outputs EXCEPT ![a] = out]

(* The case agent runs first when others need its case ids.  Several people *)
(* match: ask.  Nobody does although the question names one: stop here, the *)
(* dependent agents must not search the whole agency.                       *)
CaseFirst(out) ==
  /\ node = "case_first"
  /\ out \in Results("case", scope)
  /\ Enter("case", out)
  /\ waiting' = waiting \ {"case"}
  /\ \/ /\ out.candidates
        /\ ReturnAgents(scope, TRUE, "finalize")
        /\ UNCHANGED scope
     \/ /\ ~out.candidates /\ out.cases = {} /\ anchored
        /\ ReturnAgents(scope, FALSE, "supervisor")
        /\ UNCHANGED scope
     \/ /\ ~out.candidates
        /\ out.cases # {} \/ ~anchored
        /\ scope' = IF out.cases # {} THEN out.cases ELSE scope
        /\ Inside("gather")
        /\ UNCHANGED <<resolved, evidence, clarification>>
  /\ UNCHANGED <<route, loop, reply, turn>>

(* The others run concurrently and come back in any order.                 *)
AgentReturns(a, out) ==
  /\ node = "gather"
  /\ a \in waiting
  /\ out \in Results(a, scope)
  /\ Enter(a, out)
  /\ waiting' = waiting \ {a}
  /\ Inside("gather")
  /\ UNCHANGED <<route, scope, resolved, clarification, evidence, loop, reply, turn>>

AgentsDone ==
  /\ node = "gather"
  /\ waiting = {}
  /\ UNCHANGED <<ran, outputs>>
  /\ ReturnAgents(scope, FALSE, "supervisor")
  /\ UNCHANGED <<route, scope, waiting, loop, reply, turn>>

-----------------------------------------------------------------------------
(* supervisor                                                              *)

Targets == IF retry # {} THEN retry ELSE ran

(* _relevant: facts and strong chunks count, the grader approves the rest.  *)
Kept(a, approved) ==
  {i \in outputs[a].evidence : i.kind # "weak" \/ <<a, i>> \in approved}

MayRetryOnceMore(a) == retries[a] <= MaxRetries

MayRetry(a) == retries[a] < MaxRetries

CountNoRetry(redo) == retries

CountRetry(redo) == [a \in Agents |-> IF a \in redo THEN retries[a] + 1 ELSE retries[a]]

KeepAll(settled, approved) == outputs

KeepRelevant(settled, approved) ==
  [a \in Agents |-> IF a \in settled THEN [outputs[a] EXCEPT !.evidence = Kept(a, approved)]
                                     ELSE outputs[a]]

SuperviseNothing ==
  /\ node = "supervisor"
  /\ ran = {}
  /\ retry' = {}
  /\ Superstep("build_context")
  /\ UNCHANGED <<route, found, evidence, retries, insufficient, graded, reply, turn>>

(* Grade every target.  One with nothing relevant is sent back with a       *)
(* rewritten query, and after MaxRetries marked insufficient; the others    *)
(* keep what is relevant.                                                   *)
Supervise(approved) ==
  LET redo == {a \in Targets : Kept(a, approved) = {} /\ MayRetry(a)}
      settled == Targets \ redo
  IN
  /\ node = "supervisor"
  /\ ran # {}
  /\ outputs' = KeepRelevant(settled, approved)
  /\ retries' = CountRetry(redo)
  /\ retry' = redo
  /\ insufficient' = insufficient \cup {a \in settled : Kept(a, approved) = {}}
  /\ evidence' = Evidence(ran, outputs')
  /\ graded' = {p \in graded : p[1] \notin Targets}
               \cup UNION {{<<a, i>> : i \in Kept(a, approved)} : a \in Targets}
  /\ Superstep(IF redo # {} THEN "agents" ELSE "build_context")
  /\ UNCHANGED <<route, ran, scope, waiting, resolved, clarification, reply, turn>>

-----------------------------------------------------------------------------
(* build_context, generate, finalize                                       *)

(* Duplicates merge and the budget may drop items; no evidence, no LLM call. *)
BuildContext(fits) ==
  /\ node = "build_context"
  /\ fits \subseteq {p[2] : p \in evidence}
  /\ contexts' = fits
  /\ Superstep(IF fits # {} THEN "generate" ELSE "finalize")
  /\ UNCHANGED <<route, found, evidence, loop, answer, citations, flagged, turn>>

(* cited: what remains of the model's citations without the unknown ids;    *)
(* doubt: the model says the evidence does not suffice.                     *)
Generate(cited, doubt) ==
  /\ node = "generate"
  /\ cited \subseteq contexts
  /\ citations' = cited
  /\ flagged' = (doubt \/ cited = {})
  /\ answer' = IF doubt \/ cited = {} THEN "insufficient" ELSE "grounded"
  /\ Superstep("finalize")
  /\ UNCHANGED <<route, found, evidence, loop, contexts, turn>>

Finalize ==
  /\ node = "finalize"
  /\ answer' = IF answer = "none" /\ ~clarification THEN "insufficient" ELSE answer
  /\ flagged' = (flagged \/ (answer = "none" /\ ~clarification))
  /\ Superstep("end")
  /\ UNCHANGED <<route, found, evidence, loop, contexts, citations, turn>>

(* A model, store or database call raises, or the process dies: the turn is *)
(* over, and the checkpoint keeps what the finished nodes wrote.            *)
Fail ==
  /\ node \notin {"end", "failed"}
  /\ node' = "failed"
  /\ UNCHANGED <<route, found, evidence, loop, reply, turn, steps>>

-----------------------------------------------------------------------------
(* The next question of the session: initial_state over the checkpoint.     *)

ResetLoopKeepingRetry ==
  retries' = [a \in Agents |-> 0] /\ UNCHANGED retry /\ insufficient' = {}

ResetLoop ==
  retries' = [a \in Agents |-> 0] /\ retry' = {} /\ insufficient' = {}

ResetReplyKeepingCitations ==
  contexts' = {} /\ answer' = "none" /\ UNCHANGED citations /\ flagged' = FALSE

ResetReply ==
  contexts' = {} /\ answer' = "none" /\ citations' = {} /\ flagged' = FALSE

AskAgain(c) ==
  /\ node \in {"end", "failed"}
  /\ turn < MaxTurns
  /\ requested' = c
  /\ agents' = {} /\ anchored' = FALSE
  /\ ran' = {} /\ outputs' = [a \in Agents |-> EmptyOutput]
  /\ scope' = {} /\ waiting' = {} /\ resolved' = {} /\ evidence' = {}
  /\ clarification' = FALSE
  /\ ResetLoop
  /\ ResetReply
  /\ node' = "understand"
  /\ turn' = turn + 1
  /\ steps' = 0 /\ graded' = {}

-----------------------------------------------------------------------------
(* The guards on node are the actions' own, put before the quantifiers so   *)
(* that TLC enumerates inputs only where they matter.                       *)
Understand ==
  /\ node = "understand"
  /\ \E keywords \in SUBSET Agents, inText, inRequest \in BOOLEAN :
       \/ UnderstandByRules(keywords, inText, inRequest)
       \/ \E party, number \in BOOLEAN, chosen \in SUBSET Agents :
            UnderstandWithLLM(keywords, inText, inRequest, party, number, chosen)

FanOut ==
  \/ StartAgents
  \/ node = "case_first" /\ \E out \in Results("case", scope) : CaseFirst(out)
  \/ node = "gather" /\ \E a \in waiting : \E out \in Results(a, scope) : AgentReturns(a, out)
  \/ AgentsDone

Weak == {p \in Evidence(Targets, outputs) : p[2].kind = "weak"}

Grade ==
  \/ SuperviseNothing
  \/ node = "supervisor" /\ \E approved \in SUBSET Weak : Supervise(approved)

Answer ==
  \/ node = "build_context" /\ \E fits \in SUBSET {p[2] : p \in evidence} : BuildContext(fits)
  \/ node = "generate" /\ \E cited \in SUBSET contexts, doubt \in BOOLEAN : Generate(cited, doubt)
  \/ Finalize

Step == Understand \/ FanOut \/ Grade \/ Answer

Next ==
  \/ Step
  \/ Fail
  \/ \E c \in Cases \cup {NoCase} : AskAgain(c)

Spec == Init /\ [][Next]_vars

(* LangGraph schedules the next node as soon as one returns.               *)
FairSpec == Spec /\ WF_vars(Step)

-----------------------------------------------------------------------------
TypeOK ==
  /\ node \in Nodes
  /\ requested \in Cases \cup {NoCase}
  /\ agents \subseteq Agents /\ anchored \in BOOLEAN
  /\ ran \subseteq Agents /\ outputs \in [Agents -> Outputs]
  /\ scope \subseteq Cases /\ waiting \subseteq Agents /\ resolved \subseteq Cases
  /\ evidence \subseteq Agents \X Items
  /\ retries \in [Agents -> 0 .. MaxRetries]
  /\ retry \subseteq Agents /\ insufficient \subseteq Agents
  /\ contexts \subseteq Items /\ clarification \in BOOLEAN
  /\ answer \in {"none", "insufficient", "grounded"}
  /\ citations \subseteq Items /\ flagged \in BOOLEAN
  /\ turn \in Nat /\ steps \in Nat
  /\ graded \subseteq Agents \X Items

(* supervisor looks up outputs[name] for every target: the targets come     *)
(* from the checkpointed retry_agents, the outputs from the untracked       *)
(* agent_outputs, and nothing but the turn's start keeps the two together.  *)
TargetsHaveOutputs == node = "supervisor" => Targets \subseteq ran

(* Retries are counted per agent, yet they add up: no turn takes more       *)
(* supersteps than one agent alone would need (10 with two retries), so     *)
(* LangGraph's limit of 25 never cuts an answer off.                        *)
WithinRecursionLimit == steps <= MaxSteps

(* The generator sees only evidence the supervisor kept this turn, whatever *)
(* was fetched, rejected and fetched again in the rounds before.            *)
ContextIsGraded == \A i \in contexts : \E a \in ran : <<a, i>> \in graded

(* What the notes tell the generator is true: an agent that ran and left no *)
(* evidence is named as insufficient, and no other.                         *)
MissingIsNamed ==
  node = "generate" => insufficient = {a \in ran : outputs[a].evidence = {}}

(* An answer not flagged as insufficient cites evidence graded in this      *)
(* turn; no citation of an earlier turn of the session is ever returned.    *)
AnswerIsGrounded ==
  node = "end" =>
    /\ \A i \in citations : \E a \in ran : <<a, i>> \in graded
    /\ flagged \/ clarification \/ (answer = "grounded" /\ citations # {})

(* "Results are scoped to resolved case IDs when there are any": neither a  *)
(* retry nor the hand-over from the case agent ever reopens the scope.      *)
ScopedWhenResolved ==
  node \in {"case_first", "gather"} /\ (resolved # {} \/ requested # NoCase) => scope # {}

(* Every question gets an answer or an error, however often the supervisor *)
(* is dissatisfied.                                                         *)
TurnEnds == node = "understand" ~> node \in {"end", "failed"}

-----------------------------------------------------------------------------
(* Inductive strengthenings, proved in AnswerTurnProofs.                   *)

Before == {"understand", "agents", "case_first", "gather", "supervisor", "build_context"}
Rounds == {"agents", "case_first", "gather", "supervisor"}

(* All agents still being retried have been retried equally often ...      *)
Lockstep(n) ==
  /\ retry = {} => n = 0 /\ retries = [a \in Agents |-> 0]
  /\ \A a \in retry : retries[a] = n

(* ... so the number of supersteps tells the round.                         *)
StepsInv ==
  /\ node = "understand" => steps = 0 /\ Lockstep(0)
  /\ node \in {"agents", "case_first", "gather"} =>
       \E n \in 0 .. MaxRetries : steps = 1 + 2 * n /\ Lockstep(n)
  /\ node = "supervisor" => \E n \in 0 .. MaxRetries : steps = 2 + 2 * n /\ Lockstep(n)
  /\ node = "build_context" => steps <= MaxSteps - 3
  /\ node = "generate" => steps <= MaxSteps - 2
  /\ node = "finalize" => steps <= MaxSteps - 1
  /\ steps <= MaxSteps

(* Only agents of this round are entered, the case agent's turn is its own. *)
RoundInv ==
  /\ retry \subseteq ran
  /\ node = "understand" => retry = {}
  /\ node \in {"case_first", "gather"} /\ retry # {} => waiting \subseteq retry
  /\ node = "case_first" => "case" \in waiting
  /\ node = "supervisor" => evidence = Evidence(ran, outputs)

(* Agents that are not retried were settled by an earlier grade.           *)
SettledInv ==
  /\ node \in Rounds /\ retry # {} =>
       \A a \in ran \ retry :
         /\ \A i \in outputs[a].evidence : <<a, i>> \in graded
         /\ a \in insufficient <=> outputs[a].evidence = {}
  /\ node \in Rounds \cup {"understand"} => insufficient \subseteq ran \ retry
  /\ node \in Rounds \cup {"understand"} /\ retry = {} => insufficient = {}
  /\ node \in {"build_context", "generate"} =>
       insufficient = {a \in ran : outputs[a].evidence = {}}
  /\ node = "build_context" => \A p \in evidence : p \in graded /\ p[1] \in ran

ReplyInv ==
  /\ node \in Before => contexts = {}
  /\ node \in Before \cup {"generate"} => answer = "none" /\ ~flagged /\ citations = {}
  /\ citations \subseteq contexts
  /\ node = "finalize" => \/ answer = "none"
                          \/ flagged
                          \/ answer = "grounded" /\ citations # {}
  /\ node = "end" => \/ flagged
                     \/ clarification
                     \/ answer = "grounded" /\ citations # {}

TurnInv ==
  /\ TypeOK
  /\ StepsInv
  /\ RoundInv
  /\ SettledInv
  /\ ReplyInv
  /\ ContextIsGraded
  /\ ScopedWhenResolved

-----------------------------------------------------------------------------
(* What the documents promise and the code does not keep: see the README.   *)

(* SPEC AC-8: an ambiguous party name returns needs_clarification.          *)
AmbiguityAsks ==
  node = "end" /\ outputs["case"].candidates /\ outputs["case"].cases = {} => clarification

(* SPEC FR-3: the case ids the case agent resolves are passed on to the     *)
(* agents that need them.                                                   *)
ResolvedIdsPassedOn ==
  node = "end" /\ outputs["case"].cases # {} /\ ~outputs["case"].candidates
    => agents \subseteq ran

(* SPEC FR-13: a supplied case_id scopes every agent to that case.          *)
RequestedCaseScopes ==
  node = "gather" /\ requested # NoCase /\ waiting \ {"case"} # {} => scope \subseteq {requested}
=============================================================================

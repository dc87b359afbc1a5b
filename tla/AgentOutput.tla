----------------------------- MODULE AgentOutput -----------------------------
(***************************************************************************)
(* What one agent hands to the graph: the vocabulary AnswerTurn (the graph) *)
(* and AgentRun (one agent's tool loop) share.  Returnable is the contract  *)
(* between the two: the graph is checked for every agent that keeps it, and *)
(* the tool loop is shown to keep it.                                       *)
(*                                                                         *)
(* An evidence item is its case and its kind: a "fact" (written by a        *)
(* structured query, no rerank score), a "strong" chunk (rerank score >=    *)
(* SUPERVISOR_ACCEPT_SCORE) or a "weak" one, which the LLM grader decides on. *)
(* A scope is a set of cases; the empty set is ids = None, agency-wide.     *)
(***************************************************************************)
CONSTANT Cases    \* the agency's case records

Agents == {"case", "financial", "procedural"}
Kinds  == {"fact", "strong", "weak"}
Items  == [case : Cases, kind : Kinds]

(* evidence, the case_ids of matches, and whether there are candidates.     *)
Outputs == [evidence : SUBSET Items, cases : SUBSET Cases, candidates : BOOLEAN]
EmptyOutput == [evidence |-> {}, cases |-> {}, candidates |-> FALSE]

InScope(items, s) == s = {} \/ \A i \in items : i.case \in s

(* What a run of agent a under scope s may return.  The case agent's lookups *)
(* see the whole agency and every match is a fact; its text search, and all *)
(* tools of the other two, keep to the scope.  A financial agent has no     *)
(* matches, a procedural one lists cases only without a scope.              *)
Returnable(a, s) ==
  {o \in Outputs :
     /\ \A c \in o.cases : [case |-> c, kind |-> "fact"] \in o.evidence
     /\ o.candidates => a = "case"
     /\ a = "case" => InScope({i \in o.evidence : i.kind # "fact"}, s)
     /\ a # "case" => InScope(o.evidence, s)
     /\ a = "financial" => o.cases = {}
     /\ a = "procedural" /\ s # {} => o.cases = {}}
=============================================================================

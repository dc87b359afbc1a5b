----------------------------- MODULE AgentPromise -----------------------------
(***************************************************************************)
(* What a run of an agent is to the graph that awaits it: after a bounded   *)
(* number of model replies it returns one output that keeps the contract,   *)
(* or raises; and what it has returned nobody writes any more.  The graph   *)
(* relies on the last point: fanout keeps the output object itself and      *)
(* reads it after other agents have run.                                   *)
(***************************************************************************)
EXTENDS Naturals, AgentOutput

CONSTANT MaxIterations   \* AGENT_MAX_ITERATIONS

VARIABLES agent, scope,  \* who runs, under which scope
          replies,       \* what the run has cost
          result         \* what the graph's await has so far

vars == <<agent, scope, replies, result>>

Running     == [status |-> "running",  output |-> EmptyOutput]
Raised      == [status |-> "raised",   output |-> EmptyOutput]
Returned(o) == [status |-> "returned", output |-> o]

Init ==
  /\ agent \in Agents /\ scope \in SUBSET Cases
  /\ replies = 0
  /\ result = Running

Ask ==
  /\ result = Running
  /\ replies < MaxIterations /\ replies' = replies + 1
  /\ UNCHANGED <<agent, scope, result>>

(* With the last reply, or for want of another.                             *)
Return ==
  /\ result = Running
  /\ \/ replies < MaxIterations /\ replies' = replies + 1
     \/ replies = MaxIterations /\ UNCHANGED replies
  /\ result'.output \in Returnable(agent, scope)
  /\ result' = Returned(result'.output)
  /\ UNCHANGED <<agent, scope>>

Raise ==
  /\ result = Running
  /\ result' = Raised
  /\ UNCHANGED <<agent, scope, replies>>

Next == Ask \/ Return \/ Raise

Spec == Init /\ [][Next]_vars
=============================================================================

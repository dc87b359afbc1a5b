--------------------------- MODULE AnswerTurnProofs ---------------------------
(***************************************************************************)
(* Proofs about AnswerTurn, for any cases, retry limit and session length. *)
(***************************************************************************)
EXTENDS AnswerTurn, TLAPS

(* However it routes, understand only picks agents and an anchor.          *)
LEMMA UnderstandEffect ==
  ASSUME Understand
  PROVE  /\ node = "understand"
         /\ agents' \subseteq Agents /\ anchored' \in BOOLEAN
         /\ Superstep("agents")
         /\ UNCHANGED <<requested, found, evidence, loop, reply, turn>>
<1>1. \A matched \in SUBSET Agents, anchor \in BOOLEAN :
        RouteByRules(matched, anchor) \subseteq Agents
  BY DEF RouteByRules, Agents
<1>2. ASSUME NEW keywords \in SUBSET Agents, NEW inText \in BOOLEAN, NEW inRequest \in BOOLEAN,
             UnderstandByRules(keywords, inText, inRequest)
      PROVE  agents' \subseteq Agents /\ anchored' \in BOOLEAN
  BY <1>1, <1>2 DEF UnderstandByRules
<1>3. ASSUME NEW keywords \in SUBSET Agents, NEW inText \in BOOLEAN, NEW inRequest \in BOOLEAN,
             NEW party \in BOOLEAN, NEW number \in BOOLEAN, NEW chosen \in SUBSET Agents,
             UnderstandWithLLM(keywords, inText, inRequest, party, number, chosen)
      PROVE  agents' \subseteq Agents /\ anchored' \in BOOLEAN
  <2>1. RouteByRules(keywords, inText \/ party) \subseteq Agents
    BY <1>1
  <2> QED
    BY <1>3, <2>1 DEF UnderstandWithLLM
<1> QED
  BY <1>2, <1>3 DEF Understand, UnderstandByRules, UnderstandWithLLM

(* The next-state relation, action by action.                              *)
LEMMA NextCases ==
  ASSUME [Next]_vars
  PROVE  \/ Understand
         \/ StartAgents
         \/ \E out \in Results("case", scope) : CaseFirst(out)
         \/ \E a \in waiting : \E out \in Results(a, scope) : AgentReturns(a, out)
         \/ AgentsDone
         \/ SuperviseNothing
         \/ \E approved \in SUBSET Weak : Supervise(approved)
         \/ \E fits \in SUBSET {p[2] : p \in evidence} : BuildContext(fits)
         \/ \E cited \in SUBSET contexts, doubt \in BOOLEAN : Generate(cited, doubt)
         \/ Finalize
         \/ Fail
         \/ \E c \in Cases \cup {NoCase} : AskAgain(c)
         \/ UNCHANGED vars
BY DEF Next, Step, FanOut, Grade, Answer

-----------------------------------------------------------------------------
LEMMA EnterType ==
  ASSUME TypeOK, NEW a \in Agents, NEW s, NEW out \in Results(a, s), Enter(a, out)
  PROVE  /\ ran' \subseteq Agents
         /\ outputs' \in [Agents -> Outputs]
         /\ out.cases \subseteq Cases
BY DEF TypeOK, Enter, Results, Returnable, Outputs

LEMMA EvidenceType ==
  ASSUME NEW r \in SUBSET Agents, NEW outs \in [Agents -> Outputs]
  PROVE  /\ Evidence(r, outs) \subseteq Agents \X Items
         /\ \A s \in SUBSET Cases : ResolvedBy(r, outs, s) \subseteq Cases
         /\ \A p : p \in Evidence(r, outs) <=>
                     \E a \in r : \E i \in outs[a].evidence : p = <<a, i>>
<1>1. Evidence(r, outs) \subseteq Agents \X Items
  BY DEF Evidence, Outputs
<1>2. \A s \in SUBSET Cases : ResolvedBy(r, outs, s) \subseteq Cases
  BY DEF ResolvedBy, Outputs
<1>3. \A p : p \in Evidence(r, outs) <=> \E a \in r : \E i \in outs[a].evidence : p = <<a, i>>
  BY DEF Evidence
<1> QED
  BY <1>1, <1>2, <1>3

LEMMA KeptType ==
  ASSUME TypeOK, NEW approved, NEW settled
  PROVE  /\ \A a \in Agents : Kept(a, approved) \subseteq outputs[a].evidence
         /\ \A a \in Agents : outputs[a].evidence \subseteq Items
         /\ KeepRelevant(settled, approved) \in [Agents -> Outputs]
         /\ \A a \in Agents : KeepRelevant(settled, approved)[a].evidence
              = IF a \in settled THEN Kept(a, approved) ELSE outputs[a].evidence
<1>1. \A a \in Agents : Kept(a, approved) \subseteq outputs[a].evidence
  BY DEF Kept
<1>2. \A a \in Agents : /\ outputs[a] \in Outputs
                        /\ outputs[a].evidence \subseteq Items
  BY DEF TypeOK, Outputs
<1>3. \A a \in Agents : Kept(a, approved) \subseteq Items
  BY <1>1, <1>2
<1>4. ASSUME NEW a \in Agents, NEW k \in SUBSET Items
      PROVE  /\ [outputs[a] EXCEPT !.evidence = k] \in Outputs
             /\ [outputs[a] EXCEPT !.evidence = k].evidence = k
  BY <1>2 DEF Outputs
<1>5. ASSUME NEW a \in Agents
      PROVE  /\ KeepRelevant(settled, approved)[a] \in Outputs
             /\ KeepRelevant(settled, approved)[a].evidence
                  = IF a \in settled THEN Kept(a, approved) ELSE outputs[a].evidence
  <2>1. KeepRelevant(settled, approved)[a]
          = IF a \in settled THEN [outputs[a] EXCEPT !.evidence = Kept(a, approved)]
                             ELSE outputs[a]
    BY DEF KeepRelevant
  <2>2. CASE a \in settled
    BY <1>3, <1>4, <2>1, <2>2
  <2>3. CASE a \notin settled
    BY <1>2, <2>1, <2>3
  <2> QED
    BY <2>2, <2>3
<1>6. KeepRelevant(settled, approved) \in [Agents -> Outputs]
  <2>1. KeepRelevant(settled, approved)
          = [a \in Agents |-> KeepRelevant(settled, approved)[a]]
    BY DEF KeepRelevant
  <2> HIDE DEF KeepRelevant
  <2> QED
    BY <1>5, <2>1
<1> QED
  BY <1>1, <1>2, <1>5, <1>6

LEMMA NoOutputs == [a \in Agents |-> EmptyOutput] \in [Agents -> Outputs]
<1>1. EmptyOutput \in Outputs
  BY DEF EmptyOutput, Outputs
<1> QED
  BY <1>1

LEMMA NoRetries == [a \in Agents |-> 0] \in [Agents -> 0 .. MaxRetries]
BY ConstantsAssumption

LEMMA SuperstepType ==
  ASSUME TypeOK, NEW next, Superstep(next) \/ Inside(next)
  PROVE  node' = next /\ steps' \in Nat
BY DEF TypeOK, Superstep, Inside

LEMMA TypeInitially == Init => TypeOK
<1> SUFFICES ASSUME Init PROVE TypeOK
  OBVIOUS
<1>1. outputs \in [Agents -> Outputs] /\ retries \in [Agents -> 0 .. MaxRetries]
  BY NoOutputs, NoRetries DEF Init
<1> QED
  BY <1>1 DEF Init, TypeOK, Nodes

LEMMA TypeStep == TypeOK /\ [Next]_vars => TypeOK'
<1> SUFFICES ASSUME TypeOK, [Next]_vars PROVE TypeOK'
  OBVIOUS
<1> USE DEF Nodes, Superstep, Inside, route, found, loop, reply
<1>1. CASE Understand
  BY <1>1, UnderstandEffect DEF TypeOK
<1>2. CASE StartAgents
  <2>1. waiting' \subseteq Agents /\ ran' \subseteq Agents /\ scope' \subseteq Cases
    BY <1>2 DEF StartAgents, TypeOK, Known
  <2> QED
    BY <1>2, <2>1 DEF StartAgents, TypeOK
<1>3. ASSUME NEW out \in Results("case", scope), CaseFirst(out) PROVE TypeOK'
  <2>1. "case" \in Agents /\ Enter("case", out)
    BY <1>3 DEF CaseFirst, Agents
  <2>2. ran' \subseteq Agents /\ outputs' \in [Agents -> Outputs] /\ out.cases \subseteq Cases
    BY <2>1, EnterType
  <2>3. /\ Evidence(ran', outputs') \subseteq Agents \X Items
        /\ ResolvedBy(ran', outputs', scope) \subseteq Cases
    BY <2>2, EvidenceType DEF TypeOK
  <2>4. /\ scope' \subseteq Cases /\ resolved' \subseteq Cases
        /\ evidence' \subseteq Agents \X Items /\ clarification' \in BOOLEAN
    BY <1>3, <2>2, <2>3 DEF CaseFirst, ReturnAgents, TypeOK
  <2>5. \E next \in Nodes : Superstep(next) \/ Inside(next)
    BY <1>3 DEF CaseFirst, ReturnAgents
  <2>6. node' \in Nodes /\ steps' \in Nat
    BY <2>5, SuperstepType
  <2>7. waiting' \subseteq Agents /\ UNCHANGED <<route, loop, reply, turn>>
    BY <1>3 DEF CaseFirst, TypeOK
  <2> QED
    BY <2>2, <2>4, <2>6, <2>7 DEF TypeOK
<1>4. ASSUME NEW a \in waiting, NEW out \in Results(a, scope), AgentReturns(a, out) PROVE TypeOK'
  <2>1. ran' \subseteq Agents /\ outputs' \in [Agents -> Outputs]
    BY <1>4, EnterType DEF AgentReturns, TypeOK
  <2> QED
    BY <1>4, <2>1 DEF AgentReturns, TypeOK
<1>5. CASE AgentsDone
  <2>1. /\ Evidence(ran', outputs') \subseteq Agents \X Items
        /\ ResolvedBy(ran', outputs', scope) \subseteq Cases
    BY <1>5, EvidenceType DEF AgentsDone, TypeOK
  <2>2. node' \in Nodes /\ steps' \in Nat
    BY <1>5, SuperstepType DEF AgentsDone, ReturnAgents
  <2> QED
    BY <1>5, <2>1, <2>2 DEF AgentsDone, ReturnAgents, TypeOK
<1>6. CASE SuperviseNothing
  BY <1>6 DEF SuperviseNothing, TypeOK
<1>7. ASSUME NEW approved \in SUBSET Weak, Supervise(approved) PROVE TypeOK'
  <2> DEFINE redo == {a \in Targets : Kept(a, approved) = {} /\ MayRetry(a)}
             settled == Targets \ redo
  <2>1. Targets \subseteq Agents
    BY DEF Targets, TypeOK
  <2>2. outputs' = KeepRelevant(settled, approved) /\ outputs' \in [Agents -> Outputs]
    BY <1>7, KeptType DEF Supervise
  <2>3. retries' \in [Agents -> 0 .. MaxRetries]
    <3>1. retries' = [a \in Agents |-> IF a \in redo THEN retries[a] + 1 ELSE retries[a]]
      BY <1>7 DEF Supervise, CountRetry
    <3>2. \A a \in redo : retries[a] < MaxRetries
      BY DEF MayRetry
    <3> HIDE DEF redo
    <3> QED
      BY <3>1, <3>2, ConstantsAssumption DEF TypeOK
  <2>4. evidence' \subseteq Agents \X Items
    <3>1. Evidence(ran, outputs') \subseteq Agents \X Items
      BY <2>2, EvidenceType DEF TypeOK
    <3> QED
      BY <1>7, <3>1 DEF Supervise
  <2>5. graded' \subseteq Agents \X Items
    <3>1. \A a \in Targets : Kept(a, approved) \subseteq Items
      BY <2>1, KeptType
    <3> QED
      BY <1>7, <2>1, <3>1 DEF Supervise, TypeOK
  <2>6. node' \in Nodes /\ steps' \in Nat /\ retry' \subseteq Agents
        /\ insufficient' \subseteq Agents
    BY <1>7, <2>1 DEF Supervise, TypeOK
  <2> QED
    BY <1>7, <2>2, <2>3, <2>4, <2>5, <2>6 DEF Supervise, TypeOK
<1>8. ASSUME NEW fits \in SUBSET {p[2] : p \in evidence}, BuildContext(fits) PROVE TypeOK'
  <2>1. fits \subseteq Items
    BY <1>8 DEF TypeOK
  <2> QED
    BY <1>8, <2>1 DEF BuildContext, TypeOK
<1>9. ASSUME NEW cited \in SUBSET contexts, NEW doubt \in BOOLEAN, Generate(cited, doubt)
      PROVE  TypeOK'
  BY <1>9 DEF Generate, TypeOK
<1>10. CASE Finalize
  BY <1>10 DEF Finalize, TypeOK
<1>11. CASE Fail
  BY <1>11 DEF Fail, TypeOK
<1>12. ASSUME NEW c \in Cases \cup {NoCase}, AskAgain(c) PROVE TypeOK'
  <2>1. outputs' \in [Agents -> Outputs] /\ retries' \in [Agents -> 0 .. MaxRetries]
    BY <1>12, NoOutputs, NoRetries DEF AskAgain, ResetLoop
  <2>2. /\ node' \in Nodes /\ requested' \in Cases \cup {NoCase}
        /\ turn' \in Nat /\ steps' \in Nat
    BY <1>12 DEF AskAgain, TypeOK
  <2>3. /\ agents' = {} /\ anchored' = FALSE /\ ran' = {} /\ scope' = {} /\ waiting' = {}
        /\ resolved' = {} /\ evidence' = {} /\ retry' = {} /\ insufficient' = {}
        /\ contexts' = {} /\ clarification' = FALSE /\ answer' = "none"
        /\ citations' = {} /\ flagged' = FALSE /\ graded' = {}
    BY <1>12 DEF AskAgain, ResetLoop, ResetReply
  <2> QED
    BY <2>1, <2>2, <2>3 DEF TypeOK
<1>13. CASE UNCHANGED vars
  BY <1>13 DEF vars, TypeOK
<1> QED
  BY <1>1, <1>2, <1>3, <1>4, <1>5, <1>6, <1>7, <1>8, <1>9, <1>10, <1>11, <1>12, <1>13, NextCases

-----------------------------------------------------------------------------
(* The scope of a turn, once there is one, stays.                          *)
LEMMA ScopeStep ==
  ASSUME TypeOK, ScopedWhenResolved, [Next]_vars
  PROVE  ScopedWhenResolved'
<1> USE DEF ScopedWhenResolved, Superstep, Inside, route, found, loop, reply
<1>1. CASE Understand
  BY <1>1, UnderstandEffect
<1>2. CASE StartAgents
  BY <1>2 DEF StartAgents, Known, TypeOK
<1>3. ASSUME NEW out \in Results("case", scope), CaseFirst(out) PROVE ScopedWhenResolved'
  BY <1>3 DEF CaseFirst, ReturnAgents
<1>4. ASSUME NEW a \in waiting, NEW out \in Results(a, scope), AgentReturns(a, out)
      PROVE  ScopedWhenResolved'
  BY <1>4 DEF AgentReturns
<1>5. CASE AgentsDone
  BY <1>5 DEF AgentsDone, ReturnAgents
<1>6. CASE SuperviseNothing
  BY <1>6 DEF SuperviseNothing
<1>7. ASSUME NEW approved \in SUBSET Weak, Supervise(approved) PROVE ScopedWhenResolved'
  BY <1>7 DEF Supervise
<1>8. ASSUME NEW fits, BuildContext(fits) PROVE ScopedWhenResolved'
  BY <1>8 DEF BuildContext
<1>9. ASSUME NEW cited, NEW doubt, Generate(cited, doubt) PROVE ScopedWhenResolved'
  BY <1>9 DEF Generate
<1>10. CASE Finalize
  BY <1>10 DEF Finalize
<1>11. CASE Fail
  BY <1>11 DEF Fail
<1>12. ASSUME NEW c, AskAgain(c) PROVE ScopedWhenResolved'
  BY <1>12 DEF AskAgain
<1>13. CASE UNCHANGED vars
  BY <1>13 DEF vars
<1> QED
  BY <1>1, <1>2, <1>3, <1>4, <1>5, <1>6, <1>7, <1>8, <1>9, <1>10, <1>11, <1>12, <1>13, NextCases

-----------------------------------------------------------------------------
LEMMA RoundStep ==
  ASSUME TypeOK, RoundInv, [Next]_vars
  PROVE  RoundInv'
<1> USE DEF RoundInv, Superstep, Inside, route, found, loop, reply
<1>1. CASE Understand
  BY <1>1, UnderstandEffect
<1>2. CASE StartAgents
  BY <1>2 DEF StartAgents
<1>3. ASSUME NEW out \in Results("case", scope), CaseFirst(out) PROVE RoundInv'
  BY <1>3 DEF CaseFirst, ReturnAgents, Enter
<1>4. ASSUME NEW a \in waiting, NEW out \in Results(a, scope), AgentReturns(a, out)
      PROVE  RoundInv'
  BY <1>4 DEF AgentReturns, Enter
<1>5. CASE AgentsDone
  BY <1>5 DEF AgentsDone, ReturnAgents
<1>6. CASE SuperviseNothing
  BY <1>6 DEF SuperviseNothing
<1>7. ASSUME NEW approved \in SUBSET Weak, Supervise(approved) PROVE RoundInv'
  BY <1>7 DEF Supervise, Targets
<1>8. ASSUME NEW fits, BuildContext(fits) PROVE RoundInv'
  BY <1>8 DEF BuildContext
<1>9. ASSUME NEW cited, NEW doubt, Generate(cited, doubt) PROVE RoundInv'
  BY <1>9 DEF Generate
<1>10. CASE Finalize
  BY <1>10 DEF Finalize
<1>11. CASE Fail
  BY <1>11 DEF Fail
<1>12. ASSUME NEW c, AskAgain(c) PROVE RoundInv'
  BY <1>12 DEF AskAgain, ResetLoop
<1>13. CASE UNCHANGED vars
  BY <1>13 DEF vars, Evidence
<1> QED
  BY <1>1, <1>2, <1>3, <1>4, <1>5, <1>6, <1>7, <1>8, <1>9, <1>10, <1>11, <1>12, <1>13, NextCases

-----------------------------------------------------------------------------
LEMMA SuperstepCounts ==
  ASSUME TypeOK, NEW next, Superstep(next), steps <= MaxSteps
  PROVE  node' = next /\ steps' = steps + 1 /\ steps \in Nat
BY DEF Superstep, TypeOK

LEMMA StepsStep ==
  ASSUME TypeOK, StepsInv, [Next]_vars
  PROVE  StepsInv'
<1> USE DEF StepsInv, Inside, route, found, loop, reply
<1>0. /\ MaxRetries \in Nat /\ MaxSteps \in Nat /\ MaxSteps = 2 * MaxRetries + 6
      /\ steps \in Nat
  BY ConstantsAssumption DEF MaxSteps, TypeOK
<1>1. CASE Understand
  <2>1. node = "understand" /\ node' = "agents" /\ steps' = 1 /\ UNCHANGED loop
    BY <1>1, UnderstandEffect, SuperstepCounts
  <2>2. Lockstep(0)'
    BY <2>1 DEF Lockstep
  <2> QED
    BY <1>0, <2>1, <2>2
<1>2. CASE StartAgents
  <2>1. /\ node = "agents" /\ node' \in {"case_first", "gather"}
        /\ UNCHANGED <<steps, retry, retries>>
    BY <1>2 DEF StartAgents
  <2>2. \A n : Lockstep(n) => Lockstep(n)'
    BY <2>1 DEF Lockstep
  <2> QED
    BY <1>0, <2>1, <2>2
<1>3. ASSUME NEW out \in Results("case", scope), CaseFirst(out) PROVE StepsInv'
  <2>1. node = "case_first" /\ UNCHANGED <<retry, retries>>
    BY <1>3 DEF CaseFirst
  <2>2. \A n : Lockstep(n) => Lockstep(n)'
    BY <2>1 DEF Lockstep
  <2>3. PICK n \in 0 .. MaxRetries : steps = 1 + 2 * n /\ Lockstep(n)
    BY <2>1
  <2>4. \/ node' \in {"finalize", "supervisor"} /\ steps' = steps + 1
        \/ node' = "gather" /\ steps' = steps
    BY <1>3, SuperstepCounts DEF CaseFirst, ReturnAgents
  <2> QED
    BY <1>0, <2>2, <2>3, <2>4
<1>4. ASSUME NEW a \in waiting, NEW out \in Results(a, scope), AgentReturns(a, out)
      PROVE  StepsInv'
  <2>1. node = "gather" /\ node' = "gather" /\ UNCHANGED <<steps, retry, retries>>
    BY <1>4 DEF AgentReturns
  <2>2. \A n : Lockstep(n) => Lockstep(n)'
    BY <2>1 DEF Lockstep
  <2> QED
    BY <1>0, <2>1, <2>2
<1>5. CASE AgentsDone
  <2>1. node = "gather" /\ node' = "supervisor" /\ steps' = steps + 1 /\ UNCHANGED <<retry, retries>>
    BY <1>5, SuperstepCounts DEF AgentsDone, ReturnAgents
  <2>2. \A n : Lockstep(n) => Lockstep(n)'
    BY <2>1 DEF Lockstep
  <2>3. PICK n \in 0 .. MaxRetries : steps = 1 + 2 * n /\ Lockstep(n)
    BY <2>1
  <2> QED
    BY <1>0, <2>1, <2>2, <2>3
<1>6. CASE SuperviseNothing
  <2>1. node = "supervisor" /\ node' = "build_context" /\ steps' = steps + 1
    BY <1>6, SuperstepCounts DEF SuperviseNothing
  <2>2. PICK n \in 0 .. MaxRetries : steps = 2 + 2 * n
    BY <2>1
  <2> QED
    BY <1>0, <2>1, <2>2
<1>7. ASSUME NEW approved \in SUBSET Weak, Supervise(approved) PROVE StepsInv'
  <2> DEFINE redo == {a \in Targets : Kept(a, approved) = {} /\ MayRetry(a)}
  <2>1. /\ node = "supervisor" /\ retry' = redo
        /\ retries' = [a \in Agents |-> IF a \in redo THEN retries[a] + 1 ELSE retries[a]]
        /\ Superstep(IF redo # {} THEN "agents" ELSE "build_context")
    BY <1>7 DEF Supervise, CountRetry
  <2>2. PICK n \in 0 .. MaxRetries : steps = 2 + 2 * n /\ Lockstep(n)
    BY <2>1
  <2>3. steps' = steps + 1 /\ node' = IF redo # {} THEN "agents" ELSE "build_context"
    BY <2>1, SuperstepCounts
  <2>4. CASE redo = {}
    BY <1>0, <2>2, <2>3, <2>4
  <2>5. CASE redo # {}
    <3>1. \A a \in redo : a \in Agents /\ retries[a] = n /\ retries[a] < MaxRetries
      BY <2>2 DEF Lockstep, Targets, TypeOK, MayRetry
    <3>2. n + 1 \in 0 .. MaxRetries
      BY <1>0, <2>5, <3>1
    <3>3. Lockstep(n + 1)'
      <4> HIDE DEF redo
      <4> QED
        BY <2>1, <2>5, <3>1 DEF Lockstep
    <3>4. node' = "agents" /\ steps' = 1 + 2 * (n + 1)
      BY <2>2, <2>3, <2>5
    <3> QED
      BY <1>0, <3>2, <3>3, <3>4
  <2> QED
    BY <2>4, <2>5
<1>8. ASSUME NEW fits, BuildContext(fits) PROVE StepsInv'
  <2>1. node = "build_context" /\ node' \in {"generate", "finalize"} /\ steps' = steps + 1
    BY <1>8, SuperstepCounts DEF BuildContext
  <2> QED
    BY <1>0, <2>1
<1>9. ASSUME NEW cited, NEW doubt, Generate(cited, doubt) PROVE StepsInv'
  <2>1. node = "generate" /\ node' = "finalize" /\ steps' = steps + 1
    BY <1>9, SuperstepCounts DEF Generate
  <2> QED
    BY <1>0, <2>1
<1>10. CASE Finalize
  <2>1. node = "finalize" /\ node' = "end" /\ steps' = steps + 1
    BY <1>10, SuperstepCounts DEF Finalize
  <2> QED
    BY <1>0, <2>1
<1>11. CASE Fail
  BY <1>0, <1>11 DEF Fail
<1>12. ASSUME NEW c, AskAgain(c) PROVE StepsInv'
  <2>1. Lockstep(0)'
    BY <1>12 DEF AskAgain, ResetLoop, Lockstep
  <2> QED
    BY <1>0, <1>12, <2>1 DEF AskAgain
<1>13. CASE UNCHANGED vars
  BY <1>13 DEF vars, Lockstep
<1> QED
  BY <1>1, <1>2, <1>3, <1>4, <1>5, <1>6, <1>7, <1>8, <1>9, <1>10, <1>11, <1>12, <1>13, NextCases

-----------------------------------------------------------------------------
(* Entering an agent of this round leaves what was settled alone.          *)
LEMMA EnterKeepsSettled ==
  ASSUME TypeOK, RoundInv, SettledInv, node \in {"case_first", "gather"},
         NEW a \in waiting, NEW s, NEW out \in Results(a, s), Enter(a, out),
         UNCHANGED loop
  PROVE  /\ retry # {} =>
              \A b \in ran' \ retry :
                /\ \A i \in outputs'[b].evidence : <<b, i>> \in graded
                /\ b \in insufficient <=> outputs'[b].evidence = {}
         /\ insufficient \subseteq ran' \ retry
         /\ retry = {} => insufficient = {}
<1>1. ran' = ran \cup {a} /\ \A b \in Agents : b # a => outputs'[b] = outputs[b]
  BY DEF Enter, TypeOK
<1>2. retry # {} => a \in retry
  BY DEF RoundInv
<1>3. retry # {} => \A b \in ran' \ retry : b \in ran \ retry /\ b \in Agents /\ b # a
  BY <1>1, <1>2 DEF TypeOK
<1>4. node \in Rounds
  BY DEF Rounds
<1> QED
  BY <1>1, <1>3, <1>4 DEF SettledInv

LEMMA SettledStep ==
  ASSUME TypeOK, RoundInv, SettledInv, [Next]_vars
  PROVE  SettledInv'
<1> USE DEF Superstep, Inside, route, found, loop, reply, Rounds
<1>1. CASE Understand
  BY <1>1, UnderstandEffect DEF SettledInv, RoundInv
<1>2. CASE StartAgents
  BY <1>2 DEF StartAgents, SettledInv, RoundInv
<1>3. ASSUME NEW out \in Results("case", scope), CaseFirst(out) PROVE SettledInv'
  <2>1. node = "case_first" /\ "case" \in waiting /\ Enter("case", out) /\ UNCHANGED loop
    BY <1>3 DEF CaseFirst, RoundInv
  <2>2. node' \in {"gather", "supervisor", "finalize"}
    BY <1>3 DEF CaseFirst, ReturnAgents
  <2> QED
    BY <2>1, <2>2, EnterKeepsSettled DEF SettledInv
<1>4. ASSUME NEW a \in waiting, NEW out \in Results(a, scope), AgentReturns(a, out)
      PROVE  SettledInv'
  <2>1. node = "gather" /\ node' = "gather" /\ Enter(a, out) /\ UNCHANGED loop
    BY <1>4 DEF AgentReturns
  <2> QED
    BY <2>1, EnterKeepsSettled DEF SettledInv
<1>5. CASE AgentsDone
  BY <1>5 DEF AgentsDone, ReturnAgents, SettledInv
<1>6. CASE SuperviseNothing
  <2>1. /\ node = "supervisor" /\ node' = "build_context" /\ ran = {} /\ retry = {}
        /\ UNCHANGED <<ran, outputs, evidence, insufficient, graded>>
    BY <1>6 DEF SuperviseNothing, RoundInv
  <2>2. evidence = {} /\ insufficient = {}
    BY <2>1 DEF RoundInv, SettledInv, Evidence
  <2> QED
    BY <2>1, <2>2 DEF SettledInv
<1>7. ASSUME NEW approved \in SUBSET Weak, Supervise(approved) PROVE SettledInv'
  <2> DEFINE redo == {a \in Targets : Kept(a, approved) = {} /\ MayRetry(a)}
             settled == Targets \ redo
  <2>1. /\ node = "supervisor" /\ ran # {} /\ ran' = ran /\ retry' = redo
        /\ outputs' = KeepRelevant(settled, approved)
        /\ insufficient' = insufficient \cup {a \in settled : Kept(a, approved) = {}}
        /\ evidence' = Evidence(ran, outputs')
        /\ graded' = {p \in graded : p[1] \notin Targets}
                       \cup UNION {{<<a, i>> : i \in Kept(a, approved)} : a \in Targets}
        /\ node' = IF redo # {} THEN "agents" ELSE "build_context"
    BY <1>7 DEF Supervise
  <2>2. Targets \subseteq ran /\ ran \subseteq Agents
    BY DEF Targets, RoundInv, TypeOK
  <2>3. \A a \in Agents : outputs'[a].evidence
                             = IF a \in settled THEN Kept(a, approved) ELSE outputs[a].evidence
    BY <2>1, KeptType
  <2>4. ASSUME NEW a \in ran \ redo
        PROVE  /\ \A i \in outputs'[a].evidence : <<a, i>> \in graded'
               /\ a \in insufficient' <=> outputs'[a].evidence = {}
    <3>1. CASE a \in Targets
      <4>1. a \in settled /\ outputs'[a].evidence = Kept(a, approved)
        BY <2>2, <2>3, <2>4, <3>1
      <4>2. a \notin insufficient
        BY <2>1, <3>1 DEF SettledInv, Targets
      <4>3. \A i \in Kept(a, approved) : <<a, i>> \in graded'
        BY <2>1, <3>1
      <4>4. a \in insufficient' <=> Kept(a, approved) = {}
        BY <2>1, <4>1, <4>2
      <4> QED
        BY <4>1, <4>3, <4>4
    <3>2. CASE a \notin Targets
      <4>1. retry # {} /\ a \in ran \ retry
        BY <2>4, <3>2 DEF Targets
      <4>2. /\ \A i \in outputs[a].evidence : <<a, i>> \in graded
            /\ a \in insufficient <=> outputs[a].evidence = {}
        BY <2>1, <4>1 DEF SettledInv
      <4>3. outputs'[a].evidence = outputs[a].evidence
        BY <2>2, <2>3, <3>2, <4>1
      <4>4. \A i \in outputs[a].evidence : <<a, i>> \in graded'
        BY <2>1, <3>2, <4>2
      <4>5. a \in insufficient' <=> a \in insufficient
        BY <2>1, <3>2
      <4> QED
        BY <4>2, <4>3, <4>4, <4>5
    <3> QED
      BY <3>1, <3>2
  <2>5. insufficient' \subseteq ran \ redo
    <3>1. insufficient \subseteq ran \ retry /\ (retry = {} => insufficient = {})
      BY <2>1 DEF SettledInv
    <3>2. insufficient \cap Targets = {}
      BY <3>1 DEF Targets
    <3> QED
      BY <2>1, <2>2, <3>1, <3>2
  <2> HIDE DEF redo, settled
  <2>6. CASE redo # {}
    BY <2>1, <2>4, <2>5, <2>6 DEF SettledInv
  <2>7. CASE redo = {}
    <3>1. node' = "build_context"
      BY <2>1, <2>7
    <3>2. insufficient' = {a \in ran : outputs'[a].evidence = {}}
      BY <2>4, <2>5, <2>7
    <3>3. \A p \in evidence' : p \in graded' /\ p[1] \in ran'
      <4>1. outputs' \in [Agents -> Outputs]
        BY TypeStep DEF TypeOK
      <4>2. \A p \in evidence' : \E a \in ran : \E i \in outputs'[a].evidence : p = <<a, i>>
        BY <2>1, <2>2, <4>1, EvidenceType
      <4> QED
        BY <2>1, <2>4, <2>7, <4>2
    <3> QED
      BY <2>1, <3>1, <3>2, <3>3 DEF SettledInv
  <2> QED
    BY <2>6, <2>7
<1>8. ASSUME NEW fits, BuildContext(fits) PROVE SettledInv'
  BY <1>8 DEF BuildContext, SettledInv
<1>9. ASSUME NEW cited, NEW doubt, Generate(cited, doubt) PROVE SettledInv'
  BY <1>9 DEF Generate, SettledInv
<1>10. CASE Finalize
  BY <1>10 DEF Finalize, SettledInv
<1>11. CASE Fail
  BY <1>11 DEF Fail, SettledInv
<1>12. ASSUME NEW c, AskAgain(c) PROVE SettledInv'
  BY <1>12 DEF AskAgain, ResetLoop, SettledInv
<1>13. CASE UNCHANGED vars
  BY <1>13 DEF vars, SettledInv
<1> QED
  BY <1>1, <1>2, <1>3, <1>4, <1>5, <1>6, <1>7, <1>8, <1>9, <1>10, <1>11, <1>12, <1>13, NextCases

-----------------------------------------------------------------------------
LEMMA ReplyStep ==
  ASSUME TypeOK, SettledInv, ReplyInv, ContextIsGraded, [Next]_vars
  PROVE  ReplyInv' /\ ContextIsGraded'
<1> USE DEF ReplyInv, Before, Superstep, Inside, route, found, loop, reply
<1>0. ASSUME UNCHANGED reply, node \in Before, node' \in Before \cup {"finalize", "failed"}
      PROVE  ReplyInv' /\ ContextIsGraded'
  BY <1>0 DEF ContextIsGraded
<1>1. CASE Understand
  BY <1>0, <1>1, UnderstandEffect
<1>2. CASE StartAgents
  BY <1>0, <1>2 DEF StartAgents
<1>3. ASSUME NEW out, CaseFirst(out) PROVE ReplyInv' /\ ContextIsGraded'
  BY <1>0, <1>3 DEF CaseFirst, ReturnAgents
<1>4. ASSUME NEW a, NEW out, AgentReturns(a, out) PROVE ReplyInv' /\ ContextIsGraded'
  BY <1>0, <1>4 DEF AgentReturns
<1>5. CASE AgentsDone
  BY <1>0, <1>5 DEF AgentsDone, ReturnAgents
<1>6. CASE SuperviseNothing
  BY <1>0, <1>6 DEF SuperviseNothing
<1>7. ASSUME NEW approved, Supervise(approved) PROVE ReplyInv' /\ ContextIsGraded'
  BY <1>0, <1>7 DEF Supervise
<1>8. ASSUME NEW fits, BuildContext(fits) PROVE ReplyInv' /\ ContextIsGraded'
  <2>1. /\ node = "build_context" /\ contexts' = fits /\ node' \in {"generate", "finalize"}
        /\ UNCHANGED <<answer, citations, flagged, ran, graded>>
    BY <1>8 DEF BuildContext
  <2>2. ASSUME NEW i \in fits PROVE \E a \in ran : <<a, i>> \in graded
    <3>1. PICK p \in evidence : i = p[2]
      BY <1>8, <2>2 DEF BuildContext
    <3>2. p \in graded /\ p[1] \in ran
      BY <2>1, <3>1 DEF SettledInv
    <3>3. p = <<p[1], p[2]>>
      BY <3>2 DEF TypeOK
    <3> QED
      BY <3>1, <3>2, <3>3
  <2> QED
    BY <2>1, <2>2 DEF ContextIsGraded
<1>9. ASSUME NEW cited, NEW doubt \in BOOLEAN, Generate(cited, doubt)
      PROVE  ReplyInv' /\ ContextIsGraded'
  BY <1>9 DEF Generate, ContextIsGraded
<1>10. CASE Finalize
  BY <1>10 DEF Finalize, ContextIsGraded
<1>11. CASE Fail
  BY <1>11 DEF Fail, ContextIsGraded
<1>12. ASSUME NEW c, AskAgain(c) PROVE ReplyInv' /\ ContextIsGraded'
  BY <1>12 DEF AskAgain, ResetReply, ContextIsGraded
<1>13. CASE UNCHANGED vars
  BY <1>13 DEF vars, ContextIsGraded
<1> QED
  BY <1>1, <1>2, <1>3, <1>4, <1>5, <1>6, <1>7, <1>8, <1>9, <1>10, <1>11, <1>12, <1>13, NextCases

-----------------------------------------------------------------------------
(* The parts make one inductive invariant.                                 *)
LEMMA TurnInvariance == Spec => []TurnInv
<1>1. Init => TurnInv
  <2>1. Init => StepsInv
    BY ConstantsAssumption DEF Init, StepsInv, Lockstep, MaxSteps
  <2>2. Init => RoundInv /\ SettledInv /\ ReplyInv /\ ContextIsGraded /\ ScopedWhenResolved
    BY DEF Init, RoundInv, SettledInv, ReplyInv, ContextIsGraded, ScopedWhenResolved,
           Rounds, Before
  <2> QED
    BY <2>1, <2>2, TypeInitially DEF TurnInv
<1>2. TurnInv /\ [Next]_vars => TurnInv'
  BY TypeStep, StepsStep, RoundStep, SettledStep, ReplyStep, ScopeStep DEF TurnInv
<1> QED
  BY <1>1, <1>2, PTL DEF Spec

(* Every state of every turn is well typed.                                *)
THEOREM TurnTypeCorrect == Spec => []TypeOK
<1>1. TurnInv => TypeOK
  BY DEF TurnInv
<1> QED
  BY <1>1, TurnInvariance, PTL

(* supervisor never looks up an agent that has no output, although targets  *)
(* and outputs live in different channels.                                 *)
THEOREM SupervisorFindsOutputs == Spec => []TargetsHaveOutputs
<1>1. TurnInv => TargetsHaveOutputs
  BY DEF TurnInv, RoundInv, TargetsHaveOutputs, Targets
<1> QED
  BY <1>1, TurnInvariance, PTL

(* A turn takes at most 2 * MaxRetries + 6 supersteps, however the retries  *)
(* of the three agents interleave.                                         *)
THEOREM TurnsAreShort == Spec => []WithinRecursionLimit
<1>1. TurnInv => WithinRecursionLimit
  BY DEF TurnInv, StepsInv, WithinRecursionLimit
<1> QED
  BY <1>1, TurnInvariance, PTL

(* No retry and no hand-over reopens the scope of a turn.                  *)
THEOREM ScopeStaysResolved == Spec => []ScopedWhenResolved
<1>1. TurnInv => ScopedWhenResolved
  BY DEF TurnInv
<1> QED
  BY <1>1, TurnInvariance, PTL

(* Nothing the supervisor rejected, and nothing of an earlier round or turn, *)
(* reaches the generator.                                                   *)
THEOREM OnlyGradedContext == Spec => []ContextIsGraded
<1>1. TurnInv => ContextIsGraded
  BY DEF TurnInv
<1> QED
  BY <1>1, TurnInvariance, PTL

(* The note about missing domains names exactly the agents without evidence. *)
THEOREM NotesAreTrue == Spec => []MissingIsNamed
<1>1. TurnInv => MissingIsNamed
  BY DEF TurnInv, SettledInv, MissingIsNamed
<1> QED
  BY <1>1, TurnInvariance, PTL

(* An unflagged answer rests on citations of evidence graded in its turn.   *)
THEOREM AnswersAreGrounded == Spec => []AnswerIsGrounded
<1>1. TurnInv => AnswerIsGrounded
  BY DEF TurnInv, ReplyInv, ContextIsGraded, AnswerIsGrounded
<1> QED
  BY <1>1, TurnInvariance, PTL
=============================================================================

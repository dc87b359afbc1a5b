---------------------------- MODULE MCAgentParts ----------------------------
(***************************************************************************)
(* The small instances of AgentRun and, side by side with it, of FirstUse:  *)
(* what a search, like any other use of the index, needs first.  One of the *)
(* two is in focus in a behaviour, so that the state spaces add up and do   *)
(* not multiply; when FirstUse is, the agent's model first answers without  *)
(* a tool call.                                                             *)
(***************************************************************************)
EXTENDS MCAgentRun, MCFirstUse

VARIABLES
  focus,  \* what this behaviour is about
  \* FirstUse
  served, coll, fields, points, info, lock, ensured, pc, op, todo, vec,
  events, intact, sound, stable

use == <<served, coll, fields, points, info, lock, ensured, pc, op, todo, vec,
         events, intact, sound, stable>>

F == INSTANCE FirstUse

MCInit ==
  /\ focus \in {"agent", "first use"}
  /\ Init /\ F!Init
  /\ focus = "agent" => coll = "none" /\ served = Expected
  /\ focus = "first use" => agent = "case" /\ scope = {}

Run    == focus = "agent" /\ Next /\ UNCHANGED <<focus, use>>
Answer == focus = "first use" /\ ReplyText /\ UNCHANGED <<focus, use>>
Use    == focus = "first use" /\ phase = "done" /\ F!Next /\ UNCHANGED <<focus, vars>>

(* The fairness of FairSpec of AgentRun.                                    *)
MCSpec ==
  /\ MCInit /\ [][Run \/ Answer \/ Use]_<<focus, vars, use>>
  /\ WF_vars(Loop)
  /\ \A k \in Calls : WF_vars(Start(k) \/ Finish(k))

-----------------------------------------------------------------------------
(* The properties of FirstUse, where the comments say more.                 *)

(* A collection in _ensured_collections that nobody deleted since is there,  *)
(* hybrid, and has its payload indexes.                                     *)
EnsuredIsUsable == focus = "first use" => F!EnsuredIsUsable

(* Points written while no redeploy overtook the process's check of the     *)
(* service are of EMBEDDING_MODEL.                                          *)
PointsOfExpectedModel == focus = "first use" => F!PointsOfExpectedModel

(* The lock of ensure_ready is held exactly by the coroutine that checks.   *)
LockHeldByChecker == focus = "first use" => F!LockHeldByChecker
=============================================================================

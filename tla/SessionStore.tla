----------------------------- MODULE SessionStore -----------------------------
(***************************************************************************)
(* What checkpointing promises to the turns of a session: a store with one  *)
(* history per session.  A turn begins once, with the history as it is      *)
(* then, and may write that back any number of times; its end adds the turn *)
(* itself, and after its end, however it came, it writes nothing.           *)
(* Connections, schemas, pool and crashes are below this level.            *)
(***************************************************************************)
CONSTANTS Turns, Sessions, SessionOf

VARIABLES saved,   \* the turns in each session's history
          seen,    \* the history each turn began with
          status   \* "new", "open" or "closed"

vars == <<saved, seen, status>>

Init ==
  /\ saved = [s \in Sessions |-> {}]
  /\ seen = [t \in Turns |-> {}]
  /\ status = [t \in Turns |-> "new"]

Save(t, turns) == saved' = [saved EXCEPT ![SessionOf[t]] = turns]

Begin(t) ==
  /\ status[t] = "new"
  /\ status' = [status EXCEPT ![t] = "open"]
  /\ seen' = [seen EXCEPT ![t] = saved[SessionOf[t]]]
  /\ UNCHANGED saved

Refresh(t) ==
  /\ status[t] = "open"
  /\ Save(t, seen[t])
  /\ UNCHANGED <<seen, status>>

Finish(t) ==
  /\ status[t] = "open"
  /\ status' = [status EXCEPT ![t] = "closed"]
  /\ Save(t, seen[t] \cup {t})
  /\ UNCHANGED seen

(* Turns fail, are refused or cancelled, or die together in a crash.         *)
Abandon ==
  /\ \A t \in Turns : status'[t] \in {status[t], "closed"}
  /\ status' = [t \in Turns |-> status'[t]]
  /\ UNCHANGED <<saved, seen>>

Next ==
  \/ \E t \in Turns : Begin(t) \/ Refresh(t) \/ Finish(t)
  \/ Abandon

Spec == Init /\ [][Next]_vars
=============================================================================

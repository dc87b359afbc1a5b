------------------------------ MODULE CaseIndex ------------------------------
(***************************************************************************)
(* What the knowledge index of one case promises to those who search it,    *)
(* without runs, snapshots, chunks or skip detection.  An entity is         *)
(* retrievable ("found") from its first complete write until somebody       *)
(* deletes the case's index or the store itself fails; re-indexing changes  *)
(* what is shown for it and never takes it away, and nothing is ever shown  *)
(* that the case record did not hold.                                       *)
(***************************************************************************)
EXTENDS Naturals

CONSTANTS
  Entities,  \* the entities of the case
  Versions   \* what an entity may be, "no such row" included

VARIABLES
  held,      \* held[e]: everything e has been
  shown,     \* shown[e]: the versions points of e are retrievable for
  found,     \* found[e]: the opening of e's text is retrievable
  faults     \* failures so far

vars == <<held, shown, found, faults>>

Init ==
  /\ \E v \in [Entities -> Versions] : held = [e \in Entities |-> {v[e]}]
  /\ shown = [e \in Entities |-> {}]
  /\ found = [e \in Entities |-> FALSE]
  /\ faults = 0

Edit(e, v) ==
  /\ held' = [held EXCEPT ![e] = @ \cup {v}]
  /\ UNCHANGED <<shown, found, faults>>

(* All of a version's points arrive at once, over those of other versions.  *)
Show(e, v) ==
  /\ v \in held[e]
  /\ \E some \in SUBSET shown[e] : shown' = [shown EXCEPT ![e] = some \cup {v}]
  /\ found' = [found EXCEPT ![e] = TRUE]
  /\ UNCHANGED held
  /\ faults' \in {faults, faults + 1}

(* Leftovers go, but never the opening.                                     *)
Trim(e) ==
  /\ \E some \in SUBSET shown[e] :
       /\ found[e] => some # {}
       /\ shown' = [shown EXCEPT ![e] = some]
  /\ UNCHANGED <<held, found>>
  /\ faults' \in {faults, faults + 1}

(* The index of the case is deleted.                                        *)
Withdraw ==
  /\ shown' = [e \in Entities |-> {}]
  /\ found' = [e \in Entities |-> FALSE]
  /\ UNCHANGED <<held, faults>>

(* The store loses a point of e.                                            *)
Lose(e) ==
  /\ \E some \in SUBSET shown[e] : shown' = [shown EXCEPT ![e] = some]
  /\ \E b \in BOOLEAN : (b => found[e]) /\ found' = [found EXCEPT ![e] = b]
  /\ UNCHANGED held
  /\ faults' = faults + 1

(* A failure nobody sees.                                                   *)
Fail == faults' = faults + 1 /\ UNCHANGED <<held, shown, found>>

Next ==
  \/ \E e \in Entities : \/ \E v \in Versions : Edit(e, v) \/ Show(e, v)
                         \/ Trim(e) \/ Lose(e)
  \/ Withdraw \/ Fail

Spec == Init /\ [][Next]_vars
=============================================================================

----------------------------- MODULE MCIngestion -----------------------------
(* Small instances of Ingestion for TLC.                                   *)
EXTENDS Ingestion, TLC

CONSTANTS c1, c2, c3

(* c1 is one chunk and c2 two, so that edits shrink and grow the split;    *)
(* under the second key c1 is split in two.                                *)
MCChunkCount ==
  [c \in Contents |-> [k \in Keys |-> IF c = c1 /\ k = 1 THEN 1 ELSE 2]]

(* The ids of later chunks sort first.                                     *)
MCFirst ==
  [e \in Entities |-> [S \in (SUBSET Slots) \ {{}} |-> CHOOSE s \in S : \A t \in S : t <= s]]

RunSymmetry == Permutations(Runs)
=============================================================================

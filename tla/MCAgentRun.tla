------------------------------ MODULE MCAgentRun ------------------------------
(* Small instances of AgentRun for TLC: one chunk per case.                 *)
EXTENDS AgentRun

CONSTANTS k1, k2, h1, h2

MCCaseOf == [h \in Chunks |-> IF h = h1 THEN k1 ELSE k2]
=============================================================================

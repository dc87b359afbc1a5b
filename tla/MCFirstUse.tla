------------------------------ MODULE MCFirstUse ------------------------------
(* A small instance of FirstUse for TLC.                                    *)
EXTENDS FirstUseConstants, TLC

CONSTANTS p1, p2, co1, co2, co3, good, twin

(* Two coroutines of one process and one of another.                        *)
MCProcOf == [x \in Callers |-> IF x = co3 THEN p2 ELSE p1]

(* Another model may have the same dimension.                              *)
MCDim == [m \in Models |-> 1]

=============================================================================

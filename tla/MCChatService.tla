--------------------------- MODULE MCChatService ---------------------------
(* Three requests of two agencies, two of them of one session, on a pool of *)
(* two connections.                                                         *)
EXTENDS ChatService, TLC

CONSTANTS r1, r2, r3, a1, a2, s1

MCAgencyOf == r1 :> a1 @@ r2 :> a1 @@ r3 :> a2
MCSessionOf == r1 :> s1 @@ r2 :> s1 @@ r3 :> s1

=============================================================================

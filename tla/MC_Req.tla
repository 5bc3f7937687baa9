------------------------------- MODULE MC_Req -------------------------------
(* Model-checking instance of Req: two peer connections.                  *)
EXTENDS Req

CONSTANTS pa, pb

MCPipes == {pa, pb}
=============================================================================

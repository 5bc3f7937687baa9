------------------------------- MODULE MC_Rep -------------------------------
(* Model-checking instance of Rep: two clients.                           *)
EXTENDS Rep

CONSTANTS ca, cb

MCPipes == {ca, cb}
=============================================================================

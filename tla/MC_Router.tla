----------------------------- MODULE MC_Router -----------------------------
(* Model-checking instance of Router: two peers that may both claim the  *)
(* user identity idA or set none; the application addresses idA, the    *)
(* first automatic identity or idB, which no peer uses.                  *)
EXTENDS Router

CONSTANTS p1, p2, idA, idB

MCPipes == {p1, p2}
MCUserIds == {idA}
=============================================================================

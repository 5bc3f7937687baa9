------------------------------- MODULE MC_LB -------------------------------
(* Model-checking instance of LB: three pipes, so that a pipe can leave   *)
(* the middle of the active prefix while the cursor is at its end; two-   *)
(* frame messages; a high-water mark of one message.                      *)
EXTENDS LB

CONSTANTS p1, p2, p3

MCPipes == {p1, p2, p3}
=============================================================================

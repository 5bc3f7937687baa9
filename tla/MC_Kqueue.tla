------------------------------ MODULE MC_Kqueue ------------------------------
(* Model-checking instance of Kqueue: two entry addresses, two fds.     *)
EXTENDS Kqueue

CONSTANTS e1, e2, f1, f2

MCEntries == {e1, e2}
MCFds == {f1, f2}
MCReady == {{}, {"read"}, {"write"}, {"read", "write", "eof"}}
=============================================================================

----------------------------- MODULE MC_ZmqPoll -----------------------------
(* A 0MQ socket asking for POLLIN and a raw fd asking for POLLOUT. *)
EXTENDS ZmqPoll

CONSTANTS s1, f1

MCItems == {s1, f1}
MCIsSocket == [i \in MCItems |-> i = s1]
MCRequested == [i \in MCItems |-> IF i = s1 THEN {"in"} ELSE {"out"}]
MCTimeouts == {-1, 0, 3}
=============================================================================

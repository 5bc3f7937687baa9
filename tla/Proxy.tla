------------------------------- MODULE Proxy -------------------------------
(***************************************************************************)
(* zmq::proxy of src/src/proxy.cpp: one thread that polls the frontend and *)
(* the backend socket with zmq_poll (timeout -1) and, for each direction,  *)
(* moves one whole multi-part message when the source reported POLLIN and  *)
(* the destination reported POLLOUT, copying replies to the capture socket.*)
(*                                                                         *)
(* A socket is abstracted to its inbound queue of frames and its readiness *)
(* to send; peers deliver whole messages.  zmq_poll with timeout -1 is one *)
(* step that returns once some requested event is pending (module ZmqPoll  *)
(* checks that loop) and reports only requested events: revents is        *)
(* items[i].events intersected with the socket's ZMQ_EVENTS (zmq.cpp      *)
(* 667-672).  The control socket is never polled (qt_poll_items = 2), so   *)
(* state stays active.                                                     *)
(***************************************************************************)
EXTENDS Integers, Sequences

CONSTANTS
    NMsgs,      \* messages each peer sends into the proxy
    MsgLen,     \* frames per message
    Capture     \* a capture socket is given

Sides == {"front", "back"}
Other(s) == IF s = "front" THEN "back" ELSE "front"

Frame(s, m, k) == [from |-> s, msg |-> m, part |-> k, more |-> k < MsgLen]

\* the pollitems proxy builds: ZMQ_POLLIN on both sockets
Items == [s \in Sides |-> {"in"}]

VARIABLES
    inq,        \* frames waiting to be received on each socket
    sent,       \* frames each socket has sent
    captured,   \* frames sent to the capture socket
    outReady,   \* ZMQ_POLLOUT of each socket
    revents,    \* items[i].revents after the last zmq_poll
    pc,         \* "poll", "request", "reply"
    arrived     \* messages each peer has delivered

vars == <<inq, sent, captured, outReady, revents, pc, arrived>>

\* the socket's ZMQ_EVENTS
Events(s) == (IF inq[s] # <<>> THEN {"in"} ELSE {}) \cup (IF outReady[s] THEN {"out"} ELSE {})

\* the first whole message of a queue, and what remains after it
FirstMsgLen(q) == CHOOSE n \in 1 .. Len(q) : ~q[n].more
FirstMsg(q) == SubSeq(q, 1, FirstMsgLen(q))
AfterFirst(q) == SubSeq(q, FirstMsgLen(q) + 1, Len(q))

Init ==
    /\ inq = [s \in Sides |-> <<>>]
    /\ sent = [s \in Sides |-> <<>>]
    /\ captured = <<>>
    /\ outReady \in [Sides -> BOOLEAN]
    /\ revents = [s \in Sides |-> {}]
    /\ pc = "poll"
    /\ arrived = [s \in Sides |-> 0]

\* a peer delivers its next message to socket s
Arrive(s) ==
    /\ arrived[s] < NMsgs
    /\ inq' = [inq EXCEPT ![s] = @ \o [k \in 1 .. MsgLen |-> Frame(s, arrived[s] + 1, k)]]
    /\ arrived' = [arrived EXCEPT ![s] = @ + 1]
    /\ UNCHANGED <<sent, captured, outReady, revents, pc>>

\* zmq_poll (&items [0], 2, -1): returns once some requested event is pending
Poll ==
    /\ pc = "poll"
    /\ \E s \in Sides : Items[s] \cap Events(s) # {}
    /\ revents' = [s \in Sides |-> Items[s] \cap Events(s)]
    /\ pc' = "request"
    /\ UNCHANGED <<inq, sent, captured, outReady, arrived>>

\* one direction of the loop body: recv each frame from src and send it
\* on dst (and on capture for replies) until a frame without RCVMORE
Transfer(src, dst, cap) ==
    /\ sent' = [sent EXCEPT ![dst] = @ \o FirstMsg(inq[src])]
    /\ inq' = [inq EXCEPT ![src] = AfterFirst(@)]
    /\ captured' = IF cap THEN captured \o FirstMsg(inq[src]) ELSE captured

\* "Process a request": frontend to backend
Request ==
    /\ pc = "request"
    /\ IF "in" \in revents["front"] /\ "out" \in revents["back"]
       THEN Transfer("front", "back", FALSE)
       ELSE UNCHANGED <<inq, sent, captured>>
    /\ pc' = "reply"
    /\ UNCHANGED <<outReady, revents, arrived>>

\* "Process a reply": backend to frontend, copied to capture
Reply ==
    /\ pc = "reply"
    /\ IF "in" \in revents["back"] /\ "out" \in revents["front"]
       THEN Transfer("back", "front", Capture)
       ELSE UNCHANGED <<inq, sent, captured>>
    /\ pc' = "poll"
    /\ UNCHANGED <<outReady, revents, arrived>>

Next ==
    \/ \E s \in Sides : Arrive(s)
    \/ Poll \/ Request \/ Reply

\* the proxy thread runs its loop without end
Spec == Init /\ [][Next]_vars /\ WF_vars(Poll) /\ WF_vars(Request) /\ WF_vars(Reply)

-----------------------------------------------------------------------------
TypeOK ==
    /\ pc \in {"poll", "request", "reply"}
    /\ revents \in [Sides -> SUBSET {"in", "out"}]
    /\ arrived \in [Sides -> 0 .. NMsgs]

\* The spec (§4.8): when a side has an inbound message and the other side
\* is ready for output, the proxy transfers it.  Every message a peer
\* delivers to a socket whose opposite socket stays writable is sent on.
Forwarded(s, m) == \E i \in 1 .. Len(sent[Other(s)]) : sent[Other(s)][i] = Frame(s, m, MsgLen)
MessagesForwarded ==
    \A s \in Sides, m \in 1 .. NMsgs :
        (arrived[s] >= m /\ outReady[Other(s)]) ~> Forwarded(s, m)
=============================================================================

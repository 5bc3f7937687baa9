-------------------------------- MODULE Req --------------------------------
(***************************************************************************)
(* req_t of src/src/req.cpp over dealer_t (src/src/dealer.cpp): fq_t for  *)
(* input (module FQ), lb_t for output (lb.cpp), the REQ FSM                *)
(* receiving_reply / message_begins, the reply_pipe pin, the drain of      *)
(* stale input before a request is sent, and the strict and relaxed modes. *)
(*                                                                         *)
(* Environment: an application that sends NReqs requests of ULen frames   *)
(* and reads their replies (in relaxed mode it may give up waiting); REP-  *)
(* like peers, one per pipe, that answer each whole request with a bottom *)
(* frame and RLen body frames and may each send one malformed message;    *)
(* peers connect at any time and, when CanClose, disconnect.  pipe_t (not *)
(* in this repository) follows the spec (§3): writes are refused once the *)
(* pipe is terminating (the high-water mark is not modelled: requests are *)
(* few), a reader sleeps on an empty pipe until the writer's next flush,  *)
(* and once REQ terminates a pipe (terminate (false)) its reads refuse.    *)
(***************************************************************************)
EXTENDS Integers, Sequences, FiniteSets, IndexedArray, FQ

CONSTANTS
    Pipes,      \* pipe handles, one per peer connection
    NReqs,      \* requests the application sends
    ULen,       \* frames per request
    RLen,       \* body frames per reply
    Modes,      \* values the ZMQ_REQ_RELAXED option may give req_t::strict
    CanClose,   \* peers may disconnect
    NoPipe, NoFrame

\* frames: kind "bottom" (the empty delimiter), "body" (part k of request or
\* reply n), "junk" (a malformed message: a non-empty first frame)
Fr(kind, n, k, mo) == [kind |-> kind, req |-> n, part |-> k, more |-> mo]
Bottom == Fr("bottom", 0, 0, TRUE)
ReqFrame(n, k) == Fr("body", n, k, k < ULen)
ReplyFrame(n, k) == Fr("body", n, k, k < RLen)
Junk == <<Fr("junk", 0, 1, TRUE), Fr("junk", 0, 2, FALSE)>>

VARIABLES
    fq,         \* fq_t and the reader side of every pipe (module FQ)
    lb,         \* lb_t: [arr, active, current, more, dropping]
    w,          \* writer side of each pipe: [s (frames written), fl (flushed)]
    peerRd,     \* frames of w[p].s the peer has read
    pstate,     \* "idle", "attached", "closing" (the peer disconnected),
                \* "terminating" (REQ terminated it), "terminated"
    junked,     \* the peer has sent its malformed message
    rr,         \* req_t::receiving_reply
    mb,         \* req_t::message_begins
    rp,         \* req_t::reply_pipe
    strict,     \* req_t::strict, fixed when the socket is created
    app,        \* the application: request n, frames sent, reply frames received
    aborted     \* the assertion that has aborted the process, or "none"

reqVars == <<fq, lb, rr, mb, rp, strict>>
envVars == <<w, peerRd, pstate, junked, app>>
vars    == <<reqVars, envVars, aborted>>

-----------------------------------------------------------------------------
(* lb_t over pipes whose writes refuse once terminating (lb.cpp). *)
Writable(ps, p) == ps[p] = "attached"

\* one refused write at the cursor: the pipe leaves the active prefix
LbDemote(l) ==
    LET act == l.active - 1
    IN  [l EXCEPT !.active = act,
                  !.arr = IF l.current < act THEN Swap(l.arr, l.current, act) ELSE l.arr,
                  !.current = IF l.current < act THEN @ ELSE 0]

\* the while (active > 0) loop of lb_t::sendpipe
RECURSIVE LbLoop(_, _)
LbLoop(l, ps) ==
    IF l.active = 0 \/ Writable(ps, At(l.arr, l.current)) THEN l
    ELSE LbLoop(LbDemote(l), ps)

\* zmq_assert (!more) of lb_t::sendpipe: a refusal while mid-message
LbAborts(l, ps) ==
    ~l.dropping /\ l.more /\ l.active > 0 /\ ~Writable(ps, At(l.arr, l.current))

\* lb_t::sendpipe (f): the lb_t afterwards, success, and the pipe written
LbSendPipe(l, f, ps) ==
    IF l.dropping
    THEN [l |-> [l EXCEPT !.more = f.more, !.dropping = f.more], ok |-> TRUE, pipe |-> NoPipe]
    ELSE LET l2 == LbLoop(l, ps)
         IN  IF l2.active = 0
             THEN [l |-> l2, ok |-> FALSE, pipe |-> NoPipe]
             ELSE [l |-> [l2 EXCEPT !.more = f.more,
                                    !.current = IF f.more THEN @ ELSE (@ + 1) % l2.active],
                   ok |-> TRUE, pipe |-> At(l2.arr, l2.current)]

\* pipe_t::write, and pipe_t::flush after the last frame of a message
Wr(ws, p, f) ==
    IF p = NoPipe THEN ws
    ELSE [ws EXCEPT ![p].s = Append(@, f), ![p].fl = IF f.more THEN @ ELSE Len(ws[p].s) + 1]

\* mutant of LbTerminated: the pipe is erased but active is not shrunk
LbTerminatedKeepActive(l, p) == [l EXCEPT !.arr = Erase(l.arr, p)]

\* lb_t::pipe_terminated
LbTerminated(l, p) ==
    LET i    == Index(l.arr, p)
        act2 == IF i < l.active THEN l.active - 1 ELSE l.active
        a2   == IF i < l.active THEN Swap(l.arr, i, act2) ELSE l.arr
    IN  [l EXCEPT !.arr = Erase(a2, p), !.active = act2,
                  !.current = IF i < l.active /\ @ = act2 THEN 0 ELSE @,
                  !.dropping = @ \/ (i = l.current /\ l.more)]

-----------------------------------------------------------------------------
(* The receive loops of req_t, on a record r = [fq, ok, abort]. *)

\* the while (true) loop of xsend that eats all currently available input
RECURSIVE Drain(_)
Drain(s) == LET r == FqRecv(s) IN IF r.ok THEN Drain(r) ELSE r

\* req_t::recv_reply_pipe: frames from pipes other than reply_pipe are dropped
RECURSIVE RecvReplyPipe(_, _)
RecvReplyPipe(s, pin) ==
    LET r == FqRecv(s)
    IN  IF ~r.ok \/ pin = NoPipe \/ r.pipe = pin THEN r ELSE RecvReplyPipe(r, pin)

\* the skip of a malformed message: while (more) recv_reply_pipe, with
\* errno_assert (rc == 0)
RECURSIVE SkipRest(_, _)
SkipRest(s, pin) ==
    IF ~s.frame.more THEN [fq |-> s, abort |-> FALSE]
    ELSE LET r == RecvReplyPipe(s, pin)
         IN  IF ~r.ok THEN [fq |-> r, abort |-> TRUE] ELSE SkipRest(r, pin)

\* the while (message_begins) loop of req_t::xrecv: [fq, mb, ok, abort],
\* ok = FALSE being a return of EAGAIN from recv_reply_pipe
RECURSIVE SeekBottom(_, _)
SeekBottom(s, pin) ==
    LET r == RecvReplyPipe(s, pin)
    IN  IF ~r.ok THEN [fq |-> r, mb |-> TRUE, ok |-> FALSE, abort |-> FALSE]
        ELSE IF r.frame.more /\ r.frame.kind = "bottom"
        THEN [fq |-> r, mb |-> FALSE, ok |-> TRUE, abort |-> FALSE]
        ELSE LET k == SkipRest(r, pin)
             IN  IF k.abort THEN [fq |-> k.fq, mb |-> TRUE, ok |-> FALSE, abort |-> TRUE]
                 ELSE SeekBottom(k.fq, pin)

-----------------------------------------------------------------------------
Init ==
    /\ fq = [arr |-> [items |-> <<>>, idx |-> [p \in Pipes |-> -1]],
             active |-> 0, current |-> 0, more |-> FALSE,
             q |-> [p \in Pipes |-> <<>>], in |-> [p \in Pipes |-> TRUE],
             ok |-> FALSE, frame |-> NoFrame, pipe |-> NoPipe]
    /\ lb = [arr |-> [items |-> <<>>, idx |-> [p \in Pipes |-> -1]],
             active |-> 0, current |-> 0, more |-> FALSE, dropping |-> FALSE]
    /\ w = [p \in Pipes |-> [s |-> <<>>, fl |-> 0]]
    /\ peerRd = [p \in Pipes |-> 0]
    /\ pstate = [p \in Pipes |-> "idle"]
    /\ junked = [p \in Pipes |-> FALSE]
    /\ rr = FALSE /\ mb = TRUE /\ rp = NoPipe /\ strict \in Modes
    /\ app = [n |-> 1, sent |-> 0, recvd |-> <<>>]
    /\ aborted = "none"

\* dealer_t::xattach_pipe: fq_t::attach and lb_t::attach (no probe)
AttachPipe(p) ==
    /\ pstate[p] = "idle"
    /\ fq' = FqAttach(fq, p)
    /\ lb' = LET a == PushBack(lb.arr, p)
             IN  [lb EXCEPT !.arr = Swap(a, Index(a, p), lb.active), !.active = @ + 1]
    /\ pstate' = [pstate EXCEPT ![p] = "attached"]
    /\ UNCHANGED <<rr, mb, rp, w, peerRd, junked, app, strict, aborted>>

\* the application's reply to its current request is whole
Complete == app.recvd # <<>> /\ ~app.recvd[Len(app.recvd)].more

\* the application may send: the next frame of its current request, or
\* the first of a new one once the reply is whole (or, in relaxed mode,
\* when it gives up waiting)
SendCan ==
    \/ app.sent < ULen
    \/ app.sent = ULen /\ app.n < NReqs /\ (Complete \/ ~strict)

\* mutant of TermReplyPipe: a relaxed send leaves the old reply_pipe open
TermReplyPipeNever == FALSE

\* relaxed mode: a send while receiving_reply terminates reply_pipe
TermReplyPipe == rr /\ rp # NoPipe

\* req_t::xsend of the application's next frame, as the values it leaves
\* in the variables it changes; ok is FALSE where an assertion fires, and
\* assert names it
SendOutcome ==
    LET new   == app.sent = ULen
        f     == IF new THEN ReqFrame(app.n + 1, 1) ELSE ReqFrame(app.n, app.sent + 1)
        term  == TermReplyPipe
        ps1   == IF term THEN [pstate EXCEPT ![rp] = "terminating"] ELSE pstate
        fq1   == IF term THEN [fq EXCEPT !.in[rp] = FALSE] ELSE fq
        start == mb \/ rr
        b     == LbSendPipe(lb, Bottom, ps1)
        l1    == IF start THEN b.l ELSE lb
        w1    == IF start THEN Wr(w, b.pipe, Bottom) ELSE w
        s     == LbSendPipe(l1, f, ps1)
    IN  IF start /\ LbAborts(lb, ps1) THEN [ok |-> FALSE, assert |-> "lb_more"]
        ELSE IF start /\ ~b.ok
        THEN \* EAGAIN for the bottom frame
             [ok |-> TRUE, fq |-> fq1, lb |-> b.l, rr |-> FALSE, mb |-> TRUE,
              rp |-> NoPipe, w |-> w, pstate |-> ps1, app |-> app]
        ELSE IF start /\ b.pipe = NoPipe THEN [ok |-> FALSE, assert |-> "reply_pipe"]
        ELSE IF LbAborts(l1, ps1) THEN [ok |-> FALSE, assert |-> "lb_more"]
        ELSE [ok |-> TRUE, fq |-> IF start THEN Drain(fq1) ELSE fq1, lb |-> s.l,
              rr |-> s.ok /\ ~f.more, mb |-> s.ok /\ ~f.more,
              rp |-> IF start THEN b.pipe ELSE rp,
              w |-> IF s.ok THEN Wr(w1, s.pipe, f) ELSE w1, pstate |-> ps1,
              app |-> IF ~s.ok THEN app
                      ELSE IF new THEN [n |-> app.n + 1, sent |-> 1, recvd |-> <<>>]
                      ELSE [app EXCEPT !.sent = @ + 1]]

AppSend ==
    /\ SendCan
    /\ LET o == SendOutcome
       IN  IF o.ok
           THEN /\ fq' = o.fq /\ lb' = o.lb /\ rr' = o.rr /\ mb' = o.mb /\ rp' = o.rp
                /\ w' = o.w /\ pstate' = o.pstate /\ app' = o.app
                /\ UNCHANGED aborted
           ELSE /\ aborted' = o.assert
                /\ UNCHANGED <<fq, lb, rr, mb, rp, w, pstate, app>>
    /\ UNCHANGED <<peerRd, junked, strict>>

\* ENABLED <<AppSend>>_vars: a send the application may make changes state
SendEnabled ==
    SendCan /\ LET o == SendOutcome
               IN  ~o.ok \/ <<o.fq, o.lb, o.rr, o.mb, o.rp, o.w, o.pstate, o.app>>
                             # <<fq, lb, rr, mb, rp, w, pstate, app>>

\* the application waits for the reply to its request
RecvCan == app.sent = ULen /\ ~Complete /\ rr

\* mutant of RecvOutcome: the while (message_begins) loop is skipped
RecvOutcomeNoSeek ==
    LET r == RecvReplyPipe(fq, rp)
    IN  IF ~r.ok THEN [ok |-> TRUE, fq |-> r, mb |-> FALSE, rr |-> rr, app |-> app]
        ELSE [ok |-> TRUE, fq |-> r, rr |-> r.frame.more, mb |-> ~r.frame.more,
              app |-> [app EXCEPT !.recvd = Append(@, r.frame)]]

\* req_t::xrecv, as the values it leaves in fq, mb, rr and app; ok is
\* FALSE where errno_assert fires while skipping a malformed message
RecvOutcome ==
    LET sb == IF mb THEN SeekBottom(fq, rp)
              ELSE [fq |-> fq, mb |-> FALSE, ok |-> TRUE, abort |-> FALSE]
        r  == RecvReplyPipe(sb.fq, rp)
    IN  IF sb.abort THEN [ok |-> FALSE, assert |-> "skip"]
        ELSE IF ~sb.ok THEN [ok |-> TRUE, fq |-> sb.fq, mb |-> mb, rr |-> rr, app |-> app]
        ELSE IF ~r.ok THEN [ok |-> TRUE, fq |-> r, mb |-> FALSE, rr |-> rr, app |-> app]
        ELSE [ok |-> TRUE, fq |-> r, rr |-> r.frame.more, mb |-> ~r.frame.more,
              app |-> [app EXCEPT !.recvd = Append(@, r.frame)]]

AppRecv ==
    /\ RecvCan
    /\ LET o == RecvOutcome
       IN  IF o.ok
           THEN fq' = o.fq /\ mb' = o.mb /\ rr' = o.rr /\ app' = o.app /\ UNCHANGED aborted
           ELSE aborted' = o.assert /\ UNCHANGED <<fq, mb, rr, app>>
    /\ UNCHANGED <<lb, rp, w, peerRd, pstate, junked, strict>>

\* ENABLED <<AppRecv>>_vars
RecvEnabled ==
    RecvCan /\ LET o == RecvOutcome
               IN  ~o.ok \/ <<o.fq, o.mb, o.rr, o.app>> # <<fq, mb, rr, app>>

\* req_t::xpipe_terminated: clear reply_pipe, then dealer_t's callbacks
PipeTerminated(p, f) ==
    /\ rp' = IF rp = p THEN NoPipe ELSE rp
    /\ fq' = FqTerminated(f, p)
    /\ lb' = LbTerminated(lb, p)
    /\ pstate' = [pstate EXCEPT ![p] = "terminated"]

\* the peer disconnected and REQ has read what it had queued: the
\* delimiter is read and the pipe terminates
TerminatePipe(p) ==
    /\ pstate[p] = "closing" /\ fq.q[p] = <<>>
    /\ PipeTerminated(p, fq)
    /\ UNCHANGED <<rr, mb, w, peerRd, junked, app, strict, aborted>>

\* the peer acknowledges REQ's terminate (false); what it sent is dropped
TermAck(p) ==
    /\ pstate[p] = "terminating"
    /\ PipeTerminated(p, [fq EXCEPT !.q[p] = <<>>])
    /\ UNCHANGED <<rr, mb, w, peerRd, junked, app, strict, aborted>>

\* mutant of ReadActivated: the woken pipe does not rejoin fq_t's prefix
ReadActivatedNoRejoin(p) ==
    /\ pstate[p] \in {"attached", "closing"} /\ ~fq.in[p] /\ fq.q[p] # <<>>
    /\ fq' = [fq EXCEPT !.in[p] = TRUE]
    /\ UNCHANGED <<lb, rr, mb, rp, envVars, strict, aborted>>

\* dealer_t::xread_activated: a flush wakes the pipe's sleeping reader
ReadActivated(p) ==
    /\ pstate[p] \in {"attached", "closing"} /\ ~fq.in[p] /\ fq.q[p] # <<>>
    /\ fq' = FqActivated([fq EXCEPT !.in[p] = TRUE], p)
    /\ UNCHANGED <<lb, rr, mb, rp, envVars, strict, aborted>>

\* the REP-like peer reads the next flushed request and answers it with
\* the bottom frame and the reply body; a message that does not start
\* with the bottom frame is dropped
PeerServe(p) ==
    /\ pstate[p] = "attached" /\ peerRd[p] < w[p].fl
    /\ LET rest == SubSeq(w[p].s, peerRd[p] + 1, w[p].fl)
           len  == CHOOSE i \in 1 .. Len(rest) : ~rest[i].more /\ \A j \in 1 .. i - 1 : rest[j].more
           ok   == rest[1].kind = "bottom" /\ len >= 2
       IN  /\ peerRd' = [peerRd EXCEPT ![p] = @ + len]
           /\ fq' = IF ok
                    THEN [fq EXCEPT !.q[p] = @ \o (<<Bottom>> \o [k \in 1 .. RLen |-> ReplyFrame(rest[2].req, k)])]
                    ELSE fq
    /\ UNCHANGED <<lb, rr, mb, rp, w, pstate, junked, app, strict, aborted>>

\* the peer sends a malformed message
PeerJunk(p) ==
    /\ pstate[p] = "attached" /\ ~junked[p]
    /\ fq' = [fq EXCEPT !.q[p] = @ \o Junk]
    /\ junked' = [junked EXCEPT ![p] = TRUE]
    /\ UNCHANGED <<lb, rr, mb, rp, w, peerRd, pstate, app, strict, aborted>>

\* the peer disconnects: from now on writes to the pipe refuse
PeerClose(p) ==
    /\ CanClose /\ pstate[p] = "attached"
    /\ pstate' = [pstate EXCEPT ![p] = "closing"]
    /\ UNCHANGED <<reqVars, w, peerRd, junked, app, aborted>>

\* nothing happens after an assertion has aborted the process
Next ==
    /\ aborted = "none"
    /\ \/ AppSend \/ AppRecv
       \/ \E p \in Pipes : \/ AttachPipe(p) \/ TerminatePipe(p) \/ TermAck(p)
                           \/ ReadActivated(p) \/ PeerServe(p) \/ PeerJunk(p) \/ PeerClose(p)

\* the application's blocking send and recv retry; peers answer and the
\* I/O threads deliver activations and complete terminations
\* (weak fairness of AppSend and AppRecv is written out with the state
\* predicates equal to their ENABLED, which TLC evaluates far faster)
Fairness ==
    /\ []<>~SendEnabled \/ []<><<AppSend>>_vars
    /\ []<>~RecvEnabled \/ []<><<AppRecv>>_vars
    /\ \A p \in Pipes : /\ WF_vars(ReadActivated(p)) /\ WF_vars(PeerServe(p))
                        /\ WF_vars(TerminatePipe(p)) /\ WF_vars(TermAck(p))

Spec == Init /\ [][Next]_vars /\ Fairness

-----------------------------------------------------------------------------
TypeOK ==
    /\ rr \in BOOLEAN /\ mb \in BOOLEAN /\ strict \in BOOLEAN /\ rp \in Pipes \cup {NoPipe}
    /\ pstate \in [Pipes -> {"idle", "attached", "closing", "terminating", "terminated"}]
    /\ fq.active \in 0 .. Size(fq.arr) /\ lb.active \in 0 .. Size(lb.arr)
    /\ app.n \in 1 .. NReqs /\ app.sent \in 0 .. ULen
    /\ aborted \in {"none", "lb_more", "reply_pipe", "skip"}

\* The reply the application reads is the reply to its latest request,
\* frame by frame: stale replies (drained before the request is sent, or
\* left on a terminated reply_pipe), replies on other pipes and malformed
\* messages never reach it.
ReplyCorrelated == \A i \in 1 .. Len(app.recvd) : app.recvd[i] = ReplyFrame(app.n, i)

\* The zmq_assert (!more) of lb_t::sendpipe, reached from req_t::xsend,
\* never fires: in the middle of a request the pipe under lb_t's cursor
\* accepts the next frame, or lb_t is dropping the rest.
NoMidRequestRefusal == aborted # "lb_more"

\* Every request the application has sent is answered in full, given up
\* (relaxed mode), or its reply_pipe has gone: a REQ waits for good only
\* when the peer that took its request disconnects.
RequestAnswered ==
    \A k \in 1 .. NReqs :
        (app.n = k /\ app.sent = ULen) ~> (Complete \/ app.n > k \/ rp = NoPipe)
=============================================================================

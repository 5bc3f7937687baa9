-------------------------------- MODULE Rep --------------------------------
(***************************************************************************)
(* rep_t of src/src/rep.cpp over router_t (src/src/router.cpp): the REP    *)
(* FSM sending_reply / request_begins, the copy of a request's traceback  *)
(* to the reply pipe through router_t::xsend, router_t::rollback of a     *)
(* malformed traceback, and the reply through router_t::xsend.            *)
(*                                                                         *)
(* The router is reduced to what REP uses: fq_t (module FQ) with the      *)
(* prefetch of xrecv, and current_out / more_out with the writer side of  *)
(* each pipe.  Every pipe is attached and identified when the model       *)
(* starts; its identity is the pipe itself (identify_peer, checked in     *)
(* module Router).  Peers are DEALER-like clients: each sends NReqs       *)
(* requests <bottom, body> and at most one malformed two-frame message,   *)
(* and reads what REP writes at its own pace.  pipe_t follows spec §3:    *)
(* HWM whole messages unread make check_write refuse and deactivate the   *)
(* writer until activate_write.  Clients stay connected: disconnection   *)
(* and router_t::xpipe_terminated are checked in module Router.           *)
(***************************************************************************)
EXTENDS Integers, Sequences, FiniteSets, IndexedArray, FQ

CONSTANTS
    Pipes,      \* one pipe per client
    NReqs,      \* requests each client sends
    HWM,        \* high-water mark of the reply pipes, in messages
    NoPipe, NoFrame

Fr(kind, p, k, mo) == [kind |-> kind, from |-> p, req |-> k, more |-> mo]
Bottom == Fr("bottom", NoPipe, 0, TRUE)
IdFrame(p) == Fr("id", p, 0, TRUE)
ReqFrame(p, k) == Fr("req", p, k, FALSE)
RepFrame(p, k) == Fr("rep", p, k, FALSE)
Junk(p) == <<Fr("junk", p, 1, TRUE), Fr("junk", p, 2, FALSE)>>

VARIABLES
    r,          \* router_t: fq, out (writer side of each pipe), cur
                \* (current_out), moreOut, moreIn, pref (prefetched),
                \* pmsg (prefetched_msg), and the result fields ok, frame
    sr,         \* rep_t::sending_reply
    rb,         \* rep_t::request_begins
    body,       \* the request body the application has read last
    sent,       \* requests each client has sent
    junked,     \* the client has sent its malformed message
    refused     \* history: pipes whose check_write has refused a reply

vars == <<r, sr, rb, body, sent, junked, refused>>

-----------------------------------------------------------------------------
(* pipe_t, writer side: [s (frames written), fl (flushed prefix), rd      *)
(* (frames the client has read), ack (messages acknowledged by           *)
(* activate_write), act (out_active)]                                    *)
Ends(s) == Len(SelectSeq(s, LAMBDA f : ~f.more))
Full(w) == Ends(w.s) - w.ack >= HWM

\* pipe_t::check_write
CheckWrite(w) == w.act /\ ~Full(w)
\* a refusal because the pipe is full deactivates the writer
AfterCheck(w) == [w EXCEPT !.act = @ /\ ~Full(w)]

PipeWrite(w, f) == [w EXCEPT !.s = Append(@, f), !.fl = IF f.more THEN @ ELSE Len(w.s) + 1]

\* mutant of PipeRollback: the unflushed frames are kept
PipeRollbackKeep(w) == w

\* pipe_t::rollback: frames written since the last flush are discarded
PipeRollback(w) == [w EXCEPT !.s = SubSeq(@, 1, w.fl)]

-----------------------------------------------------------------------------
(* router_t as operators on r *)

\* router_t::xrecv: a prefetched body frame, or the next frame from fq_t;
\* the first frame of a message is stashed and the pipe's identity
\* returned in its place
RouterRecv(x) ==
    IF x.pref
    THEN [x EXCEPT !.pref = FALSE, !.moreIn = x.pmsg.more, !.ok = TRUE, !.frame = x.pmsg]
    ELSE LET s == FqRecv(x.fq)
         IN  IF ~s.ok THEN [x EXCEPT !.fq = s, !.ok = FALSE]
             ELSE IF x.moreIn
             THEN [x EXCEPT !.fq = s, !.moreIn = s.frame.more, !.ok = TRUE, !.frame = s.frame]
             ELSE [x EXCEPT !.fq = s, !.pref = TRUE, !.pmsg = s.frame, !.ok = TRUE,
                            !.frame = IdFrame(s.pipe)]

\* router_t::xsend (ROUTER_MANDATORY not set): the first frame names the
\* pipe, which becomes current_out if check_write accepts; later frames
\* go to current_out, or are dropped when there is none
RouterSend(x, f) ==
    IF ~x.moreOut
    THEN IF ~f.more THEN x
         ELSE LET p == f.from
              IN  IF p \notin Pipes THEN [x EXCEPT !.moreOut = TRUE]
                  ELSE IF CheckWrite(x.out[p]) THEN [x EXCEPT !.moreOut = TRUE, !.cur = p]
                  ELSE [x EXCEPT !.moreOut = TRUE, !.out[p] = AfterCheck(@)]
    ELSE LET c == x.cur
         IN  IF c = NoPipe THEN [x EXCEPT !.moreOut = f.more]
             ELSE IF ~CheckWrite(x.out[c]) THEN [x EXCEPT !.moreOut = f.more, !.cur = NoPipe]
             ELSE [x EXCEPT !.moreOut = f.more, !.out[c] = PipeWrite(@, f),
                            !.cur = IF f.more THEN c ELSE NoPipe]

\* mutant of RouterRollback: more_out is left set
RouterRollbackKeepMore(x) ==
    IF x.cur # NoPipe THEN [x EXCEPT !.out[x.cur] = PipeRollback(@), !.cur = NoPipe] ELSE x

\* router_t::rollback: only when current_out is set
RouterRollback(x) ==
    IF x.cur # NoPipe
    THEN [x EXCEPT !.out[x.cur] = PipeRollback(@), !.cur = NoPipe, !.moreOut = FALSE]
    ELSE x

\* the while (true) loop of rep_t::xrecv that copies the traceback to
\* the reply pipe, up to and including the bottom frame; ok = FALSE is a
\* return of EAGAIN from router_t::xrecv
RECURSIVE TraceLoop(_)
TraceLoop(x) ==
    LET x1 == RouterRecv(x)
    IN  IF ~x1.ok THEN x1
        ELSE IF x1.frame.more
        THEN LET x2 == RouterSend(x1, x1.frame)
             IN  IF x1.frame.kind = "bottom" THEN [x2 EXCEPT !.ok = TRUE]
                 ELSE TraceLoop(x2)
        ELSE TraceLoop(RouterRollback(x1))

-----------------------------------------------------------------------------
Order == CHOOSE s \in [1 .. Cardinality(Pipes) -> Pipes] : \A p \in Pipes : \E i \in DOMAIN s : s[i] = p

Init ==
    /\ r = [fq |-> [arr |-> [items |-> Order, idx |-> [p \in Pipes |-> (CHOOSE i \in DOMAIN Order : Order[i] = p) - 1]],
                    active |-> Cardinality(Pipes), current |-> 0, more |-> FALSE,
                    q |-> [p \in Pipes |-> <<>>], in |-> [p \in Pipes |-> TRUE],
                    ok |-> FALSE, frame |-> NoFrame, pipe |-> NoPipe],
            out |-> [p \in Pipes |-> [s |-> <<>>, fl |-> 0, rd |-> 0, ack |-> 0, act |-> TRUE]],
            cur |-> NoPipe, moreOut |-> FALSE, moreIn |-> FALSE,
            pref |-> FALSE, pmsg |-> NoFrame, ok |-> FALSE, frame |-> NoFrame]
    /\ sr = FALSE /\ rb = TRUE /\ body = NoFrame
    /\ sent = [p \in Pipes |-> 0] /\ junked = [p \in Pipes |-> FALSE]
    /\ refused = {}

\* pipes whose writer check_write has deactivated: only a refusal clears
\* out_active, so a pipe is here exactly when a write to it was refused
Refused(x) == {p \in Pipes : ~x.out[p].act}

\* mutant of RecvOutcome: request_begins is ignored and no traceback copied
RecvOutcomeNoTrace ==
    LET x == RouterRecv(r)
    IN  IF ~x.ok THEN [r |-> x, rb |-> FALSE, sr |-> sr, body |-> body]
        ELSE [r |-> x, rb |-> ~x.frame.more, sr |-> ~x.frame.more, body |-> x.frame]

\* rep_t::xrecv as the values it leaves in r, rb, sr and body
RecvOutcome ==
    LET t == IF rb THEN TraceLoop(r) ELSE [r EXCEPT !.ok = TRUE]
        x == RouterRecv(t)
    IN  IF ~t.ok THEN [r |-> t, rb |-> rb, sr |-> sr, body |-> body]
        ELSE IF ~x.ok THEN [r |-> x, rb |-> FALSE, sr |-> sr, body |-> body]
        ELSE [r |-> x, rb |-> ~x.frame.more, sr |-> ~x.frame.more, body |-> x.frame]

\* the application's recv, while it is not replying
RepRecv ==
    /\ ~sr
    /\ LET o == RecvOutcome
       IN  r' = o.r /\ rb' = o.rb /\ sr' = o.sr /\ body' = o.body
    /\ refused' = refused \cup Refused(r')
    /\ UNCHANGED <<sent, junked>>

\* ENABLED <<RepRecv>>_vars
RecvEnabled == ~sr /\ LET o == RecvOutcome IN <<o.r, o.rb, o.sr, o.body>> # <<r, rb, sr, body>>

\* rep_t::xsend of the application's one-frame reply to the request read
RepSend ==
    /\ sr
    /\ r' = RouterSend(r, RepFrame(body.from, body.req))
    /\ sr' = FALSE
    /\ refused' = refused \cup Refused(r')
    /\ UNCHANGED <<rb, body, sent, junked>>

\* router_t::xread_activated (the pipe is identified): fq_t::activated
ReadActivated(p) ==
    /\ ~r.fq.in[p] /\ r.fq.q[p] # <<>>
    /\ r' = [r EXCEPT !.fq = FqActivated([@ EXCEPT !.in[p] = TRUE], p)]
    /\ UNCHANGED <<sr, rb, body, sent, junked, refused>>

\* the client's reads are acknowledged: activate_write, and
\* router_t::xwrite_activated marks the outpipes entry active
WriteActivated(p) ==
    /\ LET read == Ends(SubSeq(r.out[p].s, 1, r.out[p].rd))
       IN  r.out[p].ack < read /\ r' = [r EXCEPT !.out[p].ack = read, !.out[p].act = TRUE]
    /\ UNCHANGED <<sr, rb, body, sent, junked, refused>>

\* a client sends its next request
ClientSend(p) ==
    /\ sent[p] < NReqs
    /\ r' = [r EXCEPT !.fq.q[p] = @ \o <<Bottom, ReqFrame(p, sent[p] + 1)>>]
    /\ sent' = [sent EXCEPT ![p] = @ + 1]
    /\ UNCHANGED <<sr, rb, body, junked, refused>>

\* a client sends a message without the bottom frame
ClientJunk(p) ==
    /\ ~junked[p]
    /\ r' = [r EXCEPT !.fq.q[p] = @ \o Junk(p)]
    /\ junked' = [junked EXCEPT ![p] = TRUE]
    /\ UNCHANGED <<sr, rb, body, sent, refused>>

\* a client reads the next flushed frame of its reply pipe
ClientRead(p) ==
    /\ r.out[p].rd < r.out[p].fl
    /\ r' = [r EXCEPT !.out[p].rd = @ + 1]
    /\ UNCHANGED <<sr, rb, body, sent, junked, refused>>

Next ==
    \/ RepRecv \/ RepSend
    \/ \E p \in Pipes : \/ ReadActivated(p) \/ WriteActivated(p)
                        \/ ClientSend(p) \/ ClientJunk(p) \/ ClientRead(p)

\* the application loops on recv and send; I/O threads deliver the
\* activations; clients keep reading their replies.  (Weak fairness of
\* RepRecv is written out with RecvEnabled, its ENABLED, which TLC
\* evaluates far faster.)
Fairness ==
    /\ []<>~RecvEnabled \/ []<><<RepRecv>>_vars
    /\ WF_vars(RepSend)
    /\ \A p \in Pipes : WF_vars(ReadActivated(p)) /\ WF_vars(WriteActivated(p)) /\ WF_vars(ClientRead(p))

Spec == Init /\ [][Next]_vars /\ Fairness

-----------------------------------------------------------------------------
TypeOK ==
    /\ sr \in BOOLEAN /\ rb \in BOOLEAN
    /\ r.cur \in Pipes \cup {NoPipe} /\ r.moreOut \in BOOLEAN
    /\ sent \in [Pipes -> 0 .. NReqs] /\ refused \subseteq Pipes
    /\ body \in {NoFrame} \cup {ReqFrame(p, k) : p \in Pipes, k \in 1 .. NReqs}

\* What REP writes to a client's pipe is whole replies to that client's
\* own requests, in order: each flushed message is the bottom frame and
\* the reply, and the unflushed tail is at most a bottom frame.  Breaking
\* it takes a malformed traceback whose rollback leaves frames behind.
RepliesWhole ==
    \A p \in Pipes :
        LET w == r.out[p]
        IN  /\ w.fl % 2 = 0 /\ Len(w.s) - w.fl \in {0, 1}
            /\ \A i \in 1 .. Len(w.s) :
                  IF i % 2 = 1 THEN w.s[i] = Bottom
                  ELSE w.s[i].kind = "rep" /\ w.s[i].from = p
                       /\ (i > 2 => w.s[i].req > w.s[i - 2].req)

\* Spec §4.7 and §7: REP echoes the traceback, so every request of a
\* client is eventually answered on its pipe, unless a write to that
\* pipe was refused at the high-water mark (router_t::xsend then drops
\* the message by design).  A malformed traceback of another client
\* must not cost a reply.
Answered(p, k) == \E i \in 1 .. r.out[p].fl : r.out[p].s[i] = RepFrame(p, k)
ReplyDelivered ==
    \A p \in Pipes, k \in 1 .. NReqs :
        (sent[p] >= k) ~> (Answered(p, k) \/ p \in refused)
=============================================================================

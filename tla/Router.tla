------------------------------ MODULE Router ------------------------------
(***************************************************************************)
(* router_t of src/src/router.cpp: peer identification on attach, the      *)
(* two-step identity-prefixed receive (with the prefetch that xhas_in may  *)
(* do), identity-routed send with ROUTER_MANDATORY, rollback, and the      *)
(* read/write activation and termination callbacks.                        *)
(*                                                                         *)
(* Environment: every pipe has a peer that first sends its identity frame *)
(* (empty when the peer sets no identity) and then NMsgs messages of       *)
(* MsgLen frames, each flushed whole; the application sends NOut messages *)
(* <identity, BodyLen body frames> to identities of its choice and keeps   *)
(* receiving.  Pipe internals (pipe_t, not in this repository) follow the  *)
(* spec: reads refuse on an empty pipe and put the reader to sleep until   *)
(* the writer's next flush wakes it; writes refuse when HWM unacknowledged *)
(* messages are queued, deactivating the writer until acknowledged.        *)
(***************************************************************************)
EXTENDS Integers, Sequences, FiniteSets, IndexedArray, FQ

CONSTANTS
    Pipes,        \* pipe handles
    UserIds,      \* identities peers may set (non-empty)
    Unknown,      \* an identity no peer uses
    NMsgs,        \* messages each peer sends
    MsgLen,       \* frames per peer message
    NOut,         \* messages the application sends
    BodyLen,      \* body frames per application message
    HWM,          \* pipe high-water mark, in messages
    MandatoryModes, \* values ZMQ_ROUTER_MANDATORY may have been given
    RawSock,      \* ZMQ_ROUTER_RAW
    ProbeRouter,  \* ZMQ_PROBE_ROUTER
    Empty,        \* the empty identity a peer sends when it sets none
    PeerIdBits,   \* width of next_peer_id (32 in the code)
    NoPipe, NoFrame

\* router_t::next_peer_id: an unsigned counter seeded at random that wraps
\* around; an automatic identity {0x00, u32(next_peer_id)} never equals a
\* user identity, whose first byte may not be zero
AutoIds == 0 .. 2^PeerIdBits - 1
Ids == UserIds \cup AutoIds

\* frames: kind "id" (a peer's identity frame, val its identity), "data"
\* (part k of message m of the peer behind pipe src), "rid" (identity
\* frame router_t builds for the application), "body" (part k of
\* application message m, addressed to val), "probe"
Fr(kind, src, val, m, k, mo) ==
    [kind |-> kind, src |-> src, val |-> val, msg |-> m, part |-> k, more |-> mo]

IdFrame(p, v)    == Fr("id", p, v, 0, 0, FALSE)
DataFrame(p, m, k) == Fr("data", p, Empty, m, k, k < MsgLen)

VARIABLES
    fq,           \* fq_t plus the reader side of every pipe (module FQ)
    anonymous,    \* router_t::anonymous_pipes
    outpipes,     \* router_t::outpipes: identity -> [pipe, active]
    pipeId,       \* pipe_t::identity
    mandatory,    \* router_t::mandatory
    nextPeerId,   \* router_t::next_peer_id
    prefetched, identitySent, moreIn, prefetchedId, prefetchedMsg,
    currentOut, moreOut,
    pstate,       \* "idle", "attached", "closing" (peer gone), "terminated"
    peer,         \* what each peer has sent: [hello, sent]
    out,          \* writer side of each pipe: [s, fl, rd, ack, act]
    app,          \* the application's next frame: [n, part, to]
    recvd         \* frames the application has received

rtVars  == <<fq, anonymous, outpipes, pipeId, mandatory, nextPeerId, prefetched, identitySent,
             moreIn, prefetchedId, prefetchedMsg, currentOut, moreOut>>
envVars == <<pstate, peer, out, app, recvd>>
vars    == <<rtVars, envVars>>

\* next_peer_id++ on the counter's width
NextPeerId == (nextPeerId + 1) % 2^PeerIdBits

-----------------------------------------------------------------------------
(* Writer side of a pipe, from the spec (§3 Pipe). *)
Ends(s) == Len(SelectSeq(s, LAMBDA f : ~f.more))
Full(w) == Ends(w.s) - w.ack >= HWM
\* pipe_t::check_write of pipe p: refused when the writer is inactive or
\* the peer has begun terminating the pipe; a refusal because the pipe is
\* full deactivates the writer
CheckWrite(p) == pstate[p] = "attached" /\ out[p].act /\ ~Full(out[p])
AfterCheck(p) == [out[p] EXCEPT !.act = @ /\ ~(pstate[p] = "attached" /\ Full(out[p]))]
Write(w, f) == [w EXCEPT !.s = Append(@, f)]
Flush(w) == [w EXCEPT !.fl = Len(w.s)]
\* pipe_t::rollback: frames written since the last flush are discarded
Rollback(w) == [w EXCEPT !.s = SubSeq(@, 1, w.fl)]

\* pipe_t::read on the reader side: refusal puts the reader to sleep
ReadOk(p) == fq.in[p] /\ fq.q[p] # <<>>

-----------------------------------------------------------------------------
\* mutant of IdentifyPeer: a peer's identity is taken without the
\* duplicate lookup in outpipes
IdentifyPeerNoDupCheck(s, p) ==
    LET f    == Head(s.q[p])
        rest == [s EXCEPT !.q[p] = Tail(@)]
    IN  CASE RawSock ->
               [ok |-> TRUE, id |-> nextPeerId, next |-> NextPeerId, s |-> s]
          [] ~(s.in[p] /\ s.q[p] # <<>>) ->
               [ok |-> FALSE, id |-> Empty, next |-> nextPeerId,
                s |-> [s EXCEPT !.in[p] = FALSE]]
          [] f.val = Empty ->
               [ok |-> TRUE, id |-> nextPeerId, next |-> NextPeerId, s |-> rest]
          [] OTHER ->
               [ok |-> TRUE, id |-> f.val, next |-> nextPeerId, s |-> rest]

\* router_t::identify_peer on reader state s (fields q, in): ok, the
\* identity, the next next_peer_id and the reader state afterwards
IdentifyPeer(s, p) ==
    LET f    == Head(s.q[p])
        rest == [s EXCEPT !.q[p] = Tail(@)]
    IN  CASE RawSock ->
               [ok |-> TRUE, id |-> nextPeerId, next |-> NextPeerId, s |-> s]
          [] ~(s.in[p] /\ s.q[p] # <<>>) ->
               [ok |-> FALSE, id |-> Empty, next |-> nextPeerId,
                s |-> [s EXCEPT !.in[p] = FALSE]]
          [] f.val = Empty ->
               [ok |-> TRUE, id |-> nextPeerId, next |-> NextPeerId, s |-> rest]
          [] OTHER ->   \* a duplicate identity is refused; its frame is gone
               [ok |-> outpipes[f.val].pipe = NoPipe, id |-> f.val,
                next |-> nextPeerId, s |-> rest]

\* the outpipes insert and set_identity that end a successful identify_peer
SetIdentity(r, p) ==
    /\ outpipes' = IF r.ok THEN [outpipes EXCEPT ![r.id] = [pipe |-> p, active |-> TRUE]]
                   ELSE outpipes
    /\ pipeId' = IF r.ok THEN [pipeId EXCEPT ![p] = r.id] ELSE pipeId
    /\ nextPeerId' = r.next

\* the identity frame router_t builds for the application
RidFrame(p) == Fr("rid", p, pipeId[p], 0, 0, TRUE)

-----------------------------------------------------------------------------
Init ==
    /\ fq = [arr |-> [items |-> <<>>, idx |-> [p \in Pipes |-> -1]],
             active |-> 0, current |-> 0, more |-> FALSE,
             q |-> [p \in Pipes |-> <<>>], in |-> [p \in Pipes |-> TRUE],
             ok |-> FALSE, frame |-> NoFrame, pipe |-> NoPipe]
    /\ anonymous = {}
    /\ outpipes = [i \in Ids |-> [pipe |-> NoPipe, active |-> FALSE]]
    /\ pipeId = [p \in Pipes |-> Empty]
    /\ mandatory \in MandatoryModes   \* xsetsockopt before the pipes attach
    /\ nextPeerId \in AutoIds
    /\ prefetched = FALSE /\ identitySent = FALSE /\ moreIn = FALSE
    /\ prefetchedId = NoFrame /\ prefetchedMsg = NoFrame
    /\ currentOut = NoPipe /\ moreOut = FALSE
    /\ pstate = [p \in Pipes |-> "idle"]
    /\ peer = [p \in Pipes |-> [hello |-> FALSE, sent |-> 0]]
    /\ out = [p \in Pipes |-> [s |-> <<>>, fl |-> 0, rd |-> 0, ack |-> 0, act |-> TRUE]]
    /\ app = [n |-> 1, part |-> 0, to |-> Unknown]
    /\ recvd = <<>>

\* router_t::xattach_pipe: optional probe, then identify_peer; a pipe
\* that cannot be identified yet is kept anonymous
AttachPipe(p) ==
    /\ pstate[p] = "idle"
    /\ LET r == IdentifyPeer(fq, p)
       IN  /\ fq' = IF r.ok THEN FqAttach(r.s, p) ELSE r.s
           /\ anonymous' = IF r.ok THEN anonymous ELSE anonymous \cup {p}
           /\ SetIdentity(r, p)
    /\ out' = IF ProbeRouter
              THEN [out EXCEPT ![p] = Flush(Write(@, Fr("probe", p, Empty, 0, 0, FALSE)))]
              ELSE out
    /\ pstate' = [pstate EXCEPT ![p] = "attached"]
    /\ UNCHANGED <<mandatory, prefetched, identitySent, moreIn, prefetchedId, prefetchedMsg,
                   currentOut, moreOut, peer, app, recvd>>

\* router_t::xread_activated: a flush wakes the pipe's sleeping reader; an
\* anonymous pipe retries identify_peer
ReadActivated(p) ==
    /\ pstate[p] \in {"attached", "closing"} /\ ~fq.in[p] /\ fq.q[p] # <<>>
    /\ LET woken == [fq EXCEPT !.in[p] = TRUE]
           r     == IdentifyPeer(woken, p)
       IN  IF p \notin anonymous
           THEN /\ fq' = FqActivated(woken, p)
                /\ UNCHANGED <<anonymous, outpipes, pipeId, nextPeerId>>
           ELSE /\ fq' = IF r.ok THEN FqAttach(r.s, p) ELSE r.s
                /\ anonymous' = IF r.ok THEN anonymous \ {p} ELSE anonymous
                /\ SetIdentity(r, p)
    /\ UNCHANGED <<mandatory, prefetched, identitySent, moreIn, prefetchedId, prefetchedMsg,
                   currentOut, moreOut, envVars>>

\* pipe_t::process_activate_write, then router_t::xwrite_activated, which
\* asserts that the pipe is in outpipes and recorded inactive
WriteActivated(p) ==
    /\ pstate[p] = "attached"
    /\ out[p].ack < Ends(SubSeq(out[p].s, 1, out[p].rd))
    /\ out' = [out EXCEPT ![p].ack = Ends(SubSeq(out[p].s, 1, out[p].rd)), ![p].act = TRUE]
    /\ IF out[p].act
       THEN UNCHANGED outpipes
       ELSE \E i \in Ids :
               /\ outpipes[i].pipe = p /\ ~outpipes[i].active
               /\ outpipes' = [outpipes EXCEPT ![i].active = TRUE]
    /\ UNCHANGED <<mandatory, fq, anonymous, pipeId, nextPeerId, prefetched, identitySent,
                   moreIn, prefetchedId, prefetchedMsg, currentOut, moreOut,
                   pstate, peer, app, recvd>>

\* the peer closes: pipe_t::process_pipe_term; from now on check_write
\* refuses, while the frames already queued can still be read
PeerClose(p) ==
    /\ pstate[p] = "attached"
    /\ pstate' = [pstate EXCEPT ![p] = "closing"]
    /\ UNCHANGED <<rtVars, peer, out, app, recvd>>

\* mutant of TerminatePipe: current_out is not cleared when it is the
\* terminated pipe
TerminatePipeKeepCurrent(p) ==
    /\ pstate[p] = "closing" /\ fq.q[p] = <<>>
    /\ IF p \in anonymous
       THEN /\ anonymous' = anonymous \ {p}
            /\ UNCHANGED <<fq, outpipes>>
       ELSE /\ outpipes' = [outpipes EXCEPT ![pipeId[p]] = [pipe |-> NoPipe, active |-> FALSE]]
            /\ fq' = FqTerminated(fq, p)
            /\ UNCHANGED anonymous
    /\ pstate' = [pstate EXCEPT ![p] = "terminated"]
    /\ UNCHANGED <<mandatory, pipeId, nextPeerId, prefetched, identitySent, moreIn, prefetchedId,
                   prefetchedMsg, currentOut, moreOut, peer, out, app, recvd>>

\* router_t::xpipe_terminated, once the closing pipe's frames are read
TerminatePipe(p) ==
    /\ pstate[p] = "closing" /\ fq.q[p] = <<>>
    /\ IF p \in anonymous
       THEN /\ anonymous' = anonymous \ {p}
            /\ UNCHANGED <<fq, outpipes, currentOut>>
       ELSE /\ outpipes' = [outpipes EXCEPT ![pipeId[p]] = [pipe |-> NoPipe, active |-> FALSE]]
            /\ fq' = FqTerminated(fq, p)
            /\ currentOut' = IF currentOut = p THEN NoPipe ELSE currentOut
            /\ UNCHANGED anonymous
    /\ pstate' = [pstate EXCEPT ![p] = "terminated"]
    /\ UNCHANGED <<mandatory, pipeId, nextPeerId, prefetched, identitySent, moreIn, prefetchedId,
                   prefetchedMsg, moreOut, peer, out, app, recvd>>

\* the peer's session delivers its identity frame: empty, or one it set
PeerHello(p) ==
    /\ ~RawSock /\ pstate[p] \in {"idle", "attached"} /\ ~peer[p].hello
    /\ \E v \in UserIds \cup {Empty} : fq' = [fq EXCEPT !.q[p] = Append(@, IdFrame(p, v))]
    /\ peer' = [peer EXCEPT ![p].hello = TRUE]
    /\ UNCHANGED <<mandatory, anonymous, outpipes, pipeId, nextPeerId, prefetched, identitySent,
                   moreIn, prefetchedId, prefetchedMsg, currentOut, moreOut,
                   pstate, out, app, recvd>>

\* the peer writes and flushes its next message
PeerSend(p) ==
    /\ pstate[p] \in {"idle", "attached"} /\ (peer[p].hello \/ RawSock) /\ peer[p].sent < NMsgs
    /\ LET m == peer[p].sent + 1
       IN  fq' = [fq EXCEPT !.q[p] = @ \o [k \in 1 .. MsgLen |-> DataFrame(p, m, k)]]
    /\ peer' = [peer EXCEPT ![p].sent = @ + 1]
    /\ UNCHANGED <<mandatory, anonymous, outpipes, pipeId, nextPeerId, prefetched, identitySent,
                   moreIn, prefetchedId, prefetchedMsg, currentOut, moreOut,
                   pstate, out, app, recvd>>

\* the peer reads the frames the router has flushed to it
PeerRecv(p) ==
    /\ pstate[p] = "attached" /\ out[p].rd < out[p].fl
    /\ out' = [out EXCEPT ![p].rd = out[p].fl]
    /\ UNCHANGED <<rtVars, pstate, peer, app, recvd>>

-----------------------------------------------------------------------------
\* router_t::xrecv, prefetched branch: the stashed identity, then the
\* stashed frame
RecvPrefetched ==
    /\ prefetched
    /\ LET f == IF identitySent THEN prefetchedMsg ELSE prefetchedId
       IN  /\ recvd' = Append(recvd, f)
           /\ moreIn' = f.more
    /\ identitySent' = TRUE
    /\ prefetched' = ~identitySent
    /\ UNCHANGED <<mandatory, fq, anonymous, outpipes, pipeId, nextPeerId, prefetchedId,
                   prefetchedMsg, currentOut, moreOut, pstate, peer, out, app>>

\* mutant of Recv: more_in is not updated from a mid-message frame
RecvStaleMore ==
    /\ ~prefetched
    /\ LET r == FqRecv(fq)
           f == r.frame
       IN  /\ r.ok
           /\ fq' = r
           /\ IF moreIn
              THEN /\ recvd' = Append(recvd, f)
                   /\ UNCHANGED <<moreIn, prefetched, identitySent, prefetchedMsg>>
              ELSE /\ recvd' = Append(recvd, RidFrame(r.pipe))
                   /\ prefetchedMsg' = f
                   /\ prefetched' = TRUE
                   /\ identitySent' = TRUE
                   /\ UNCHANGED moreIn
    /\ UNCHANGED <<mandatory, anonymous, outpipes, pipeId, nextPeerId, prefetchedId, currentOut,
                   moreOut, pstate, peer, out, app>>

\* router_t::xrecv from fq_t: mid-message the frame goes straight out; at
\* a message start it is stashed and the pipe's identity returned first
Recv ==
    /\ ~prefetched
    /\ LET r == FqRecv(fq)
           f == r.frame
       IN  /\ r.ok
           /\ fq' = r
           /\ IF moreIn
              THEN /\ recvd' = Append(recvd, f)
                   /\ moreIn' = f.more
                   /\ UNCHANGED <<prefetched, identitySent, prefetchedMsg>>
              ELSE /\ recvd' = Append(recvd, RidFrame(r.pipe))
                   /\ prefetchedMsg' = f
                   /\ prefetched' = TRUE
                   /\ identitySent' = TRUE
                   /\ UNCHANGED moreIn
    /\ UNCHANGED <<mandatory, anonymous, outpipes, pipeId, nextPeerId, prefetchedId, currentOut,
                   moreOut, pstate, peer, out, app>>

\* router_t::xrecv when fq_t has nothing: EAGAIN, with pipes demoted
RecvAgain ==
    /\ ~prefetched
    /\ LET r == FqRecv(fq) IN ~r.ok /\ fq' = r
    /\ UNCHANGED <<mandatory, anonymous, outpipes, pipeId, nextPeerId, prefetched, identitySent,
                   moreIn, prefetchedId, prefetchedMsg, currentOut, moreOut, envVars>>

\* router_t::xhas_in: may prefetch a frame and the identity of its pipe
HasIn ==
    /\ ~moreIn /\ ~prefetched
    /\ LET r == FqRecv(fq)
       IN  /\ fq' = r
           /\ IF r.ok
              THEN /\ prefetchedMsg' = r.frame
                   /\ prefetchedId' = RidFrame(r.pipe)
                   /\ prefetched' = TRUE
                   /\ identitySent' = FALSE
              ELSE UNCHANGED <<prefetchedMsg, prefetchedId, prefetched, identitySent>>
    /\ UNCHANGED <<mandatory, anonymous, outpipes, pipeId, nextPeerId, moreIn, currentOut,
                   moreOut, envVars>>

-----------------------------------------------------------------------------
\* the application's current frame and the one after it
AppFrame(t) ==
    IF app.part = 0 THEN Fr("rid", NoPipe, t, app.n, 0, TRUE)
    ELSE Fr("body", NoPipe, app.to, app.n, app.part, app.part < BodyLen)
AppNext(t) ==
    IF app.part < BodyLen THEN [app EXCEPT !.part = @ + 1, !.to = t]
    ELSE [n |-> app.n + 1, part |-> 0, to |-> Unknown]
\* a send that fails with EHOSTUNREACH is given up; the next message starts
AppGiveUp == [n |-> app.n + 1, part |-> 0, to |-> Unknown]

\* mutant of SendIdentity: a refused pipe stays recorded active in outpipes
SendIdentityNoDeactivate ==
    /\ app.n <= NOut /\ app.part = 0 /\ ~moreOut
    /\ \E t \in Ids \cup {Unknown} :
        LET e == outpipes[t]
            found == t \in Ids /\ e.pipe # NoPipe
            writable == found /\ CheckWrite(e.pipe)
        IN  CASE writable ->
                   /\ currentOut' = e.pipe /\ moreOut' = TRUE
                   /\ app' = AppNext(t)
                   /\ UNCHANGED <<out, outpipes>>
              [] found ->   \* check_write refused
                   /\ UNCHANGED outpipes
                   /\ out' = [out EXCEPT ![e.pipe] = AfterCheck(e.pipe)]
                   /\ currentOut' = NoPipe
                   /\ IF mandatory
                      THEN moreOut' = FALSE /\ app' = app          \* EAGAIN
                      ELSE moreOut' = TRUE /\ app' = AppNext(t)
              [] OTHER ->
                   /\ currentOut' = NoPipe
                   /\ UNCHANGED <<out, outpipes>>
                   /\ IF mandatory
                      THEN moreOut' = FALSE /\ app' = AppGiveUp      \* EHOSTUNREACH
                      ELSE moreOut' = TRUE /\ app' = AppNext(t)
    /\ UNCHANGED <<mandatory, fq, anonymous, pipeId, nextPeerId, prefetched, identitySent, moreIn,
                   prefetchedId, prefetchedMsg, pstate, peer, recvd>>

\* mutant of SendIdentity: the EAGAIN of ROUTER_MANDATORY leaves more_out set
SendIdentityEagainKeepMore ==
    /\ app.n <= NOut /\ app.part = 0 /\ ~moreOut
    /\ \E t \in Ids \cup {Unknown} :
        LET e == outpipes[t]
            found == t \in Ids /\ e.pipe # NoPipe
            writable == found /\ CheckWrite(e.pipe)
        IN  CASE writable ->
                   /\ currentOut' = e.pipe /\ moreOut' = TRUE
                   /\ app' = AppNext(t)
                   /\ UNCHANGED <<out, outpipes>>
              [] found ->   \* check_write refused
                   /\ outpipes' = [outpipes EXCEPT ![t].active = FALSE]
                   /\ out' = [out EXCEPT ![e.pipe] = AfterCheck(e.pipe)]
                   /\ currentOut' = NoPipe
                   /\ IF mandatory
                      THEN moreOut' = TRUE /\ app' = app           \* EAGAIN
                      ELSE moreOut' = TRUE /\ app' = AppNext(t)
              [] OTHER ->
                   /\ currentOut' = NoPipe
                   /\ UNCHANGED <<out, outpipes>>
                   /\ IF mandatory
                      THEN moreOut' = FALSE /\ app' = AppGiveUp      \* EHOSTUNREACH
                      ELSE moreOut' = TRUE /\ app' = AppNext(t)
    /\ UNCHANGED <<mandatory, fq, anonymous, pipeId, nextPeerId, prefetched, identitySent, moreIn,
                   prefetchedId, prefetchedMsg, pstate, peer, recvd>>

\* router_t::xsend of the first frame: look the identity up in outpipes
SendIdentity ==
    /\ app.n <= NOut /\ app.part = 0 /\ ~moreOut
    /\ \E t \in Ids \cup {Unknown} :
        LET e == outpipes[t]
            found == t \in Ids /\ e.pipe # NoPipe
            writable == found /\ CheckWrite(e.pipe)
        IN  CASE writable ->
                   /\ currentOut' = e.pipe /\ moreOut' = TRUE
                   /\ app' = AppNext(t)
                   /\ UNCHANGED <<out, outpipes>>
              [] found ->   \* check_write refused
                   /\ outpipes' = [outpipes EXCEPT ![t].active = FALSE]
                   /\ out' = [out EXCEPT ![e.pipe] = AfterCheck(e.pipe)]
                   /\ currentOut' = NoPipe
                   /\ IF mandatory
                      THEN moreOut' = FALSE /\ app' = app          \* EAGAIN
                      ELSE moreOut' = TRUE /\ app' = AppNext(t)
              [] OTHER ->
                   /\ currentOut' = NoPipe
                   /\ UNCHANGED <<out, outpipes>>
                   /\ IF mandatory
                      THEN moreOut' = FALSE /\ app' = AppGiveUp      \* EHOSTUNREACH
                      ELSE moreOut' = TRUE /\ app' = AppNext(t)
    /\ UNCHANGED <<mandatory, fq, anonymous, pipeId, nextPeerId, prefetched, identitySent, moreIn,
                   prefetchedId, prefetchedMsg, pstate, peer, recvd>>

\* router_t::xsend of a later frame: written to current_out, or dropped
SendBody ==
    /\ app.n <= NOut /\ app.part > 0 /\ moreOut
    /\ LET f == AppFrame(app.to)
           p == currentOut
       IN  /\ moreOut' = f.more
           /\ IF p = NoPipe
              THEN UNCHANGED <<out, currentOut>>
              ELSE IF ~CheckWrite(p)
              THEN /\ out' = [out EXCEPT ![p] = AfterCheck(p)]
                   /\ currentOut' = NoPipe
              ELSE /\ out' = [out EXCEPT ![p] = IF f.more THEN Write(@, f) ELSE Flush(Write(@, f))]
                   /\ currentOut' = IF f.more THEN p ELSE NoPipe
    /\ app' = AppNext(app.to)
    /\ UNCHANGED <<mandatory, fq, anonymous, outpipes, pipeId, nextPeerId, prefetched, identitySent,
                   moreIn, prefetchedId, prefetchedMsg, pstate, peer, recvd>>

Next ==
    \/ \E p \in Pipes :
          \/ AttachPipe(p) \/ ReadActivated(p) \/ WriteActivated(p)
          \/ PeerClose(p) \/ TerminatePipe(p)
          \/ PeerHello(p) \/ PeerSend(p) \/ PeerRecv(p)
    \/ RecvPrefetched \/ Recv \/ RecvAgain \/ HasIn
    \/ SendIdentity \/ SendBody

\* The application keeps calling recv and send (blocking calls retry); the
\* I/O threads deliver wake-ups and acknowledgements, and peers read.
Fairness ==
    /\ WF_vars(RecvPrefetched) /\ WF_vars(Recv) /\ WF_vars(SendIdentity) /\ WF_vars(SendBody)
    /\ \A p \in Pipes : WF_vars(ReadActivated(p)) /\ WF_vars(WriteActivated(p))
                        /\ WF_vars(PeerRecv(p))

Spec == Init /\ [][Next]_vars /\ Fairness

-----------------------------------------------------------------------------
Attached   == {p \in Pipes : pstate[p] \in {"attached", "closing"}}
Identified == Attached \ anonymous
FqPipes    == {At(fq.arr, i) : i \in 0 .. Size(fq.arr) - 1}

TypeOK ==
    /\ anonymous \subseteq Pipes
    /\ outpipes \in [Ids -> [pipe : Pipes \cup {NoPipe}, active : BOOLEAN]]
    /\ pipeId \in [Pipes -> Ids \cup {Empty}]
    /\ nextPeerId \in AutoIds
    /\ {prefetched, identitySent, moreIn, moreOut, mandatory} \subseteq BOOLEAN
    /\ currentOut \in Pipes \cup {NoPipe}
    /\ pstate \in [Pipes -> {"idle", "attached", "closing", "terminated"}]
    /\ fq.active \in 0 .. Size(fq.arr)

\* The routing table and the reading set agree, across identification,
\* retried identification and termination: outpipes maps each identity to
\* at most one pipe, holds exactly the identified attached pipes under
\* their own identities, fq_t reads exactly those pipes, and an anonymous
\* pipe is neither read nor routed to.
IdentityTable ==
    /\ \A i \in Ids : outpipes[i].pipe # NoPipe =>
          /\ outpipes[i].pipe \in Identified
          /\ pipeId[outpipes[i].pipe] = i
    /\ \A p \in Identified : outpipes[pipeId[p]].pipe = p
    /\ FqPipes = Identified
    /\ Consistent(fq.arr)

\* xsend asserts that no pipe is selected when a message starts
\* (zmq_assert (!current_out)), and current_out is always a routable pipe.
SendStartClean ==
    /\ ~moreOut => currentOut = NoPipe
    /\ currentOut # NoPipe => currentOut \in Identified

\* xsend's more_out agrees with where the application is in its message:
\* the EAGAIN of a full pipe and the EHOSTUNREACH of an unknown identity
\* under ROUTER_MANDATORY reset it, so the retry, or the next message,
\* starts again with its identity frame instead of being taken as a body.
MoreOutTracksCaller ==
    app.n <= NOut => (moreOut <=> app.part > 0)

\* xwrite_activated asserts that a pipe whose writer was deactivated is
\* in outpipes and recorded inactive there: every deactivation of a
\* writer happened through router_t's own check_write in xsend.
WriteActivationSafe ==
    \A p \in Attached :
        ~out[p].act => \E i \in Ids : outpipes[i].pipe = p /\ ~outpipes[i].active

\* What the application receives is a sequence of whole messages, each
\* preceded by the identity of the pipe it came from: an identity frame
\* is followed by the first frame of a message of that pipe, a first
\* frame follows the identity of its pipe, later frames follow their
\* predecessor, and a peer's own identity frame is never passed up.
RecvFraming ==
    \A i \in 1 .. Len(recvd) :
        LET f == recvd[i] IN
        /\ f.kind \in {"rid", "data"}
        /\ f.kind = "rid" /\ i < Len(recvd) =>
              recvd[i + 1].kind = "data" /\ recvd[i + 1].src = f.src /\ recvd[i + 1].part = 1
        /\ f.kind = "data" /\ f.part = 1 =>
              i > 1 /\ recvd[i - 1] = RidFrame(f.src)
        /\ f.kind = "data" /\ f.part > 1 =>
              i > 1 /\ recvd[i - 1] = DataFrame(f.src, f.msg, f.part - 1)
=============================================================================

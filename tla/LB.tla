-------------------------------- MODULE LB --------------------------------
(***************************************************************************)
(* The load-balanced output strategy lb_t of src/src/lb.cpp, driven by one *)
(* application thread that sends multi-part messages, and the pipes it     *)
(* writes to.  lb_t keeps its pipes in an IndexedArray partitioned into an *)
(* active prefix [0, active) and an inactive suffix, a round-robin cursor  *)
(* current, and the flags more (mid-message) and dropping.                 *)
(*                                                                         *)
(* The pipe (pipe_t) is not in this repository; its writer side is         *)
(* modelled from the spec (§3 Pipe) and from the pipe_t semantics lb_t     *)
(* relies on: write() refuses only when check_write() fails, and           *)
(* check_write() fails when the writer was deactivated or when the pipe    *)
(* holds HWM complete messages the reader has not acknowledged; a refused  *)
(* check deactivates the writer until the reader's activate_write command  *)
(* arrives, which calls back into lb_t::activated (dealer_t::              *)
(* xwrite_activated).  Frames written after the last flush are invisible  *)
(* to the reader.                                                          *)
(***************************************************************************)
EXTENDS Integers, Sequences, FiniteSets, IndexedArray

CONSTANTS
    Pipes,      \* pipe handles that may be attached to the socket
    NMsgs,      \* number of messages the application sends
    MsgLen,     \* frames per message (>= 2 so that "more" happens)
    HWM         \* pipe high-water mark, in messages

ASSUME NMsgs \in Nat \ {0} /\ MsgLen \in Nat \ {0, 1} /\ HWM \in Nat \ {0}

Frame == [msg : 1 .. NMsgs, part : 1 .. MsgLen]

\* msg_t::more: every frame but the last of a message carries it
IsMore(f) == f.part < MsgLen

VARIABLES
    arr,        \* lb_t::pipes, an array_t of pipes
    active,     \* lb_t::active
    current,    \* lb_t::current
    more,       \* lb_t::more
    dropping,   \* lb_t::dropping
    pstate,     \* pipe lifecycle: "idle" (not yet attached), "attached", "terminated"
    outActive,  \* pipe_t::out_active (writer side)
    stream,     \* every frame written into the pipe, in order
    flushed,    \* how many frames of stream the writer has flushed
    rd,         \* how many frames of stream the peer has read
    peerRead,   \* pipe_t::peers_msgs_read: the writer's view of the reader
    nxt,        \* the next frame the application sends
    aborted     \* zmq_assert (!more) has fired: the process is gone

lbVars   == <<arr, active, current, more, dropping>>
pipeVars == <<pstate, outActive, stream, flushed, rd, peerRead>>
vars     == <<lbVars, pipeVars, nxt, aborted>>

Done == [msg |-> NMsgs + 1, part |-> 1]

\* the frame after f in the application's sequence of messages
NextFrame(f) ==
    IF IsMore(f) THEN [f EXCEPT !.part = @ + 1] ELSE [msg |-> f.msg + 1, part |-> 1]

\* number of frames with more = false among the first n of pipe p
Ends(p, n) == Len(SelectSeq(SubSeq(stream[p], 1, n), LAMBDA f : ~IsMore(f)))

\* pipe_t::msgs_written: complete messages written to the pipe
MsgsWritten(p) == Ends(p, Len(stream[p]))

\* the reader's msgs_read
MsgsRead(p) == Ends(p, rd[p])

\* pipe_t::check_write: the pipe is full when HWM messages are unacknowledged
Full(p) == MsgsWritten(p) - peerRead[p] >= HWM
CheckWrite(p) == outActive[p] /\ ~Full(p)

-----------------------------------------------------------------------------
(* lb_t state transformers.  s is [arr, active, current, out, abort]: the   *)
(* lb_t fields a loop rewrites plus pipe_t::out_active.                    *)

\* mutant of Activated: the prefix is not extended
ActivatedNoCount(a, act, p) == [arr |-> Swap(a, Index(a, p), act), active |-> act]

\* lb_t::activated: swap the pipe to the end of the active prefix
Activated(a, act, p) == [arr |-> Swap(a, Index(a, p), act), active |-> act + 1]

\* lb_t::attach: push_back, then activated
Attach(a, act, p) == Activated(PushBack(a, p), act, p)

\* mutant of PipeTerminated: the active prefix is not shrunk
PipeTerminatedKeepActive(a, act, cur, mor, drop, p) ==
    LET i == Index(a, p)
    IN  [arr |-> Erase(a, p), active |-> act, current |-> cur,
         dropping |-> drop \/ (i = cur /\ mor)]

\* lb_t::pipe_terminated
PipeTerminated(a, act, cur, mor, drop, p) ==
    LET i    == Index(a, p)
        act2 == IF i < act THEN act - 1 ELSE act
        a2   == IF i < act THEN Swap(a, i, act2) ELSE a
        cur2 == IF i < act /\ cur = act2 THEN 0 ELSE cur
    IN  [arr |-> Erase(a2, p), active |-> act2, current |-> cur2,
         dropping |-> drop \/ (i = cur /\ mor)]

\* mutant of DemoteCurrent: the refused pipe's writer stays active, so no
\* activate_write will ever bring it back
DemoteKeepOut(s) ==
    LET act == s.active - 1
    IN  [s EXCEPT !.active  = act,
                  !.arr     = IF s.current < act THEN Swap(s.arr, s.current, act) ELSE s.arr,
                  !.current = IF s.current < act THEN s.current ELSE 0]

\* one refused check_write at the cursor: the pipe's writer is deactivated
\* when full, and lb_t moves the pipe out of the active prefix
DemoteCurrent(s) ==
    LET p   == At(s.arr, s.current)
        act == s.active - 1
    IN  [s EXCEPT !.active  = act,
                  !.arr     = IF s.current < act THEN Swap(s.arr, s.current, act) ELSE s.arr,
                  !.current = IF s.current < act THEN s.current ELSE 0,
                  !.out     = [@ EXCEPT ![p] = @ /\ ~Full(p)]]

\* the while (active > 0) loop of lb_t::sendpipe: stops at a writable pipe;
\* a refusal while more is set trips zmq_assert (!more) and aborts
RECURSIVE SendLoop(_, _)
SendLoop(s, mor) ==
    IF s.active = 0 THEN s
    ELSE LET p == At(s.arr, s.current)
         IN  IF s.out[p] /\ ~Full(p) THEN s
             ELSE IF mor THEN [s EXCEPT !.abort = TRUE]
             ELSE SendLoop(DemoteCurrent(s), mor)

\* the while (active > 0) loop of lb_t::has_out
RECURSIVE HasOutLoop(_)
HasOutLoop(s) ==
    IF s.active = 0 \/ (LET p == At(s.arr, s.current) IN s.out[p] /\ ~Full(p))
    THEN s
    ELSE HasOutLoop(DemoteCurrent(s))

LoopState == [arr |-> arr, active |-> active, current |-> current,
              out |-> outActive, abort |-> FALSE]

-----------------------------------------------------------------------------
Init ==
    /\ arr = [items |-> <<>>, idx |-> [p \in Pipes |-> -1]]
    /\ active = 0
    /\ current = 0
    /\ more = FALSE
    /\ dropping = FALSE
    /\ pstate = [p \in Pipes |-> "idle"]
    /\ outActive = [p \in Pipes |-> TRUE]
    /\ stream = [p \in Pipes |-> <<>>]
    /\ flushed = [p \in Pipes |-> 0]
    /\ rd = [p \in Pipes |-> 0]
    /\ peerRead = [p \in Pipes |-> 0]
    /\ nxt = [msg |-> 1, part |-> 1]
    /\ aborted = FALSE

\* dealer_t::xattach_pipe -> lb_t::attach: a new pipe joins the active prefix
AttachPipe(p) ==
    /\ pstate[p] = "idle"
    /\ LET r == Attach(arr, active, p)
       IN  /\ arr' = r.arr
           /\ active' = r.active
    /\ pstate' = [pstate EXCEPT ![p] = "attached"]
    /\ UNCHANGED <<current, more, dropping, outActive, stream, flushed, rd,
                   peerRead, nxt, aborted>>

\* lb_t::sendpipe, called for the application's next frame, while the
\* rest of a message goes to a terminated pipe
SendDropping ==
    /\ nxt # Done
    /\ dropping
    /\ more' = IsMore(nxt)
    /\ dropping' = IsMore(nxt)
    /\ nxt' = NextFrame(nxt)
    /\ UNCHANGED <<arr, active, current, pipeVars, aborted>>

Send ==
    /\ nxt # Done
    /\ ~dropping
    /\ LET s == SendLoop(LoopState, more)
           f == nxt
       IN  IF s.abort
           THEN \* zmq_assert (!more) aborts the process
                /\ aborted' = TRUE
                /\ UNCHANGED <<arr, active, current, more, nxt, outActive, stream, flushed>>
           ELSE /\ UNCHANGED aborted
                /\ outActive' = s.out
                /\ IF s.active = 0
                   THEN \* EAGAIN: the demotions stay, the frame is not taken
                        /\ arr' = s.arr /\ active' = 0 /\ current' = s.current
                        /\ UNCHANGED <<more, nxt, stream, flushed>>
                   ELSE LET p == At(s.arr, s.current)
                        IN  /\ arr' = s.arr
                            /\ active' = s.active
                            /\ stream' = [stream EXCEPT ![p] = Append(@, f)]
                            /\ more' = IsMore(f)
                            /\ flushed' = IF IsMore(f) THEN flushed
                                          ELSE [flushed EXCEPT ![p] = Len(stream[p]) + 1]
                            /\ current' = IF IsMore(f) THEN s.current
                                          ELSE (s.current + 1) % s.active
                            /\ nxt' = NextFrame(f)
    /\ UNCHANGED <<dropping, pstate, rd, peerRead>>

\* lb_t::has_out, asked by zmq_poll / ZMQ_EVENTS
HasOut ==
    /\ ~more
    /\ LET s == HasOutLoop(LoopState)
       IN  /\ arr' = s.arr
           /\ active' = s.active
           /\ current' = s.current
           /\ outActive' = s.out
    /\ UNCHANGED <<more, dropping, pstate, stream, flushed, rd, peerRead, nxt, aborted>>

\* the peer socket reads one flushed frame from the pipe
PeerRecv(p) ==
    /\ pstate[p] = "attached"
    /\ rd[p] < flushed[p]
    /\ rd' = [rd EXCEPT ![p] = @ + 1]
    /\ UNCHANGED <<lbVars, pstate, outActive, stream, flushed, peerRead, nxt, aborted>>

\* pipe_t::process_activate_write: the reader's acknowledgement arrives; a
\* deactivated writer is reactivated and lb_t::activated is called
ActivateWrite(p) ==
    /\ pstate[p] = "attached"
    /\ peerRead[p] < MsgsRead(p)
    /\ peerRead' = [peerRead EXCEPT ![p] = MsgsRead(p)]
    /\ IF outActive[p]
       THEN UNCHANGED <<arr, active, outActive>>
       ELSE LET r == Activated(arr, active, p)
            IN  /\ arr' = r.arr
                /\ active' = r.active
                /\ outActive' = [outActive EXCEPT ![p] = TRUE]
    /\ UNCHANGED <<current, more, dropping, pstate, stream, flushed, rd, nxt, aborted>>

\* the peer disconnects: dealer_t::xpipe_terminated -> lb_t::pipe_terminated
TerminatePipe(p) ==
    /\ pstate[p] = "attached"
    /\ LET r == PipeTerminated(arr, active, current, more, dropping, p)
       IN  /\ arr' = r.arr
           /\ active' = r.active
           /\ current' = r.current
           /\ dropping' = r.dropping
    /\ pstate' = [pstate EXCEPT ![p] = "terminated"]
    /\ UNCHANGED <<more, outActive, stream, flushed, rd, peerRead, nxt, aborted>>

\* nothing happens after the process has aborted
Next ==
    /\ ~aborted
    /\ \/ \E p \in Pipes : AttachPipe(p) \/ PeerRecv(p) \/ ActivateWrite(p)
                           \/ TerminatePipe(p)
       \/ Send
       \/ SendDropping
       \/ HasOut

\* A blocking zmq_send retries until the frame is taken, and the peer's
\* I/O thread keeps reading and acknowledging; connects and disconnects
\* are up to the environment.
Fairness ==
    /\ WF_vars(Send) /\ WF_vars(SendDropping)
    /\ \A p \in Pipes : WF_vars(PeerRecv(p)) /\ WF_vars(ActivateWrite(p))

Spec == Init /\ [][Next]_vars /\ Fairness

-----------------------------------------------------------------------------
Attached == {p \in Pipes : pstate[p] = "attached"}

TypeOK ==
    /\ arr.items \in Seq(Pipes) /\ arr.idx \in [Pipes -> -1 .. Cardinality(Pipes)]
    /\ active \in 0 .. Size(arr) /\ current \in Nat
    /\ more \in BOOLEAN /\ dropping \in BOOLEAN
    /\ pstate \in [Pipes -> {"idle", "attached", "terminated"}]
    /\ outActive \in [Pipes -> BOOLEAN]
    /\ stream \in [Pipes -> Seq(Frame)]
    /\ nxt \in Frame \cup {Done}
    /\ aborted \in BOOLEAN

\* array.hpp: every pipe lb_t holds is found at the index it caches, and
\* lb_t holds exactly the attached pipes.  lb_t::pipe_terminated looks a
\* pipe up by its cached index after swaps and erases by other pipes.
IndexConsistent ==
    /\ Consistent(arr)
    /\ {At(arr, i) : i \in 0 .. Size(arr) - 1} = Attached
    /\ Size(arr) = Cardinality(Attached)

\* lb_t's partition agrees with the pipes: an attached pipe is in the
\* active prefix exactly when its writer is active.  A writable pipe left
\* in the inactive suffix would never be used again (activate_write only
\* fires for a deactivated writer), and a deactivated pipe in the prefix
\* would be written to.
ActiveIffWritable ==
    \A p \in Attached : (Index(arr, p) < active) <=> outActive[p]

\* Frames reach each pipe as whole messages: a frame with more is followed
\* on the same pipe only by the next frame of its message, and a frame
\* that is not the first of its message follows its predecessor.
WellFramed(s) ==
    \A i \in 1 .. Len(s) :
        /\ s[i].part > 1 => i > 1 /\ s[i - 1] = [s[i] EXCEPT !.part = @ - 1]
        /\ IsMore(s[i]) /\ i < Len(s) => s[i + 1] = [s[i] EXCEPT !.part = @ + 1]

MessagesWhole == \A p \in Pipes : WellFramed(stream[p])

\* A message the application has begun is eventually taken by lb_t, or
\* every pipe it could go to has gone, or the process has aborted on
\* zmq_assert (!more) (the cursor reset of pipe_terminated can put a full
\* pipe under a message in progress): a blocking send is never left
\* waiting for an activation that does not come.
SendProgress ==
    \A m \in 1 .. NMsgs :
        (nxt.msg = m /\ Attached # {}) ~> (nxt.msg > m \/ Attached = {} \/ aborted)
=============================================================================

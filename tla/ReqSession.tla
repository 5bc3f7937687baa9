----------------------------- MODULE ReqSession -----------------------------
(***************************************************************************)
(* req_session_t of src/src/req.cpp: the session of a REQ socket checks    *)
(* every frame the wire delivers against the {bottom, body} FSM of         *)
(* push_msg before session_base_t::push_msg writes it to the pipe towards *)
(* req_t, and reset () returns the FSM to bottom on reconnection.          *)
(*                                                                         *)
(* The engine and session_base_t are not in this repository; they follow   *)
(* the spec (§3 Pipe, §5, §6): a push refused with EAGAIN (the pipe is at  *)
(* its HWM) stops input and is retried with the same frame once the pipe   *)
(* is writable again; EFAULT drops the connection, the incomplete message *)
(* is rolled back out of the pipe, and the session reconnects.  The pipe's *)
(* HWM counts whole messages, and only whole messages reach the reader.    *)
(*                                                                         *)
(* A connection's peer is either a REP that sends well-formed replies or   *)
(* a peer that sends arbitrary frames.                                     *)
(***************************************************************************)
EXTENDS Naturals, Sequences

CONSTANTS
    HWM,          \* the pipe's high-water mark, in messages
    MaxConns,     \* connections the session makes
    MaxFrames     \* frames the wire delivers per connection

\* a frame: its size and its exact flags (msg_t::flags ())
Flags == {"none", "more", "more|identity"}
Frame == [size : {0, 1}, flags : Flags]
Bottom == [size |-> 0, flags |-> "more"]
Modes == {"reply", "any"}

VARIABLES
    state,        \* req_session_t::state
    conn,         \* "up" while an engine is attached, else "down"
    conns,        \* connections made so far
    mode,         \* what the current connection's peer sends
    sent,         \* frames decoded on this connection
    wirePos,      \* where a well-formed peer is in its reply
    pending,      \* the decoded frame the engine is pushing: <<>> or <<f>>
    stalled,      \* the engine stopped input after an EAGAIN
    q,            \* frames written to the pipe and not yet read
    msgs,         \* pipe_t::msgs_written
    rd,           \* messages req_t has read
    ack,          \* pipe_t::peers_msgs_read
    act           \* pipe_t::out_active

vars == <<state, conn, conns, mode, sent, wirePos, pending, stalled, q, msgs, rd, ack, act>>

-----------------------------------------------------------------------------
\* req_session_t::push_msg: the FSM's new state and whether the frame goes
\* on to session_base_t::push_msg (otherwise EFAULT); the state changes
\* before that push, which may still fail
PushMsg(st, f) ==
    CASE st = "bottom" /\ f = Bottom       -> [ok |-> TRUE, state |-> "body"]
      [] st = "body" /\ f.flags = "more"   -> [ok |-> TRUE, state |-> "body"]
      [] st = "body" /\ f.flags = "none"   -> [ok |-> TRUE, state |-> "bottom"]
      [] OTHER                             -> [ok |-> FALSE, state |-> st]

\* mutant of CheckWrite: the HWM counts frames rather than messages
CheckWriteFrames == act /\ msgs + Len(q) - ack < HWM

\* pipe_t::check_write: refused while the writer is inactive or HWM whole
\* messages are unacknowledged
CheckWrite == act /\ msgs - ack < HWM

\* pipe_t::rollback: the frames of the incomplete last message are removed
Rollback(s) ==
    LET ends == {i \in 1 .. Len(s) : s[i].flags = "none"} \cup {0}
        last == CHOOSE i \in ends : \A j \in ends : j <= i
    IN  SubSeq(s, 1, last)

\* the next frame of a well-formed reply: the bottom, then body frames
\* with more set, the last one without
ReplyFrames(pos) ==
    IF pos = "bottom" THEN {Bottom} ELSE {[size |-> 1, flags |-> fl] : fl \in {"more", "none"}}

-----------------------------------------------------------------------------
\* req_session_t (): state (bottom); the pipe is empty and writable
Init ==
    /\ state = "bottom" /\ conn = "down" /\ conns = 0 /\ mode = "reply"
    /\ sent = 0 /\ wirePos = "bottom" /\ pending = <<>> /\ stalled = FALSE
    /\ q = <<>> /\ msgs = 0 /\ rd = 0 /\ ack = 0 /\ act = TRUE

\* a new engine is attached to the session
Connect ==
    /\ conn = "down" /\ conns < MaxConns
    /\ \E m \in Modes : mode' = m
    /\ conn' = "up" /\ conns' = conns + 1 /\ sent' = 0 /\ wirePos' = "bottom"
    /\ UNCHANGED <<state, pending, stalled, q, msgs, rd, ack, act>>

\* the decoder produces the next frame of the connection
Decode ==
    /\ conn = "up" /\ pending = <<>> /\ sent < MaxFrames
    /\ \E f \in IF mode = "reply" THEN ReplyFrames(wirePos) ELSE Frame :
          /\ pending' = <<f>>
          /\ wirePos' = IF f = Bottom THEN "body" ELSE IF f.flags = "none" THEN "bottom" ELSE wirePos
    /\ sent' = sent + 1
    /\ UNCHANGED <<state, conn, conns, mode, stalled, q, msgs, rd, ack, act>>

\* mutant of EngineError: reset () leaves the FSM where it was
EngineErrorKeepState ==
    /\ conn' = "down" /\ pending' = <<>> /\ stalled' = FALSE
    /\ q' = Rollback(q)
    /\ UNCHANGED <<state, conns, mode, sent, wirePos, msgs, rd, ack, act>>

\* the connection fails: session_base_t::engine_error rolls the pipe
\* back, and req_session_t::reset () returns the FSM to bottom before the
\* session reconnects
EngineError ==
    /\ conn' = "down" /\ pending' = <<>> /\ stalled' = FALSE
    /\ q' = Rollback(q)
    /\ state' = "bottom"
    /\ UNCHANGED <<conns, mode, sent, wirePos, msgs, rd, ack, act>>

\* the engine pushes its frame (first try, or retry once the pipe is
\* writable again): push_msg, then session_base_t::push_msg writes it to
\* the pipe or fails with EAGAIN; EFAULT drops the connection
Push ==
    /\ conn = "up" /\ pending # <<>> /\ (~stalled \/ act)
    /\ LET f == Head(pending)
           r == PushMsg(state, f)
       IN  IF ~r.ok
           THEN EngineError
           ELSE /\ state' = r.state
                /\ IF CheckWrite
                   THEN /\ q' = Append(q, f) /\ pending' = <<>> /\ stalled' = FALSE
                        /\ msgs' = IF f.flags = "none" THEN msgs + 1 ELSE msgs
                        /\ UNCHANGED act
                   ELSE /\ act' = FALSE /\ stalled' = TRUE
                        /\ UNCHANGED <<q, pending, msgs>>
                /\ UNCHANGED <<conn, conns, mode, sent, wirePos, rd, ack>>

\* the network fails while the connection is up
Disconnect ==
    /\ conn = "up"
    /\ EngineError

\* req_t reads the whole message at the head of the pipe
ReaderRead ==
    /\ \E i \in 1 .. Len(q) : q[i].flags = "none"
    /\ LET n == CHOOSE i \in 1 .. Len(q) :
                    q[i].flags = "none" /\ \A j \in 1 .. i - 1 : q[j].flags # "none"
       IN  q' = SubSeq(q, n + 1, Len(q))
    /\ rd' = rd + 1
    /\ UNCHANGED <<state, conn, conns, mode, sent, wirePos, pending, stalled, msgs, ack, act>>

\* mutant of Ack: activate_write carries the writer's count, not the reads
AckWritten ==
    /\ ack < rd
    /\ ack' = msgs /\ act' = TRUE
    /\ UNCHANGED <<state, conn, conns, mode, sent, wirePos, pending, stalled, q, msgs, rd>>

\* the reader's activate_write reaches the writer: pipe_t::
\* process_activate_write records the reads and reactivates it, and
\* write_activated restarts the engine's input
Ack ==
    /\ ack < rd
    /\ ack' = rd /\ act' = TRUE
    /\ UNCHANGED <<state, conn, conns, mode, sent, wirePos, pending, stalled, q, msgs, rd>>

Next == Connect \/ Decode \/ Push \/ Disconnect \/ ReaderRead \/ Ack

Spec == Init /\ [][Next]_vars

-----------------------------------------------------------------------------
TypeOK ==
    /\ state \in {"bottom", "body"} /\ conn \in {"up", "down"}
    /\ mode \in Modes /\ wirePos \in {"bottom", "body"}
    /\ pending \in {<<>>} \cup {<<f>> : f \in Frame}
    /\ q \in Seq(Frame) /\ {stalled, act} \subseteq BOOLEAN
    /\ ack <= rd /\ rd <= msgs

\* What reaches req_t is a sequence of well-formed replies, whatever the
\* peers send and wherever a connection breaks: each message starts with
\* the empty bottom frame and goes on with frames whose only flag is
\* more, the last without it (push_msg's FSM, reset () on reconnection and
\* the rollback of an incomplete message together).
PipeWellFormed ==
    \A i \in 1 .. Len(q) :
        IF i = 1 \/ q[i - 1].flags = "none"
        THEN q[i] = Bottom
        ELSE q[i].flags \in {"more", "none"}

\* push_msg moves the FSM before session_base_t::push_msg, whose EAGAIN
\* makes the engine retry the same frame in the new state: a frame of a
\* well-formed reply must still be accepted then, so a REP peer is never
\* cut off with EFAULT.
ReplyNeverRefused ==
    (conn = "up" /\ mode = "reply" /\ pending # <<>>) => PushMsg(state, Head(pending)).ok

=============================================================================

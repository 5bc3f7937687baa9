------------------------------ MODULE ZmqPoll ------------------------------
(***************************************************************************)
(* zmq_poll of src/src/zmq.cpp: one call, with its first non-blocking     *)
(* pass, and its infinite (timeout_ < 0), zero and finite timeouts.        *)
(*                                                                         *)
(* An item is a 0MQ socket or a raw file descriptor.  A socket is polled  *)
(* through its ZMQ_FD, which signals when the socket has commands to      *)
(* process; reading ZMQ_EVENTS processes them (the signal is consumed) and *)
(* reports the socket's events.  A raw fd reports its readiness, and       *)
(* POLLERR whether asked for or not.  The environment changes readiness   *)
(* at most MaxFlips times; the millisecond clock advances while the       *)
(* thread is blocked in poll(2).  The timeout handed to poll(2) is an int  *)
(* computed from 64-bit values: IntBits is its width.                      *)
(***************************************************************************)
EXTENDS Integers, FiniteSets

CONSTANTS
    Items,      \* poll items
    IsSocket,   \* [Items -> BOOLEAN]: items_[i].socket is set
    Requested,  \* [Items -> SUBSET {"in", "out"}]: items_[i].events
    Timeouts,   \* the timeout_ values a caller may pass
    MaxFlips,   \* readiness changes of the environment
    IntBits     \* width of int

ASSUME \A t \in Timeouts : t \in Int

\* conversion of a 64-bit value to int (two's complement, IntBits wide)
ToInt(x) == ((x + 2^(IntBits - 1)) % 2^IntBits) - 2^(IntBits - 1)

VARIABLES
    timeout_,   \* the argument
    pc,         \* "pass" (about to call poll(2)), "sys" (blocked in it), "done"
    firstPass,  \* first_pass
    now, end,   \* now, end
    nevents,    \* nevents
    revents,    \* items_[i].revents
    sysTimeout, \* the int timeout handed to poll(2)
    sysStart,   \* clock when poll(2) was entered
    clock,      \* clock_t::now_ms
    ready,      \* readiness of each item's underlying object
    signal,     \* a socket's ZMQ_FD is readable
    flips

vars == <<timeout_, pc, firstPass, now, end, nevents, revents, sysTimeout, sysStart,
          clock, ready, signal, flips>>

MaxTimeout == LET pos == {t \in Timeouts : t > 0} IN
              IF pos = {} THEN 0 ELSE CHOOSE t \in pos : \A u \in pos : u <= t

Init ==
    /\ timeout_ \in Timeouts
    /\ pc = "pass" /\ firstPass = TRUE /\ now = 0 /\ end = 0 /\ nevents = 0
    /\ revents = [i \in Items |-> {}]
    /\ sysTimeout = 0 /\ sysStart = 0 /\ clock = 0
    /\ ready \in [Items -> SUBSET {"in", "out", "err"}]
    /\ \A i \in Items : IsSocket[i] => "err" \notin ready[i]
    /\ signal = [i \in Items |-> IsSocket[i] /\ ready[i] # {}]
    /\ flips = 0

\* the pollfd events: a socket's fd is polled for POLLIN if anything is asked
PollEvents(i) == IF IsSocket[i] THEN (IF Requested[i] # {} THEN {"in"} ELSE {})
                 ELSE Requested[i]

\* the pollfd is readable/writable/in error, as poll(2) reports it
FdReady(i) == IF IsSocket[i] THEN (IF signal[i] THEN {"in"} ELSE {})
              ELSE ready[i]
FdRevents(i) == (FdReady(i) \cap PollEvents(i)) \cup (FdReady(i) \cap {"err"})
Woken == \E i \in Items : FdRevents(i) # {}

\* mutant of ItemRevents: a socket's ZMQ_EVENTS are not masked by events
ItemReventsUnmasked(i) == IF IsSocket[i] THEN ready[i] ELSE FdRevents(i)

\* the revents zmq_poll reports for item i after poll(2) returns
ItemRevents(i) == IF IsSocket[i] THEN Requested[i] \cap ready[i]
                  ELSE FdRevents(i)

\* mutant of Pass: the remaining time is computed as now - end
PassSwapped ==
    /\ pc = "pass"
    /\ sysTimeout' = IF firstPass THEN 0
                     ELSE IF timeout_ < 0 THEN -1
                     ELSE ToInt(now - end)
    /\ sysStart' = clock
    /\ pc' = "sys"
    /\ UNCHANGED <<timeout_, firstPass, now, end, nevents, revents, clock, ready, signal, flips>>

\* the top of the outer loop: compute the timeout and enter poll(2)
Pass ==
    /\ pc = "pass"
    /\ sysTimeout' = IF firstPass THEN 0
                     ELSE IF timeout_ < 0 THEN -1
                     ELSE ToInt(end - now)
    /\ sysStart' = clock
    /\ pc' = "sys"
    /\ UNCHANGED <<timeout_, firstPass, now, end, nevents, revents, clock, ready, signal, flips>>

\* mutant of Check: first_pass is not cleared after the first finite pass
CheckFirstPassKept ==
    /\ pc = "sys"
    /\ Woken \/ (sysTimeout >= 0 /\ clock >= sysStart + sysTimeout)
    /\ LET rev == [i \in Items |-> ItemRevents(i)]
           n   == nevents + Cardinality({i \in Items : rev[i] # {}})
       IN  /\ revents' = rev
           /\ nevents' = n
           /\ signal' = [i \in Items |-> signal[i] /\ ~IsSocket[i]]
           /\ CASE timeout_ = 0 \/ n > 0 ->
                     pc' = "done" /\ UNCHANGED <<firstPass, now, end>>
                [] timeout_ < 0 ->
                     pc' = "pass" /\ firstPass' = FALSE /\ UNCHANGED <<now, end>>
                [] firstPass ->
                     /\ now' = clock /\ end' = clock + timeout_
                     /\ UNCHANGED firstPass
                     /\ pc' = IF clock = clock + timeout_ THEN "done" ELSE "pass"
                [] OTHER ->
                     /\ now' = clock
                     /\ pc' = IF clock >= end THEN "done" ELSE "pass"
                     /\ UNCHANGED <<firstPass, end>>
    /\ UNCHANGED <<timeout_, sysTimeout, sysStart, clock, ready, flips>>

\* poll(2) returns (an fd is ready, or its timeout expired), then the
\* events are collected and the loop decides whether to go round again
Check ==
    /\ pc = "sys"
    /\ Woken \/ (sysTimeout >= 0 /\ clock >= sysStart + sysTimeout)
    /\ LET rev == [i \in Items |-> ItemRevents(i)]
           n   == nevents + Cardinality({i \in Items : rev[i] # {}})
       IN  /\ revents' = rev
           /\ nevents' = n
           /\ signal' = [i \in Items |-> signal[i] /\ ~IsSocket[i]]
           /\ CASE timeout_ = 0 \/ n > 0 ->
                     pc' = "done" /\ UNCHANGED <<firstPass, now, end>>
                [] timeout_ < 0 ->
                     pc' = "pass" /\ firstPass' = FALSE /\ UNCHANGED <<now, end>>
                [] firstPass ->
                     /\ now' = clock /\ end' = clock + timeout_
                     /\ firstPass' = FALSE
                     /\ pc' = IF clock = clock + timeout_ THEN "done" ELSE "pass"
                [] OTHER ->
                     /\ now' = clock
                     /\ pc' = IF clock >= end THEN "done" ELSE "pass"
                     /\ UNCHANGED <<firstPass, end>>
    /\ UNCHANGED <<timeout_, sysTimeout, sysStart, clock, ready, flips>>

\* time passes while the thread is blocked in poll(2)
Tick ==
    /\ pc = "sys" /\ sysTimeout # 0 /\ clock < MaxTimeout
    /\ clock' = clock + 1
    /\ UNCHANGED <<timeout_, pc, firstPass, now, end, nevents, revents, sysTimeout,
                   sysStart, ready, signal, flips>>

\* the environment changes an item's readiness; a socket signals its fd
Flip(i, e) ==
    /\ pc # "done" /\ flips < MaxFlips
    /\ ~(IsSocket[i] /\ e = "err")
    /\ ready' = [ready EXCEPT ![i] = IF e \in @ THEN @ \ {e} ELSE @ \cup {e}]
    /\ signal' = [signal EXCEPT ![i] = @ \/ IsSocket[i]]
    /\ flips' = flips + 1
    /\ UNCHANGED <<timeout_, pc, firstPass, now, end, nevents, revents, sysTimeout,
                   sysStart, clock>>

Next ==
    \/ Pass \/ Check \/ Tick
    \/ \E i \in Items, e \in {"in", "out", "err"} : Flip(i, e)

\* the calling thread runs; the clock runs while it is blocked
Spec == Init /\ [][Next]_vars /\ WF_vars(Pass) /\ WF_vars(Check) /\ WF_vars(Tick)

-----------------------------------------------------------------------------
TypeOK ==
    /\ pc \in {"pass", "sys", "done"}
    /\ revents \in [Items -> SUBSET {"in", "out", "err"}]
    /\ nevents \in 0 .. Cardinality(Items)
    /\ sysTimeout \in -1 .. MaxTimeout
    /\ clock \in 0 .. MaxTimeout

\* Spec §5: poll returns after the timeout even with no events, zero polls
\* once, and a call returns no earlier than its timeout unless an event is
\* reported.  What it returns is the number of items with revents, and an
\* item reports only what it asked for (or POLLERR on a raw fd).
ReturnsCorrectly ==
    pc = "done" =>
        /\ nevents = Cardinality({i \in Items : revents[i] # {}})
        /\ \A i \in Items : revents[i] \subseteq Requested[i] \cup {"err"}
        /\ nevents = 0 => timeout_ = 0 \/ (timeout_ > 0 /\ clock >= timeout_)

\* A call with a finite timeout returns.
FiniteTimeoutReturns == (timeout_ >= 0) ~> (pc = "done")
=============================================================================

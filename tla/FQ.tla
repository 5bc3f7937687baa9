-------------------------------- MODULE FQ --------------------------------
(***************************************************************************)
(* The fair-queued input strategy fq_t, and the reader side of the pipes   *)
(* it reads.  fq.cpp is not in this repository: fq_t is modelled from the  *)
(* spec (§4.2), the pipe reader from §3 Pipe: read() refuses when the pipe *)
(* is empty and the reader then sleeps until the writer's next flush wakes *)
(* it (activate_read), which calls fq_t::activated.                        *)
(*                                                                         *)
(* The operators take and return a record s with the fq_t fields arr,      *)
(* active, current, more and the pipes' reader state: q (frames flushed to *)
(* the pipe and not yet read) and in (the reader is awake).  Sockets that  *)
(* use fq_t (dealer_t, router_t) embed s in one variable; s also carries  *)
(* the result fields ok, frame and pipe of the last call.  Frames are      *)
(* records with a field more.                                              *)
(***************************************************************************)
EXTENDS Integers, Sequences, IndexedArray

\* fq_t::attach: push_back, then swap into the active prefix
FqAttach(s, p) ==
    LET a == PushBack(s.arr, p)
    IN  [s EXCEPT !.arr = Swap(a, Index(a, p), s.active), !.active = @ + 1]

\* fq_t::activated: a woken pipe rejoins the active prefix
FqActivated(s, p) ==
    [s EXCEPT !.arr = Swap(s.arr, Index(s.arr, p), s.active), !.active = @ + 1]

\* mutant of FqTerminated: the active prefix is not shrunk
FqTerminatedKeepActive(s, p) ==
    [s EXCEPT !.arr = Erase(s.arr, p)]

\* fq_t::pipe_terminated (spec §4.2: shrink the prefix, adjust current,
\* erase): the cursor follows the pipe swapped into the freed slot, so a
\* message being read keeps its pipe (§5 Ordering, mid-message affinity);
\* if the cursor was on the terminated pipe itself it restarts at 0
FqTerminated(s, p) ==
    LET i   == Index(s.arr, p)
        act == IF i < s.active THEN s.active - 1 ELSE s.active
        a   == IF i < s.active THEN Swap(s.arr, i, act) ELSE s.arr
    IN  [s EXCEPT !.arr = Erase(a, p), !.active = act,
                  !.current = IF i < s.active /\ s.current = act
                              THEN IF i < act THEN i ELSE 0
                              ELSE @]

\* one refused read at the cursor: the reader sleeps, the pipe is demoted
FqDemote(s) ==
    LET act == s.active - 1
    IN  [s EXCEPT !.in = [@ EXCEPT ![At(s.arr, s.current)] = FALSE],
                  !.active = act,
                  !.arr = Swap(s.arr, s.current, act),
                  !.current = IF s.current = act THEN 0 ELSE @]

\* fq_t::recvpipe: round-robin from the cursor, demoting pipes whose read
\* refuses.  The result has ok (a frame was read), frame and pipe.
RECURSIVE FqRecv(_)
FqRecv(s) ==
    IF s.active = 0 THEN [s EXCEPT !.ok = FALSE]
    ELSE LET p == At(s.arr, s.current)
         IN  IF s.in[p] /\ s.q[p] # <<>>
             THEN LET f == Head(s.q[p])
                  IN  [s EXCEPT !.q = [@ EXCEPT ![p] = Tail(@)],
                                !.more = f.more,
                                !.current = IF f.more THEN @ ELSE (@ + 1) % s.active,
                                !.ok = TRUE, !.frame = f, !.pipe = p]
             ELSE FqRecv(FqDemote(s))

\* fq_t::has_in: demotes empty pipes until one has a frame
RECURSIVE FqHasIn(_)
FqHasIn(s) ==
    IF s.active = 0 THEN [s EXCEPT !.ok = FALSE]
    ELSE IF s.in[At(s.arr, s.current)] /\ s.q[At(s.arr, s.current)] # <<>>
         THEN [s EXCEPT !.ok = TRUE]
         ELSE FqHasIn(FqDemote(s))
=============================================================================

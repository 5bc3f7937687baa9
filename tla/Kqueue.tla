------------------------------ MODULE Kqueue ------------------------------
(***************************************************************************)
(* kqueue_t of src/src/kqueue.cpp: the I/O thread's reactor.  Poll        *)
(* entries (poll_entry_t) are allocated by add_fd and registered with the *)
(* kernel by set_pollin / set_pollout; rm_fd deletes the registrations,   *)
(* marks the entry with retired_fd and puts it on the retired list, which *)
(* loop() frees only after the events of the current kevent call are     *)
(* dispatched (spec §4.9).                                                 *)
(*                                                                         *)
(* Everything runs on the I/O thread: the handlers' in_event / out_event   *)
(* callbacks call back into the reactor (HandlerOp), the only way add_fd, *)
(* rm_fd and the set/reset calls happen once the loop runs; the mailbox's *)
(* handler calls stop.  The kernel side is a set of registrations keyed by *)
(* (fd, filter) and the readiness of each fd, which the environment       *)
(* changes at any time.  The timers of poller_base_t are not in this      *)
(* repository: execute_timers returns 0 and kevent waits without timeout. *)
(***************************************************************************)
EXTENDS Integers, Sequences, FiniteSets, SequencesExt

CONSTANTS
    Entries,      \* addresses poll_entry_t objects may be allocated at
    Fds,          \* file descriptors
    ReadyStates,  \* readiness an fd may have: subsets of {"read", "write", "eof"}
    MaxIoEvents,  \* max_io_events, the size of ev_buf
    RetiredFd,    \* retired_fd
    NoCb


VARIABLES
    pe,         \* the poll_entry_t at each address: [fd, pin, pout]
    alloc,      \* addresses currently allocated (new'd and not deleted)
    kq,         \* kernel registrations [fd, filter, udata]
    retired,    \* kqueue_t::retired
    stopping,   \* kqueue_t::stopping
    ready,      \* readiness of each fd in the kernel
    pc,         \* loop(): "top" (while test), "dispatch", "done"
    buf,        \* ev_buf[0 .. n-1] returned by the last kevent call
    i,          \* the for loop's index into buf (1-based)
    st,         \* the step reached for buf[i]: "eof", "write", "read"
    removed,    \* history: entries rm_fd'd since they were allocated
    cb          \* history: the callback delivered by the last step

reactorVars == <<pe, alloc, kq, retired, stopping, removed>>
loopVars    == <<pc, buf, i, st>>
vars        == <<reactorVars, loopVars, ready, cb>>

\* entries in use: allocated and not retired
Live == {e \in alloc : pe[e].fd # RetiredFd}

-----------------------------------------------------------------------------
(* The reactor's operations, as called by a handler *)

\* kqueue_t::kevent_delete: EV_DELETE of the (fd, filter) registration
KDel(k, fd, filter) == {g \in k : ~(g.fd = fd /\ g.filter = filter)}

\* kqueue_t::kevent_add: EV_ADD adds or replaces the (fd, filter) registration
KAdd(k, fd, filter, u) == KDel(k, fd, filter) \cup {[fd |-> fd, filter |-> filter, udata |-> u]}

\* kqueue_t::add_fd: a new entry, no filter registered
AddFd(f, e) ==
    /\ e \notin alloc /\ f \notin {pe[x].fd : x \in Live}
    /\ alloc' = alloc \cup {e}
    /\ pe' = [pe EXCEPT ![e] = [fd |-> f, pin |-> FALSE, pout |-> FALSE]]
    /\ removed' = removed \ {e}
    /\ UNCHANGED <<kq, retired, stopping>>

\* mutant of RmFd: the entry is deleted at once instead of retired
RmFdFreeNow(h) ==
    /\ h \in Live
    /\ kq' = LET k1 == IF pe[h].pin THEN KDel(kq, pe[h].fd, "read") ELSE kq
             IN  IF pe[h].pout THEN KDel(k1, pe[h].fd, "write") ELSE k1
    /\ pe' = [pe EXCEPT ![h].fd = RetiredFd]
    /\ alloc' = alloc \ {h}
    /\ removed' = removed \cup {h}
    /\ UNCHANGED <<retired, stopping>>

\* mutant of RmFd: the write filter is left registered
RmFdKeepWrite(h) ==
    /\ h \in Live
    /\ kq' = IF pe[h].pin THEN KDel(kq, pe[h].fd, "read") ELSE kq
    /\ pe' = [pe EXCEPT ![h].fd = RetiredFd]
    /\ retired' = Append(retired, h)
    /\ removed' = removed \cup {h}
    /\ UNCHANGED <<alloc, stopping>>

\* kqueue_t::rm_fd: delete the registered filters, mark the entry retired
\* and defer its deletion to the end of the loop iteration
RmFd(h) ==
    /\ h \in Live
    /\ kq' = LET k1 == IF pe[h].pin THEN KDel(kq, pe[h].fd, "read") ELSE kq
             IN  IF pe[h].pout THEN KDel(k1, pe[h].fd, "write") ELSE k1
    /\ pe' = [pe EXCEPT ![h].fd = RetiredFd]
    /\ retired' = Append(retired, h)
    /\ removed' = removed \cup {h}
    /\ UNCHANGED <<alloc, stopping>>

\* mutant of SetPollin: the flag is set but the filter never registered
SetPollinNoAdd(h) ==
    /\ h \in Live /\ ~pe[h].pin
    /\ pe' = [pe EXCEPT ![h].pin = TRUE]
    /\ UNCHANGED <<alloc, kq, retired, stopping, removed>>

\* kqueue_t::set_pollin / reset_pollin / set_pollout / reset_pollout: a
\* call that finds the flag already in place does nothing
SetPollin(h) ==
    /\ h \in Live /\ ~pe[h].pin
    /\ pe' = [pe EXCEPT ![h].pin = TRUE]
    /\ kq' = KAdd(kq, pe[h].fd, "read", h)
    /\ UNCHANGED <<alloc, retired, stopping, removed>>

ResetPollin(h) ==
    /\ h \in Live /\ pe[h].pin
    /\ pe' = [pe EXCEPT ![h].pin = FALSE]
    /\ kq' = KDel(kq, pe[h].fd, "read")
    /\ UNCHANGED <<alloc, retired, stopping, removed>>

SetPollout(h) ==
    /\ h \in Live /\ ~pe[h].pout
    /\ pe' = [pe EXCEPT ![h].pout = TRUE]
    /\ kq' = KAdd(kq, pe[h].fd, "write", h)
    /\ UNCHANGED <<alloc, retired, stopping, removed>>

ResetPollout(h) ==
    /\ h \in Live /\ pe[h].pout
    /\ pe' = [pe EXCEPT ![h].pout = FALSE]
    /\ kq' = KDel(kq, pe[h].fd, "write")
    /\ UNCHANGED <<alloc, retired, stopping, removed>>

\* kqueue_t::stop
Stop ==
    /\ stopping' = TRUE
    /\ UNCHANGED <<pe, alloc, kq, retired, removed>>

\* what a handler's callback does to the reactor: nothing, or one call
HandlerOp ==
    \/ UNCHANGED reactorVars
    \/ Stop
    \/ \E f \in Fds, e \in Entries : AddFd(f, e)
    \/ \E h \in Live : \/ RmFd(h) \/ SetPollin(h) \/ ResetPollin(h)
                       \/ SetPollout(h) \/ ResetPollout(h)

-----------------------------------------------------------------------------
(* loop() *)

\* io_thread_t registers its mailbox before start: one entry, pollin set
Init ==
    LET e0 == CHOOSE e \in Entries : TRUE
        f0 == CHOOSE f \in Fds : TRUE
    IN  /\ pe = [e \in Entries |-> [fd |-> IF e = e0 THEN f0 ELSE RetiredFd,
                                    pin |-> e = e0, pout |-> FALSE]]
        /\ alloc = {e0}
        /\ kq = {[fd |-> f0, filter |-> "read", udata |-> e0]}
        /\ retired = <<>> /\ stopping = FALSE
        /\ ready = [f \in Fds |-> {}]
        /\ pc = "top" /\ buf = <<>> /\ i = 1 /\ st = "eof"
        /\ removed = {} /\ cb = NoCb

\* the events kevent reports: a registration whose filter is ready, with
\* EV_EOF when the fd has reached end of file
Pending ==
    {[udata |-> g.udata, filter |-> g.filter, eof |-> "eof" \in ready[g.fd]] :
        g \in {h \in kq : h.filter \in ready[h.fd]}}

\* the while test: leave the loop once stop has been called
Exit ==
    /\ pc = "top" /\ stopping
    /\ pc' = "done" /\ cb' = NoCb
    /\ UNCHANGED <<reactorVars, buf, i, st, ready>>

\* mutant of Wait: the for loop's index is not reset
WaitNoReset ==
    /\ pc = "top" /\ ~stopping /\ Pending # {}
    /\ \E s \in SUBSET Pending :
          /\ Cardinality(s) = IF Cardinality(Pending) < MaxIoEvents THEN Cardinality(Pending) ELSE MaxIoEvents
          /\ buf' \in SetToSeqs(s)
    /\ pc' = "dispatch" /\ st' = "eof" /\ cb' = NoCb
    /\ UNCHANGED <<reactorVars, ready, i>>

\* kevent with no timeout (execute_timers returned 0): blocks until some
\* registered filter is ready, then fills ev_buf with up to MaxIoEvents
\* of the pending events, in an order the kernel picks
Wait ==
    /\ pc = "top" /\ ~stopping /\ Pending # {}
    /\ \E s \in SUBSET Pending :
          /\ Cardinality(s) = IF Cardinality(Pending) < MaxIoEvents THEN Cardinality(Pending) ELSE MaxIoEvents
          /\ buf' \in SetToSeqs(s)
    /\ pc' = "dispatch" /\ i' = 1 /\ st' = "eof" /\ cb' = NoCb
    /\ UNCHANGED <<reactorVars, ready>>

\* the event at the for loop's index, and whether its entry is retired
Ev == buf[i]
IsRetired == pe[Ev.udata].fd = RetiredFd

\* the three "if (pe->fd == retired_fd) continue;" tests
Skip ==
    /\ pc = "dispatch" /\ i <= Len(buf) /\ IsRetired
    /\ i' = i + 1 /\ st' = "eof" /\ cb' = NoCb
    /\ UNCHANGED <<reactorVars, pc, buf, ready>>

\* one step of the body for a live entry: the callback the step calls,
\* if its condition holds, followed by the handler's own calls
Step(stage, cond, kind, nextStage) ==
    /\ pc = "dispatch" /\ i <= Len(buf) /\ ~IsRetired /\ st = stage
    /\ IF cond THEN cb' = [pe |-> Ev.udata, kind |-> kind] /\ HandlerOp
               ELSE cb' = NoCb /\ UNCHANGED reactorVars
    /\ IF nextStage = "next" THEN i' = i + 1 /\ st' = "eof" ELSE i' = i /\ st' = nextStage
    /\ UNCHANGED <<pc, buf, ready>>

\* EV_EOF: in_event
EofEvent == Step("eof", Ev.eof, "in", "write")

\* mutant of OutEvent: the retired test before out_event is dropped
OutEventNoCheck ==
    /\ pc = "dispatch" /\ i <= Len(buf) /\ st = "write"
    /\ IF Ev.filter = "write" THEN cb' = [pe |-> Ev.udata, kind |-> "out"] /\ HandlerOp
                              ELSE cb' = NoCb /\ UNCHANGED reactorVars
    /\ i' = i /\ st' = "read"
    /\ UNCHANGED <<pc, buf, ready>>

\* EVFILT_WRITE: out_event
OutEvent == Step("write", Ev.filter = "write", "out", "read")

\* EVFILT_READ: in_event
InEvent == Step("read", Ev.filter = "read", "in", "next")

\* after the for loop: delete every retired entry and clear the list
EndIteration ==
    /\ pc = "dispatch" /\ i > Len(buf)
    /\ alloc' = alloc \ ToSet(retired)
    /\ retired' = <<>>
    /\ pc' = "top" /\ cb' = NoCb
    /\ UNCHANGED <<pe, kq, stopping, removed, buf, i, st, ready>>

\* the kernel: an fd's readiness changes.  Readiness is only observed by
\* kevent, so a change during dispatch is taken as happening just before
\* the next kevent call.
Flip(f) ==
    /\ pc = "top"
    /\ \E r \in ReadyStates : r # ready[f] /\ ready' = [ready EXCEPT ![f] = r]
    /\ cb' = NoCb
    /\ UNCHANGED <<reactorVars, loopVars>>

Next ==
    \/ Exit \/ Wait \/ Skip \/ EofEvent \/ OutEvent \/ InEvent \/ EndIteration
    \/ \E f \in Fds : Flip(f)

\* the I/O thread keeps running its loop; the kernel returns from kevent
\* while an event is pending.  Nothing is assumed of readiness changes or
\* of what the handlers do.
Fairness == WF_vars(Exit \/ Wait \/ Skip \/ EofEvent \/ OutEvent \/ InEvent \/ EndIteration)

Spec == Init /\ [][Next]_vars /\ Fairness

-----------------------------------------------------------------------------
TypeOK ==
    /\ alloc \subseteq Entries /\ removed \subseteq Entries
    /\ \A e \in Entries : pe[e].fd \in Fds \cup {RetiredFd} /\ pe[e].pin \in BOOLEAN /\ pe[e].pout \in BOOLEAN
    /\ pc \in {"top", "dispatch", "done"} /\ st \in {"eof", "write", "read"}
    /\ i \in 1 .. Len(buf) + 1 /\ Len(buf) <= MaxIoEvents

\* Spec §4.9, the reason for the retired list: no entry is deleted while
\* anything can still reach it.  Every entry the kernel may still report,
\* every event of ev_buf not yet dispatched and every entry on the retired
\* list is allocated, and the retired list holds exactly the entries that
\* rm_fd marked in this iteration.
NoUseAfterFree ==
    /\ {g.udata : g \in kq} \subseteq alloc
    /\ pc = "dispatch" => \A j \in i .. Len(buf) : buf[j].udata \in alloc
    /\ ToSet(retired) \subseteq alloc
    /\ {e \in alloc : pe[e].fd = RetiredFd} = ToSet(retired)

\* The kernel holds a filter for an entry exactly when its flag is set:
\* kevent_delete in rm_fd and reset_* never deletes a registration that
\* is not there (the errno_assert of kevent_delete), and no registration
\* outlives its entry.
KernelMatchesFlags ==
    kq = {[fd |-> pe[e].fd, filter |-> "read", udata |-> e] : e \in {x \in Live : pe[x].pin}}
         \cup {[fd |-> pe[e].fd, filter |-> "write", udata |-> e] : e \in {x \in Live : pe[x].pout}}

\* Spec §4.9: inside an iteration a handler whose entry was rm_fd'd gets
\* no further callback, even when events for it are still in ev_buf.
NoCallbackAfterRmFd == [][cb' # NoCb => cb'.pe \notin removed]_vars

\* While the loop runs, an entry with pollin set on a readable fd gets its
\* in_event, unless the readiness or the registration goes away first.
WantsIn(e) == e \in Live /\ pe[e].pin /\ "read" \in ready[pe[e].fd]
ReadyServed ==
    \A e \in Entries : WantsIn(e) ~> (cb = [pe |-> e, kind |-> "in"] \/ ~WantsIn(e) \/ stopping)
=============================================================================
